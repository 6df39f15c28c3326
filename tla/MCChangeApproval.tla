--------------------------- MODULE MCChangeApproval ---------------------------
(* Small instances of ChangeApproval for TLC.                                *)
EXTENDS ChangeApproval, TLC

CONSTANTS x, y

Replace(p, old, new) == [op |-> "replace", path |-> p, old |-> <<old>>, new |-> <<new>>]
Create(p) == [op |-> "create", path |-> p, old |-> <<>>, new |-> <<y>>]

\* For the runs about the approvals: file 2 exists, and may be edited and
\* edited back.
MCOneFile == {<<>>, <<Replace(2, x, y)>>, <<Replace(2, x, y), Replace(2, y, x)>>}
MCOneDisk == {(2 :> <<x>>)}
MCOnePassing == MCOneDisk \cup {(2 :> <<y>>)}

\* For the runs about the files: 2 and 4 exist, 1 may.
MCDisk == {(1 :> t @@ 2 :> <<x>> @@ 4 :> <<x>>) : t \in {Absent, <<x, Blank>>}}

\* Nothing compiles without file 2.
MCPassing == {t \in [{1, 2, 4} -> {Absent, <<x>>, <<y>>, <<x, Blank>>}] : t[2] # Absent}

MCProposals == {
    <<>>,                                        \* clarifications only
    <<Create(1), Replace(2, x, y), Replace(2, y, y)>>,   \* one edit without effect
    <<Replace(1, x, y), Replace(2, x, y), Replace(4, x, y)>>,
    <<Replace(2, x, y), Replace(2, y, x)>>,      \* edited back: refused
    <<Replace(2, x, y), Replace(3, x, y)>>}      \* a protected path: refused

RequestSymmetry == Permutations(Applies) \cup Permutations(Previews)
=============================================================================
