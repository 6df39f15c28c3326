---------------------------- MODULE ChangeProposal ----------------------------
(***************************************************************************)
(* What the host makes of a model's proposal: change/structured.go.        *)
(*                                                                         *)
(* A proposal is a sequence of edits.  They are applied one after the      *)
(* other to a temporary copy of the snapshot, Go files are formatted, and  *)
(* the outcome is refused unless every file touched really changes.        *)
(*                                                                         *)
(* Representation.  A text is a sequence of tokens; the exact substring an *)
(* edit replaces is one token, or empty.  gofmt removes Blank tokens.  The *)
(* size limits, the parsing of the model's answer and the wording of its   *)
(* parts are reasons for which an attempt may be refused anyhow.           *)
(***************************************************************************)
EXTENDS Naturals, Sequences, FiniteSets, FiniteSetsExt

CONSTANTS
    Paths,      \* files of a workspace, numbered in the order of their names
    BadPaths,   \* paths an edit may not name: escaping, or of a secret file
    GoPaths,    \* the paths of Go files
    Tokens, Blank,
    Absent      \* there is no such file

ASSUME ProposalAssumption ==
    /\ Paths \subseteq Nat /\ IsFiniteSet(Paths) /\ BadPaths \subseteq Nat
    /\ Paths \cap BadPaths = {} /\ GoPaths \subseteq Paths
    /\ Blank \in Tokens /\ Absent \notin Seq(Tokens)

Texts == Seq(Tokens)
Edits == [op : {"replace", "create"}, path : Paths \cup BadPaths,
          old : Texts, new : Texts]

Nothing == [p \in Paths |-> Absent]
\* What a proposal came to.  `original` is Absent for a created file.
NoChange == [original |-> Nothing, updated |-> Nothing]
ChangedFiles(c) == {p \in Paths : c.updated[p] # Absent}
Created(c, p) == c.original[p] = Absent

Occurrences(text, old) == {i \in DOMAIN text : <<text[i]>> = old}
Substitute(text, old, new) ==
    LET i == CHOOSE j \in Occurrences(text, old) : TRUE
    IN  SubSeq(text, 1, i - 1) \o new \o SubSeq(text, i + 1, Len(text))

-----------------------------------------------------------------------------
(* materializeChangeSimulation.  `at` is how far it is: the temporary       *)
(* workspace, the paths changed so far, or refused.                         *)

\* normalizeChangeSimulationEditPath.
Allowed(e) == e.path \notin BadPaths

\* validateChangeSimulationCreatePath looks at the workspace itself.
TargetIsNew(tree, e) == tree[e.path] = Absent

MayCreate(snapshot, tree, at, e) ==
    /\ e.old = <<>> /\ e.new # <<>>
    /\ snapshot[e.path] = Absent /\ at.temporary[e.path] = Absent
    /\ TargetIsNew(tree, e)

MayReplace(snapshot, at, e) ==
    /\ snapshot[e.path] # Absent
    /\ e.old # <<>>
    /\ Cardinality(Occurrences(at.temporary[e.path], e.old)) = 1

IsNoOp(snapshot, e) ==
    /\ e.op = "replace" /\ snapshot[e.path] # Absent
    /\ e.old # <<>> /\ e.old = e.new

Edited(at, e, text) ==
    [at EXCEPT !.temporary[e.path] = text, !.changed = @ \cup {e.path}]

ApplyEdit(snapshot, tree, at, e) ==
    CASE ~at.ok -> at
      [] at.ok /\ Allowed(e) /\ IsNoOp(snapshot, e) -> at
      [] at.ok /\ Allowed(e) /\ e.op = "create" /\ MayCreate(snapshot, tree, at, e)
           -> Edited(at, e, e.new)
      [] at.ok /\ Allowed(e) /\ e.op = "replace" /\ ~IsNoOp(snapshot, e)
           /\ MayReplace(snapshot, at, e)
           -> Edited(at, e, Substitute(at.temporary[e.path], e.old, e.new))
      [] OTHER -> [at EXCEPT !.ok = FALSE]

\* A function rather than SelectSeq, of which the provers know nothing.
WithoutBlanks(text) ==
    LET kept[n \in 0..Len(text)] ==
          IF n = 0 THEN <<>>
          ELSE IF text[n] = Blank THEN kept[n - 1] ELSE Append(kept[n - 1], text[n])
    IN  kept

\* go/format, of the Go files.
Formatted(p, text) == IF p \in GoPaths THEN WithoutBlanks(text)[Len(text)] ELSE text

EffectiveIfTouched(snapshot, at) ==   \* mutant: a file edited back passes
    at.ok /\ at.changed # {}

\* The checks after the edits: something changed, and each changed file did.
Effective(snapshot, at) ==
    /\ at.ok /\ at.changed # {}
    /\ \A p \in at.changed : Formatted(p, at.temporary[p]) # snapshot[p]

\* How far it is after each of the edits.
EditsDone(snapshot, tree, edits) ==
    LET at[n \in 0..Len(edits)] ==
          IF n = 0 THEN [ok |-> TRUE, temporary |-> snapshot, changed |-> {}]
          ELSE ApplyEdit(snapshot, tree, at[n - 1], edits[n])
    IN  at

\* validateChangeSimulationProposal: an answer without edits asks for
\* clarifications, an answer with edits may not.
OnlyAsks(edits) == edits = <<>>

\* The files a proposal creates or replaces; NoChange when it only asks for
\* clarifications; {} when it is refused.
Materialize(snapshot, tree, edits) ==
    LET end == EditsDone(snapshot, tree, edits)[Len(edits)]
    IN  IF OnlyAsks(edits) THEN {NoChange}
        ELSE IF ~Effective(snapshot, end) THEN {}
        ELSE {[original |-> [p \in Paths |->
                  IF p \in end.changed THEN snapshot[p] ELSE Absent],
               updated |-> [p \in Paths |->
                  IF p \in end.changed THEN Formatted(p, end.temporary[p])
                  ELSE Absent]]}
-----------------------------------------------------------------------------
(* change/validators.go. *)

\* runBuiltinChangeValidators; that JSON must parse is one of the refusals.
WellFormed(c) ==
    \A p \in ChangedFiles(c) \cap GoPaths : Formatted(p, c.updated[p]) = c.updated[p]

\* copyChangeValidationWorkspace, and the files written over the copy: the
\* workspace as it is now, whatever the snapshot was.
ValidationCopy(tree, c) ==
    [p \in Paths |-> IF p \in ChangedFiles(c) THEN c.updated[p] ELSE tree[p]]
=============================================================================
