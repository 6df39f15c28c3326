------------------------- MODULE ChangeApprovalProofs -------------------------
(***************************************************************************)
(* An approval is taken once, and what an apply request leaves in the      *)
(* workspace is what was previewed, or what was there, for any workspace,  *)
(* any proposals and any number of requests.                               *)
(*                                                                         *)
(* The first part is about materializeChangeSimulation, whatever the       *)
(* edits.  It needs induction over their number, for which the library's   *)
(* fact that < is well founded on Nat is used.                             *)
(***************************************************************************)
EXTENDS ChangeApproval, FiniteSetTheorems, SequenceTheorems, WellFoundedInduction, TLAPS

-----------------------------------------------------------------------------
(* Numbers. *)

LEMMA LeastNatural ==
    ASSUME NEW S \in SUBSET Nat, S # {}
    PROVE  \E x \in S : \A y \in S : x <= y
<1>1. PICK x \in S : \A y \in S : <<y, x>> \notin OpToRel(<, Nat)
  BY NatLessThanWellFounded, WFMin, Zenon
<1>2. ASSUME NEW y \in S PROVE x <= y
  <2>1. <<y, x>> \notin {ss \in Nat \X Nat : ss[1] < ss[2]}
    BY <1>1, Zenon DEF OpToRel
  <2> QED
    BY <2>1
<1> QED
  BY <1>2

\* Induction up to N, for the members of a set.
LEMMA UpTo ==
    ASSUME NEW N \in Nat, NEW S, 0 \in S,
           ASSUME NEW n \in 1..N, n - 1 \in S PROVE n \in S
    PROVE  \A n \in 0..N : n \in S
<1> SUFFICES ASSUME (0..N) \ S # {} PROVE FALSE
  OBVIOUS
<1>0. (0..N) \ S \in SUBSET Nat
  OBVIOUS
<1>1. PICK x \in (0..N) \ S : \A y \in (0..N) \ S : x <= y
  BY <1>0, LeastNatural
<1>2. x \in 1..N /\ x - 1 \in 0..N /\ ~(x <= x - 1)
  BY <1>1
<1>3. x - 1 \in S
  BY <1>1, <1>2
<1> QED
  BY <1>1, <1>2, <1>3

LEMMA GreatestNatural ==
    ASSUME NEW S \in SUBSET Nat, IsFiniteSet(S), S # {}
    PROVE  \E x \in S : \A y \in S : x >= y
<1> DEFINE HasMax(T) == T # {} => \E x \in T : \A y \in T : x >= y
           K == {k \in Nat : \A T \in SUBSET S : Cardinality(T) = k => HasMax(T)}
<1>1. Cardinality(S) \in Nat
  BY FS_CardinalityType
<1>2. \A T \in SUBSET S : IsFiniteSet(T)
  BY FS_Subset
<1>3. 0 \in K
  BY <1>2, FS_EmptySet
<1>4. ASSUME NEW n \in 1..Cardinality(S), n - 1 \in K PROVE n \in K
  <2> SUFFICES ASSUME NEW T \in SUBSET S, Cardinality(T) = n PROVE HasMax(T)
    BY <1>1
  <2>1. CASE T = {}
    BY <2>1
  <2>2. CASE T # {}
    <3>1. PICK z \in T : TRUE
      BY <2>2
    <3>2. Cardinality(T \ {z}) = n - 1 /\ T \ {z} \in SUBSET S
      BY <1>2, <3>1, FS_RemoveElement
    <3>3. HasMax(T \ {z})
      BY <1>4, <3>2
    <3>4. CASE T \ {z} = {}
      <4>1. \A y \in T : y = z /\ z \in Nat
        BY <3>1, <3>4
      <4> QED
        BY <3>1, <4>1
    <3>5. CASE T \ {z} # {}
      <4>1. PICK x \in T \ {z} : \A y \in T \ {z} : x >= y
        BY <3>3, <3>5
      <4>2. x \in Nat /\ z \in Nat /\ T \subseteq Nat
        OBVIOUS
      <4>3. CASE x >= z
        BY <4>1, <4>2, <4>3
      <4>4. CASE z >= x
        <5>1. \A y \in T : z >= y
          BY <4>1, <4>2, <4>4
        <5> QED
          BY <3>1, <5>1
      <4> QED
        BY <4>2, <4>3, <4>4
    <3> QED
      BY <3>4, <3>5
  <2> QED
    BY <2>1, <2>2
<1>5. Cardinality(S) \in K
  <2> HIDE DEF K
  <2>1. \A n \in 0..Cardinality(S) : n \in K
    BY <1>1, <1>3, <1>4, UpTo
  <2> QED
    BY <1>1, <2>1
<1> QED
  BY <1>5

\* The path that is next, and the one that is last.
LEMMA NextAndLast ==
    ASSUME NEW S \in SUBSET Paths, S # {}
    PROVE  Min(S) \in S /\ Max(S) \in S
<1>1. S \in SUBSET Nat /\ IsFiniteSet(S)
  BY ProposalAssumption, FS_Subset
<1>2. Min(S) \in S
  BY <1>1, LeastNatural DEF Min
<1>3. Max(S) \in S
  BY <1>1, GreatestNatural DEF Max
<1> QED
  BY <1>2, <1>3

\* A function that is defined by recursion over 0..N exists.
IsRun(g, N, base, step) ==
    \A n \in 0..N : g[n] = IF n = 0 THEN base ELSE step[<<n, g[n - 1]>>]

LEMMA RecursionExists ==
    ASSUME NEW N \in Nat, NEW X, NEW base \in X, NEW step \in [(1..N) \X X -> X]
    PROVE  \E g \in [0..N -> X] : IsRun(g, N, base, step)
<1> DEFINE Runs(k) == {g \in [0..k -> X] :
             \A n \in 0..k : g[n] = IF n = 0 THEN base ELSE step[<<n, g[n - 1]>>]}
           K == {k \in Nat : Runs(k) # {}}
<1>1. 0 \in K
  <2>1. [n \in 0..0 |-> base] \in Runs(0)
    OBVIOUS
  <2> QED
    BY <2>1
<1>2. ASSUME NEW k \in 1..N, k - 1 \in K PROVE k \in K
  <2>1. PICK g \in Runs(k - 1) : TRUE
    BY <1>2
  <2> DEFINE h == [n \in 0..k |-> IF n = k THEN step[<<k, g[k - 1]>>] ELSE g[n]]
  <2>2. /\ g \in [0..(k - 1) -> X]
        /\ \A n \in 0..(k - 1) : g[n] = IF n = 0 THEN base ELSE step[<<n, g[n - 1]>>]
    BY <2>1
  <2>3. k \in Nat /\ k - 1 \in 0..(k - 1) /\ \A n \in 0..k : n # k => n \in 0..(k - 1)
    OBVIOUS
  <2>4. step[<<k, g[k - 1]>>] \in X
    BY <2>2, <2>3
  <2>5. h \in [0..k -> X]
    BY <2>2, <2>3, <2>4
  <2>6. \A n \in 0..(k - 1) : h[n] = g[n]
    OBVIOUS
  <2>7. ASSUME NEW n \in 0..k
        PROVE  h[n] = IF n = 0 THEN base ELSE step[<<n, h[n - 1]>>]
    <3>1. CASE n = k
      <4>1. h[n] = step[<<k, g[k - 1]>>] /\ h[k - 1] = g[k - 1] /\ n # 0
        BY <2>3, <2>6, <3>1
      <4> QED
        BY <3>1, <4>1
    <3>2. CASE n # k
      <4>1. n \in 0..(k - 1) /\ (n # 0 => n - 1 \in 0..(k - 1))
        BY <3>2
      <4> HIDE DEF h
      <4> QED
        BY <2>2, <2>6, <4>1
    <3> QED
      BY <3>1, <3>2
  <2>8. h \in Runs(k)
    BY <2>5, <2>7
  <2> QED
    BY <2>3, <2>8
<1>3. N \in K
  <2> HIDE DEF K
  <2>1. \A n \in 0..N : n \in K
    BY <1>1, <1>2, UpTo
  <2> QED
    BY <2>1
<1> QED
  BY <1>3 DEF IsRun
-----------------------------------------------------------------------------
(* gofmt and the edits of a proposal. *)

Content == Texts \cup {Absent}
At == [ok : BOOLEAN, temporary : Trees, changed : SUBSET Paths]

LEMMA WithoutBlanksIsText ==
    ASSUME NEW text \in Texts
    PROVE  WithoutBlanks(text)[Len(text)] \in Texts
<1> DEFINE N == Len(text)
           X == Texts
           kept == WithoutBlanks(text)
           step == [z \in (1..N) \X X |->
                      IF text[z[1]] = Blank THEN z[2] ELSE Append(z[2], text[z[1]])]
<1>1. N \in Nat /\ <<>> \in X /\ \A n \in 1..N : text[n] \in Tokens
  BY DEF Texts
<1>2. ASSUME NEW n \in 1..N, NEW s \in X
      PROVE  (IF text[n] = Blank THEN s ELSE Append(s, text[n])) \in X
  BY <1>1, <1>2 DEF Texts
<1>3. step \in [(1..N) \X X -> X]
  BY <1>2
<1> DEFINE base == <<>>
<1>4. PICK g \in [0..N -> X] : IsRun(g, N, base, step)
  <2>1. N \in Nat /\ base \in X /\ step \in [(1..N) \X X -> X]
    BY <1>1, <1>3
  <2> HIDE DEF N, X, step, base
  <2> QED
    BY <2>1, RecursionExists
<1>41. \A n \in 0..N : g[n] = IF n = 0 THEN <<>> ELSE step[<<n, g[n - 1]>>]
  BY <1>4 DEF IsRun
<1>5. ASSUME NEW n \in 1..N
      PROVE  n - 1 \in 0..N /\ g[n] = IF text[n] = Blank THEN g[n - 1] ELSE Append(g[n - 1], text[n])
  <2>1. n \in 0..N /\ n - 1 \in 0..N /\ n # 0
    BY <1>1
  <2>2. <<n, g[n - 1]>> \in (1..N) \X X
    BY <1>4, <2>1
  <2>3. g[n] = step[<<n, g[n - 1]>>]
    BY <1>41, <2>1
  <2> QED
    BY <2>1, <2>2, <2>3
<1>6. g = [n \in 0..N |->
             IF n = 0 THEN <<>>
             ELSE IF text[n] = Blank THEN g[n - 1] ELSE Append(g[n - 1], text[n])]
  <2>1. \A n \in 0..N : n # 0 => n \in 1..N
    BY <1>1
  <2> QED
    BY <1>4, <1>41, <1>5, <2>1
<1>7. kept = [n \in 0..N |->
                IF n = 0 THEN <<>>
                ELSE IF text[n] = Blank THEN kept[n - 1] ELSE Append(kept[n - 1], text[n])]
  BY <1>6 DEF WithoutBlanks
<1> HIDE DEF N, X, kept
<1> DEFINE K == {n \in 0..N : kept[n] \in X}
<1>8. 0 \in K
  BY <1>1, <1>7
<1>9. ASSUME NEW n \in 1..N, n - 1 \in K PROVE n \in K
  <2>1. n \in 0..N /\ n # 0
    BY <1>1
  <2>2. kept[n] = IF text[n] = Blank THEN kept[n - 1] ELSE Append(kept[n - 1], text[n])
    BY <1>7, <2>1
  <2> QED
    BY <1>2, <1>9, <2>1, <2>2
<1>10. \A n \in 0..N : n \in K
  <2> HIDE DEF K
  <2> QED
    BY <1>1, <1>8, <1>9, UpTo
<1>11. kept[N] \in X
  BY <1>1, <1>10
<1> QED
  BY <1>11 DEF kept, N, X

LEMMA FormattedIsText ==
    ASSUME NEW p, NEW text \in Texts
    PROVE  Formatted(p, text) \in Texts
  BY WithoutBlanksIsText DEF Formatted

\* strings.Replace, of a text that occurs once.
LEMMA SubstituteIsText ==
    ASSUME NEW text \in Texts, NEW old, NEW new \in Texts, Cardinality(Occurrences(text, old)) = 1
    PROVE  Substitute(text, old, new) \in Texts
<1> DEFINE i == CHOOSE j \in Occurrences(text, old) : TRUE
<1>1. Occurrences(text, old) # {}
  BY FS_EmptySet
<1>2. i \in 1..Len(text) /\ Len(text) \in Nat /\ \A k \in 1..Len(text) : text[k] \in Tokens
  BY <1>1 DEF Occurrences, Texts
<1> HIDE DEF i
<1>3. SubSeq(text, 1, i - 1) \in Seq(Tokens)
  <2>1. 1 \in Int /\ i - 1 \in Int /\ \A k \in 1..(i - 1) : text[k] \in Tokens
    BY <1>2
  <2> QED
    BY <2>1, SubSeqProperties
<1>4. SubSeq(text, i + 1, Len(text)) \in Seq(Tokens)
  <2>1. i + 1 \in Int /\ Len(text) \in Int /\ \A k \in (i + 1)..Len(text) : text[k] \in Tokens
    BY <1>2
  <2> QED
    BY <2>1, SubSeqProperties
<1>5. new \in Seq(Tokens)
  BY DEF Texts
<1>6. SubSeq(text, 1, i - 1) \o new \o SubSeq(text, i + 1, Len(text)) \in Seq(Tokens)
  <2>1. SubSeq(text, 1, i - 1) \o new \in Seq(Tokens)
    BY <1>3, <1>5, ConcatProperties
  <2> QED
    BY <1>4, <2>1, ConcatProperties
<1> QED
  BY <1>6 DEF Substitute, Texts, i

\* What holds after any number of edits: a file is changed because an allowed
\* edit names it, it is a text then, and a file that is not in the snapshot is
\* not in the workspace either.
Named(edits, p) == \E i \in 1..Len(edits) : edits[i].path = p /\ Allowed(edits[i])
Sound(snapshot, tree, edits) ==
    {at \in At :
        /\ \A p \in Paths \ at.changed : at.temporary[p] = snapshot[p]
        /\ \A p \in at.changed : /\ at.temporary[p] \in Texts
                                 /\ Named(edits, p)
                                 /\ snapshot[p] = Absent => tree[p] = Absent}

LEMMA ApplyEditSound ==
    ASSUME NEW snapshot \in Trees, NEW tree, NEW edits \in Seq(Edits), NEW n \in 1..Len(edits),
           NEW at \in Sound(snapshot, tree, edits)
    PROVE  ApplyEdit(snapshot, tree, at, edits[n]) \in Sound(snapshot, tree, edits)
<1> DEFINE e == edits[n]
           S == Sound(snapshot, tree, edits)
<1>0. /\ e \in Edits /\ at \in At /\ snapshot \in [Paths -> Texts \cup {Absent}]
      /\ at.temporary \in [Paths -> Texts \cup {Absent}] /\ at.changed \in SUBSET Paths
      /\ \A p \in Paths \ at.changed : at.temporary[p] = snapshot[p]
      /\ \A p \in at.changed : /\ at.temporary[p] \in Texts
                               /\ Named(edits, p)
                               /\ snapshot[p] = Absent => tree[p] = Absent
  BY DEF Sound, At, Trees
<1>1. e.path \in Paths \cup BadPaths /\ e.new \in Texts /\ e.op \in {"replace", "create"}
  BY <1>0 DEF Edits
<1>2. Allowed(e) => e.path \in Paths /\ Named(edits, e.path)
  BY <1>1 DEF Allowed, Named
<1> HIDE DEF e
<1>3. ASSUME NEW text \in Texts, Allowed(e), snapshot[e.path] = Absent => tree[e.path] = Absent
      PROVE  Edited(at, e, text) \in S
  <2> DEFINE T == [at.temporary EXCEPT ![e.path] = text]
             C == at.changed \cup {e.path}
             new == Edited(at, e, text)
  <2>1. T \in [Paths -> Texts \cup {Absent}] /\ C \in SUBSET Paths
    BY <1>0, <1>2, <1>3
  <2>2. \A p \in Paths \ C : T[p] = snapshot[p]
    BY <1>0, <1>2, <1>3
  <2>3. \A p \in C : T[p] \in Texts /\ Named(edits, p) /\ (snapshot[p] = Absent => tree[p] = Absent)
    BY <1>0, <1>2, <1>3
  <2>4. new = [[at EXCEPT !.temporary = T] EXCEPT !.changed = C]
    BY <1>0 DEF Edited, At
  <2> HIDE DEF T, C, new
  <2>5. new = [ok |-> at.ok, temporary |-> T, changed |-> C] /\ at.ok \in BOOLEAN
    BY <1>0, <2>4 DEF At
  <2>6. new \in At /\ new.temporary = T /\ new.changed = C
    BY <2>1, <2>5 DEF At, Trees
  <2>7. new \in S
    BY <2>2, <2>3, <2>6 DEF Sound
  <2> QED
    BY <2>7 DEF new
<1>4. [at EXCEPT !.ok = FALSE] \in S
  BY <1>0 DEF Sound, At
<1>5. ASSUME Allowed(e), MayCreate(snapshot, tree, at, e)
      PROVE  Edited(at, e, e.new) \in S
  BY <1>1, <1>3, <1>5 DEF MayCreate, TargetIsNew
<1>6. ASSUME Allowed(e), MayReplace(snapshot, at, e)
      PROVE  Edited(at, e, Substitute(at.temporary[e.path], e.old, e.new)) \in S
  <2>1. at.temporary[e.path] \in Texts /\ snapshot[e.path] # Absent
    <3>1. snapshot[e.path] # Absent /\ e.path \in Paths
      BY <1>2, <1>6 DEF MayReplace
    <3> QED
      BY <1>0, <3>1
  <2>2. Substitute(at.temporary[e.path], e.old, e.new) \in Texts
    BY <1>1, <1>6, <2>1, SubstituteIsText DEF MayReplace
  <2> QED
    BY <1>3, <1>6, <2>1, <2>2
<1>7. ApplyEdit(snapshot, tree, at, e) \in S
  <2>1. at \in S
    OBVIOUS
  <2> HIDE DEF S
  <2> QED
    BY <1>4, <1>5, <1>6, <2>1 DEF ApplyEdit
<1> QED
  BY <1>7 DEF e

LEMMA EditsDoneSound ==
    ASSUME NEW snapshot \in Trees, NEW tree, NEW edits \in Seq(Edits)
    PROVE  EditsDone(snapshot, tree, edits)[Len(edits)] \in Sound(snapshot, tree, edits)
<1> DEFINE N == Len(edits)
           X == Sound(snapshot, tree, edits)
           base == [ok |-> TRUE, temporary |-> snapshot, changed |-> {}]
           at == EditsDone(snapshot, tree, edits)
           step == [z \in (1..N) \X X |-> ApplyEdit(snapshot, tree, z[2], edits[z[1]])]
<1>1. N \in Nat
  OBVIOUS
<1>2. base \in X
  BY DEF Sound, At
<1>3. ASSUME NEW n \in 1..N, NEW s \in X
      PROVE  ApplyEdit(snapshot, tree, s, edits[n]) \in X
  BY <1>3, ApplyEditSound
<1>4. step \in [(1..N) \X X -> X]
  <2> HIDE DEF X, N
  <2> QED
    BY <1>3
<1>5. PICK g \in [0..N -> X] : IsRun(g, N, base, step)
  <2> HIDE DEF N, X, step, base
  <2> QED
    BY <1>1, <1>2, <1>4, RecursionExists
<1> HIDE DEF X, base
<1>6. \A n \in 0..N : g[n] = IF n = 0 THEN base ELSE step[<<n, g[n - 1]>>]
  BY <1>5 DEF IsRun
<1>7. ASSUME NEW n \in 1..N
      PROVE  g[n] = ApplyEdit(snapshot, tree, g[n - 1], edits[n])
  <2>1. n \in 0..N /\ n - 1 \in 0..N /\ n # 0
    BY <1>1
  <2>2. <<n, g[n - 1]>> \in (1..N) \X X
    BY <1>5, <2>1
  <2>3. g[n] = step[<<n, g[n - 1]>>]
    BY <1>6, <2>1
  <2> QED
    BY <2>2, <2>3
<1>8. g = [n \in 0..N |-> IF n = 0 THEN base
                          ELSE ApplyEdit(snapshot, tree, g[n - 1], edits[n])]
  <2>1. \A n \in 0..N : n # 0 => n \in 1..N
    BY <1>1
  <2> QED
    BY <1>5, <1>6, <1>7, <2>1
<1>9. at = [n \in 0..N |-> IF n = 0 THEN base
                           ELSE ApplyEdit(snapshot, tree, at[n - 1], edits[n])]
  BY <1>8 DEF EditsDone, base
<1> HIDE DEF N, at
<1> DEFINE K == {n \in 0..N : at[n] \in X}
<1>10. 0 \in K
  BY <1>1, <1>2, <1>9
<1>11. ASSUME NEW n \in 1..N, n - 1 \in K PROVE n \in K
  <2>1. n \in 0..N /\ n # 0
    BY <1>1
  <2>2. at[n] = ApplyEdit(snapshot, tree, at[n - 1], edits[n])
    BY <1>9, <2>1
  <2> QED
    BY <1>3, <1>11, <2>1, <2>2
<1>12. \A n \in 0..N : n \in K
  <2> HIDE DEF K
  <2> QED
    BY <1>1, <1>10, <1>11, UpTo
<1>13. at[N] \in X
  BY <1>1, <1>12
<1> QED
  BY <1>13 DEF at, N, X

\* A change as newPendingChange gets it.
IsChange(c) ==
    /\ c \in [original : Trees, updated : Trees]
    /\ \A p \in ChangedFiles(c) : c.updated[p] \in Texts /\ c.updated[p] # c.original[p]
    /\ \A p \in Paths \ ChangedFiles(c) : c.original[p] = Absent

\* What materializeChangeSimulation returns, whatever the edits, has for each
\* of its files a text that differs from the one in the snapshot, its original
\* is the text of the snapshot, an allowed edit names it, and a file it creates
\* is not in the workspace (structured.go:393-470).
THEOREM MaterializeSound ==
    ASSUME NEW snapshot \in Trees, NEW tree, NEW edits \in Seq(Edits),
           NEW c \in Materialize(snapshot, tree, edits)
    PROVE  /\ IsChange(c)
           /\ \A p \in ChangedFiles(c) :
                /\ c.original[p] = snapshot[p]
                /\ Named(edits, p)
                /\ Created(c, p) => tree[p] = Absent
<1> DEFINE end == EditsDone(snapshot, tree, edits)[Len(edits)]
           O == [p \in Paths |-> IF p \in end.changed THEN snapshot[p] ELSE Absent]
           U == [p \in Paths |-> IF p \in end.changed THEN Formatted(p, end.temporary[p]) ELSE Absent]
<1>1. /\ end \in At
      /\ \A p \in end.changed : /\ end.temporary[p] \in Texts
                                /\ Named(edits, p)
                                /\ snapshot[p] = Absent => tree[p] = Absent
  BY EditsDoneSound DEF Sound
<1>2. snapshot \in [Paths -> Texts \cup {Absent}] /\ end.changed \in SUBSET Paths
  BY <1>1 DEF Trees, At
<1>3. CASE c = NoChange
  <2>1. Nothing \in Trees /\ \A p \in Paths : Nothing[p] = Absent
    BY DEF Nothing, Trees
  <2> HIDE DEF end
  <2>2. /\ c \in [original : Trees, updated : Trees]
        /\ c.original = Nothing /\ c.updated = Nothing
    BY <1>3, <2>1 DEF NoChange
  <2>3. ChangedFiles(c) = {}
    BY <2>1, <2>2 DEF ChangedFiles
  <2> QED
    BY <2>1, <2>2, <2>3 DEF IsChange
<1>4. CASE /\ c = [original |-> O, updated |-> U]
           /\ Effective(snapshot, end)
  <2>1. \A p \in end.changed : /\ Formatted(p, end.temporary[p]) \in Texts
                               /\ Formatted(p, end.temporary[p]) # snapshot[p]
    BY <1>1, <1>4, FormattedIsText DEF Effective
  <2> HIDE DEF end
  <2>2. /\ \A p \in end.changed : U[p] \in Texts /\ U[p] # O[p] /\ O[p] = snapshot[p]
        /\ \A p \in Paths \ end.changed : U[p] = Absent /\ O[p] = Absent
        /\ U \in Trees /\ O \in Trees
    BY <1>2, <2>1 DEF Trees
  <2> HIDE DEF U, O
  <2>3. c \in [original : Trees, updated : Trees] /\ c.original = O /\ c.updated = U
    BY <1>4, <2>2
  <2>4. ChangedFiles(c) = end.changed
    <3>1. Absent \notin Texts
      BY ProposalAssumption DEF Texts
    <3> QED
      BY <1>2, <2>2, <2>3, <3>1 DEF ChangedFiles
  <2>5. IsChange(c)
    BY <2>2, <2>3, <2>4 DEF IsChange
  <2>6. \A p \in ChangedFiles(c) : /\ c.original[p] = snapshot[p]
                                   /\ Named(edits, p)
                                   /\ Created(c, p) => tree[p] = Absent
    BY <1>1, <2>2, <2>3, <2>4 DEF Created
  <2> QED
    BY <2>5, <2>6
<1>5. c = NoChange \/ (c = [original |-> O, updated |-> U] /\ Effective(snapshot, end))
  <2> HIDE DEF end
  <2>1. Materialize(snapshot, tree, edits) =
          IF OnlyAsks(edits) THEN {NoChange}
          ELSE IF ~Effective(snapshot, end) THEN {} ELSE {[original |-> O, updated |-> U]}
    BY DEF Materialize, end
  <2> QED
    BY <2>1
<1> QED
  BY <1>3, <1>4, <1>5
-----------------------------------------------------------------------------
(* The inductive invariant.                                                *)

Typed == TypeOK

\* What is stored is a change, belongs to a preview that is over, and is not
\* from the future.
IsStored == {q \in Previews : created[q] # None}
Stored ==
    /\ \A q \in Previews : IsChange(preview[q].result)
    /\ \A q \in IsStored : preview[q].stage = "ended" /\ created[q] <= clock
    /\ pending \subseteq IsStored
    /\ IsFiniteSet(IsStored)

\* A request that took an approval took it out of the pending ones.
Taken ==
    \A a \in Applies :
        /\ apply[a].id # None => apply[a].id \in IsStored \ pending
        /\ apply[a].id = None <=> apply[a].stage \in {"idle", "refused"}

Verifying(a) ==
    /\ files = apply[a].before /\ backup[a] = Nothing
    /\ apply[a].done = {} /\ apply[a].unrestored = {}
    /\ apply[a].left \subseteq ChangedFiles(Change(a))
    /\ \A p \in ChangedFiles(Change(a)) \ apply[a].left :
         apply[a].before[p] = Change(a).original[p]

\* The stages between the two steps that publish a file, and of the others that
\* publish or roll back.
InHand == {"linked", "swap", "undo"}
Halves == InHand \cup {"publish", "rollback", "restore"}
Held(r) == IF r.stage \in InHand THEN {Min(r.left)} ELSE {}

\* What is known of a request in state r that nobody disturbed, of the workspace
\* and of its backups.  In a half: what was there of the files it has touched is
\* in a backup (a created one was not there), the others are as they were.  A
\* file whose roll-back failed may be anything.
Matches(a, r) == \A p \in ChangedFiles(Change(a)) : r.before[p] = Change(a).original[p]

Halfway(a, r, tree, kept) ==
    /\ Matches(a, r)
    /\ r.done \subseteq ChangedFiles(Change(a)) /\ r.unrestored \subseteq ChangedFiles(Change(a))
    /\ r.stage \in InHand \cup {"publish"} => r.left = ChangedFiles(Change(a)) \ r.done
    /\ r.stage \in {"publish", "linked", "swap"} =>
         \A p \in r.done : tree[p] = Change(a).updated[p]
    /\ r.stage = "linked" => \A p \in Held(r) : tree[p] = Change(a).updated[p]
    /\ \A p \in Paths \ r.unrestored :
         IF p \in r.done \cup Held(r) THEN kept[p] = r.before[p]
         ELSE tree[p] = r.before[p] /\ kept[p] = Absent

\* After the loops: the change is in place, or the workspace is as it was.
InPlace(a, r, tree) ==
    \A p \in Paths : tree[p] = IF p \in ChangedFiles(Change(a)) THEN Change(a).updated[p]
                               ELSE r.before[p]
Back(r, tree) == \A p \in Paths \ r.unrestored : tree[p] = r.before[p]

Standing(a, r, tree, kept) ==
    /\ r.stage \in Halves => Halfway(a, r, tree, kept)
    /\ r.stage = "discard" => InPlace(a, r, tree) /\ Matches(a, r)
    /\ r.stage = "cleanup" => Back(r, tree)

KeptSomewhere(a) ==
    \/ \A p \in Paths \ apply[a].unrestored :
         apply[a].before[p] \in {files[p], backup[a][p], Absent}
    \/ InPlace(a, apply[a], files)

AsPreviewed(a) ==
    \A p \in Paths :
        IF p \in ChangedFiles(Change(a))
        THEN /\ apply[a].before[p] = Change(a).original[p]
             /\ apply[a].after[p] = Change(a).updated[p]
             /\ apply[a].after[p] # apply[a].before[p]
        ELSE apply[a].after[p] = apply[a].before[p]

Underway(a) ==
    /\ apply[a].stage \in InHand => apply[a].left # {}
    /\ apply[a].stage = "restore" => apply[a].done # {}
    /\ ~apply[a].disturbed =>
         /\ apply[a].stage = "verify" => Verifying(a)
         /\ Standing(a, apply[a], files, backup[a])
         /\ apply[a].stage = "lost" => KeptSomewhere(a)
         /\ apply[a].stage = "conflict" => Back(apply[a], apply[a].after)
         /\ apply[a].stage = "applied" => AsPreviewed(a)

IInv ==
    /\ Typed /\ Stored /\ Taken /\ ApprovalUsedOnce /\ EvictedOnlyByNewer
    /\ \A a \in Applies : Underway(a)
    /\ \A a \in Applies : apply[a].stage = "idle" => backup[a] = Nothing /\ apply[a] = NewApply
-----------------------------------------------------------------------------
(* What the steps do, field by field.                                      *)

PreviewStages == {"idle", "load", "attempt", "validate", "store", "ended"}
PreviewRec == [stage : PreviewStages, attempt : 0..Attempts, chosen : SUBSET Paths,
               snapshot : Trees, result : [original : Trees, updated : Trees]]
Waiting == {"idle", "refused"}
ApplyStages == Busy \cup {"idle", "refused", "conflict", "applied", "lost"}
ApplyRec == [stage : ApplyStages, id : Previews \cup {None}, left : SUBSET Paths,
             done : SUBSET Paths, unrestored : SUBSET Paths, before : Trees, after : Trees, disturbed : BOOLEAN]

\* The approvals as they are, and what a step makes of the preview q.
SamePending == UNCHANGED <<pending, created>>
Elsewhere == UNCHANGED <<files, apply, backup, clock, mishaps, restarted>>
Becomes(q, new) ==
    /\ new \in PreviewRec /\ IsChange(new.result)
    /\ preview[q].stage # "ended"
    /\ preview' = [preview EXCEPT ![q] = new]
    /\ slot' \in Previews \cup {None}
Previewed(q) == \E new : Becomes(q, new)

LEMMA NothingYet ==
    /\ Nothing \in Trees /\ \A p \in Paths : Nothing[p] = Absent
    /\ IsChange(NoChange)
    /\ NewPreview \in PreviewRec /\ IsChange(NewPreview.result)
    /\ Ended \in PreviewRec /\ IsChange(Ended.result)
    /\ NewApply \in ApplyRec /\ NewApply.id = None /\ NewApply.stage = "idle"
    /\ NewApply.done = {}
<1>1. Nothing \in Trees /\ \A p \in Paths : Nothing[p] = Absent
  BY DEF Nothing, Trees
<1>2. NoChange \in [original : Trees, updated : Trees] /\ ChangedFiles(NoChange) = {}
      /\ NoChange.original = Nothing
  BY <1>1 DEF NoChange, ChangedFiles
<1>3. IsChange(NoChange)
  BY <1>1, <1>2 DEF IsChange
<1>4. /\ NewPreview \in PreviewRec /\ NewPreview.result = NoChange
      /\ Ended \in PreviewRec /\ Ended.result = NoChange
  BY <1>1, <1>2 DEF NewPreview, Ended, PreviewRec, PreviewStages, Attempts
<1>5. NewApply \in ApplyRec /\ NewApply.id = None /\ NewApply.stage = "idle" /\ NewApply.done = {}
  BY <1>1 DEF NewApply, ApplyRec, ApplyStages
<1> QED
  BY <1>1, <1>3, <1>4, <1>5

LEMMA TypedFields ==
    ASSUME Typed
    PROVE  /\ files \in Trees /\ slot \in Previews \cup {None}
           /\ preview \in [Previews -> PreviewRec] /\ pending \in SUBSET Previews
           /\ created \in [Previews -> 0..MaxTime \cup {None}]
           /\ apply \in [Applies -> ApplyRec] /\ backup \in [Applies -> Trees]
           /\ clock \in 0..MaxTime /\ mishaps \in 0..MaxMishaps /\ restarted \in BOOLEAN
  BY DEF Typed, TypeOK, PreviewRec, PreviewStages, ApplyRec, ApplyStages

LEMMA PreviewErrs ==
    ASSUME Typed, NEW q \in Previews, preview[q].stage # "ended", Error(q)
    PROVE  Previewed(q)
<1>1. Becomes(q, Ended)
  BY NothingYet, TypedFields DEF Error, Becomes
<1> QED
  BY <1>1 DEF Previewed

LEMMA PreviewGoesOn ==
    ASSUME Typed, Stored, NEW q \in Previews, preview[q].stage # "ended", NextAttempt(q)
    PROVE  Previewed(q)
<1>1. CASE Error(q)
  BY <1>1, PreviewErrs
<1>2. CASE /\ preview[q].attempt < Attempts
           /\ preview' = [preview EXCEPT ![q].attempt = @ + 1, ![q].stage = "attempt",
                                         ![q].result = NoChange]
           /\ UNCHANGED slot
  <2>1. PICK n : n = preview[q].attempt + 1
    OBVIOUS
  <2>2. n \in 0..Attempts
    BY <1>2, <2>1, TypedFields DEF PreviewRec, Attempts
  <2> DEFINE new == [preview[q] EXCEPT !.attempt = n, !.stage = "attempt", !.result = NoChange]
  <2>3. preview' = [preview EXCEPT ![q] = new]
    BY <1>2, <2>1, TypedFields DEF PreviewRec
  <2>4. NoChange \in [original : Trees, updated : Trees]
    BY NothingYet DEF IsChange
  <2>5. new \in PreviewRec /\ new.result = NoChange
    BY <2>2, <2>4, TypedFields DEF PreviewRec, PreviewStages
  <2> HIDE DEF new
  <2>6. Becomes(q, new)
    BY <1>2, <2>3, <2>5, NothingYet, TypedFields DEF Becomes
  <2> QED
    BY <2>6 DEF Previewed
<1> QED
  BY <1>1, <1>2 DEF NextAttempt

LEMMA PreviewLoads ==
    ASSUME Typed, Stored, NEW q \in Previews, preview[q].stage # "ended",
           NEW chosen \in SUBSET Paths, Load(q, chosen)
    PROVE  Previewed(q)
<1> DEFINE new == [preview[q] EXCEPT !.stage = "load", !.chosen = chosen]
<1>1. preview' = [preview EXCEPT ![q] = new]
  BY TypedFields DEF PreviewRec, Load
<1>2. new \in PreviewRec /\ new.result = preview[q].result
  BY TypedFields DEF PreviewRec, PreviewStages
<1>3. IsChange(new.result) /\ slot' = q
  BY <1>2 DEF Stored, Load
<1> HIDE DEF new
<1>4. Becomes(q, new)
  BY <1>1, <1>2, <1>3 DEF Becomes
<1> QED
  BY <1>4 DEF Previewed

LEMMA PreviewEffect ==
    ASSUME Typed, Stored, NEW q \in Previews, PreviewStep(q), ~StorePending(q)
    PROVE  Previewed(q) /\ Elsewhere /\ SamePending
<1>1. ASSUME NameFiles(q) PROVE Previewed(q) /\ Elsewhere /\ SamePending
  <2>1. preview[q].stage # "ended"
    BY <1>1 DEF NameFiles
  <2> QED
    BY <1>1, <2>1, PreviewErrs, PreviewLoads DEF NameFiles, Elsewhere, SamePending, applyVars, epoch
<1>2. ASSUME Discover(q) PROVE Previewed(q) /\ Elsewhere /\ SamePending
  <2>1. preview[q].stage # "ended" /\ Ranked \subseteq SUBSET Paths
    BY <1>2 DEF Discover, Ranked
  <2> QED
    BY <1>2, <2>1, PreviewErrs, PreviewLoads DEF Discover, Elsewhere, SamePending, applyVars, epoch
<1>3. ASSUME Snapshot(q) PROVE Previewed(q) /\ Elsewhere /\ SamePending
  <2>1. preview[q].stage # "ended"
    BY <1>3 DEF Snapshot
  <2> DEFINE kept == [p \in Paths |-> IF p \in preview[q].chosen THEN files[p] ELSE Absent]
             new == [NewPreview EXCEPT !.stage = "attempt", !.attempt = 1, !.snapshot = kept]
  <2>2. CASE preview' = [preview EXCEPT ![q] = new] /\ UNCHANGED slot
    <3>1. kept \in Trees
      BY TypedFields DEF Trees
    <3> HIDE DEF kept
    <3>2. 1 \in 0..Attempts /\ NewPreview \in PreviewRec
      BY NothingYet DEF Attempts
    <3>21. new \in PreviewRec /\ new.result = NewPreview.result
      BY <3>1, <3>2 DEF PreviewRec, PreviewStages
    <3> HIDE DEF new
    <3>3. Becomes(q, new)
      BY <2>1, <2>2, <3>21, NothingYet, TypedFields DEF Becomes
    <3>4. Previewed(q)
      BY <3>3 DEF Previewed
    <3> QED
      BY <1>3, <3>4 DEF Snapshot, Elsewhere, SamePending, applyVars, epoch
  <2>3. CASE Error(q)
    BY <1>3, <2>1, <2>3, PreviewErrs DEF Snapshot, Elsewhere, SamePending, applyVars, epoch
  <2> QED
    BY <1>3, <2>2, <2>3 DEF Snapshot
<1>4. ASSUME AttemptRefused(q) PROVE Previewed(q) /\ Elsewhere /\ SamePending
  <2>1. preview[q].stage # "ended"
    BY <1>4 DEF AttemptRefused
  <2> QED
    BY <1>4, <2>1, PreviewGoesOn DEF AttemptRefused, Elsewhere, SamePending, applyVars, epoch
<1>5. ASSUME AttemptAccepted(q) PROVE Previewed(q) /\ Elsewhere /\ SamePending
  <2>1. preview[q].stage # "ended" /\ Elsewhere /\ SamePending
    BY <1>5 DEF AttemptAccepted, Elsewhere, SamePending, applyVars, epoch
  <2>2. CASE Error(q)
    BY <2>1, <2>2, PreviewErrs
  <2>3. CASE \E edits \in Proposals :
               \E result \in Materialize(preview[q].snapshot, files, edits) :
                  /\ preview' = [preview EXCEPT ![q].stage = "validate", ![q].result = result]
                  /\ UNCHANGED slot
    <3>0. PICK edits \in Proposals :
            \E result \in Materialize(preview[q].snapshot, files, edits) :
               /\ preview' = [preview EXCEPT ![q].stage = "validate", ![q].result = result]
               /\ UNCHANGED slot
      BY <2>3
    <3>1. PICK result \in Materialize(preview[q].snapshot, files, edits) :
                 /\ preview' = [preview EXCEPT ![q].stage = "validate", ![q].result = result]
                 /\ UNCHANGED slot
      BY <3>0
    <3>2. preview[q].snapshot \in Trees /\ edits \in Seq(Edits)
      BY TypedFields, ApprovalAssumption DEF PreviewRec
    <3>3. IsChange(result)
      BY <3>1, <3>2, MaterializeSound
    <3> DEFINE new == [preview[q] EXCEPT !.stage = "validate", !.result = result]
    <3>4. preview' = [preview EXCEPT ![q] = new]
      BY <3>1, TypedFields DEF PreviewRec
    <3>5. new \in PreviewRec /\ new.result = result
      BY <3>3, TypedFields DEF PreviewRec, PreviewStages, IsChange
    <3> HIDE DEF new
    <3>6. Becomes(q, new)
      BY <2>1, <3>1, <3>3, <3>4, <3>5, TypedFields DEF Becomes
    <3> QED
      BY <2>1, <3>6 DEF Previewed
  <2> QED
    BY <1>5, <2>2, <2>3 DEF AttemptAccepted
<1>6. ASSUME Validate(q) PROVE Previewed(q) /\ Elsewhere /\ SamePending
  <2>1. preview[q].stage # "ended" /\ Elsewhere /\ SamePending
    BY <1>6 DEF Validate, Elsewhere, SamePending, applyVars, epoch
  <2>2. CASE NextAttempt(q)
    BY <2>1, <2>2, PreviewGoesOn
  <2>3. CASE preview' = [preview EXCEPT ![q].stage = "store", ![q].snapshot = Nothing]
             /\ UNCHANGED slot
    <3> DEFINE new == [preview[q] EXCEPT !.stage = "store", !.snapshot = Nothing]
    <3>1. preview' = [preview EXCEPT ![q] = new]
      BY <2>3, TypedFields DEF PreviewRec
    <3>2. new \in PreviewRec /\ new.result = preview[q].result
      BY NothingYet, TypedFields DEF PreviewRec, PreviewStages
    <3>3. IsChange(new.result)
      BY <3>2 DEF Stored
    <3> HIDE DEF new
    <3>4. Becomes(q, new)
      BY <2>1, <2>3, <3>1, <3>2, <3>3, TypedFields DEF Becomes
    <3> QED
      BY <2>1, <3>4 DEF Previewed
  <2> QED
    BY <1>6, <2>2, <2>3 DEF Validate
<1> QED
  BY <1>1, <1>2, <1>3, <1>4, <1>5, <1>6 DEF PreviewStep
-----------------------------------------------------------------------------
(* What a request keeps while others move.                                 *)

Steady(b) ==
    /\ apply[b].id # None => preview'[apply[b].id].result = preview[apply[b].id].result
    /\ backup'[b] = backup[b]

LEMMA LeftAlone ==
    ASSUME NEW b \in Applies, Underway(b), Taken, Steady(b),
           files' = files, apply'[b] = apply[b]
    PROVE  Underway(b)'
<1>1. CASE apply[b].id = None
  <2>1. apply[b].stage \in Waiting /\ apply'[b].stage \in Waiting
    BY <1>1 DEF Taken, Waiting
  <2> QED
    BY <2>1 DEF Underway, Waiting, Halves, InHand, Standing
<1>2. CASE apply[b].id # None
  <2> DEFINE c == Change(b)
             r == apply[b]
  <2>1. Change(b)' = c /\ apply'[b] = r
    BY <1>2 DEF Change, Steady
  <2>2. backup'[b] = backup[b]
    BY DEF Steady
  <2>3. Verifying(b) => Verifying(b)'
    BY <2>1, <2>2 DEF Verifying
  <2>4. Standing(b, apply[b], files, backup[b]) => Standing(b, apply[b], files, backup[b])'
    BY <2>1, <2>2 DEF Standing, Halfway, Held, InPlace, Back, Matches
  <2>5. apply[b].stage = "conflict" => (Back(apply[b], apply[b].after)
                                         => Back(apply[b], apply[b].after)')
    BY <2>1 DEF Back
  <2>6. KeptSomewhere(b) => KeptSomewhere(b)'
    BY <2>1, <2>2 DEF KeptSomewhere, InPlace
  <2>7. AsPreviewed(b) => AsPreviewed(b)'
    BY <2>1 DEF AsPreviewed
  <2> HIDE DEF c
  <2> QED
    BY <2>1, <2>3, <2>4, <2>5, <2>6, <2>7 DEF Underway
<1> QED
  BY <1>1, <1>2

DisturbedOne(b) ==
    IF apply[b].stage \in Busy \cup {"lost"}
    THEN [apply[b] EXCEPT !.disturbed = TRUE, !.before = Nothing] ELSE apply[b]

LEMMA DisturbedFields ==
    ASSUME NEW b \in Applies, Typed
    PROVE  /\ DisturbedOne(b) \in ApplyRec
           /\ DisturbedOne(b).id = apply[b].id /\ DisturbedOne(b).stage = apply[b].stage
           /\ DisturbedOne(b).left = apply[b].left /\ DisturbedOne(b).done = apply[b].done
           /\ apply[b].stage \in Busy \cup {"lost"} => DisturbedOne(b).disturbed
           /\ apply[b].stage \notin Busy \cup {"lost"} => DisturbedOne(b) = apply[b]
<1>1. apply[b] \in ApplyRec /\ Nothing \in Trees
  BY TypedFields, NothingYet
<1>2. CASE apply[b].stage \in Busy \cup {"lost"}
  <2>1. DisturbedOne(b) = [apply[b] EXCEPT !.disturbed = TRUE, !.before = Nothing]
    BY <1>2 DEF DisturbedOne
  <2> QED
    BY <1>1, <1>2, <2>1 DEF ApplyRec
<1>3. CASE apply[b].stage \notin Busy \cup {"lost"}
  BY <1>1, <1>3 DEF DisturbedOne
<1> QED
  BY <1>2, <1>3

LEMMA Disturbance ==
    ASSUME NEW b \in Applies, Underway(b), Typed, Taken, Steady(b),
           apply'[b] = DisturbedOne(b)
    PROVE  Underway(b)'
<1>1. CASE apply[b].stage \in Busy \cup {"lost"}
  BY <1>1, DisturbedFields DEF Underway
<1>2. CASE apply[b].stage \notin Busy \cup {"lost"}
  <2>1. apply'[b] = apply[b]
    BY <1>2, DisturbedFields
  <2>2. apply[b].stage \notin Halves \cup {"verify", "discard", "cleanup", "lost"}
    BY <1>2 DEF Busy, Halves, InHand
  <2>3. CASE apply[b].stage \in {"conflict", "applied"}
    <3>1. apply[b].id # None
      BY <2>3 DEF Taken
    <3>2. Change(b)' = Change(b)
      BY <2>1, <3>1 DEF Change, Steady
    <3>3. /\ AsPreviewed(b) => AsPreviewed(b)'
          /\ Back(apply[b], apply[b].after) => Back(apply[b], apply[b].after)'
      BY <2>1, <3>2 DEF AsPreviewed, Back
    <3>4. Standing(b, apply[b], files, backup[b])'
      BY <2>1, <2>2 DEF Standing
    <3> QED
      BY <2>1, <2>2, <3>3, <3>4 DEF Underway, Halves, InHand, Standing
  <2>4. CASE apply[b].stage \notin {"conflict", "applied"}
    <3>1. Standing(b, apply[b], files, backup[b])'
      BY <2>1, <2>2 DEF Standing
    <3> QED
      BY <2>1, <2>2, <2>4, <3>1 DEF Underway, Halves, InHand, Standing
  <2> QED
    BY <2>3, <2>4
<1> QED
  BY <1>1, <1>2

\* The part of the invariant that is about approvals.
Approvals == Stored /\ Taken /\ ApprovalUsedOnce /\ EvictedOnlyByNewer
Idle == \A a \in Applies : apply[a].stage = "idle" => backup[a] = Nothing /\ apply[a] = NewApply

LEMMA ApprovalsKept ==
    ASSUME Approvals, UNCHANGED <<preview, pending, created, restarted>>,
           clock \in Int, clock' \in Int, clock <= clock', Typed,
           \A b \in Applies : /\ apply'[b].id = apply[b].id
                              /\ apply'[b].stage \in Waiting <=> apply[b].stage \in Waiting
    PROVE  Approvals'
<1>1. IsStored' = IsStored
  BY DEF IsStored
<1>2. \A q \in IsStored : created[q] \in Int
  BY TypedFields DEF IsStored
<1>3. Stored'
  BY <1>1, <1>2 DEF Approvals, Stored
<1>4. Taken'
  BY <1>1 DEF Approvals, Taken, Waiting
<1>5. ApprovalUsedOnce'
  BY DEF Approvals, ApprovalUsedOnce
<1>6. EvictedOnlyByNewer'
  <2> SUFFICES ASSUME NEW q \in Previews, created[q] # None, ~restarted, clock' < created[q] + TTL,
                      q \notin pending, \A a \in Applies : apply[a].id # q
               PROVE  Cardinality({r \in Previews \ {q} : created[r] # None
                                       /\ created[r] >= created[q]}) >= MaxPending
    BY DEF EvictedOnlyByNewer
  <2>1. clock < created[q] + TTL
    BY <1>2, ApprovalAssumption DEF IsStored
  <2> QED
    BY <2>1 DEF Approvals, EvictedOnlyByNewer
<1> QED
  BY <1>3, <1>4, <1>5, <1>6 DEF Approvals

LEMMA TypedAgain ==
    ASSUME files' \in Trees, slot' \in Previews \cup {None},
           preview' \in [Previews -> PreviewRec], pending' \in SUBSET Previews,
           created' \in [Previews -> 0..MaxTime \cup {None}],
           apply' \in [Applies -> ApplyRec], backup' \in [Applies -> Trees],
           clock' \in 0..MaxTime, mishaps' \in 0..MaxMishaps, restarted' \in BOOLEAN
    PROVE  Typed'
  BY DEF Typed, TypeOK, PreviewRec, PreviewStages, ApplyRec, ApplyStages

LEMMA InvParts ==
    ASSUME IInv
    PROVE  Typed /\ Approvals /\ Stored /\ Taken /\ Idle /\ \A a \in Applies : Underway(a)
  BY DEF IInv, Approvals, Idle

LEMMA InvAgain ==
    ASSUME Typed', Approvals', Idle', \A a \in Applies : Underway(a)'
    PROVE  IInv'
  BY DEF IInv, Approvals, Idle

-----------------------------------------------------------------------------
(* The steps of previews.                                                  *)

LEMMA PreviewKeeps ==
    ASSUME IInv, NEW q \in Previews, PreviewStep(q), ~StorePending(q)
    PROVE  IInv'
<1>1. Previewed(q) /\ Elsewhere /\ SamePending
  BY PreviewEffect, InvParts
<1>2. PICK new : Becomes(q, new)
  BY <1>1 DEF Previewed
<1>3. \A r \in Previews : r # q => preview'[r] = preview[r]
  BY <1>2, TypedFields, InvParts DEF Becomes
<1>4. preview'[q] = new /\ preview' \in [Previews -> PreviewRec] /\ slot' \in Previews \cup {None}
      /\ IsChange(new.result) /\ preview[q].stage # "ended"
  BY <1>2, TypedFields, InvParts DEF Becomes
<1>5. /\ files' = files /\ apply' = apply /\ backup' = backup /\ clock' = clock
      /\ mishaps' = mishaps /\ restarted' = restarted /\ pending' = pending /\ created' = created
  BY <1>1 DEF Elsewhere, SamePending
<1>6. Typed'
  <2>1. Typed
    BY InvParts
  <2> QED
    BY <1>4, <1>5, <2>1, TypedFields, TypedAgain
<1>7. IsStored' = IsStored /\ q \notin IsStored /\ IsStored \subseteq Previews
  BY <1>4, <1>5, InvParts DEF IsStored, Stored
<1>8. Stored'
  <2>1. Stored
    BY InvParts
  <2>2. \A r \in Previews : IsChange(preview'[r].result)
    BY <1>3, <1>4, <2>1 DEF Stored
  <2>3. \A r \in IsStored : preview'[r].stage = "ended" /\ created[r] <= clock
    BY <1>3, <1>7, <2>1 DEF Stored
  <2> QED
    BY <1>5, <1>7, <2>1, <2>2, <2>3 DEF Stored
<1>9. Taken'
  <2>1. Taken
    BY InvParts
  <2> QED
    BY <1>5, <1>7, <2>1 DEF Taken
<1>10. ApprovalUsedOnce' /\ EvictedOnlyByNewer'
  <2>1. ApprovalUsedOnce /\ EvictedOnlyByNewer
    BY InvParts DEF Approvals
  <2> QED
    BY <1>5, <2>1 DEF ApprovalUsedOnce, EvictedOnlyByNewer
<1>11. Idle'
  <2>1. Idle
    BY InvParts
  <2> QED
    BY <1>5, <2>1 DEF Idle
<1>12. ASSUME NEW a \in Applies PROVE Underway(a)'
  <2>1. Taken /\ Underway(a)
    BY InvParts
  <2>2. apply[a].id # None => apply[a].id \in Previews /\ apply[a].id # q
    BY <1>7, <2>1 DEF Taken
  <2>3. Steady(a)
    BY <1>3, <1>5, <2>2 DEF Steady
  <2> QED
    BY <1>5, <2>1, <2>3, LeftAlone
<1> QED
  BY <1>6, <1>8, <1>9, <1>10, <1>11, <1>12, InvAgain DEF Approvals

\* Whoever is not among what is kept was expired, or the oldest of enough.
LEMMA Evicted ==
    ASSUME Typed, NEW live \in SUBSET Previews, IsFiniteSet(live),
           NEW kept \in Evict(live)
    PROVE  /\ kept \subseteq live
           /\ \A r \in live \ kept : /\ Cardinality(live) >= MaxPending
                                     /\ \A s \in live : created[r] <= created[s]
                                     /\ kept = live \ {r}
<1>1. CASE Cardinality(live) < MaxPending
  BY <1>1 DEF Evict
<1>2. CASE ~(Cardinality(live) < MaxPending)
  <2>1. PICK r \in OldestAmong(live) : kept = live \ {r}
    BY <1>2 DEF Evict
  <2>2. Cardinality(live) \in Nat /\ MaxPending \in Nat
    BY FS_CardinalityType, ApprovalAssumption
  <2> QED
    BY <1>2, <2>1, <2>2 DEF OldestAmong
<1> QED
  BY <1>1, <1>2

LEMMA StoreKeeps ==
    ASSUME IInv, NEW q \in Previews, StorePending(q)
    PROVE  IInv'
<1>1. /\ files' = files /\ apply' = apply /\ backup' = backup /\ clock' = clock
      /\ mishaps' = mishaps /\ restarted' = restarted /\ slot' = None
      /\ created' = [created EXCEPT ![q] = clock]
      /\ preview' = [preview EXCEPT ![q].stage = "ended"]
      /\ preview[q].stage = "store"
  BY DEF StorePending, applyVars, epoch
<1> DEFINE live == {r \in pending : ~Expired(r)}
<1>2. PICK kept \in Evict(live) : pending' = kept \cup {q}
  BY DEF StorePending
<1>3. Typed /\ Stored /\ Taken
  BY InvParts
<1>4. /\ live \in SUBSET Previews /\ IsFiniteSet(live) /\ live \subseteq IsStored
      /\ live \subseteq pending
  <2>1. live \subseteq pending /\ pending \subseteq IsStored /\ IsStored \subseteq Previews
    BY <1>3 DEF Stored, IsStored
  <2>2. IsFiniteSet(IsStored)
    BY <1>3 DEF Stored
  <2> QED
    BY <2>1, <2>2, FS_Subset
<1>5. /\ kept \subseteq live
      /\ \A r \in live \ kept : /\ Cardinality(live) >= MaxPending
                                /\ \A s \in live : created[r] <= created[s]
                                /\ kept = live \ {r}
  <2> HIDE DEF live
  <2> QED
    BY <1>2, <1>3, <1>4, Evicted
<1>6. /\ preview'[q] = [preview[q] EXCEPT !.stage = "ended"]
      /\ \A r \in Previews : r # q => preview'[r] = preview[r]
      /\ created'[q] = clock /\ \A r \in Previews : r # q => created'[r] = created[r]
  BY <1>1, <1>3, TypedFields
<1>7. preview'[q] \in PreviewRec /\ preview'[q].stage = "ended" /\ preview'[q].result = preview[q].result
  <2>1. preview[q] \in PreviewRec
    BY <1>3, TypedFields
  <2>2. \A old \in PreviewRec :
           LET new == [old EXCEPT !.stage = "ended"]
           IN  new \in PreviewRec /\ new.stage = "ended" /\ new.result = old.result
    BY DEF PreviewRec, PreviewStages
  <2> HIDE DEF live
  <2> QED
    BY <1>6, <2>1, <2>2
<1>8. clock \in 0..MaxTime /\ clock \in Nat /\ clock # None
  BY <1>3, TypedFields, ApprovalAssumption
<1>9. IsStored' = IsStored \cup {q} /\ q \notin IsStored /\ IsStored \subseteq Previews
  <2>1. q \notin IsStored
    BY <1>1, <1>3 DEF Stored
  <2> QED
    BY <1>6, <1>8, <2>1 DEF IsStored
<1>10. Typed'
  <2>1. preview' \in [Previews -> PreviewRec] /\ created' \in [Previews -> 0..MaxTime \cup {None}]
    BY <1>1, <1>3, <1>6, <1>7, <1>8, TypedFields
  <2>2. pending' \in SUBSET Previews
    BY <1>2, <1>4, <1>5
  <2> QED
    BY <1>1, <1>3, <2>1, <2>2, TypedFields, TypedAgain
<1>11. Stored'
  <2>1. \A r \in Previews : IsChange(preview'[r].result)
    BY <1>3, <1>6, <1>7 DEF Stored
  <2>2. \A r \in IsStored' : preview'[r].stage = "ended" /\ created'[r] <= clock'
    BY <1>1, <1>3, <1>6, <1>7, <1>8, <1>9 DEF Stored
  <2>3. pending' \subseteq IsStored'
    BY <1>2, <1>4, <1>5, <1>9
  <2>4. IsFiniteSet(IsStored')
    BY <1>3, <1>9, FS_AddElement DEF Stored
  <2> QED
    BY <2>1, <2>2, <2>3, <2>4 DEF Stored
<1>12. \A a \in Applies : apply[a].id # q
  <2>1. q # None
    BY ApprovalAssumption
  <2> QED
    BY <1>3, <1>9, <2>1 DEF Taken
<1>13. Taken'
  <2>1. \A a \in Applies : apply[a].id # None => apply[a].id \in IsStored' \ pending'
    BY <1>2, <1>3, <1>4, <1>5, <1>9, <1>12 DEF Taken
  <2> QED
    BY <1>1, <1>3, <2>1 DEF Taken
<1>14. ApprovalUsedOnce'
  <2>1. ApprovalUsedOnce
    BY InvParts DEF Approvals
  <2>2. \A a \in Applies : apply[a].id \notin pending'
    BY <1>2, <1>4, <1>5, <1>12, <2>1 DEF ApprovalUsedOnce
  <2> QED
    BY <1>1, <2>1, <2>2 DEF ApprovalUsedOnce
<1>15. EvictedOnlyByNewer'
  <2> DEFINE newer(r) == {s \in Previews \ {r} : created[s] # None /\ created[s] >= created[r]}
             newer2(r) == {s \in Previews \ {r} : created'[s] # None /\ created'[s] >= created'[r]}
  <2>1. EvictedOnlyByNewer
    BY InvParts DEF Approvals
  <2> SUFFICES ASSUME NEW r \in Previews, created'[r] # None, ~restarted,
                      clock < created'[r] + TTL, r \notin pending',
                      \A a \in Applies : apply[a].id # r
               PROVE  Cardinality(newer2(r)) >= MaxPending
    BY <1>1 DEF EvictedOnlyByNewer
  <2>2. r # q /\ created'[r] = created[r] /\ r \in IsStored
    BY <1>2, <1>6 DEF IsStored
  <2>3. \A s \in IsStored : s # q /\ s \in Previews /\ created[s] \in Nat /\ created'[s] = created[s]
    BY <1>3, <1>6, <1>9, TypedFields DEF IsStored
  <2>4. \A s \in IsStored : created[s] <= clock
    BY <1>3 DEF Stored
  <2>5. newer2(r) \subseteq IsStored'
    BY DEF IsStored
  <2>6. IsFiniteSet(newer2(r))
    <3>1. IsFiniteSet(IsStored')
      BY <1>11 DEF Stored
    <3> HIDE DEF newer2
    <3> QED
      BY <2>5, <3>1, FS_Subset
  <2>7. q \in newer2(r)
    BY <1>6, <1>8, <2>2, <2>3, <2>4
  <2>8. MaxPending \in Nat
    BY ApprovalAssumption
  <2>9. CASE r \notin pending
    <3>1. Cardinality(newer(r)) >= MaxPending
      BY <2>1, <2>2, <2>9 DEF EvictedOnlyByNewer, IsStored
    <3>2. newer(r) \subseteq newer2(r)
      BY <2>2, <2>3 DEF IsStored
    <3> HIDE DEF newer, newer2
    <3>3. IsFiniteSet(newer(r)) /\ Cardinality(newer(r)) <= Cardinality(newer2(r))
      BY <2>6, <3>2, FS_Subset
    <3>4. Cardinality(newer(r)) \in Nat /\ Cardinality(newer2(r)) \in Nat
      BY <2>6, <3>3, FS_CardinalityType
    <3> QED
      BY <2>8, <3>1, <3>3, <3>4
  <2>10. CASE r \in pending
    <3>1. r \in live
      BY <2>2, <2>3, <2>10, <1>8, ApprovalAssumption DEF Expired
    <3>2. r \notin kept
      BY <1>2
    <3>3. /\ Cardinality(live) >= MaxPending /\ kept = live \ {r}
          /\ \A s \in live : created[r] <= created[s]
      <4> HIDE DEF live
      <4> QED
        BY <1>5, <3>1, <3>2
    <3> HIDE DEF live
    <3>4. \A s \in live \ {r} : s \in newer2(r)
      BY <1>4, <2>2, <2>3, <3>3 DEF IsStored
    <3> HIDE DEF newer2
    <3>5. q \notin live
      BY <1>4, <1>9
    <3>6. IsFiniteSet(live \ {r}) /\ Cardinality(live \ {r}) = Cardinality(live) - 1
      BY <1>4, <3>1, FS_RemoveElement
    <3>7. /\ IsFiniteSet((live \ {r}) \cup {q})
          /\ Cardinality((live \ {r}) \cup {q}) = Cardinality(live \ {r}) + 1
      BY <3>5, <3>6, FS_AddElement
    <3>8. (live \ {r}) \cup {q} \subseteq newer2(r)
      BY <2>7, <3>4
    <3>9. Cardinality((live \ {r}) \cup {q}) <= Cardinality(newer2(r))
      BY <2>6, <3>8, FS_Subset
    <3>10. Cardinality(live) \in Nat /\ Cardinality(newer2(r)) \in Nat
      BY <1>4, <2>6, FS_CardinalityType
    <3> QED
      BY <2>8, <3>3, <3>6, <3>7, <3>9, <3>10
  <2> QED
    BY <2>9, <2>10
<1>16. Idle'
  BY <1>1, InvParts DEF Idle
<1>17. ASSUME NEW a \in Applies PROVE Underway(a)'
  <2>1. Underway(a)
    BY InvParts
  <2>2. apply[a].id # None => apply[a].id \in Previews
    BY <1>3, <1>9 DEF Taken
  <2>3. Steady(a)
    BY <1>1, <1>6, <1>12, <2>2 DEF Steady
  <2> QED
    BY <1>1, <1>3, <2>1, <2>3, LeftAlone
<1> QED
  BY <1>10, <1>11, <1>13, <1>14, <1>15, <1>16, <1>17, InvAgain DEF Approvals
-----------------------------------------------------------------------------
(* The steps of apply requests: what they have in common.                  *)

Alike == UNCHANGED <<slot, preview, pending, created, clock, restarted>>

\* Request a goes on as `new`: alone, or disturbing whoever is busy.
Goes(a, new) ==
    /\ new \in ApplyRec /\ new.id = apply[a].id
    /\ new.disturbed = apply[a].disturbed /\ new.before = apply[a].before
    /\ new.stage \notin Waiting /\ apply[a].stage \notin Waiting
    /\ new.stage \in InHand => new.left # {}
    /\ new.stage = "restore" => new.done # {}
    /\ \/ files' = files /\ apply' = [apply EXCEPT ![a] = new]
       \/ files' \in Trees /\ apply' = [Disturb(a) EXCEPT ![a] = new]
    /\ backup' \in [Applies -> Trees]
    /\ \A b \in Applies : b # a => backup'[b] = backup[b]
    /\ mishaps' \in 0..MaxMishaps
    /\ Alike

LEMMA DisturbOthers ==
    ASSUME NEW a, Typed
    PROVE  /\ Disturb(a) \in [Applies -> ApplyRec]
           /\ \A b \in Applies : Disturb(a)[b] = IF b # a THEN DisturbedOne(b) ELSE apply[b]
<1>1. Disturb(a) = [b \in Applies |-> IF b # a THEN DisturbedOne(b) ELSE apply[b]]
  BY DEF Disturb, DisturbedOne
<1>2. \A b \in Applies : DisturbedOne(b) \in ApplyRec /\ apply[b] \in ApplyRec
  BY DisturbedFields, TypedFields
<1> QED
  BY <1>1, <1>2

LEMMA GoesFields ==
    ASSUME Typed, NEW a \in Applies, NEW new, Goes(a, new)
    PROVE  /\ apply' \in [Applies -> ApplyRec] /\ apply'[a] = new
           /\ \A b \in Applies : b # a =>
                \/ files' = files /\ apply'[b] = apply[b]
                \/ apply'[b] = DisturbedOne(b)
           /\ files' \in Trees
           /\ Change(a)' = Change(a)
<1>1. CASE files' = files /\ apply' = [apply EXCEPT ![a] = new]
  <2>1. new \in ApplyRec
    BY DEF Goes
  <2> QED
    BY <1>1, <2>1, TypedFields DEF Change, Goes, Alike
<1>2. CASE files' \in Trees /\ apply' = [Disturb(a) EXCEPT ![a] = new]
  <2>1. new \in ApplyRec
    BY DEF Goes
  <2>2. PICK d \in [Applies -> ApplyRec] :
          d = Disturb(a) /\ \A b \in Applies : d[b] = IF b # a THEN DisturbedOne(b) ELSE apply[b]
    BY DisturbOthers
  <2>3. apply' = [d EXCEPT ![a] = new]
    BY <1>2, <2>2
  <2> QED
    BY <1>2, <2>1, <2>2, <2>3 DEF Change, Goes, Alike
<1> QED
  BY <1>1, <1>2 DEF Goes

LEMMA GoesKeeps ==
    ASSUME IInv, NEW a \in Applies, NEW new, Goes(a, new), Underway(a)'
    PROVE  IInv'
<1>1. Typed /\ Approvals /\ Taken /\ Idle
  BY InvParts
<1>2. /\ apply' \in [Applies -> ApplyRec] /\ apply'[a] = new /\ files' \in Trees
      /\ \A b \in Applies : b # a =>
           \/ files' = files /\ apply'[b] = apply[b]
           \/ apply'[b] = DisturbedOne(b)
  BY <1>1, GoesFields
<1>3. /\ slot' = slot /\ preview' = preview /\ pending' = pending /\ created' = created
      /\ clock' = clock /\ restarted' = restarted /\ backup' \in [Applies -> Trees]
      /\ mishaps' \in 0..MaxMishaps
  BY DEF Goes, Alike
<1>4. Typed'
  BY <1>1, <1>2, <1>3, TypedFields, TypedAgain
<1>5. \A b \in Applies : /\ apply'[b].id = apply[b].id
                         /\ apply'[b].stage \in Waiting <=> apply[b].stage \in Waiting
  <2>1. new.id = apply[a].id /\ new.stage \notin Waiting /\ apply[a].stage \notin Waiting
    BY DEF Goes
  <2> QED
    BY <1>1, <1>2, <2>1, DisturbedFields
<1>6. Approvals'
  <2>1. clock \in Int /\ clock' \in Int /\ clock <= clock'
    BY <1>1, <1>3, TypedFields
  <2> QED
    BY <1>1, <1>3, <1>5, <2>1, ApprovalsKept
<1>7. Idle'
  <2> SUFFICES ASSUME NEW b \in Applies, apply'[b].stage = "idle"
               PROVE  backup'[b] = Nothing /\ apply'[b] = NewApply
    BY DEF Idle
  <2>1. b # a
    BY <1>2 DEF Goes, Waiting
  <2>2. apply'[b] = apply[b]
    <3>1. CASE apply'[b] = DisturbedOne(b)
      <4>1. apply[b].stage = "idle"
        BY <1>1, <3>1, DisturbedFields
      <4>2. apply[b].stage \notin Busy \cup {"lost"}
        BY <4>1 DEF Busy
      <4> QED
        BY <1>1, <3>1, <4>2, DisturbedFields
    <3> QED
      BY <1>2, <2>1, <3>1
  <2> QED
    BY <1>1, <2>1, <2>2 DEF Idle, Goes
<1>8. ASSUME NEW b \in Applies PROVE Underway(b)'
  <2>1. CASE b = a
    BY <2>1
  <2>2. CASE b # a
    <3>1. Underway(b)
      BY InvParts
    <3>2. Steady(b)
      BY <1>3, <2>2 DEF Steady, Goes
    <3> QED
      BY <1>1, <1>2, <2>2, <3>1, <3>2, LeftAlone, Disturbance
  <2> QED
    BY <2>1, <2>2
<1> QED
  BY <1>4, <1>6, <1>7, <1>8, InvAgain

\* Somebody disturbed it: nothing more is said of it.
LEMMA GoesDisturbed ==
    ASSUME IInv, NEW a \in Applies, NEW new, Goes(a, new), apply[a].disturbed
    PROVE  IInv'
<1>1. /\ apply'[a].disturbed
      /\ apply'[a].stage \in InHand => apply'[a].left # {}
      /\ apply'[a].stage = "restore" => apply'[a].done # {}
  BY InvParts, GoesFields DEF Goes
<1>2. Underway(a)'
  BY <1>1 DEF Underway
<1> QED
  BY <1>2, GoesKeeps

\* What is known of a request with a stage of its own.
LEMMA ApplyFacts ==
    ASSUME IInv, NEW a \in Applies, apply[a].stage \notin Waiting
    PROVE  /\ apply[a] \in ApplyRec /\ apply[a].id \in Previews
           /\ apply[a].left \in SUBSET Paths /\ apply[a].done \in SUBSET Paths
           /\ apply[a].before \in Trees /\ apply[a].unrestored \in SUBSET Paths
           /\ files \in Trees /\ backup \in [Applies -> Trees] /\ backup[a] \in Trees
           /\ mishaps \in 0..MaxMishaps
           /\ Change(a).original \in Trees /\ Change(a).updated \in Trees
           /\ ChangedFiles(Change(a)) \in SUBSET Paths
           /\ \A p \in ChangedFiles(Change(a)) : /\ Change(a).updated[p] \in Texts
                                                 /\ Change(a).updated[p] # Change(a).original[p]
           /\ \A p \in Paths \ ChangedFiles(Change(a)) : Change(a).original[p] = Absent
<1>1. Typed /\ Taken /\ Stored
  BY InvParts
<1>2. apply[a] \in ApplyRec /\ files \in Trees /\ backup \in [Applies -> Trees] /\ mishaps \in 0..MaxMishaps
  BY <1>1, TypedFields
<1>3. apply[a].id \in Previews
  BY <1>1 DEF Taken, Waiting, IsStored
<1>4. IsChange(Change(a))
  BY <1>1, <1>3 DEF Stored, Change
<1>5. Change(a).original \in Trees /\ Change(a).updated \in Trees
  BY <1>4 DEF IsChange
<1>6. ChangedFiles(Change(a)) \in SUBSET Paths
  BY DEF ChangedFiles
<1>7. /\ apply[a].left \in SUBSET Paths /\ apply[a].done \in SUBSET Paths
      /\ apply[a].before \in Trees /\ apply[a].unrestored \in SUBSET Paths
  BY <1>2 DEF ApplyRec
<1> QED
  BY <1>2, <1>3, <1>4, <1>5, <1>6, <1>7 DEF IsChange

LEMMA FinishedFields ==
    ASSUME NEW a, apply[a] \in ApplyRec, NEW stage \in {"conflict", "applied"}, NEW tree \in Trees
    PROVE  LET new == Finished(a, stage, tree)
           IN  /\ new \in ApplyRec /\ new.id = apply[a].id /\ new.before = apply[a].before
               /\ new.disturbed = apply[a].disturbed /\ new.stage = stage
               /\ new.stage \notin Waiting /\ new.unrestored = apply[a].unrestored
               /\ ~apply[a].disturbed => new.after = tree
<1> DEFINE t == IF apply[a].disturbed THEN Nothing ELSE tree
<1>1. PICK r \in ApplyRec : r = apply[a]
  OBVIOUS
<1>2. t \in Trees
  BY NothingYet
<1>3. Finished(a, stage, tree) = [r EXCEPT !.stage = stage, !.left = {}, !.done = {}, !.after = t]
  BY <1>1 DEF Finished
<1>4. stage \in ApplyStages /\ stage \notin Waiting
  BY DEF ApplyStages, Waiting
<1>5. ~apply[a].disturbed => t = tree
  OBVIOUS
<1> HIDE DEF t
<1> QED
  BY <1>1, <1>2, <1>3, <1>4, <1>5 DEF ApplyRec

\* The stage, the files left and the files done are all that changes.
Turned(a, stage, left, done) ==
    [apply[a] EXCEPT !.stage = stage, !.left = left, !.done = done]

LEMMA TurnedFields ==
    ASSUME NEW a, apply[a] \in ApplyRec, NEW stage \in ApplyStages \ Waiting,
           NEW left \in SUBSET Paths, NEW done \in SUBSET Paths
    PROVE  LET new == Turned(a, stage, left, done)
           IN  /\ new \in ApplyRec /\ new.id = apply[a].id /\ new.before = apply[a].before
               /\ new.disturbed = apply[a].disturbed /\ new.stage = stage
               /\ new.stage \notin Waiting /\ new.left = left /\ new.done = done
               /\ new.after = apply[a].after /\ new.unrestored = apply[a].unrestored
<1>1. PICK r \in ApplyRec : r = apply[a]
  OBVIOUS
<1> QED
  BY <1>1 DEF Turned, ApplyRec

LEMMA TurnedForms ==
    ASSUME NEW a, apply[a] \in ApplyRec, NEW stage, NEW left, NEW done
    PROVE  /\ [apply[a] EXCEPT !.left = left] = Turned(a, apply[a].stage, left, apply[a].done)
           /\ [apply[a] EXCEPT !.done = done] = Turned(a, apply[a].stage, apply[a].left, done)
           /\ [apply[a] EXCEPT !.stage = stage] = Turned(a, stage, apply[a].left, apply[a].done)
           /\ [apply[a] EXCEPT !.stage = stage, !.left = left] = Turned(a, stage, left, apply[a].done)
           /\ [apply[a] EXCEPT !.stage = stage, !.done = done] = Turned(a, stage, apply[a].left, done)
<1>1. PICK r \in ApplyRec : r = apply[a]
  OBVIOUS
<1> QED
  BY <1>1 DEF Turned, ApplyRec

LEMMA MishapType ==
    ASSUME mishaps \in 0..MaxMishaps, Mishap
    PROVE  mishaps' \in 0..MaxMishaps
  BY ApprovalAssumption DEF Mishap
-----------------------------------------------------------------------------
(* The steps of an apply request.                                          *)

LEMMA QuietStep ==
    ASSUME NEW a \in Applies, NEW new \in ApplyRec,
           UNCHANGED <<files, previewVars, backup, epoch>>, Typed, mishaps' \in 0..MaxMishaps,
           apply' = [apply EXCEPT ![a] = new],
           new.id = apply[a].id, new.disturbed = apply[a].disturbed,
           new.before = apply[a].before, new.stage \notin Waiting, apply[a].stage \notin Waiting,
           new.stage \in InHand => new.left # {}, new.stage = "restore" => new.done # {}
    PROVE  Goes(a, new)
  BY TypedFields DEF Goes, Alike, previewVars, epoch

LEMMA VerifyKeeps ==
    ASSUME IInv, NEW a \in Applies, Verify(a)
    PROVE  IInv'
<1> DEFINE p == NextPath(a)
<1>1. apply[a].stage = "verify" /\ apply[a].left # {} /\ apply[a].stage \notin Waiting
  BY DEF Verify, Waiting
<1>2. Typed /\ Underway(a) /\ apply[a] \in ApplyRec /\ files \in Trees
  BY <1>1, InvParts, ApplyFacts
<1>3. p \in apply[a].left /\ apply[a].left \in SUBSET Paths /\ apply[a].done \in SUBSET Paths
  BY <1>1, ApplyFacts, NextAndLast DEF NextPath
<1>4. UNCHANGED <<files, previewVars, backup, epoch>> /\ mishaps' \in 0..MaxMishaps
  BY <1>2, TypedFields DEF Verify
<1> HIDE DEF p
<1>5. CASE /\ files[p] = Change(a).original[p]
           /\ apply' = [apply EXCEPT ![a].left = @ \ {p}]
  <2> DEFINE L == apply[a].left \ {p}
             new == Turned(a, "verify", L, apply[a].done)
  <2>1. apply' = [apply EXCEPT ![a] = new]
    <3>1. apply' = [apply EXCEPT ![a] = [apply[a] EXCEPT !.left = L]]
      BY <1>5
    <3>2. [apply[a] EXCEPT !.left = L] = Turned(a, apply[a].stage, L, apply[a].done)
      BY <1>2, TurnedForms
    <3> QED
      BY <1>1, <3>1, <3>2
  <2>2. "verify" \in ApplyStages \ Waiting
    BY DEF ApplyStages, Busy, Waiting
  <2>3. /\ new \in ApplyRec /\ new.id = apply[a].id /\ new.before = apply[a].before
        /\ new.disturbed = apply[a].disturbed /\ new.stage = "verify"
        /\ new.stage \notin Waiting /\ new.left = L /\ new.done = apply[a].done
    BY <1>2, <1>3, <2>2, TurnedFields
  <2> HIDE DEF new
  <2>4. Goes(a, new)
    BY <1>1, <1>2, <1>4, <2>1, <2>3, QuietStep DEF InHand
  <2>5. apply'[a] = new /\ Change(a)' = Change(a) /\ files' = files /\ backup' = backup
    BY <1>2, <1>4, <2>4, GoesFields
  <2>6. CASE ~apply[a].disturbed
    <3>1. Verifying(a)
      BY <1>1, <1>2, <2>6 DEF Underway
    <3>2. Verifying(a)'
      BY <1>5, <2>3, <2>5, <3>1 DEF Verifying
    <3>3. Underway(a)'
      BY <2>3, <2>5, <3>2 DEF Underway, Halves, InHand, Standing
    <3> QED
      BY <2>4, <3>3, GoesKeeps
  <2> QED
    BY <2>4, <2>6, GoesDisturbed
<1>6. CASE apply' = [apply EXCEPT ![a] = Finished(a, "conflict", files)]
  <2> DEFINE new == Finished(a, "conflict", files)
  <2>1. /\ new \in ApplyRec /\ new.id = apply[a].id /\ new.before = apply[a].before
        /\ new.disturbed = apply[a].disturbed /\ new.stage = "conflict"
        /\ new.stage \notin Waiting /\ (~apply[a].disturbed => new.after = files)
    BY <1>2, FinishedFields
  <2> HIDE DEF new
  <2>2. Goes(a, new)
    <3>1. apply' = [apply EXCEPT ![a] = new]
      BY <1>6 DEF new
    <3> QED
      BY <1>1, <1>2, <1>4, <2>1, <3>1, QuietStep DEF InHand
  <2>3. apply'[a] = new
    BY <1>2, <2>2, GoesFields
  <2>4. CASE ~apply[a].disturbed
    <3>1. files = apply[a].before
      BY <1>1, <1>2, <2>4 DEF Underway, Verifying
    <3>2. Underway(a)'
      BY <2>1, <2>3, <2>4, <3>1 DEF Underway, Halves, InHand, Standing, Back
    <3> QED
      BY <2>2, <3>2, GoesKeeps
  <2> QED
    BY <2>2, <2>4, GoesDisturbed
<1> QED
  BY <1>5, <1>6 DEF Verify, p

LEMMA StageKeeps ==
    ASSUME IInv, NEW a \in Applies, Stage(a)
    PROVE  IInv'
<1>1. apply[a].stage = "verify" /\ apply[a].left = {} /\ apply[a].stage \notin Waiting
  BY DEF Stage, Waiting
<1>2. Typed /\ Underway(a) /\ apply[a] \in ApplyRec /\ files \in Trees
  BY <1>1, InvParts, ApplyFacts
<1>3. apply[a].done \in SUBSET Paths /\ ChangedFiles(Change(a)) \in SUBSET Paths
  BY <1>1, ApplyFacts
<1>4. UNCHANGED <<files, previewVars, backup, epoch>> /\ mishaps' \in 0..MaxMishaps
  BY <1>2, TypedFields, MishapType DEF Stage
<1>5. CASE apply' = [apply EXCEPT ![a].stage = "publish", ![a].left = ChangedFiles(Change(a))]
  <2> DEFINE L == ChangedFiles(Change(a))
             new == Turned(a, "publish", L, apply[a].done)
  <2>1. apply' = [apply EXCEPT ![a] = new]
    <3>1. apply' = [apply EXCEPT ![a] = [apply[a] EXCEPT !.stage = "publish", !.left = L]]
      BY <1>2, <1>5, TypedFields
    <3>2. [apply[a] EXCEPT !.stage = "publish", !.left = L] = Turned(a, "publish", L, apply[a].done)
      BY <1>2, TurnedForms
    <3> QED
      BY <1>1, <3>1, <3>2
  <2>2. "publish" \in ApplyStages \ Waiting
    BY DEF ApplyStages, Busy, Waiting
  <2>3. /\ new \in ApplyRec /\ new.id = apply[a].id /\ new.before = apply[a].before
        /\ new.disturbed = apply[a].disturbed /\ new.stage = "publish"
        /\ new.stage \notin Waiting /\ new.left = L /\ new.done = apply[a].done
    BY <1>2, <1>3, <2>2, TurnedFields
  <2> HIDE DEF new
  <2>4. Goes(a, new)
    BY <1>1, <1>2, <1>4, <2>1, <2>3, QuietStep DEF InHand
  <2>5. apply'[a] = new /\ Change(a)' = Change(a) /\ files' = files /\ backup' = backup
    BY <1>2, <1>4, <2>4, GoesFields
  <2>6. CASE ~apply[a].disturbed
    <3>1. /\ files = apply[a].before /\ backup[a] = Nothing /\ apply[a].done = {}
          /\ \A p \in ChangedFiles(Change(a)) : apply[a].before[p] = Change(a).original[p]
      BY <1>1, <1>2, <2>6 DEF Underway, Verifying
    <3>2. apply[a].unrestored = {}
      BY <1>1, <1>2, <2>6 DEF Underway, Verifying
    <3>3. \A p \in Paths : Nothing[p] = Absent
      BY NothingYet
    <3>4. Halfway(a, new, files, backup[a])
      <4>1. Held(new) = {} /\ new.done = {} /\ new.left = L
        BY <2>3, <3>1 DEF Held, InHand
      <4>2. new.unrestored = {}
        BY <1>2, <1>3, <2>2, <3>2, TurnedFields DEF new
      <4>3. Matches(a, new)
        BY <2>3, <3>1 DEF Matches
      <4> QED
        BY <1>3, <2>3, <3>1, <3>3, <4>1, <4>2, <4>3 DEF Halfway, InHand
    <3>41. Standing(a, apply[a], files, backup[a])'
      BY <2>3, <2>5, <3>4 DEF Standing, Halfway, Held, Matches
    <3>5. Underway(a)'
      BY <2>3, <2>5, <3>41 DEF Underway, InHand
    <3> QED
      BY <2>4, <3>5, GoesKeeps
  <2> QED
    BY <2>4, <2>6, GoesDisturbed
<1>6. CASE apply' = [apply EXCEPT ![a] = Finished(a, "conflict", files)]
  <2> DEFINE new == Finished(a, "conflict", files)
  <2>1. /\ new \in ApplyRec /\ new.id = apply[a].id /\ new.before = apply[a].before
        /\ new.disturbed = apply[a].disturbed /\ new.stage = "conflict"
        /\ new.stage \notin Waiting /\ (~apply[a].disturbed => new.after = files)
    BY <1>2, FinishedFields
  <2> HIDE DEF new
  <2>2. Goes(a, new)
    <3>1. apply' = [apply EXCEPT ![a] = new]
      BY <1>6 DEF new
    <3> QED
      BY <1>1, <1>2, <1>4, <2>1, <3>1, QuietStep DEF InHand
  <2>3. apply'[a] = new
    BY <1>2, <2>2, GoesFields
  <2>4. CASE ~apply[a].disturbed
    <3>1. files = apply[a].before
      BY <1>1, <1>2, <2>4 DEF Underway, Verifying
    <3>2. Underway(a)'
      BY <2>1, <2>3, <2>4, <3>1 DEF Underway, Halves, InHand, Standing, Back
    <3> QED
      BY <2>2, <3>2, GoesKeeps
  <2> QED
    BY <2>2, <2>4, GoesDisturbed
<1> QED
  BY <1>5, <1>6 DEF Stage

\* A step within a half, or to the end of one.
LEMMA HalfStep ==
    ASSUME IInv, NEW a \in Applies, NEW new, Goes(a, new),
           new.stage \in Halves \cup {"discard", "cleanup"},
           ~apply[a].disturbed => Standing(a, new, files', backup'[a])
    PROVE  IInv'
<1>1. apply'[a] = new /\ Change(a)' = Change(a)
  BY InvParts, GoesFields
<1>2. CASE ~apply[a].disturbed
  <2>1. Standing(a, apply[a], files, backup[a])'
    BY <1>1, <1>2 DEF Standing, Halfway, Matches, InPlace
  <2>2. /\ new.stage \in InHand => new.left # {}
        /\ new.stage = "restore" => new.done # {}
    BY DEF Goes
  <2>3. Underway(a)'
    BY <1>1, <2>1, <2>2 DEF Underway, Halves, InHand
  <2> QED
    BY <2>3, GoesKeeps
<1> QED
  BY <1>2, GoesDisturbed

\* The stages a half may turn to.
HalfTo == Halves \cup {"discard", "cleanup"}

\* A step that turns the request to another stage.
Alone(a, new) == files' = files /\ apply' = [apply EXCEPT ![a] = new]
Aloud(a, new) == files' \in Trees /\ apply' = [Disturb(a) EXCEPT ![a] = new]
OwnBackups(a) ==
    backup' \in [Applies -> Trees] /\ \A b \in Applies : b # a => backup'[b] = backup[b]

LEMMA Turning ==
    ASSUME IInv, NEW a \in Applies, apply[a].stage \notin Waiting,
           NEW stage \in ApplyStages \ Waiting, NEW L \in SUBSET Paths, NEW D \in SUBSET Paths,
           UNCHANGED <<previewVars, epoch>>, OwnBackups(a),
           Alone(a, Turned(a, stage, L, D)) \/ Aloud(a, Turned(a, stage, L, D)),
           UNCHANGED mishaps \/ Mishap,
           stage \in InHand => L # {}, stage = "restore" => D # {}
    PROVE  LET new == Turned(a, stage, L, D)
           IN  /\ Goes(a, new) /\ new.stage = stage /\ new.left = L /\ new.done = D
               /\ new.before = apply[a].before /\ new.unrestored = apply[a].unrestored
<1> DEFINE new == Turned(a, stage, L, D)
<1>1. Typed /\ apply[a] \in ApplyRec /\ mishaps \in 0..MaxMishaps
  BY InvParts, ApplyFacts
<1>2. /\ new \in ApplyRec /\ new.id = apply[a].id /\ new.before = apply[a].before
      /\ new.disturbed = apply[a].disturbed /\ new.stage = stage
      /\ new.stage \notin Waiting /\ new.left = L /\ new.done = D
      /\ new.unrestored = apply[a].unrestored
  BY <1>1, TurnedFields
<1> HIDE DEF new
<1>3. mishaps' \in 0..MaxMishaps
  BY <1>1, MishapType
<1>40. Alone(a, new) \/ Aloud(a, new)
  BY DEF new
<1>4. Goes(a, new)
  BY <1>2, <1>3, <1>40 DEF Goes, Alike, Alone, Aloud, OwnBackups, previewVars, epoch
<1> QED
  BY <1>2, <1>4 DEF new

\* Where an undisturbed request is within a half, and what it does to a file.
LEMMA HalfFacts ==
    ASSUME IInv, NEW a \in Applies, apply[a].stage \in Halves
    PROVE  /\ apply[a].stage \notin Waiting /\ apply[a] \in ApplyRec /\ files \in Trees
           /\ backup \in [Applies -> Trees]
           /\ apply[a].left \in SUBSET Paths /\ apply[a].done \in SUBSET Paths
           /\ apply[a].stage \in InHand => apply[a].left # {}
           /\ apply[a].stage = "restore" => apply[a].done # {}
           /\ apply[a].left # {} => NextPath(a) \in apply[a].left
           /\ apply[a].done # {} => LastDone(a) \in apply[a].done
           /\ Halves \cup {"discard", "cleanup"} \subseteq ApplyStages \ Waiting
           /\ ~apply[a].disturbed => Halfway(a, apply[a], files, backup[a])
<1>1. apply[a].stage \notin Waiting
  BY DEF Halves, InHand, Waiting
<1>2. Underway(a)
  BY InvParts
<1>3. apply[a].left # {} => NextPath(a) \in apply[a].left
  BY <1>1, ApplyFacts, NextAndLast DEF NextPath
<1>4. apply[a].done # {} => LastDone(a) \in apply[a].done
  BY <1>1, ApplyFacts, NextAndLast DEF LastDone
<1>5. Halves \cup {"discard", "cleanup"} \subseteq ApplyStages \ Waiting
  BY DEF Halves, InHand, ApplyStages, Busy, Waiting
<1> QED
  BY <1>1, <1>2, <1>3, <1>4, <1>5, ApplyFacts DEF Underway, Standing

LEMMA SetFile ==
    ASSUME files \in Trees, NEW p \in Paths, NEW text \in Content,
           files' = [files EXCEPT ![p] = text]
    PROVE  files' \in Trees /\ files'[p] = text /\ \A q \in Paths : q # p => files'[q] = files[q]
  BY DEF Trees, Content

LEMMA SetBackup ==
    ASSUME backup \in [Applies -> Trees], NEW a \in Applies, NEW p \in Paths, NEW text \in Content,
           backup' = [backup EXCEPT ![a][p] = text]
    PROVE  /\ OwnBackups(a) /\ backup'[a][p] = text
           /\ \A q \in Paths : q # p => backup'[a][q] = backup[a][q]
<1>1. backup[a] \in Trees
  OBVIOUS
<1>2. backup' = [backup EXCEPT ![a] = [backup[a] EXCEPT ![p] = text]]
  OBVIOUS
<1>3. [backup[a] EXCEPT ![p] = text] \in Trees
  BY <1>1 DEF Trees, Content
<1> QED
  BY <1>1, <1>2, <1>3 DEF OwnBackups, Trees

LEMMA SameBackups ==
    ASSUME backup \in [Applies -> Trees], NEW a \in Applies, UNCHANGED backup
    PROVE  OwnBackups(a) /\ backup'[a] = backup[a]
  BY DEF OwnBackups

\* What a file is replaced with is a text or nothing.
LEMMA NextText ==
    ASSUME IInv, NEW a \in Applies, apply[a].stage \notin Waiting, NEW p \in Paths
    PROVE  /\ Change(a).updated[p] \in Content /\ backup[a][p] \in Content
           /\ files[p] \in Content /\ Absent \in Content
  BY ApplyFacts DEF Trees, Content

\* The stage alone changes.
LEMMA StageAloud ==
    ASSUME IInv, NEW a \in Applies, apply[a].stage \in Halves, NEW stage,
           files' \in Trees, apply' = [Disturb(a) EXCEPT ![a].stage = stage]
    PROVE  Aloud(a, Turned(a, stage, apply[a].left, apply[a].done))
<1>1. Typed /\ apply[a] \in ApplyRec
  BY InvParts, HalfFacts
<1>2. PICK d \in [Applies -> ApplyRec] : d = Disturb(a) /\ d[a] = apply[a]
  BY <1>1, DisturbOthers
<1>3. apply' = [d EXCEPT ![a] = [apply[a] EXCEPT !.stage = stage]]
  BY <1>2
<1>4. [apply[a] EXCEPT !.stage = stage] = Turned(a, stage, apply[a].left, apply[a].done)
  BY <1>1, TurnedForms
<1> QED
  BY <1>2, <1>3, <1>4 DEF Aloud

LEMMA StageAlone ==
    ASSUME IInv, NEW a \in Applies, apply[a].stage \in Halves, NEW stage,
           files' = files, apply' = [apply EXCEPT ![a].stage = stage]
    PROVE  Alone(a, Turned(a, stage, apply[a].left, apply[a].done))
<1>1. apply[a] \in ApplyRec /\ apply \in [Applies -> ApplyRec]
  BY InvParts, HalfFacts, TypedFields
<1>2. apply' = [apply EXCEPT ![a] = [apply[a] EXCEPT !.stage = stage]]
  BY <1>1
<1>3. [apply[a] EXCEPT !.stage = stage] = Turned(a, stage, apply[a].left, apply[a].done)
  BY <1>1, TurnedForms
<1> QED
  BY <1>2, <1>3 DEF Alone

LEMMA RollBackKeeps ==
    ASSUME IInv, NEW a \in Applies, apply[a].stage = "publish",
           UNCHANGED <<files, previewVars, backup, epoch>>, UNCHANGED mishaps \/ Mishap,
           apply' = [apply EXCEPT ![a] = RollBack(a)]
    PROVE  IInv'
<1> DEFINE r == apply[a]
           new == Turned(a, "rollback", {}, r.done)
<1>1. r.stage \in Halves /\ "rollback" \in Halves /\ "rollback" \notin InHand
  BY DEF Halves, InHand
<1>2. RollBack(a) = new
  BY <1>1, HalfFacts, TurnedForms DEF RollBack
<1>3. OwnBackups(a) /\ backup'[a] = backup[a]
  BY <1>1, HalfFacts, SameBackups
<1>4. Alone(a, new) /\ UNCHANGED <<previewVars, epoch>>
  BY <1>2 DEF Alone
<1> HIDE DEF new
<1>5. /\ Goes(a, new) /\ new.stage = "rollback" /\ new.left = {} /\ new.done = r.done
      /\ new.before = r.before /\ new.unrestored = r.unrestored
  <2>1. {} \in SUBSET Paths /\ new = Turned(a, "rollback", {}, r.done)
    BY DEF new
  <2>3. UNCHANGED mishaps \/ Mishap
    OBVIOUS
  <2>4. /\ apply[a].stage \notin Waiting /\ HalfTo \subseteq ApplyStages \ Waiting
        /\ apply[a].left \in SUBSET Paths /\ apply[a].done \in SUBSET Paths
    BY <1>1, <1>2, HalfFacts DEF HalfTo
  <2>5. PICK none \in SUBSET Paths : none = {}
    OBVIOUS
  <2>6. /\ "rollback" \in ApplyStages \ Waiting
        /\ "rollback" \in InHand => none # {}
        /\ "rollback" = "restore" => r.done # {}
    BY <1>1, <2>4, <2>5 DEF HalfTo
  <2>7. Alone(a, Turned(a, "rollback", none, r.done)) \/ Aloud(a, Turned(a, "rollback", none, r.done))
    BY <1>1, <1>3, <1>4, <2>1, <2>3, <2>4, <2>5
  <2>8. LET turned == Turned(a, "rollback", none, r.done)
        IN  /\ Goes(a, turned) /\ turned.stage = "rollback" /\ turned.left = none /\ turned.done = r.done
            /\ turned.before = apply[a].before /\ turned.unrestored = apply[a].unrestored
    BY <1>3, <1>4, <2>3, <2>4, <2>6, <2>7, Turning
  <2> QED
    BY <2>8, <2>1, <2>5
<1>6. ~r.disturbed => Standing(a, new, files', backup'[a])
  <2> SUFFICES ASSUME ~r.disturbed PROVE Halfway(a, new, files, backup[a])
    BY <1>3, <1>5 DEF Standing
  <2>1. Halfway(a, r, files, backup[a]) /\ Held(r) = {} /\ Held(new) = {}
    BY <1>1, <1>5, HalfFacts DEF Held, InHand
  <2> QED
    BY <1>5, <2>1 DEF Halfway, Matches, InHand
<1> QED
  BY <1>1, <1>5, <1>6, HalfStep

\* The file in hand is published: it has its new text by now.
LEMMA PublishedKeeps ==
    ASSUME IInv, NEW a \in Applies, apply[a].stage \in {"linked", "swap"},
           UNCHANGED <<backup, previewVars, epoch>>, UNCHANGED mishaps \/ Mishap,
           Alone(a, Published(a, NextPath(a))) \/ Aloud(a, Published(a, NextPath(a))),
           \A q \in Paths : q # NextPath(a) => files'[q] = files[q],
           ~apply[a].disturbed => files'[NextPath(a)] = Change(a).updated[NextPath(a)]
    PROVE  IInv'
<1> DEFINE p == NextPath(a)
           r == apply[a]
           L == r.left \ {p}
           D == r.done \cup {p}
           new == Turned(a, "publish", L, D)
<1>1. r.stage \in Halves /\ r.stage \in InHand /\ "publish" \in Halves \ InHand
  BY DEF Halves, InHand
<1>2. p \in r.left /\ p \in Paths /\ L \in SUBSET Paths /\ D \in SUBSET Paths
  BY <1>1, HalfFacts
<1>3. OwnBackups(a) /\ backup'[a] = backup[a]
  BY <1>1, HalfFacts, SameBackups
<1>4. Published(a, p) = new
  BY DEF Published, Turned
<1> HIDE DEF L, D
<1>5. /\ Goes(a, new) /\ new.stage = "publish" /\ new.left = L /\ new.done = D
      /\ new.before = r.before /\ new.unrestored = r.unrestored
  <2>1. Alone(a, new) \/ Aloud(a, new)
    BY <1>4
  <2> HIDE DEF new
  <2>2. new = Turned(a, "publish", L, D) /\ UNCHANGED <<previewVars, epoch>>
    BY DEF new
  <2>3. UNCHANGED mishaps \/ Mishap
    OBVIOUS
  <2>4. /\ apply[a].stage \notin Waiting /\ HalfTo \subseteq ApplyStages \ Waiting
        /\ apply[a].left \in SUBSET Paths /\ apply[a].done \in SUBSET Paths
    BY <1>1, <1>2, HalfFacts DEF HalfTo
  <2>6. /\ "publish" \in ApplyStages \ Waiting
        /\ "publish" \in InHand => L # {}
        /\ "publish" = "restore" => D # {}
    BY <1>1, <2>4 DEF HalfTo
  <2>7. Alone(a, Turned(a, "publish", L, D)) \/ Aloud(a, Turned(a, "publish", L, D))
    BY <1>1, <1>2, <1>3, <2>1, <2>2, <2>3, <2>4
  <2>8. LET turned == Turned(a, "publish", L, D)
        IN  /\ Goes(a, turned) /\ turned.stage = "publish" /\ turned.left = L /\ turned.done = D
            /\ turned.before = apply[a].before /\ turned.unrestored = apply[a].unrestored
    BY <1>1, <1>2, <1>3, <2>1, <2>2, <2>3, <2>4, <2>6, <2>7, Turning
  <2> QED
    BY <2>8, <2>1, <2>2
<1> HIDE DEF new
<1>6. ~r.disturbed => Standing(a, new, files', backup'[a])
  <2> SUFFICES ASSUME ~r.disturbed PROVE Halfway(a, new, files', backup[a])
    BY <1>3, <1>5 DEF Standing
  <2>1. Halfway(a, r, files, backup[a]) /\ Held(r) = {p} /\ Held(new) = {}
    BY <1>1, <1>5, HalfFacts DEF Held, InHand, NextPath
  <2>2. r.left = ChangedFiles(Change(a)) \ r.done /\ p \in ChangedFiles(Change(a)) /\ p \notin r.done
    BY <1>1, <1>2, <2>1 DEF Halfway
  <2>3. L = ChangedFiles(Change(a)) \ D /\ D \subseteq ChangedFiles(Change(a))
    BY <2>1, <2>2 DEF L, D, Halfway
  <2> HIDE DEF p, r
  <2>4. \A q \in Paths \ new.unrestored :
          IF q \in new.done \cup Held(new) THEN backup[a][q] = new.before[q]
          ELSE files'[q] = new.before[q] /\ backup[a][q] = Absent
    BY <1>5, <2>1, <2>2 DEF Halfway, D, p
  <2>5. \A q \in new.done : files'[q] = Change(a).updated[q]
    <3>1. \A q \in r.done : files[q] = Change(a).updated[q] /\ q \in Paths
      BY <1>1, <2>1 DEF Halfway, ChangedFiles, r
    <3> QED
      BY <1>5, <2>2, <3>1 DEF D, p, r
  <2> QED
    BY <1>5, <2>1, <2>3, <2>4, <2>5 DEF Halfway, Matches
<1> QED
  BY <1>1, <1>5, <1>6, HalfStep

\* The second step of a publication failed: the file is still in hand.
LEMMA HeldKeeps ==
    ASSUME IInv, NEW a \in Applies, apply[a].stage \in {"linked", "swap"}, Mishap,
           UNCHANGED <<files, backup, previewVars, epoch>>,
           Alone(a, Turned(a, "undo", apply[a].left, apply[a].done))
    PROVE  IInv'
<1> DEFINE r == apply[a]
           new == Turned(a, "undo", r.left, r.done)
<1>1. r.stage \in Halves /\ r.stage \in InHand /\ "undo" \in Halves \cap InHand
  BY DEF Halves, InHand
<1>2. OwnBackups(a) /\ backup'[a] = backup[a] /\ UNCHANGED <<previewVars, epoch>>
  BY <1>1, HalfFacts, SameBackups
<1> HIDE DEF new
<1>3. /\ Goes(a, new) /\ new.stage = "undo" /\ new.left = r.left /\ new.done = r.done
      /\ new.before = r.before /\ new.unrestored = r.unrestored
  <2>1. new = Turned(a, "undo", r.left, r.done) /\ Alone(a, new)
    BY DEF new
  <2>3. UNCHANGED mishaps \/ Mishap
    OBVIOUS
  <2>4. /\ apply[a].stage \notin Waiting /\ HalfTo \subseteq ApplyStages \ Waiting
        /\ apply[a].left \in SUBSET Paths /\ apply[a].done \in SUBSET Paths
    BY <1>1, <1>2, HalfFacts DEF HalfTo
  <2>6. /\ "undo" \in ApplyStages \ Waiting
        /\ "undo" \in InHand => r.left # {}
        /\ "undo" = "restore" => r.done # {}
    BY <1>1, HalfFacts, <2>4 DEF HalfTo
  <2>7. Alone(a, Turned(a, "undo", r.left, r.done)) \/ Aloud(a, Turned(a, "undo", r.left, r.done))
    BY <1>1, <1>2, <2>1, <2>3, <2>4
  <2>8. LET turned == Turned(a, "undo", r.left, r.done)
        IN  /\ Goes(a, turned) /\ turned.stage = "undo" /\ turned.left = r.left /\ turned.done = r.done
            /\ turned.before = apply[a].before /\ turned.unrestored = apply[a].unrestored
    BY <1>1, <1>2, <2>1, <2>3, <2>4, <2>6, <2>7, Turning
  <2> QED
    BY <2>8, <2>1
<1>4. ~r.disturbed => Standing(a, new, files', backup'[a])
  <2> SUFFICES ASSUME ~r.disturbed PROVE Halfway(a, new, files, backup[a])
    BY <1>2, <1>3 DEF Standing
  <2>1. Halfway(a, r, files, backup[a]) /\ Held(r) = Held(new)
    BY <1>1, <1>3, HalfFacts DEF Held
  <2> QED
    BY <1>1, <1>3, <2>1 DEF Halfway, Matches
<1> QED
  BY <1>1, <1>3, <1>4, HalfStep

LEMMA CreateFileKeeps ==
    ASSUME IInv, NEW a \in Applies, CreateFile(a)
    PROVE  IInv'
<1> DEFINE p == NextPath(a)
           c == Change(a)
           r == apply[a]
           new == Turned(a, "linked", r.left, r.done)
<1>1. /\ r.stage = "publish" /\ r.left # {} /\ UNCHANGED <<previewVars, backup, epoch>>
      /\ r.stage \in Halves /\ "linked" \in Halves \cap InHand
  BY DEF CreateFile, Halves, InHand
<1>2. p \in r.left /\ p \in Paths /\ OwnBackups(a) /\ backup'[a] = backup[a]
  BY <1>1, HalfFacts, SameBackups
<1>3. CASE apply' = [apply EXCEPT ![a] = RollBack(a)] /\ UNCHANGED files
           /\ (UNCHANGED mishaps \/ Mishap)
  BY <1>1, <1>3, RollBackKeeps
<1>4. CASE /\ files[p] = Absent
           /\ files' = [files EXCEPT ![p] = c.updated[p]]
           /\ apply' = [Disturb(a) EXCEPT ![a].stage = "linked"]
           /\ UNCHANGED mishaps
  <2>1. files' \in Trees /\ files'[p] = c.updated[p] /\ \A q \in Paths : q # p => files'[q] = files[q]
    <3>1. files \in Trees /\ c.updated[p] \in Content
      BY <1>1, <1>2, HalfFacts, NextText
    <3> QED
      BY <1>2, <1>4, <3>1, SetFile
  <2>2. Aloud(a, new)
    BY <1>1, <1>4, <2>1, StageAloud
  <2>3. /\ Goes(a, new) /\ new.stage = "linked" /\ new.left = r.left /\ new.done = r.done
        /\ new.before = r.before /\ new.unrestored = r.unrestored
    <3> HIDE DEF new
    <3>1. new = Turned(a, "linked", r.left, r.done) /\ UNCHANGED <<previewVars, epoch>>
      BY <1>1 DEF new
    <3>3. UNCHANGED mishaps \/ Mishap
      BY <1>4
    <3>4. /\ apply[a].stage \notin Waiting /\ HalfTo \subseteq ApplyStages \ Waiting
          /\ apply[a].left \in SUBSET Paths /\ apply[a].done \in SUBSET Paths
      BY <1>1, <1>2, HalfFacts DEF HalfTo
    <3> QED
      BY <1>1, <1>2, <1>4, <2>2, <3>1, <3>3, <3>4, Turning DEF InHand, HalfTo
  <2> HIDE DEF new
  <2>4. ~r.disturbed => Standing(a, new, files', backup'[a])
    <3> SUFFICES ASSUME ~r.disturbed PROVE Halfway(a, new, files', backup[a])
      BY <1>2, <2>3 DEF Standing
    <3>1. Halfway(a, r, files, backup[a]) /\ Held(r) = {}
      BY <1>1, HalfFacts DEF Held, InHand
    <3>2. Held(new) = {p}
      BY <1>1, <2>3 DEF Held, NextPath
    <3>3. Matches(a, r) /\ r.left = ChangedFiles(c) \ r.done /\ p \in ChangedFiles(c) /\ p \notin r.done
      BY <1>1, <1>2, <3>1 DEF Halfway
    <3>4. r.before[p] = Absent /\ (p \notin r.unrestored => backup[a][p] = Absent)
      <4>1. Created(c, p) /\ r.before[p] = c.original[p]
        BY <3>3 DEF CreateFile, Matches
      <4> HIDE DEF p
      <4> QED
        BY <1>2, <3>1, <3>3, <4>1 DEF Halfway, Created
    <3> HIDE DEF p, r, c
    <3>5. \A q \in Paths \ new.unrestored :
            IF q \in new.done \cup Held(new) THEN backup[a][q] = new.before[q]
            ELSE files'[q] = new.before[q] /\ backup[a][q] = Absent
      BY <2>1, <2>3, <3>1, <3>2, <3>3, <3>4 DEF Halfway
    <3>6. \A q \in new.done \cup Held(new) : files'[q] = Change(a).updated[q]
      <4>1. \A q \in r.done : files[q] = Change(a).updated[q] /\ q \in Paths
        BY <1>1, <3>1 DEF Halfway, ChangedFiles, r
      <4>2. files'[p] = Change(a).updated[p]
        BY <2>1 DEF c
      <4> QED
        BY <2>1, <2>3, <3>2, <3>3, <4>1, <4>2
    <3> QED
      BY <1>1, <2>3, <3>1, <3>3, <3>5, <3>6 DEF Halfway, Matches, r, c
  <2> QED
    BY <1>1, <2>3, <2>4, HalfStep
<1> QED
  BY <1>3, <1>4 DEF CreateFile

LEMMA FinalizeKeeps ==
    ASSUME IInv, NEW a \in Applies, Finalize(a)
    PROVE  IInv'
<1>1. apply[a].stage = "linked" /\ apply[a].stage \in Halves
      /\ UNCHANGED <<files, backup, previewVars, epoch>>
  BY DEF Finalize, Halves, InHand
<1>2. CASE apply' = [apply EXCEPT ![a] = Published(a, NextPath(a))] /\ UNCHANGED mishaps
  <2>1. ~apply[a].disturbed => \A p \in Held(apply[a]) : files[p] = Change(a).updated[p]
    BY <1>1, HalfFacts DEF Halfway
  <2>2. ~apply[a].disturbed => files[NextPath(a)] = Change(a).updated[NextPath(a)]
    BY <1>1, <2>1 DEF Held, InHand, NextPath
  <2>3. Alone(a, Published(a, NextPath(a)))
    BY <1>1, <1>2 DEF Alone
  <2> QED
    BY <1>1, <1>2, <2>2, <2>3, PublishedKeeps
<1>3. CASE Mishap /\ apply' = [apply EXCEPT ![a].stage = "undo"]
  <2>1. Alone(a, Turned(a, "undo", apply[a].left, apply[a].done))
    BY <1>1, <1>3, StageAlone
  <2> QED
    BY <1>1, <1>3, <2>1, HeldKeeps
<1> QED
  BY <1>2, <1>3 DEF Finalize

LEMMA BackUpKeeps ==
    ASSUME IInv, NEW a \in Applies, BackUp(a)
    PROVE  IInv'
<1> DEFINE p == NextPath(a)
           r == apply[a]
           new == Turned(a, "swap", r.left, r.done)
<1>1. /\ r.stage = "publish" /\ r.left # {} /\ UNCHANGED <<previewVars, epoch>>
      /\ r.stage \in Halves /\ "swap" \in Halves \cap InHand
  BY DEF BackUp, Halves, InHand
<1>2. p \in r.left /\ p \in Paths
  BY <1>1, HalfFacts
<1>3. CASE apply' = [apply EXCEPT ![a] = RollBack(a)] /\ UNCHANGED <<files, backup>>
           /\ (UNCHANGED mishaps \/ Mishap)
  BY <1>1, <1>3, RollBackKeeps
<1>4. CASE /\ backup' = [backup EXCEPT ![a][p] = files[p]]
           /\ files' = [files EXCEPT ![p] = Absent]
           /\ apply' = [Disturb(a) EXCEPT ![a].stage = "swap"]
           /\ UNCHANGED mishaps
  <2>1. files' \in Trees /\ files'[p] = Absent /\ \A q \in Paths : q # p => files'[q] = files[q]
    <3>1. files \in Trees /\ Absent \in Content
      BY <1>1, HalfFacts DEF Content
    <3> QED
      BY <1>2, <1>4, <3>1, SetFile
  <2>2. OwnBackups(a) /\ backup'[a][p] = files[p] /\ \A q \in Paths : q # p => backup'[a][q] = backup[a][q]
    <3>1. backup \in [Applies -> Trees] /\ files[p] \in Content
      BY <1>1, <1>2, HalfFacts, NextText
    <3> QED
      BY <1>2, <1>4, <3>1, SetBackup
  <2>3. Aloud(a, new)
    BY <1>1, <1>4, <2>1, StageAloud
  <2>4. /\ Goes(a, new) /\ new.stage = "swap" /\ new.left = r.left /\ new.done = r.done
        /\ new.before = r.before /\ new.unrestored = r.unrestored
    <3> HIDE DEF new
    <3>1. new = Turned(a, "swap", r.left, r.done) /\ UNCHANGED <<previewVars, epoch>>
      BY <1>1 DEF new
    <3>3. UNCHANGED mishaps \/ Mishap
      BY <1>4
    <3>4. /\ apply[a].stage \notin Waiting /\ HalfTo \subseteq ApplyStages \ Waiting
          /\ apply[a].left \in SUBSET Paths /\ apply[a].done \in SUBSET Paths
      BY <1>1, <1>2, HalfFacts DEF HalfTo
    <3>6. /\ "swap" \in ApplyStages \ Waiting
          /\ "swap" \in InHand => r.left # {}
          /\ "swap" = "restore" => r.done # {}
      BY <1>1, <3>4 DEF HalfTo
    <3>7. Alone(a, Turned(a, "swap", r.left, r.done)) \/ Aloud(a, Turned(a, "swap", r.left, r.done))
      BY <1>1, <1>4, <2>2, <2>3, <3>1, <3>3, <3>4
    <3>8. LET turned == Turned(a, "swap", r.left, r.done)
          IN  /\ Goes(a, turned) /\ turned.stage = "swap" /\ turned.left = r.left /\ turned.done = r.done
              /\ turned.before = apply[a].before /\ turned.unrestored = apply[a].unrestored
      BY <1>1, <1>4, <2>2, <2>3, <3>1, <3>3, <3>4, <3>6, <3>7, Turning
    <3> QED
      BY <3>8, <2>1, <3>1
  <2> HIDE DEF new
  <2>5. ~r.disturbed => Standing(a, new, files', backup'[a])
    <3> SUFFICES ASSUME ~r.disturbed PROVE Halfway(a, new, files', backup'[a])
      BY <2>4 DEF Standing
    <3>1. Halfway(a, r, files, backup[a]) /\ Held(r) = {}
      BY <1>1, HalfFacts DEF Held, InHand
    <3>2. Held(new) = {p}
      BY <1>1, <2>4 DEF Held, NextPath
    <3>3. p \notin r.done
      BY <1>1, <1>2, <3>1 DEF Halfway
    <3> HIDE DEF p, r
    <3>4. \A q \in Paths \ new.unrestored :
            IF q \in new.done \cup Held(new) THEN backup'[a][q] = new.before[q]
            ELSE files'[q] = new.before[q] /\ backup'[a][q] = Absent
      BY <2>1, <2>2, <2>4, <3>1, <3>2, <3>3 DEF Halfway
    <3>5. \A q \in new.done : files'[q] = Change(a).updated[q]
      <4>1. \A q \in r.done : files[q] = Change(a).updated[q] /\ q \in Paths
        BY <1>1, <3>1 DEF Halfway, ChangedFiles
      <4> QED
        BY <2>1, <2>4, <3>3, <4>1
    <3> QED
      BY <1>1, <2>4, <3>1, <3>4, <3>5 DEF Halfway, Matches
  <2> QED
    BY <1>1, <2>4, <2>5, HalfStep
<1> QED
  BY <1>3, <1>4 DEF BackUp

LEMMA SwapKeeps ==
    ASSUME IInv, NEW a \in Applies, Swap(a)
    PROVE  IInv'
<1> DEFINE p == NextPath(a)
<1>1. apply[a].stage = "swap" /\ apply[a].stage \in Halves /\ apply[a].stage \in InHand
      /\ UNCHANGED <<backup, previewVars, epoch>>
  BY DEF Swap, Halves, InHand
<1>2. p \in Paths
  BY <1>1, HalfFacts
<1>3. CASE /\ files' = [files EXCEPT ![p] = Change(a).updated[p]]
           /\ apply' = [Disturb(a) EXCEPT ![a] = Published(a, p)]
           /\ UNCHANGED mishaps
  <2>1. /\ files' \in Trees /\ files'[p] = Change(a).updated[p]
        /\ \A q \in Paths : q # p => files'[q] = files[q]
    <3>1. files \in Trees /\ Change(a).updated[p] \in Content
      BY <1>1, <1>2, HalfFacts, NextText
    <3> QED
      BY <1>2, <1>3, <3>1, SetFile
  <2>2. Aloud(a, Published(a, p))
    BY <1>3, <2>1 DEF Aloud
  <2> QED
    BY <1>1, <1>3, <2>1, <2>2, PublishedKeeps
<1>4. CASE Mishap /\ apply' = [apply EXCEPT ![a].stage = "undo"] /\ UNCHANGED files
  <2>1. Alone(a, Turned(a, "undo", apply[a].left, apply[a].done))
    BY <1>1, <1>4, StageAlone
  <2> QED
    BY <1>1, <1>4, <2>1, HeldKeeps
<1> QED
  BY <1>3, <1>4 DEF Swap

\* A file is put back, or cannot be; the request goes on with the rollback.
LEMMA PutBackKeeps ==
    ASSUME IInv, NEW a \in Applies, apply[a].stage \in Halves, NEW p \in Paths,
           NEW L \in SUBSET Paths, NEW D \in SUBSET Paths, UNCHANGED <<previewVars, epoch>>,
           NEW onwards, onwards = Turned(a, "rollback", L, D), PutBack(a, p, onwards),
           ~apply[a].disturbed => /\ p \in ChangedFiles(Change(a)) \ D
                                  /\ D \subseteq apply[a].done
                                  /\ D \cup {p} = apply[a].done \cup Held(apply[a])
    PROVE  IInv'
<1> DEFINE r == apply[a]
<1>1. "rollback" \in Halves \ InHand
  BY DEF Halves, InHand
<1>2. /\ r.stage \notin Waiting /\ r \in ApplyRec /\ files \in Trees
      /\ backup \in [Applies -> Trees] /\ mishaps \in 0..MaxMishaps
      /\ backup[a][p] \in Content /\ Absent \in Content
      /\ "rollback" \in ApplyStages \ Waiting
  BY <1>1, HalfFacts, ApplyFacts, NextText
<1>3. ASSUME ~r.disturbed
      PROVE  /\ Halfway(a, r, files, backup[a])
             /\ \A q \in Paths \ r.unrestored :
                  IF q \in D \cup {p} THEN backup[a][q] = r.before[q]
                  ELSE files[q] = r.before[q] /\ backup[a][q] = Absent
             /\ D \subseteq ChangedFiles(Change(a)) /\ p \in ChangedFiles(Change(a)) \ D
  BY <1>3, HalfFacts DEF Halfway
<1>4. CASE /\ files' = [files EXCEPT ![p] = backup[a][p]]
           /\ backup' = [backup EXCEPT ![a][p] = Absent]
           /\ apply' = [Disturb(a) EXCEPT ![a] = onwards]
           /\ UNCHANGED mishaps
  <2>1. /\ files' \in Trees /\ files'[p] = backup[a][p]
        /\ \A q \in Paths : q # p => files'[q] = files[q]
    BY <1>2, <1>4, SetFile
  <2>2. /\ OwnBackups(a) /\ backup'[a][p] = Absent
        /\ \A q \in Paths : q # p => backup'[a][q] = backup[a][q]
    BY <1>2, <1>4, SetBackup
  <2>3. Aloud(a, onwards)
    BY <1>4, <2>1 DEF Aloud
  <2>4. /\ Goes(a, onwards) /\ onwards.stage = "rollback" /\ onwards.left = L
        /\ onwards.done = D /\ onwards.before = r.before /\ onwards.unrestored = r.unrestored
    <3>1. UNCHANGED mishaps \/ Mishap
      BY <1>4
    <3>2. r.stage \notin Waiting /\ "rollback" \in ApplyStages \ Waiting /\ "rollback" \notin InHand
      BY <1>1, <1>2
    <3>3. Aloud(a, Turned(a, "rollback", L, D))
      BY <2>3
    <3>4. LET new == Turned(a, "rollback", L, D)
          IN  /\ Goes(a, new) /\ new.stage = "rollback" /\ new.left = L /\ new.done = D
              /\ new.before = apply[a].before /\ new.unrestored = apply[a].unrestored
      BY <2>2, <3>1, <3>2, <3>3, Turning
    <3> QED
      BY <3>4
  <2>5. ~r.disturbed => Standing(a, onwards, files', backup'[a])
    <3> SUFFICES ASSUME ~r.disturbed PROVE Halfway(a, onwards, files', backup'[a])
      BY <2>4 DEF Standing
    <3>1. Held(onwards) = {}
      BY <1>1, <2>4 DEF Held
    <3>2. Matches(a, onwards) /\ onwards.unrestored \subseteq ChangedFiles(Change(a))
      BY <1>3, <2>4 DEF Halfway, Matches
    <3> HIDE DEF r
    <3>3. \A q \in Paths \ onwards.unrestored :
            IF q \in onwards.done \cup Held(onwards) THEN backup'[a][q] = onwards.before[q]
            ELSE files'[q] = onwards.before[q] /\ backup'[a][q] = Absent
      BY <1>3, <2>1, <2>2, <2>4, <3>1
    <3> QED
      BY <1>1, <1>3, <2>4, <3>2, <3>3 DEF Halfway, InHand
  <2> QED
    BY <1>1, <2>4, <2>5, HalfStep
<1>5. CASE /\ Mishap
           /\ apply' = [apply EXCEPT ![a] = [onwards EXCEPT !.unrestored = @ \cup {p}]]
           /\ UNCHANGED <<files, backup>>
  <2> DEFINE U == r.unrestored \cup {p}
             new == [onwards EXCEPT !.unrestored = U]
  <2>1. /\ onwards \in ApplyRec /\ onwards.id = r.id /\ onwards.before = r.before
        /\ onwards.disturbed = r.disturbed /\ onwards.stage = "rollback"
        /\ onwards.left = L /\ onwards.done = D /\ onwards.unrestored = r.unrestored
    BY <1>2, TurnedFields
  <2>2. U \in SUBSET Paths
    BY <1>2, ApplyFacts
  <2>3. apply' = [apply EXCEPT ![a] = new]
    BY <1>5, <2>1
  <2> HIDE DEF U
  <2>4. /\ new \in ApplyRec /\ new.id = r.id /\ new.before = r.before
        /\ new.disturbed = r.disturbed /\ new.stage = "rollback"
        /\ new.left = L /\ new.done = D /\ new.unrestored = U
    BY <2>1, <2>2 DEF ApplyRec
  <2> HIDE DEF new
  <2>5. OwnBackups(a) /\ backup'[a] = backup[a] /\ files' = files
    BY <1>2, <1>5, SameBackups
  <2>6. Goes(a, new)
    <3>1. mishaps' \in 0..MaxMishaps
      BY <1>2, <1>5, MishapType
    <3> QED
      BY <1>1, <1>2, <2>3, <2>4, <2>5, <3>1 DEF Goes, Alike, OwnBackups, previewVars, epoch
  <2>7. ~r.disturbed => Standing(a, new, files', backup'[a])
    <3> SUFFICES ASSUME ~r.disturbed PROVE Halfway(a, new, files, backup[a])
      BY <2>4, <2>5 DEF Standing
    <3>1. Held(new) = {}
      BY <1>1, <2>4 DEF Held
    <3>2. Matches(a, new) /\ U \subseteq ChangedFiles(Change(a))
      BY <1>3, <2>4 DEF Halfway, Matches, U
    <3> HIDE DEF r
    <3>3. \A q \in Paths \ new.unrestored :
            IF q \in new.done \cup Held(new) THEN backup[a][q] = new.before[q]
            ELSE files[q] = new.before[q] /\ backup[a][q] = Absent
      BY <1>3, <2>4, <3>1 DEF U
    <3> QED
      BY <1>1, <1>3, <2>4, <3>2, <3>3 DEF Halfway, InHand
  <2> QED
    BY <1>1, <2>4, <2>6, <2>7, HalfStep
<1> QED
  BY <1>4, <1>5 DEF PutBack

LEMMA UndoKeeps ==
    ASSUME IInv, NEW a \in Applies, Undo(a)
    PROVE  IInv'
<1> DEFINE p == NextPath(a)
           onwards == Turned(a, "rollback", {}, apply[a].done)
<1>1. /\ apply[a].stage = "undo" /\ apply[a].stage \in Halves /\ apply[a].stage \in InHand
      /\ UNCHANGED <<previewVars, epoch>> /\ PutBack(a, p, RollBack(a))
  BY DEF Undo, Halves, InHand
<1>2. p \in apply[a].left /\ p \in Paths /\ apply[a].done \in SUBSET Paths /\ {} \in SUBSET Paths
  BY <1>1, HalfFacts
<1>3. RollBack(a) = onwards
  BY <1>1, HalfFacts, TurnedForms DEF RollBack
<1>4. Held(apply[a]) = {p}
  BY <1>1 DEF Held, NextPath
<1>5. ~apply[a].disturbed => p \in ChangedFiles(Change(a)) \ apply[a].done
  BY <1>1, <1>2, HalfFacts DEF Halfway
<1> HIDE DEF onwards, p
<1>6. PutBack(a, p, onwards) /\ onwards = Turned(a, "rollback", {}, apply[a].done)
  BY <1>1, <1>3 DEF onwards
<1> QED
  BY <1>1, <1>2, <1>4, <1>5, <1>6, PutBackKeeps

\* The last file that is published goes first.
LEMMA UndoneKeeps ==
    ASSUME IInv, NEW a \in Applies, apply[a].stage \in {"rollback", "restore"},
           apply[a].done # {}, UNCHANGED <<previewVars, epoch>>,
           PutBack(a, LastDone(a), Undone(a))
    PROVE  IInv'
<1> DEFINE p == LastDone(a)
           D == apply[a].done \ {p}
           onwards == Turned(a, "rollback", apply[a].left, D)
<1>1. apply[a].stage \in Halves /\ apply[a].stage \notin InHand
  BY DEF Halves, InHand
<1>2. p \in apply[a].done /\ p \in Paths /\ D \in SUBSET Paths /\ apply[a].left \in SUBSET Paths
  BY <1>1, HalfFacts
<1>3. Undone(a) = onwards
  <2>1. apply[a] \in ApplyRec
    BY <1>1, HalfFacts
  <2>2. PICK r \in ApplyRec : r = apply[a]
    BY <2>1
  <2>3. Undone(a) = [r EXCEPT !.stage = "rollback", !.done = D]
    BY <2>2 DEF Undone
  <2>4. onwards = [r EXCEPT !.stage = "rollback", !.left = r.left, !.done = D]
    BY <2>2 DEF Turned
  <2> HIDE DEF D, onwards
  <2> QED
    BY <2>3, <2>4 DEF ApplyRec
<1>4. Held(apply[a]) = {}
  BY <1>1 DEF Held
<1>5. ~apply[a].disturbed => /\ p \in ChangedFiles(Change(a)) \ D
                             /\ D \subseteq apply[a].done
                             /\ D \cup {p} = apply[a].done \cup Held(apply[a])
  <2>1. ~apply[a].disturbed => apply[a].done \subseteq ChangedFiles(Change(a))
    BY <1>1, HalfFacts DEF Halfway
  <2> QED
    BY <1>2, <1>4, <2>1
<1> HIDE DEF onwards, p, D
<1>6. PutBack(a, p, onwards) /\ onwards = Turned(a, "rollback", apply[a].left, D)
  BY <1>3 DEF onwards, p
<1> QED
  BY <1>1, <1>2, <1>5, <1>6, PutBackKeeps

LEMMA UnlinkCreatedKeeps ==
    ASSUME IInv, NEW a \in Applies, UnlinkCreated(a)
    PROVE  IInv'
  BY UndoneKeeps DEF UnlinkCreated

LEMMA RenameBackKeeps ==
    ASSUME IInv, NEW a \in Applies, RenameBack(a)
    PROVE  IInv'
<1>1. apply[a].stage = "restore" /\ apply[a].stage \in Halves
  BY DEF RenameBack, Halves
<1>2. apply[a].done # {}
  BY <1>1, HalfFacts
<1> QED
  BY <1>1, <1>2, UndoneKeeps DEF RenameBack

LEMMA UnlinkReplacedKeeps ==
    ASSUME IInv, NEW a \in Applies, UnlinkReplaced(a)
    PROVE  IInv'
<1> DEFINE p == LastDone(a)
           r == apply[a]
           new == Turned(a, "restore", r.left, r.done)
<1>1. /\ r.stage = "rollback" /\ r.done # {} /\ UNCHANGED <<backup, previewVars, epoch>>
      /\ r.stage \in Halves /\ "restore" \in Halves \ InHand
  BY DEF UnlinkReplaced, Halves, InHand
<1>2. p \in r.done /\ p \in Paths /\ OwnBackups(a) /\ backup'[a] = backup[a]
  BY <1>1, HalfFacts, SameBackups
<1>3. /\ Alone(a, new) \/ Aloud(a, new)
      /\ \A q \in Paths : q # p => files'[q] = files[q]
      /\ UNCHANGED mishaps \/ Mishap
  <2>1. CASE /\ files' = [files EXCEPT ![p] = Absent]
             /\ apply' = [Disturb(a) EXCEPT ![a].stage = "restore"]
             /\ UNCHANGED mishaps
    <3>1. files \in Trees /\ Absent \in Content
      BY <1>1, HalfFacts DEF Content
    <3>2. files' \in Trees /\ \A q \in Paths : q # p => files'[q] = files[q]
      BY <1>2, <2>1, <3>1, SetFile
    <3>3. Aloud(a, new)
      BY <1>1, <2>1, <3>2, StageAloud
    <3> QED
      BY <2>1, <3>2, <3>3
  <2>2. CASE Mishap /\ apply' = [apply EXCEPT ![a].stage = "restore"] /\ UNCHANGED files
    <3>1. Alone(a, new)
      BY <1>1, <2>2, StageAlone
    <3> QED
      BY <2>2, <3>1
  <2> QED
    BY <2>1, <2>2 DEF UnlinkReplaced
<1> HIDE DEF new
<1>4. /\ Goes(a, new) /\ new.stage = "restore" /\ new.left = r.left /\ new.done = r.done
      /\ new.before = r.before /\ new.unrestored = r.unrestored
  <2>1. new = Turned(a, "restore", r.left, r.done) /\ UNCHANGED <<previewVars, epoch>>
    BY <1>1 DEF new
  <2>3. UNCHANGED mishaps \/ Mishap
    BY <1>3
  <2>4. /\ apply[a].stage \notin Waiting /\ HalfTo \subseteq ApplyStages \ Waiting
        /\ apply[a].left \in SUBSET Paths /\ apply[a].done \in SUBSET Paths
    BY <1>1, <1>2, HalfFacts DEF HalfTo
  <2>6. /\ "restore" \in ApplyStages \ Waiting
        /\ "restore" \in InHand => r.left # {}
        /\ "restore" = "restore" => r.done # {}
    BY <1>1, <2>4 DEF HalfTo
  <2>7. Alone(a, Turned(a, "restore", r.left, r.done)) \/ Aloud(a, Turned(a, "restore", r.left, r.done))
    BY <1>1, <1>2, <1>3, <2>1, <2>3, <2>4
  <2>8. LET turned == Turned(a, "restore", r.left, r.done)
        IN  /\ Goes(a, turned) /\ turned.stage = "restore" /\ turned.left = r.left /\ turned.done = r.done
            /\ turned.before = apply[a].before /\ turned.unrestored = apply[a].unrestored
    BY <1>1, <1>2, <1>3, <2>1, <2>3, <2>4, <2>6, <2>7, Turning
  <2> QED
    BY <2>8, <2>1
<1>5. ~r.disturbed => Standing(a, new, files', backup'[a])
  <2> SUFFICES ASSUME ~r.disturbed PROVE Halfway(a, new, files', backup[a])
    BY <1>2, <1>4 DEF Standing
  <2>1. Halfway(a, r, files, backup[a]) /\ Held(r) = {} /\ Held(new) = {}
    BY <1>1, <1>4, HalfFacts DEF Held, InHand
  <2> HIDE DEF p, r
  <2>2. \A q \in Paths \ new.unrestored :
          IF q \in new.done \cup Held(new) THEN backup[a][q] = new.before[q]
          ELSE files'[q] = new.before[q] /\ backup[a][q] = Absent
    BY <1>2, <1>3, <1>4, <2>1 DEF Halfway
  <2> QED
    BY <1>1, <1>4, <2>1, <2>2 DEF Halfway, Matches, InHand
<1> QED
  BY <1>1, <1>4, <1>5, HalfStep

LEMMA EndLoopKeeps ==
    ASSUME IInv, NEW a \in Applies, EndLoop(a)
    PROVE  IInv'
<1> DEFINE r == apply[a]
           L == Leftovers(a)
<1>1. PICK stage \in {"discard", "cleanup"} :
        /\ apply' = [apply EXCEPT ![a] = LeftWith(a, stage)]
        /\ stage = "discard" => r.stage = "publish" /\ r.left = {}
        /\ stage = "cleanup" => r.stage = "rollback" /\ r.done = {}
  BY DEF EndLoop
<1>2. /\ r.stage \in Halves \ InHand /\ stage \notin InHand \cup Halves /\ stage # "restore"
      /\ L \in SUBSET Paths /\ {} \in SUBSET Paths
      /\ UNCHANGED <<files, backup, previewVars, epoch, mishaps>>
  BY <1>1 DEF EndLoop, Halves, InHand, Leftovers
<1>3. OwnBackups(a) /\ backup'[a] = backup[a]
  BY <1>2, HalfFacts, SameBackups
<1> HIDE DEF L
<1> DEFINE new == Turned(a, stage, L, {})
<1>4. LeftWith(a, stage) = new
  BY DEF LeftWith, Turned, L
<1>5. Alone(a, new)
  BY <1>1, <1>2, <1>4 DEF Alone
<1> HIDE DEF new
<1>6. /\ Goes(a, new) /\ new.stage = stage /\ new.left = L /\ new.done = {}
      /\ new.before = r.before /\ new.unrestored = r.unrestored
  <2>1. new = Turned(a, stage, L, {}) /\ UNCHANGED <<previewVars, epoch>>
    BY <1>2 DEF new
  <2>3. UNCHANGED mishaps \/ Mishap
    BY <1>2
  <2>4. /\ apply[a].stage \notin Waiting /\ HalfTo \subseteq ApplyStages \ Waiting
        /\ apply[a].left \in SUBSET Paths /\ apply[a].done \in SUBSET Paths
    BY <1>1, <1>2, HalfFacts DEF HalfTo
  <2>5. PICK none \in SUBSET Paths : none = {}
    OBVIOUS
  <2>6. /\ stage \in ApplyStages \ Waiting
        /\ stage \in InHand => L # {}
        /\ stage = "restore" => none # {}
    BY <1>2, <2>4, <2>5 DEF HalfTo
  <2>7. Alone(a, Turned(a, stage, L, none)) \/ Aloud(a, Turned(a, stage, L, none))
    BY <1>2, <1>3, <1>5, <2>1, <2>3, <2>4, <2>5
  <2>8. LET turned == Turned(a, stage, L, none)
        IN  /\ Goes(a, turned) /\ turned.stage = stage /\ turned.left = L /\ turned.done = none
            /\ turned.before = apply[a].before /\ turned.unrestored = apply[a].unrestored
    BY <1>2, <1>3, <2>3, <2>4, <2>6, <2>7, Turning
  <2> QED
    BY <2>8, <2>1, <2>5
<1>7. ~r.disturbed => Standing(a, new, files', backup'[a])
  <2> SUFFICES ASSUME ~r.disturbed PROVE Standing(a, new, files, backup[a])
    BY <1>2, <1>3
  <2>1. Halfway(a, r, files, backup[a]) /\ Held(r) = {}
    BY <1>2, HalfFacts DEF Held
  <2>2. CASE stage = "discard"
    <3>1. r.done = ChangedFiles(Change(a)) /\ r.unrestored \subseteq r.done
      BY <1>1, <2>1, <2>2 DEF Halfway
    <3>2. \A p \in ChangedFiles(Change(a)) : files[p] = Change(a).updated[p]
      BY <1>1, <2>1, <2>2, <3>1 DEF Halfway
    <3>3. InPlace(a, new, files) /\ Matches(a, new)
      BY <1>6, <2>1, <3>1, <3>2 DEF Halfway, InPlace, Matches
    <3> QED
      BY <1>2, <1>6, <2>2, <3>3 DEF Standing
  <2>3. CASE stage = "cleanup"
    <3>1. Back(new, files)
      BY <1>1, <1>6, <2>1, <2>3 DEF Halfway, Back
    <3> QED
      BY <1>2, <1>6, <2>3, <3>1 DEF Standing
  <2> QED
    BY <2>2, <2>3
<1> QED
  BY <1>1, <1>6, <1>7, HalfStep

LEMMA RemoveBackupKeeps ==
    ASSUME IInv, NEW a \in Applies, RemoveBackup(a)
    PROVE  IInv'
<1> DEFINE p == NextPath(a)
           r == apply[a]
           L == r.left \ {p}
           new == Turned(a, r.stage, L, r.done)
<1>1. /\ r.stage \in {"discard", "cleanup"} /\ r.stage \notin Waiting /\ r.left # {}
      /\ apply' = [apply EXCEPT ![a].left = @ \ {p}]
      /\ UNCHANGED <<files, previewVars, epoch>>
  BY DEF RemoveBackup, Waiting
<1>2. /\ r \in ApplyRec /\ apply \in [Applies -> ApplyRec] /\ Underway(a)
      /\ r.left \in SUBSET Paths /\ r.done \in SUBSET Paths
      /\ backup \in [Applies -> Trees]
  BY <1>1, InvParts, TypedFields, ApplyFacts
<1>3. p \in Paths
  BY <1>1, <1>2, NextAndLast DEF NextPath
<1> HIDE DEF p
<1>4. OwnBackups(a) /\ (UNCHANGED mishaps \/ Mishap)
  <2>1. CASE backup' = [backup EXCEPT ![a][p] = Absent] /\ UNCHANGED mishaps
    <3>1. Absent \in Content
      BY DEF Content
    <3> QED
      BY <1>2, <1>3, <2>1, <3>1, SetBackup
  <2>2. CASE Mishap /\ UNCHANGED backup
    BY <1>2, <2>2, SameBackups
  <2> QED
    BY <2>1, <2>2 DEF RemoveBackup, p
<1>5. Alone(a, new)
  <2> HIDE DEF L
  <2>1. apply' = [apply EXCEPT ![a] = [r EXCEPT !.left = L]]
    BY <1>1, <1>2 DEF L
  <2>2. [r EXCEPT !.left = L] = new
    BY <1>2, TurnedForms
  <2> QED
    BY <1>1, <2>1, <2>2 DEF Alone
<1>6. L \in SUBSET Paths /\ r.stage \in ApplyStages \ Waiting /\ r.stage \notin InHand \cup Halves
      /\ r.stage # "restore"
  BY <1>1, <1>2 DEF ApplyStages, Busy, Waiting, InHand, Halves
<1> HIDE DEF new, L
<1>7. /\ Goes(a, new) /\ new.stage = r.stage /\ new.left = L /\ new.done = r.done
      /\ new.before = r.before /\ new.unrestored = r.unrestored
  <2>1. new = Turned(a, r.stage, L, r.done) /\ UNCHANGED <<previewVars, epoch>>
    BY <1>1 DEF new
  <2> QED
    BY <1>1, <1>2, <1>4, <1>5, <1>6, <2>1, Turning DEF InHand
<1>8. ~r.disturbed => Standing(a, new, files', backup'[a])
  <2> SUFFICES ASSUME ~r.disturbed PROVE Standing(a, new, files, backup'[a])
    BY <1>1
  <2>1. Standing(a, r, files, backup[a])
    BY <1>2 DEF Underway
  <2> QED
    BY <1>6, <1>7, <2>1 DEF Standing, InPlace, Matches, Back
<1> QED
  BY <1>1, <1>7, <1>8, HalfStep

LEMMA FinishKeeps ==
    ASSUME IInv, NEW a \in Applies, Finish(a)
    PROVE  IInv'
<1>1. /\ apply[a].stage \in {"discard", "cleanup"} /\ apply[a].stage \notin Waiting
      /\ UNCHANGED <<files, previewVars, backup, epoch, mishaps>>
  BY DEF Finish, Waiting
<1>2. Typed /\ Underway(a) /\ apply[a] \in ApplyRec /\ files \in Trees
  BY <1>1, InvParts, ApplyFacts
<1>3. PICK stage \in {"conflict", "applied"} :
        /\ apply' = [apply EXCEPT ![a] = Finished(a, stage, files)]
        /\ stage = "applied" => apply[a].stage = "discard"
        /\ stage = "conflict" => apply[a].stage = "cleanup"
  BY DEF Finish
<1> DEFINE new == Finished(a, stage, files)
<1>4. /\ new \in ApplyRec /\ new.id = apply[a].id /\ new.before = apply[a].before
      /\ new.disturbed = apply[a].disturbed /\ new.stage = stage
      /\ new.stage \notin Waiting /\ new.unrestored = apply[a].unrestored
      /\ ~apply[a].disturbed => new.after = files
  BY <1>2, FinishedFields
<1>5. apply' = [apply EXCEPT ![a] = new] /\ stage \notin InHand \cup Halves \cup {"restore"}
  BY <1>3 DEF InHand, Halves
<1> HIDE DEF new
<1>6. Goes(a, new)
  <2>1. mishaps' \in 0..MaxMishaps
    BY <1>1, <1>2, TypedFields
  <2> QED
    BY <1>1, <1>2, <1>4, <1>5, <2>1, QuietStep DEF InHand
<1>7. apply'[a] = new /\ Change(a)' = Change(a)
  BY <1>2, <1>6, GoesFields
<1>8. CASE ~apply[a].disturbed
  <2>0. Standing(a, apply[a], files, backup[a])
    BY <1>2, <1>8 DEF Underway
  <2>1. Standing(a, apply[a], files, backup[a])'
    BY <1>4, <1>5, <1>7 DEF Standing
  <2>2. stage = "conflict" => Back(apply[a], apply[a].after)'
    BY <1>3, <1>4, <1>7, <1>8, <2>0 DEF Standing, Back
  <2>3. stage = "applied" => AsPreviewed(a)'
    <3>1. \A p \in ChangedFiles(Change(a)) : Change(a).updated[p] # Change(a).original[p]
      BY <1>1, ApplyFacts
    <3>2. stage = "applied" => InPlace(a, apply[a], files) /\ Matches(a, apply[a])
      BY <1>3, <2>0 DEF Standing
    <3> QED
      BY <1>4, <1>7, <1>8, <3>1, <3>2 DEF InPlace, Matches, AsPreviewed
  <2>4. Underway(a)'
    BY <1>4, <1>5, <1>7, <2>1, <2>2, <2>3 DEF Underway, Halves
  <2> QED
    BY <1>6, <2>4, GoesKeeps
<1> QED
  BY <1>6, <1>8, GoesDisturbed

LEMMA TakeKeeps ==
    ASSUME IInv, NEW a \in Applies, Take(a)
    PROVE  IInv'
<1>1. /\ apply[a].stage = "idle"
      /\ UNCHANGED <<files, slot, preview, created, backup, epoch, mishaps>>
  BY DEF Take
<1>2. PICK q \in Previews :
        /\ created[q] # None
        /\ pending' = pending \ {q}
        /\ apply' = [apply EXCEPT ![a] =
             IF q \notin pending \/ Expired(q) THEN [@ EXCEPT !.stage = "refused"]
             ELSE [@ EXCEPT !.stage = "verify", !.id = q,
                            !.left = ChangedFiles(preview[q].result), !.before = files]]
  BY DEF Take
<1>3. Typed /\ Stored /\ Taken /\ Approvals
  BY InvParts
<1>4. /\ apply[a] = NewApply /\ backup[a] = Nothing /\ NewApply \in ApplyRec
      /\ NewApply.id = None /\ NewApply.done = {} /\ NewApply.disturbed = FALSE
      /\ NewApply.unrestored = {}
  BY <1>1, InvParts, NothingYet DEF Idle, NewApply
<1>5. files \in Trees /\ apply \in [Applies -> ApplyRec] /\ ChangedFiles(preview[q].result) \in SUBSET Paths
  BY <1>3, TypedFields DEF ChangedFiles
<1>6. IsStored' = IsStored /\ clock' = clock /\ restarted' = restarted
  BY <1>1 DEF IsStored, epoch
<1>7. Stored'
  BY <1>1, <1>2, <1>3, <1>6 DEF Stored
\* What the other requests keep.
<1>8. ASSUME \A b \in Applies : b # a => apply'[b] = apply[b], NEW b \in Applies, b # a
      PROVE  Underway(b)'
  <2>1. Underway(b)
    BY InvParts
  <2>2. Steady(b)
    BY <1>1 DEF Steady
  <2> QED
    BY <1>1, <1>3, <1>8, <2>1, <2>2, LeftAlone
<1>9. CASE q \notin pending \/ Expired(q)
  <2> DEFINE new == [NewApply EXCEPT !.stage = "refused"]
  <2>1. apply' = [apply EXCEPT ![a] = new]
    BY <1>2, <1>4, <1>9
  <2>2. /\ new \in ApplyRec /\ new.id = None /\ new.stage = "refused"
    BY <1>4 DEF ApplyRec, ApplyStages
  <2> HIDE DEF new
  <2>3. /\ apply' \in [Applies -> ApplyRec] /\ apply'[a] = new
        /\ \A b \in Applies : b # a => apply'[b] = apply[b]
    BY <1>5, <2>1, <2>2
  <2>4. Typed'
    <3>1. pending' \in SUBSET Previews
      BY <1>2, <1>3, TypedFields
    <3> QED
      BY <1>1, <1>3, <2>3, <3>1, TypedFields, TypedAgain DEF epoch
  <2>5. \A b \in Applies : apply'[b].id = apply[b].id
    BY <1>4, <2>2, <2>3
  <2>6. Taken'
    <3>1. \A b \in Applies : apply'[b].id # None => apply'[b].id \in IsStored' \ pending'
      BY <1>2, <1>3, <1>6, <2>5 DEF Taken
    <3>2. \A b \in Applies : apply'[b].id = None <=> apply'[b].stage \in {"idle", "refused"}
      BY <1>3, <2>2, <2>3 DEF Taken
    <3> QED
      BY <3>1, <3>2 DEF Taken
  <2>7. ApprovalUsedOnce'
    BY <1>2, <1>3, <2>5 DEF Approvals, ApprovalUsedOnce
  <2>8. EvictedOnlyByNewer'
    <3> SUFFICES ASSUME NEW r \in Previews, created[r] # None, ~restarted, clock < created[r] + TTL,
                        r \notin pending', \A b \in Applies : apply[b].id # r
                 PROVE  Cardinality({s \in Previews \ {r} : created[s] # None
                                         /\ created[s] >= created[r]}) >= MaxPending
      BY <1>1, <1>6, <2>5 DEF EvictedOnlyByNewer
    <3>1. clock \in Int /\ created[r] \in Int /\ TTL \in Int
      BY <1>3, TypedFields, ApprovalAssumption
    <3>2. r \notin pending
      BY <1>2, <1>9, <3>1 DEF Expired
    <3> QED
      BY <1>3, <3>2 DEF Approvals, EvictedOnlyByNewer
  <2>9. Idle'
    BY <1>1, <2>2, <2>3, InvParts DEF Idle
  <2>10. Underway(a)'
    BY <2>2, <2>3 DEF Underway, Halves, InHand, Standing
  <2> QED
    BY <1>7, <1>8, <2>3, <2>4, <2>6, <2>7, <2>8, <2>9, <2>10, InvAgain DEF Approvals
<1>10. CASE ~(q \notin pending \/ Expired(q))
  <2> DEFINE L == ChangedFiles(preview[q].result)
             new == [NewApply EXCEPT !.stage = "verify", !.id = q, !.left = L, !.before = files]
  <2>1. apply' = [apply EXCEPT ![a] = new]
    BY <1>2, <1>4, <1>10
  <2>2. /\ new \in ApplyRec /\ new.id = q /\ new.stage = "verify" /\ new.left = L
        /\ new.before = files /\ new.done = {} /\ new.disturbed = FALSE
        /\ new.unrestored = {}
    <3> HIDE DEF L
    <3>1. L \in SUBSET Paths
      BY <1>5 DEF L
    <3> QED
      BY <1>4, <1>5, <3>1 DEF ApplyRec, ApplyStages, Busy
  <2> HIDE DEF new
  <2>3. /\ apply' \in [Applies -> ApplyRec] /\ apply'[a] = new
        /\ \A b \in Applies : b # a => apply'[b] = apply[b]
    BY <1>5, <2>1, <2>2
  <2>4. Typed'
    <3>1. pending' \in SUBSET Previews
      BY <1>2, <1>3, TypedFields
    <3> QED
      BY <1>1, <1>3, <2>3, <3>1, TypedFields, TypedAgain DEF epoch
  <2>5. q \in pending /\ q \in IsStored /\ q # None /\ q \in Previews
    BY <1>3, <1>10, ApprovalAssumption DEF Stored, IsStored
  <2>50. \A b \in Applies : apply[b].id # q
    BY <1>3, <2>5 DEF Approvals, ApprovalUsedOnce
  <2>6. Taken'
    <3>1. \A b \in Applies : apply'[b].id # None => apply'[b].id \in IsStored' \ pending'
      BY <1>2, <1>3, <1>6, <2>2, <2>3, <2>5 DEF Taken
    <3>2. \A b \in Applies : apply'[b].id = None <=> apply'[b].stage \in {"idle", "refused"}
      BY <1>3, <2>2, <2>3, <2>5 DEF Taken
    <3> QED
      BY <3>1, <3>2 DEF Taken
  <2>7. ApprovalUsedOnce'
    <3>1. \A b \in Applies : b # a => apply'[b].id # q
      BY <2>3, <2>50
    <3>2. \A b, d \in Applies : b # a /\ d # a /\ apply'[b].id = apply'[d].id /\ b # d =>
             apply'[b].id = None
      BY <1>3, <2>3 DEF Approvals, ApprovalUsedOnce
    <3>3. \A b \in Applies : apply'[b].id \notin pending'
      BY <1>2, <1>3, <2>2, <2>3 DEF Approvals, ApprovalUsedOnce
    <3> QED
      BY <2>2, <2>3, <3>1, <3>2, <3>3 DEF ApprovalUsedOnce
  <2>8. EvictedOnlyByNewer'
    <3> SUFFICES ASSUME NEW r \in Previews, created[r] # None, ~restarted, clock < created[r] + TTL,
                        r \notin pending', \A b \in Applies : apply'[b].id # r
                 PROVE  Cardinality({s \in Previews \ {r} : created[s] # None
                                         /\ created[s] >= created[r]}) >= MaxPending
      BY <1>1, <1>6 DEF EvictedOnlyByNewer
    <3>1. r # q /\ r \notin pending
      BY <1>2, <2>2, <2>3
    <3>2. \A b \in Applies : apply[b].id # r
      <4>1. r # None
        BY ApprovalAssumption
      <4> QED
        BY <1>4, <2>3, <4>1
    <3> QED
      BY <1>3, <3>1, <3>2 DEF Approvals, EvictedOnlyByNewer
  <2>9. Idle'
    BY <1>1, <2>2, <2>3, InvParts DEF Idle
  <2>10. Underway(a)'
    <3>1. Change(a)' = preview[q].result
      BY <1>1, <2>2, <2>3 DEF Change
    <3>2. Verifying(a)'
      BY <1>1, <1>4, <2>2, <2>3, <3>1 DEF Verifying
    <3> QED
      BY <2>2, <2>3, <3>2 DEF Underway, Halves, InHand, Standing
  <2> QED
    BY <1>7, <1>8, <2>3, <2>4, <2>6, <2>7, <2>8, <2>9, <2>10, InvAgain DEF Approvals
<1> QED
  BY <1>9, <1>10
-----------------------------------------------------------------------------
(* People, time, the end of the process, and the beginning.                *)

LEMMA HandKeeps ==
    ASSUME IInv, NEW p \in Paths, NEW text \in Content, EditByHand(p, text)
    PROVE  IInv'
<1>1. /\ Mishap /\ files' = [files EXCEPT ![p] = text] /\ apply' = Disturb(None)
      /\ UNCHANGED <<previewVars, backup, epoch>>
  BY DEF EditByHand
<1>2. Typed /\ Approvals /\ Taken /\ Idle
  BY InvParts
<1>3. /\ slot' = slot /\ preview' = preview /\ pending' = pending /\ created' = created
      /\ clock' = clock /\ restarted' = restarted /\ backup' = backup
  BY <1>1 DEF previewVars, epoch
<1>4. /\ apply' \in [Applies -> ApplyRec]
      /\ \A b \in Applies : apply'[b] = DisturbedOne(b)
  <2>1. None \notin Applies
    BY ApprovalAssumption
  <2> QED
    BY <1>1, <1>2, <2>1, DisturbOthers
<1>5. Typed'
  <2>1. files' \in Trees /\ mishaps' \in 0..MaxMishaps
    <3>1. files \in Trees /\ mishaps \in 0..MaxMishaps
      BY <1>2, TypedFields
    <3>2. files' \in Trees
      BY <1>1, <3>1 DEF Trees, Content
    <3> QED
      BY <1>1, <3>1, <3>2, MishapType
  <2> QED
    BY <1>2, <1>3, <1>4, <2>1, TypedFields, TypedAgain
<1>6. Approvals'
  <2>1. \A b \in Applies : /\ apply'[b].id = apply[b].id
                           /\ apply'[b].stage \in Waiting <=> apply[b].stage \in Waiting
    BY <1>2, <1>4, DisturbedFields
  <2>2. clock \in Int /\ clock' \in Int /\ clock <= clock'
    BY <1>2, <1>3, TypedFields
  <2> QED
    BY <1>2, <1>3, <2>1, <2>2, ApprovalsKept
<1>7. Idle'
  <2> SUFFICES ASSUME NEW b \in Applies, apply'[b].stage = "idle"
               PROVE  backup'[b] = Nothing /\ apply'[b] = NewApply
    BY DEF Idle
  <2>1. apply[b].stage = "idle"
    BY <1>2, <1>4, DisturbedFields
  <2>2. apply[b].stage \notin Busy \cup {"lost"}
    BY <2>1 DEF Busy
  <2>3. apply'[b] = apply[b]
    BY <1>2, <1>4, <2>2, DisturbedFields
  <2> QED
    BY <1>2, <1>3, <2>1, <2>3 DEF Idle
<1>8. ASSUME NEW b \in Applies PROVE Underway(b)'
  <2>1. Underway(b)
    BY InvParts
  <2>2. Steady(b)
    BY <1>3 DEF Steady
  <2> QED
    BY <1>2, <1>4, <2>1, <2>2, Disturbance
<1> QED
  BY <1>5, <1>6, <1>7, <1>8, InvAgain

LEMMA TickKeeps ==
    ASSUME IInv, Tick
    PROVE  IInv'
<1>1. /\ slot' = slot /\ preview' = preview /\ pending' = pending /\ created' = created
      /\ clock' = clock + 1 /\ clock < MaxTime /\ restarted' = restarted /\ backup' = backup
      /\ apply' = apply /\ files' = files /\ mishaps' = mishaps
  BY DEF Tick, previewVars, applyVars
<1>2. Typed /\ Approvals /\ Taken /\ Idle
  BY InvParts
<1>3. clock' \in 0..MaxTime /\ clock \in Int /\ clock' \in Int /\ clock <= clock'
  BY <1>1, <1>2, TypedFields, ApprovalAssumption
<1>4. Typed'
  BY <1>1, <1>2, <1>3, TypedFields, TypedAgain
<1>5. Approvals'
  BY <1>1, <1>2, <1>3, ApprovalsKept
<1>6. Idle'
  BY <1>1, <1>2 DEF Idle
<1>7. ASSUME NEW b \in Applies PROVE Underway(b)'
  <2>1. Underway(b)
    BY InvParts
  <2>2. Steady(b)
    BY <1>1 DEF Steady
  <2> QED
    BY <1>1, <1>2, <2>1, <2>2, LeftAlone
<1> QED
  BY <1>4, <1>5, <1>6, <1>7, InvAgain

\* Whatever a request is doing, the text of each file is somewhere, or the whole
\* change is in place.
LEMMA NothingIsGone ==
    ASSUME IInv, NEW a \in Applies, apply[a].stage \in Busy \cup {"lost"}, ~apply[a].disturbed
    PROVE  KeptSomewhere(a)
<1>1. Underway(a)
  BY InvParts
<1>2. CASE apply[a].stage = "lost"
  BY <1>1, <1>2 DEF Underway
<1>3. CASE apply[a].stage = "verify"
  BY <1>1, <1>3 DEF Underway, Verifying, KeptSomewhere
<1>4. CASE apply[a].stage \in Halves
  BY <1>4, HalfFacts DEF Halfway, KeptSomewhere
<1>5. CASE apply[a].stage \in {"discard", "cleanup"}
  BY <1>1, <1>5 DEF Underway, Standing, Back, KeptSomewhere
<1> QED
  BY <1>2, <1>3, <1>4, <1>5 DEF Busy, Halves, InHand

LEMMA CrashKeeps ==
    ASSUME IInv, Crash
    PROVE  IInv'
<1>1. /\ Mishap /\ restarted' = TRUE /\ slot' = None /\ pending' = {}
      /\ preview' = [q \in Previews |->
           IF preview[q].stage \in {"load", "attempt", "validate", "store"}
           THEN Ended ELSE preview[q]]
      /\ apply' = [a \in Applies |->
           IF apply[a].stage \in Busy THEN [apply[a] EXCEPT !.stage = "lost"] ELSE apply[a]]
      /\ files' = files /\ created' = created /\ backup' = backup /\ clock' = clock
  BY DEF Crash
<1>2. Typed /\ Approvals /\ Taken /\ Idle /\ Stored
  BY InvParts
<1>3. ASSUME NEW a \in Applies, apply[a].stage \in Busy
      PROVE  /\ apply'[a] \in ApplyRec /\ apply'[a].stage = "lost" /\ apply'[a].id = apply[a].id
             /\ apply'[a].before = apply[a].before /\ apply'[a].disturbed = apply[a].disturbed
             /\ apply'[a].unrestored = apply[a].unrestored
  <2>1. PICK r \in ApplyRec : r = apply[a]
    BY <1>2, TypedFields
  <2>2. apply'[a] = [r EXCEPT !.stage = "lost"]
    BY <1>1, <1>3, <2>1
  <2>3. "lost" \in ApplyStages
    BY DEF ApplyStages
  <2> QED
    BY <2>1, <2>2, <2>3 DEF ApplyRec
<1>4. ASSUME NEW a \in Applies, apply[a].stage \notin Busy
      PROVE  apply'[a] = apply[a]
  BY <1>1, <1>4
<1>5. apply' \in [Applies -> ApplyRec]
  <2>1. \A a \in Applies : apply'[a] \in ApplyRec
    BY <1>2, <1>3, <1>4, TypedFields
  <2> QED
    BY <1>1, <2>1
<1>6. /\ preview' \in [Previews -> PreviewRec]
      /\ \A q \in Previews : preview'[q] = Ended \/ preview'[q] = preview[q]
      /\ \A q \in Previews : preview[q].stage = "ended" => preview'[q] = preview[q]
  BY <1>1, <1>2, TypedFields, NothingYet
<1>7. Typed'
  <2>1. mishaps' \in 0..MaxMishaps
    BY <1>1, <1>2, TypedFields, MishapType
  <2>2. files' \in Trees /\ slot' \in Previews \cup {None} /\ pending' \in SUBSET Previews
        /\ created' \in [Previews -> 0..MaxTime \cup {None}] /\ backup' \in [Applies -> Trees]
        /\ clock' \in 0..MaxTime /\ restarted' \in BOOLEAN
    BY <1>1, <1>2, TypedFields
  <2> QED
    BY <1>5, <1>6, <2>1, <2>2, TypedAgain
<1>8. IsStored' = IsStored /\ IsStored \subseteq Previews
  BY <1>1 DEF IsStored
<1>9. Stored'
  <2>1. \A q \in Previews : IsChange(preview'[q].result)
    BY <1>2, <1>6, NothingYet DEF Stored
  <2>2. \A q \in IsStored : preview'[q].stage = "ended" /\ created[q] <= clock
    BY <1>2, <1>6, <1>8 DEF Stored
  <2> QED
    BY <1>1, <1>2, <1>8, <2>1, <2>2 DEF Stored
<1>10. \A a \in Applies : apply'[a].id = apply[a].id
  BY <1>3, <1>4
<1>11. Taken'
  <2>1. \A a \in Applies : apply'[a].id # None => apply'[a].id \in IsStored' \ pending'
    BY <1>1, <1>2, <1>8, <1>10 DEF Taken
  <2>2. \A a \in Applies : apply'[a].stage \in {"idle", "refused"} <=> apply[a].stage \in {"idle", "refused"}
    <3>1. {"idle", "refused"} \cap (Busy \cup {"lost"}) = {}
      BY DEF Busy
    <3> QED
      BY <1>3, <1>4, <3>1
  <2> QED
    BY <1>2, <1>10, <2>1, <2>2 DEF Taken
<1>12. ApprovalUsedOnce' /\ EvictedOnlyByNewer'
  BY <1>1, <1>2, <1>10 DEF Approvals, ApprovalUsedOnce, EvictedOnlyByNewer
<1>13. Idle'
  BY <1>1, <1>2, <1>3, <1>4 DEF Idle
<1>14. ASSUME NEW a \in Applies PROVE Underway(a)'
  <2>1. CASE apply[a].stage \in Busy
    <3>1. ~apply[a].disturbed => KeptSomewhere(a)
      BY <2>1, NothingIsGone
    <3>2. Change(a)' = Change(a)
      <4>1. apply[a].id # None /\ apply[a].id \in Previews
        BY <1>2, <2>1 DEF Taken, Busy, IsStored
      <4>2. preview[apply[a].id].stage = "ended"
        BY <1>2, <4>1 DEF Taken, Stored, IsStored
      <4> QED
        BY <1>3, <1>6, <2>1, <4>1, <4>2 DEF Change
    <3>3. KeptSomewhere(a) => KeptSomewhere(a)'
      BY <1>1, <1>3, <2>1, <3>2 DEF KeptSomewhere, InPlace
    <3> QED
      BY <1>3, <2>1, <3>1, <3>3 DEF Underway, Halves, InHand, Standing
  <2>2. CASE apply[a].stage \notin Busy
    <3>1. Underway(a)
      BY InvParts
    <3>2. Steady(a)
      BY <1>1, <1>2, <1>6 DEF Steady, Taken, Stored, IsStored
    <3> QED
      BY <1>1, <1>2, <1>4, <2>2, <3>1, <3>2, LeftAlone
  <2> QED
    BY <2>1, <2>2
<1> QED
  BY <1>7, <1>9, <1>11, <1>12, <1>13, <1>14, InvAgain DEF Approvals

LEMMA InitInv == Init => IInv
<1> SUFFICES ASSUME Init PROVE IInv
  OBVIOUS
<1>1. /\ files \in Trees /\ slot = None /\ pending = {} /\ clock = 0 /\ mishaps = 0
      /\ restarted = FALSE
      /\ preview = [q \in Previews |-> NewPreview] /\ created = [q \in Previews |-> None]
      /\ apply = [a \in Applies |-> NewApply] /\ backup = [a \in Applies |-> Nothing]
  BY ApprovalAssumption DEF Init, Trees
<1>2. Typed
  <2>1. Nothing \in Trees /\ NewPreview \in PreviewRec /\ NewApply \in ApplyRec
    BY NothingYet
  <2>2. 0 \in 0..MaxTime /\ 0 \in 0..MaxMishaps
    BY ApprovalAssumption
  <2>3. preview \in [Previews -> PreviewRec] /\ apply \in [Applies -> ApplyRec]
        /\ created \in [Previews -> 0..MaxTime \cup {None}] /\ backup \in [Applies -> Trees]
    BY <1>1, <2>1
  <2> QED
    BY <1>1, <2>2, <2>3 DEF Typed, TypeOK, PreviewRec, PreviewStages, ApplyRec, ApplyStages
<1>3. IsStored = {} /\ \A q \in Previews : created[q] = None
  BY <1>1 DEF IsStored
<1>4. Stored
  BY <1>1, <1>3, NothingYet, FS_EmptySet DEF Stored
<1>5. \A a \in Applies : /\ apply[a] = NewApply /\ backup[a] = Nothing
                         /\ apply[a].id = None /\ apply[a].stage = "idle"
  BY <1>1, NothingYet
<1>6. Taken /\ ApprovalUsedOnce /\ EvictedOnlyByNewer
  BY <1>1, <1>3, <1>5 DEF Taken, ApprovalUsedOnce, EvictedOnlyByNewer
<1>7. \A a \in Applies : Underway(a)
  BY <1>5 DEF Underway, Halves, InHand, Standing
<1> QED
  BY <1>2, <1>4, <1>5, <1>6, <1>7 DEF IInv

LEMMA StepInv == IInv /\ [Next]_vars => IInv'
<1> SUFFICES ASSUME IInv, [Next]_vars PROVE IInv'
  OBVIOUS
<1>1. ASSUME NEW q \in Previews, PreviewStep(q) PROVE IInv'
  BY <1>1, PreviewKeeps, StoreKeeps
<1>2. ASSUME NEW a \in Applies, ApplyStep(a) PROVE IInv'
  BY <1>2, TakeKeeps, VerifyKeeps, StageKeeps, CreateFileKeeps, FinalizeKeeps, BackUpKeeps,
     SwapKeeps, UndoKeeps, UnlinkCreatedKeeps, UnlinkReplacedKeeps, RenameBackKeeps,
     EndLoopKeeps, RemoveBackupKeeps, FinishKeeps DEF ApplyStep
<1>3. ASSUME NEW p \in Paths, NEW text \in {f[p] : f \in Disk}, EditByHand(p, text) PROVE IInv'
  <2>1. text \in Content
    BY ApprovalAssumption DEF Content
  <2> QED
    BY <1>3, <2>1, HandKeeps
<1>4. ASSUME UNCHANGED vars PROVE IInv'
  <2>1. /\ files' = files /\ slot' = slot /\ preview' = preview /\ pending' = pending
        /\ created' = created /\ apply' = apply /\ backup' = backup /\ clock' = clock
        /\ mishaps' = mishaps /\ restarted' = restarted
    BY <1>4 DEF vars
  <2>2. Typed /\ Approvals /\ Taken /\ Idle
    BY InvParts
  <2>3. Typed'
    BY <2>1, <2>2, TypedFields, TypedAgain
  <2>4. Approvals'
    <3>1. clock \in Int /\ clock' \in Int /\ clock <= clock'
      BY <2>1, <2>2, TypedFields
    <3> QED
      BY <2>1, <2>2, <3>1, ApprovalsKept
  <2>5. Idle'
    BY <2>1, <2>2 DEF Idle
  <2>6. ASSUME NEW b \in Applies PROVE Underway(b)'
    <3>1. Underway(b) /\ Steady(b)
      BY <2>1, InvParts DEF Steady
    <3> QED
      BY <2>1, <2>2, <3>1, LeftAlone
  <2> QED
    BY <2>3, <2>4, <2>5, <2>6, InvAgain
<1> QED
  BY <1>1, <1>2, <1>3, <1>4, TickKeeps, CrashKeeps DEF Next

LEMMA Invariance == Spec => []IInv
  BY InitInv, StepInv, PTL DEF Spec
-----------------------------------------------------------------------------
(* The theorems.                                                           *)

\* Every variable stays within its type: in particular no preview makes a
\* third attempt (structured.go:138-179).
THEOREM ApprovalTypes == Spec => []TypeOK
<1>1. IInv => TypeOK
  BY DEF IInv, Typed
<1> QED
  BY <1>1, Invariance, PTL

\* However many requests race for an approval, however often the process is
\* restarted, one of them takes it at most, and nobody finds it pending again
\* (server.go:541-553).
THEOREM AlwaysUsedOnce == Spec => []ApprovalUsedOnce
<1>1. IInv => ApprovalUsedOnce
  BY DEF IInv
<1> QED
  BY <1>1, Invariance, PTL

\* Whatever the limit and the lifetime, an approval that is gone before its
\* time made room for MaxPending others that were stored no earlier
\* (server.go:528-538).
THEOREM AlwaysEvictedByNewer == Spec => []EvictedOnlyByNewer
<1>1. IInv => EvictedOnlyByNewer
  BY DEF IInv
<1> QED
  BY <1>1, Invariance, PTL

\* An undisturbed apply that answers "applied" replaced exactly the files of
\* the preview by exactly the approved texts, whatever was proposed and however
\* many files there are (approval.go:82-175).
THEOREM AlwaysAppliedAsPreviewed == Spec => []AppliedAsPreviewed
<1>1. IInv => AppliedAsPreviewed
  BY DEF IInv, Underway, AsPreviewed, AppliedAsPreviewed
<1> QED
  BY <1>1, Invariance, PTL

\* An undisturbed apply that answers with an error has put everything back,
\* wherever among any number of files it failed, but the files whose own
\* roll-back failed (approval.go:143-170, 178-185).
THEOREM AlwaysRejectedLeavesTree == Spec => []RejectedLeavesTree
<1>1. IInv => RejectedLeavesTree
  BY DEF IInv, Underway, Back, RejectedLeavesTree
<1> QED
  BY <1>1, Invariance, PTL

\* At every moment of an apply, also of one a crash cut off anywhere between the
\* first rename and the removal of the last backup, the text of each file is in
\* its place or in a backup, or the whole change is in place
\* (approval.go:143-185).
THEOREM AlwaysKeepsOriginal == Spec => []CrashKeepsOriginal
<1>1. IInv => CrashKeepsOriginal
  <2> SUFFICES ASSUME IInv, NEW a \in Applies,
                      apply[a].stage \in Busy \cup {"lost"}, ~apply[a].disturbed
               PROVE  KeptSomewhere(a)
    BY DEF CrashKeepsOriginal, KeptSomewhere, InPlace
  <2> QED
    BY NothingIsGone
<1> QED
  BY <1>1, Invariance, PTL
==============================================================================
