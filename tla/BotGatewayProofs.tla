--------------------------- MODULE BotGatewayProofs ---------------------------
(***************************************************************************)
(* No message of a chat is lost on its way into the queue or taken twice,  *)
(* and the history a model is shown is the dialogue its user has seen, for *)
(* any number of conversations, updates and posts, and any limits.         *)
(***************************************************************************)
EXTENDS BotGateway, SequenceTheorems, TLAPS
-----------------------------------------------------------------------------
(* Sequences.                                                              *)

\* What is left after the first n.
LEMMA DroppedFirst ==
    ASSUME NEW S, NEW s \in Seq(S), NEW n \in 0..Len(s)
    PROVE  LET t == SubSeq(s, n + 1, Len(s))
           IN  /\ t \in Seq(S) /\ Len(t) = Len(s) - n
               /\ \A i \in 1..Len(s) - n : t[i] = s[n + i]
<1>1. Len(s) \in Nat /\ \A i \in 1..Len(s) : s[i] \in S
  OBVIOUS
<1>2. n + 1 \in Int /\ Len(s) \in Int /\ \A i \in n + 1..Len(s) : s[i] \in S
  BY <1>1
<1> DEFINE t == SubSeq(s, n + 1, Len(s))
<1>3. /\ t \in Seq(S) /\ Len(t) = IF n + 1 <= Len(s) THEN Len(s) - (n + 1) + 1 ELSE 0
      /\ \A i \in 1..Len(s) - (n + 1) + 1 : t[i] = s[n + 1 + i - 1]
  BY <1>2, SubSeqProperties
<1> HIDE DEF t
<1>4. Len(t) = Len(s) - n
  BY <1>1, <1>3
<1>5. \A i \in 1..Len(s) - n : t[i] = s[n + i]
  <2> SUFFICES ASSUME NEW i \in 1..Len(s) - n PROVE t[i] = s[n + i]
    OBVIOUS
  <2>1. i \in 1..Len(s) - (n + 1) + 1 /\ n + 1 + i - 1 = n + i
    BY <1>1
  <2> QED
    BY <1>3, <2>1
<1> QED
  BY <1>3, <1>4, <1>5 DEF t

LEMMA RemovedAt ==
    ASSUME NEW S, NEW s \in Seq(S), NEW i \in 1..Len(s)
    PROVE  LET t == RemoveAt(s, i)
           IN  /\ t \in Seq(S) /\ Len(t) = Len(s) - 1
               /\ \A j \in 1..Len(s) - 1 : t[j] = s[IF j < i THEN j ELSE j + 1]
<1> DEFINE a == SubSeq(s, 1, i - 1)
           b == SubSeq(s, i + 1, Len(s))
<1>1. Len(s) \in Nat /\ i \in 0..Len(s) /\ \A k \in 1..Len(s) : s[k] \in S
  OBVIOUS
<1>2. /\ a \in Seq(S) /\ Len(a) = i - 1
      /\ \A j \in 1..i - 1 : a[j] = s[j]
  <2>1. 1 \in Int /\ i - 1 \in Int /\ \A k \in 1..i - 1 : s[k] \in S
    BY <1>1
  <2>2. /\ a \in Seq(S) /\ Len(a) = IF 1 <= i - 1 THEN (i - 1) - 1 + 1 ELSE 0
        /\ \A j \in 1..(i - 1) - 1 + 1 : a[j] = s[1 + j - 1]
    BY <2>1, SubSeqProperties
  <2> HIDE DEF a
  <2>3. \A j \in 1..i - 1 : j \in 1..(i - 1) - 1 + 1 /\ 1 + j - 1 = j
    BY <1>1
  <2> QED
    BY <1>1, <2>2, <2>3
<1>3. /\ b \in Seq(S) /\ Len(b) = Len(s) - i
      /\ \A j \in 1..Len(s) - i : b[j] = s[i + j]
  BY <1>1, DroppedFirst
<1> HIDE DEF a, b
<1>4. /\ a \o b \in Seq(S) /\ Len(a \o b) = Len(a) + Len(b)
      /\ \A j \in 1..Len(a) + Len(b) : (a \o b)[j] = IF j <= Len(a) THEN a[j] ELSE b[j - Len(a)]
  BY <1>2, <1>3, ConcatProperties
<1>5. Len(a) + Len(b) = Len(s) - 1
  BY <1>1, <1>2, <1>3
<1>6. ASSUME NEW j \in 1..Len(s) - 1
      PROVE  (a \o b)[j] = s[IF j < i THEN j ELSE j + 1]
  <2>1. CASE j < i
    <3>1. j \in 1..i - 1 /\ j \in 1..Len(a) + Len(b) /\ j <= Len(a)
      BY <1>1, <1>2, <1>5, <2>1
    <3> QED
      BY <1>2, <1>4, <2>1, <3>1
  <2>2. CASE ~(j < i)
    <3>1. j - Len(a) \in 1..Len(s) - i /\ i + (j - Len(a)) = j + 1
          /\ j \in 1..Len(a) + Len(b) /\ ~(j <= Len(a))
      BY <1>1, <1>2, <1>5, <2>2
    <3> QED
      BY <1>3, <1>4, <2>2, <3>1
  <2> QED
    BY <2>1, <2>2
<1> QED
  BY <1>4, <1>5, <1>6 DEF RemoveAt, a, b

LEMMA Appended ==
    ASSUME NEW S, NEW s \in Seq(S), NEW e \in S
    PROVE  /\ Append(s, e) \in Seq(S) /\ Len(Append(s, e)) = Len(s) + 1
           /\ \A i \in 1..Len(s) : Append(s, e)[i] = s[i]
           /\ Append(s, e)[Len(s) + 1] = e
           /\ Range(Append(s, e)) = Range(s) \cup {e}
<1>1. /\ Append(s, e) \in Seq(S) /\ Len(Append(s, e)) = Len(s) + 1
      /\ \A i \in 1..Len(s) : Append(s, e)[i] = s[i]
      /\ Append(s, e)[Len(s) + 1] = e
  BY AppendProperties
<1>2. DOMAIN Append(s, e) = 1..Len(s) + 1 /\ DOMAIN s = 1..Len(s) /\ Len(s) \in Nat
  BY <1>1
<1>3. \A i \in 1..Len(s) + 1 : i = Len(s) + 1 \/ i \in 1..Len(s)
  BY <1>2
<1>4. Range(Append(s, e)) = Range(s) \cup {e}
  BY <1>1, <1>2, <1>3 DEF Range
<1> QED
  BY <1>1, <1>4

LEMMA TailIs ==
    ASSUME NEW S, NEW s \in Seq(S), s # <<>>
    PROVE  /\ Tail(s) \in Seq(S) /\ Len(Tail(s)) = Len(s) - 1 /\ Len(s) \in Nat \ {0}
           /\ \A i \in 1..Len(s) - 1 : Tail(s)[i] = s[i + 1]
           /\ Head(s) = s[1] /\ Head(s) \in S
  BY HeadTailProperties, EmptySeq

LEMMA FrontIs ==
    ASSUME NEW S, NEW s \in Seq(S), s # <<>>
    PROVE  /\ Front(s) \in Seq(S) /\ Len(Front(s)) = Len(s) - 1 /\ Len(s) \in Nat \ {0}
           /\ \A i \in 1..Len(s) - 1 : Front(s)[i] = s[i]
<1>1. Len(s) \in Nat /\ Len(s) # 0 /\ \A i \in 1..Len(s) : s[i] \in S
  BY EmptySeq
<1> DEFINE n == Len(s) - 1
           t == SubSeq(s, 1, n)
<1>2. n \in Nat /\ 1 \in Int /\ n \in Int /\ \A i \in 1..n : s[i] \in S
  BY <1>1
<1> HIDE DEF n
<1>3. /\ t \in Seq(S) /\ Len(t) = IF 1 <= n THEN n - 1 + 1 ELSE 0
      /\ \A i \in 1..n - 1 + 1 : t[i] = s[1 + i - 1]
  BY <1>2, SubSeqProperties
<1> HIDE DEF t
<1>4. Len(t) = n
  BY <1>2, <1>3
<1>5. \A i \in 1..n : i \in 1..n - 1 + 1 /\ 1 + i - 1 = i
  BY <1>2
<1>6. \A i \in 1..n : t[i] = s[i]
  BY <1>3, <1>5
<1> QED
  BY <1>1, <1>3, <1>4, <1>6 DEF Front, n, t
-----------------------------------------------------------------------------
(* Lists of sessions.                                                      *)

Sess == [key : Keys, messages : Seq(Sayings)]
Unique(list) == \A i, j \in 1..Len(list) : list[i].key = list[j].key => i = j
\* Some of the sessions of a list.
Within(some, list) ==
    /\ some \in Seq(Sess) /\ Len(some) <= Len(list)
    /\ \A j \in 1..Len(some) : \E i \in 1..Len(list) : some[j] = list[i]
    /\ Unique(list) => Unique(some)

LEMMA KeyOfSession ==
    ASSUME NEW list \in Seq(Sess), NEW i \in 1..Len(list)
    PROVE  list[i].key \in Keys
<1>1. list[i] \in Sess
  OBVIOUS
<1>2. \A s \in Sess : s.key \in Keys
  BY DEF Sess
<1> QED
  BY <1>1, <1>2

LEMMA PickedWithin ==
    ASSUME NEW list \in Seq(Sess), NEW some \in Seq(Sess), Len(some) <= Len(list),
           NEW f \in [1..Len(some) -> 1..Len(list)],
           \A i, j \in 1..Len(some) : f[i] = f[j] => i = j,
           \A j \in 1..Len(some) : some[j] = list[f[j]]
    PROVE  Within(some, list)
<1>1. \A j \in 1..Len(some) : \E i \in 1..Len(list) : some[j] = list[i]
  OBVIOUS
<1>2. ASSUME Unique(list) PROVE Unique(some)
  <2> SUFFICES ASSUME NEW i \in 1..Len(some), NEW j \in 1..Len(some), some[i].key = some[j].key
               PROVE  i = j
    BY DEF Unique
  <2>1. f[i] \in 1..Len(list) /\ f[j] \in 1..Len(list) /\ list[f[i]].key = list[f[j]].key
    OBVIOUS
  <2>2. f[i] = f[j]
    BY <1>2, <2>1 DEF Unique
  <2> QED
    BY <2>2
<1> QED
  BY <1>1, <1>2 DEF Within

LEMMA RestWithin ==
    ASSUME NEW list \in Seq(Sess), NEW n \in 0..Len(list)
    PROVE  Within(SubSeq(list, n + 1, Len(list)), list)
<1> DEFINE some == SubSeq(list, n + 1, Len(list))
           f == [j \in 1..Len(some) |-> n + j]
<1>1. /\ some \in Seq(Sess) /\ Len(some) = Len(list) - n
      /\ \A i \in 1..Len(list) - n : some[i] = list[n + i]
  BY DroppedFirst
<1> HIDE DEF some
<1>2. Len(list) \in Nat
  OBVIOUS
<1>3. f \in [1..Len(some) -> 1..Len(list)]
  BY <1>1, <1>2
<1>4. \A i, j \in 1..Len(some) : f[i] = f[j] => i = j
  BY <1>1, <1>2
<1>5. \A j \in 1..Len(some) : some[j] = list[f[j]]
  BY <1>1, <1>2
<1>6. Len(some) <= Len(list)
  BY <1>1, <1>2
<1> HIDE DEF f
<1>7. Within(some, list)
  BY <1>1, <1>3, <1>4, <1>5, <1>6, PickedWithin
<1> QED
  BY <1>7 DEF some

LEMMA WithoutIs ==
    ASSUME NEW list \in Seq(Sess), NEW key, Unique(list)
    PROVE  /\ Within(Without(list, key), list)
           /\ \A j \in 1..Len(Without(list, key)) : Without(list, key)[j].key # key
           /\ Has(list, key) => Len(Without(list, key)) = Len(list) - 1
<1> DEFINE some == Without(list, key)
<1>0. Len(list) \in Nat /\ DOMAIN list = 1..Len(list)
  OBVIOUS
<1>1. CASE ~Has(list, key)
  <2>1. some = list
    BY <1>1 DEF Without
  <2>2. \A j \in 1..Len(list) : list[j].key # key
    BY <1>0, <1>1 DEF Has
  <2>3. Within(list, list)
    BY <1>0 DEF Within
  <2> QED
    BY <1>1, <2>1, <2>2, <2>3
<1>2. CASE Has(list, key)
  <2> DEFINE i == Position(list, key)
             f == [j \in 1..Len(some) |-> IF j < i THEN j ELSE j + 1]
  <2>1. i \in 1..Len(list) /\ list[i].key = key
    BY <1>0, <1>2 DEF Has, Position
  <2>2. some = RemoveAt(list, i)
    BY <1>2 DEF Without
  <2> HIDE DEF i
  <2>3. /\ some \in Seq(Sess) /\ Len(some) = Len(list) - 1
        /\ \A j \in 1..Len(list) - 1 : some[j] = list[IF j < i THEN j ELSE j + 1]
    BY <2>1, <2>2, RemovedAt
  <2> HIDE DEF some
  <2>4. f \in [1..Len(some) -> 1..Len(list)]
    BY <1>0, <2>1, <2>3
  <2>5. \A k, j \in 1..Len(some) : f[k] = f[j] => k = j
    BY <1>0, <2>1, <2>3
  <2>6. \A j \in 1..Len(some) : some[j] = list[f[j]] /\ f[j] # i
    BY <1>0, <2>1, <2>3
  <2>7. Len(some) <= Len(list)
    BY <1>0, <2>3
  <2> HIDE DEF f
  <2>8. Within(some, list)
    BY <2>3, <2>4, <2>5, <2>6, <2>7, PickedWithin
  <2>9. \A j \in 1..Len(some) : some[j].key # key
    BY <2>1, <2>4, <2>6 DEF Unique
  <2> QED
    BY <2>3, <2>8, <2>9 DEF some
<1> QED
  BY <1>1, <1>2

LEMMA WithinWithin ==
    ASSUME NEW a, NEW b, NEW c, Within(a, b), Within(b, c), c \in Seq(Sess)
    PROVE  Within(a, c)
<1>1. Len(a) \in Nat /\ Len(b) \in Nat /\ Len(c) \in Nat
  BY DEF Within
<1> QED
  BY <1>1 DEF Within

\* A session at the end, of a key that is not there yet.
LEMMA AddedSession ==
    ASSUME NEW list \in Seq(Sess), NEW s \in Sess, Unique(list),
           \A j \in 1..Len(list) : list[j].key # s.key
    PROVE  /\ Append(list, s) \in Seq(Sess) /\ Len(Append(list, s)) = Len(list) + 1
           /\ Unique(Append(list, s))
           /\ \A j \in 1..Len(Append(list, s)) :
                Append(list, s)[j] = s \/ \E i \in 1..Len(list) : Append(list, s)[j] = list[i]
<1> DEFINE t == Append(list, s)
<1>0. /\ t \in Seq(Sess) /\ Len(t) = Len(list) + 1
      /\ \A i \in 1..Len(list) : t[i] = list[i]
      /\ t[Len(list) + 1] = s
  BY Appended
<1> HIDE DEF t
<1>1. Len(list) \in Nat /\ \A j \in 1..Len(t) : j = Len(list) + 1 \/ j \in 1..Len(list)
  BY <1>0
<1>2. Unique(t)
  BY <1>0, <1>1 DEF Unique
<1>3. \A j \in 1..Len(t) : t[j] = s \/ \E i \in 1..Len(list) : t[j] = list[i]
  BY <1>0, <1>1
<1> QED
  BY <1>0, <1>2, <1>3 DEF t

LEMMA MessagesAre ==
    ASSUME NEW list \in Seq(Sess), NEW key
    PROVE  \/ MessagesOf(list, key) = <<>>
           \/ \E i \in 1..Len(list) : list[i].key = key /\ MessagesOf(list, key) = list[i].messages
<1>1. CASE ~Has(list, key)
  BY <1>1 DEF MessagesOf
<1>2. CASE Has(list, key)
  <2>1. Position(list, key) \in 1..Len(list) /\ list[Position(list, key)].key = key
    BY <1>2 DEF Has, Position
  <2> QED
    BY <1>2, <2>1 DEF MessagesOf
<1> QED
  BY <1>1, <1>2
-----------------------------------------------------------------------------
(* Dialogues.                                                              *)

\* The last exchanges of a sequence of them, question and answer in turn.
Talk(ex, messages) == \E n \in 0..Len(ex) : messages = Turns(LastOf(ex, n))

LEMMA TurnsAre ==
    ASSUME NEW ex \in Seq(Events)
    PROVE  /\ Turns(ex) \in Seq(Sayings) /\ Len(Turns(ex)) = 2 * Len(ex)
           /\ \A i \in 1..2 * Len(ex) :
                /\ (i + 1) \div 2 \in 1..Len(ex)
                /\ Turns(ex)[i] = Said(IF i % 2 = 1 THEN "user" ELSE "assistant", ex[(i + 1) \div 2])
<1>1. Len(ex) \in Nat /\ 2 * Len(ex) \in Nat
  OBVIOUS
<1>2. \A i \in 1..2 * Len(ex) : (i + 1) \div 2 \in 1..Len(ex)
  BY <1>1
<1>3. \A i \in 1..2 * Len(ex) : ex[(i + 1) \div 2] \in Events
  BY <1>2
<1>4. \A e \in Events : Said("user", e) \in Sayings /\ Said("assistant", e) \in Sayings
  BY DEF Said, Sayings
<1>5. Turns(ex) \in [1..2 * Len(ex) -> Sayings]
  BY <1>3, <1>4 DEF Turns
<1>6. Turns(ex) \in Seq(Sayings) /\ Len(Turns(ex)) = 2 * Len(ex)
  BY <1>1, <1>5
<1>7. \A i \in 1..2 * Len(ex) :
        Turns(ex)[i] = Said(IF i % 2 = 1 THEN "user" ELSE "assistant", ex[(i + 1) \div 2])
  BY DEF Turns
<1> QED
  BY <1>2, <1>6, <1>7

LEMMA LastAre ==
    ASSUME NEW ex \in Seq(Events), NEW n \in 0..Len(ex)
    PROVE  /\ LastOf(ex, n) \in Seq(Events) /\ Len(LastOf(ex, n)) = n
           /\ \A i \in 1..n : LastOf(ex, n)[i] = ex[Len(ex) - n + i]
<1>1. Len(ex) \in Nat /\ Len(ex) - n \in 0..Len(ex) /\ Len(ex) - (Len(ex) - n) = n
  OBVIOUS
<1>2. LastOf(ex, n) = SubSeq(ex, (Len(ex) - n) + 1, Len(ex))
  BY DEF LastOf
<1> QED
  BY <1>1, <1>2, DroppedFirst

\* Dropping the first pair of messages is forgetting the first exchange.
LEMMA DropTurns ==
    ASSUME NEW ex \in Seq(Events), NEW n \in 0..Len(ex), NEW k \in 0..n
    PROVE  DropPairs(Turns(LastOf(ex, n)), k) = Turns(LastOf(ex, n - k))
<1> DEFINE a == LastOf(ex, n)
           b == LastOf(ex, n - k)
           s == Turns(a)
           t == Turns(b)
           d == DropPairs(s, k)
<1>0. Len(ex) \in Nat /\ n \in Nat /\ k \in Nat /\ n - k \in 0..Len(ex)
  OBVIOUS
<1>1. /\ a \in Seq(Events) /\ Len(a) = n /\ \A i \in 1..n : a[i] = ex[Len(ex) - n + i]
      /\ b \in Seq(Events) /\ Len(b) = n - k /\ \A i \in 1..n - k : b[i] = ex[Len(ex) - (n - k) + i]
  BY <1>0, LastAre
<1> HIDE DEF a, b
<1>2. /\ s \in Seq(Sayings) /\ Len(s) = 2 * n
      /\ \A i \in 1..2 * n : s[i] = Said(IF i % 2 = 1 THEN "user" ELSE "assistant", a[(i + 1) \div 2])
      /\ t \in Seq(Sayings) /\ Len(t) = 2 * (n - k)
      /\ \A i \in 1..2 * (n - k) :
           t[i] = Said(IF i % 2 = 1 THEN "user" ELSE "assistant", b[(i + 1) \div 2])
  BY <1>1, TurnsAre
<1> HIDE DEF s, t
<1>3. /\ d \in Seq(Sayings) /\ Len(d) = 2 * n - 2 * k
      /\ \A i \in 1..2 * n - 2 * k : d[i] = s[2 * k + i]
  <2>1. 2 * k \in 0..Len(s)
    BY <1>0, <1>2
  <2> QED
    BY <1>2, <2>1, DroppedFirst DEF DropPairs
<1> HIDE DEF d
<1>4. ASSUME NEW i \in 1..2 * (n - k) PROVE d[i] = t[i]
  <2>1. /\ i \in 1..2 * n - 2 * k /\ 2 * k + i \in 1..2 * n
        /\ (2 * k + i) % 2 = i % 2 /\ (2 * k + i + 1) \div 2 = k + (i + 1) \div 2
        /\ (i + 1) \div 2 \in 1..n - k
    BY <1>0
  <2>2. d[i] = Said(IF i % 2 = 1 THEN "user" ELSE "assistant", a[k + (i + 1) \div 2])
    BY <1>2, <1>3, <2>1
  <2>3. a[k + (i + 1) \div 2] = b[(i + 1) \div 2]
    <3>1. PICK j \in 1..n - k : j = (i + 1) \div 2
      BY <2>1
    <3>2. k + j \in 1..n /\ Len(ex) - n + (k + j) = Len(ex) - (n - k) + j
      BY <1>0
    <3> QED
      BY <1>1, <3>1, <3>2
  <2> QED
    BY <1>2, <2>2, <2>3
<1>5. Len(d) = Len(t) /\ Len(t) = 2 * (n - k)
  BY <1>0, <1>2, <1>3
<1>6. d = t
  BY <1>2, <1>3, <1>4, <1>5, SeqEqual
<1> QED
  BY <1>6 DEF a, b, s, t, d

\* The pairs that can be dropped from so many messages.
LEMMA TalkDrop ==
    ASSUME NEW ex \in Seq(Events), NEW m, Talk(ex, m), NEW k \in 0..Len(m) \div 2
    PROVE  Talk(ex, DropPairs(m, k)) /\ DropPairs(m, k) \in Seq(Sayings)
<1>1. PICK n \in 0..Len(ex) : m = Turns(LastOf(ex, n))
  BY DEF Talk
<1>2. Len(ex) \in Nat /\ LastOf(ex, n) \in Seq(Events) /\ Len(LastOf(ex, n)) = n
  BY LastAre
<1>3. Len(m) = 2 * n
  BY <1>1, <1>2, TurnsAre
<1>4. k \in 0..n /\ n - k \in 0..Len(ex)
  BY <1>2, <1>3
<1>5. DropPairs(m, k) = Turns(LastOf(ex, n - k))
  BY <1>1, <1>4, DropTurns
<1>6. LastOf(ex, n - k) \in Seq(Events)
  BY <1>4, LastAre
<1>7. Turns(LastOf(ex, n - k)) \in Seq(Sayings)
  BY <1>6, TurnsAre
<1> QED
  BY <1>4, <1>5, <1>7 DEF Talk

\* A dialogue has as many questions as answers.
LEMMA TalkIs ==
    ASSUME NEW ex \in Seq(Events), NEW m, Talk(ex, m)
    PROVE  m \in Seq(Sayings) /\ Len(m) \in Nat /\ \E n \in 0..Len(ex) : Len(m) = 2 * n
<1>1. PICK n \in 0..Len(ex) : m = Turns(LastOf(ex, n))
  BY DEF Talk
<1>2. LastOf(ex, n) \in Seq(Events) /\ Len(LastOf(ex, n)) = n
  BY LastAre
<1>3. Turns(LastOf(ex, n)) \in Seq(Sayings) /\ Len(Turns(LastOf(ex, n))) = 2 * n
  BY <1>2, TurnsAre
<1> QED
  BY <1>1, <1>3

LEMMA TalkOfNothing ==
    ASSUME NEW ex \in Seq(Events)
    PROVE  Talk(ex, <<>>)
<1>1. Len(ex) \in Nat /\ 0 \in 0..Len(ex)
  OBVIOUS
<1>2. LastOf(ex, 0) \in Seq(Events) /\ Len(LastOf(ex, 0)) = 0
  BY <1>1, LastAre
<1>3. Turns(LastOf(ex, 0)) \in Seq(Sayings) /\ Len(Turns(LastOf(ex, 0))) = 0
  BY <1>2, TurnsAre
<1>4. Turns(LastOf(ex, 0)) = <<>>
  BY <1>3
<1> QED
  BY <1>1, <1>4 DEF Talk

\* A question after a dialogue: what is trimmed comes off the dialogue.
LEMMA DropAppended ==
    ASSUME NEW m \in Seq(Sayings), NEW u \in Sayings,
           NEW k \in 0..(Len(Append(m, u)) - 1) \div 2
    PROVE  LET h == DropPairs(Append(m, u), k)
           IN  /\ k \in 0..Len(m) \div 2 /\ h \in Seq(Sayings) /\ h # <<>>
               /\ Len(h) = Len(m) - 2 * k + 1
               /\ Front(h) = DropPairs(m, k) /\ Last(h) = u
<1> DEFINE s == Append(m, u)
           h == DropPairs(s, k)
           d == DropPairs(m, k)
           g == Front(h)
<1>1. /\ s \in Seq(Sayings) /\ Len(s) = Len(m) + 1 /\ Len(m) \in Nat
      /\ \A i \in 1..Len(m) : s[i] = m[i]
      /\ s[Len(m) + 1] = u
  BY Appended
<1>2. k \in 0..(Len(s) - 1) \div 2
  OBVIOUS
<1> HIDE DEF s
<1>3. k \in 0..Len(m) \div 2 /\ 2 * k \in 0..Len(m) /\ 2 * k \in 0..Len(s) /\ k \in Nat
  BY <1>1, <1>2
<1>4. /\ h \in Seq(Sayings) /\ Len(h) = Len(s) - 2 * k
      /\ \A i \in 1..Len(s) - 2 * k : h[i] = s[2 * k + i]
  BY <1>1, <1>3, DroppedFirst DEF DropPairs
<1>5. /\ d \in Seq(Sayings) /\ Len(d) = Len(m) - 2 * k
      /\ \A i \in 1..Len(m) - 2 * k : d[i] = m[2 * k + i]
  BY <1>3, DroppedFirst DEF DropPairs
<1> HIDE DEF h, d
<1>6. Len(h) = Len(m) - 2 * k + 1 /\ Len(h) \in Nat /\ Len(h) >= 1
  BY <1>1, <1>3, <1>4
<1>7. h # <<>>
  BY <1>6
<1>8. Last(h) = u
  <2>1. Len(s) - 2 * k = Len(h) /\ Len(h) \in 1..Len(s) - 2 * k /\ 2 * k + Len(h) = Len(m) + 1
    BY <1>1, <1>3, <1>6
  <2>2. h[Len(h)] = s[2 * k + Len(h)]
    BY <1>4, <2>1
  <2> QED
    BY <1>1, <2>1, <2>2 DEF Last
<1>9. g \in Seq(Sayings) /\ Len(g) = Len(m) - 2 * k /\ \A i \in 1..Len(m) - 2 * k : g[i] = h[i]
  <2>1. g \in Seq(Sayings) /\ Len(g) = Len(h) - 1 /\ \A i \in 1..Len(h) - 1 : g[i] = h[i]
    BY <1>4, <1>7, FrontIs
  <2>2. Len(h) - 1 = Len(m) - 2 * k
    BY <1>1, <1>3, <1>6
  <2> QED
    BY <2>1, <2>2
<1> HIDE DEF g
<1>10. \A i \in 1..Len(m) - 2 * k :
         i \in 1..Len(s) - 2 * k /\ 2 * k + i \in 1..Len(m)
  BY <1>1, <1>3
<1>11. \A i \in 1..Len(g) : g[i] = d[i]
  BY <1>1, <1>4, <1>5, <1>9, <1>10
<1>12. g = d
  BY <1>5, <1>9, <1>11, SeqEqual
<1> QED
  BY <1>3, <1>4, <1>6, <1>7, <1>8, <1>12 DEF s, h, d, g

\* The answer to the question that ends a history makes a dialogue of it.
LEMMA TalkAnswer ==
    ASSUME NEW ex \in Seq(Events), NEW e \in Events, NEW h \in Seq(Sayings), h # <<>>,
           Talk(ex, Front(h)), Last(h) = Said("user", e)
    PROVE  Talk(Append(ex, e), Append(h, Said("assistant", e)))
<1> DEFINE g == Front(h)
           r == Append(h, Said("assistant", e))
           ex2 == Append(ex, e)
           a(n) == LastOf(ex, n)
           b(n) == LastOf(ex2, n + 1)
<1>0. Said("user", e) \in Sayings /\ Said("assistant", e) \in Sayings
  BY DEF Said, Sayings
<1>1. PICK n \in 0..Len(ex) : g = Turns(LastOf(ex, n))
  BY DEF Talk
<1>2. Len(ex) \in Nat /\ n \in Nat /\ Len(h) \in Nat \ {0}
  <2>1. Len(h) \in Nat /\ Len(h) # 0
    BY EmptySeq
  <2> QED
    BY <2>1
<1>3. /\ a(n) \in Seq(Events) /\ Len(a(n)) = n
      /\ \A i \in 1..n : a(n)[i] = ex[Len(ex) - n + i]
  BY LastAre
<1>4. /\ ex2 \in Seq(Events) /\ Len(ex2) = Len(ex) + 1
      /\ \A i \in 1..Len(ex) : ex2[i] = ex[i]
      /\ ex2[Len(ex) + 1] = e
  BY Appended
<1> HIDE DEF ex2
<1>5. n + 1 \in 0..Len(ex2)
  BY <1>2, <1>4
<1>6. /\ b(n) \in Seq(Events) /\ Len(b(n)) = n + 1
      /\ \A i \in 1..n + 1 : b(n)[i] = ex2[Len(ex2) - (n + 1) + i]
  BY <1>4, <1>5, LastAre
<1> HIDE DEF a, b
<1>7. \A i \in 1..n : b(n)[i] = a(n)[i]
  <2> SUFFICES ASSUME NEW i \in 1..n PROVE b(n)[i] = a(n)[i]
    OBVIOUS
  <2>1. i \in 1..n + 1 /\ Len(ex) - n + i \in 1..Len(ex) /\ Len(ex2) - (n + 1) + i = Len(ex) - n + i
    BY <1>2, <1>4
  <2> QED
    BY <1>3, <1>4, <1>6, <2>1
<1>8. b(n)[n + 1] = e
  <2>1. n + 1 \in 1..n + 1 /\ Len(ex2) - (n + 1) + (n + 1) = Len(ex) + 1
    BY <1>2, <1>4
  <2> QED
    BY <1>4, <1>6, <2>1
<1> DEFINE s == Turns(a(n))
           t == Turns(b(n))
<1>9. /\ s \in Seq(Sayings) /\ Len(s) = 2 * n
      /\ \A i \in 1..2 * n : /\ (i + 1) \div 2 \in 1..n
                             /\ s[i] = Said(IF i % 2 = 1 THEN "user" ELSE "assistant", a(n)[(i + 1) \div 2])
      /\ t \in Seq(Sayings) /\ Len(t) = 2 * (n + 1)
      /\ \A i \in 1..2 * (n + 1) :
           t[i] = Said(IF i % 2 = 1 THEN "user" ELSE "assistant", b(n)[(i + 1) \div 2])
  BY <1>3, <1>6, TurnsAre
<1>10. g = s
  BY <1>1 DEF a
<1> HIDE DEF s, t
<1>11. Len(g) = Len(h) - 1 /\ \A i \in 1..Len(h) - 1 : g[i] = h[i]
  BY FrontIs
<1> HIDE DEF g
<1>12. Len(h) = 2 * n + 1
  BY <1>2, <1>9, <1>10, <1>11
<1>13. h[2 * n + 1] = Said("user", e)
  BY <1>12 DEF Last
<1>14. /\ r \in Seq(Sayings) /\ Len(r) = Len(h) + 1
       /\ \A i \in 1..Len(h) : r[i] = h[i]
       /\ r[Len(h) + 1] = Said("assistant", e)
  BY <1>0, Appended
<1> HIDE DEF r
<1>15. \A i \in 1..2 * n : r[i] = t[i]
  <2> SUFFICES ASSUME NEW i \in 1..2 * n PROVE r[i] = t[i]
    OBVIOUS
  <2>1. i \in 1..Len(h) - 1 /\ i \in 1..Len(h) /\ i \in 1..2 * (n + 1)
    BY <1>2, <1>12
  <2>2. r[i] = s[i]
    BY <1>10, <1>11, <1>14, <2>1
  <2>3. (i + 1) \div 2 \in 1..n
    BY <1>9
  <2>4. b(n)[(i + 1) \div 2] = a(n)[(i + 1) \div 2]
    BY <1>7, <2>3
  <2>5. s[i] = Said(IF i % 2 = 1 THEN "user" ELSE "assistant", a(n)[(i + 1) \div 2])
    BY <1>9
  <2>6. t[i] = Said(IF i % 2 = 1 THEN "user" ELSE "assistant", b(n)[(i + 1) \div 2])
    BY <1>9, <2>1
  <2> QED
    BY <2>2, <2>4, <2>5, <2>6
<1>16. r[2 * n + 1] = t[2 * n + 1]
  <2>1. (2 * n + 1) % 2 = 1 /\ (2 * n + 1 + 1) \div 2 = n + 1
    BY <1>2
  <2>2. 2 * n + 1 \in 1..2 * (n + 1) /\ 2 * n + 1 \in 1..Len(h)
    BY <1>2, <1>12
  <2>3. t[2 * n + 1] = Said(IF (2 * n + 1) % 2 = 1 THEN "user" ELSE "assistant",
                             b(n)[(2 * n + 1 + 1) \div 2])
    BY <1>9, <2>2
  <2>4. t[2 * n + 1] = Said("user", b(n)[n + 1])
    BY <2>1, <2>3
  <2> QED
    BY <1>8, <1>13, <1>14, <2>2, <2>4
<1>17. r[2 * n + 2] = t[2 * n + 2]
  <2>1. (2 * n + 2) % 2 = 0 /\ (2 * n + 2 + 1) \div 2 = n + 1
    BY <1>2
  <2>2. 2 * n + 2 \in 1..2 * (n + 1) /\ Len(h) + 1 = 2 * n + 2
    BY <1>2, <1>12
  <2>3. t[2 * n + 2] = Said(IF (2 * n + 2) % 2 = 1 THEN "user" ELSE "assistant",
                             b(n)[(2 * n + 2 + 1) \div 2])
    BY <1>9, <2>2
  <2>4. t[2 * n + 2] = Said("assistant", b(n)[n + 1])
    BY <2>1, <2>3
  <2> QED
    BY <1>8, <1>14, <2>2, <2>4
<1>18. Len(r) = 2 * n + 2 /\ Len(t) = 2 * n + 2
       /\ \A i \in 1..2 * n + 2 : i \in 1..2 * n \/ i = 2 * n + 1 \/ i = 2 * n + 2
  BY <1>2, <1>9, <1>12, <1>14
<1>19. \A i \in 1..Len(r) : r[i] = t[i]
  BY <1>15, <1>16, <1>17, <1>18
<1>20. r = t
  BY <1>9, <1>14, <1>18, <1>19, SeqEqual
<1>21. Talk(ex2, r)
  BY <1>5, <1>20 DEF Talk, t, b
<1> QED
  BY <1>21 DEF ex2, r
-----------------------------------------------------------------------------
(* The inductive invariant: what is queued, and what is talked about.      *)

ProcessTypes ==
    /\ updates \in [Ids -> Content(Kinds)] /\ posts \in [Posts -> Content(PostKinds)]
    /\ closing \in BOOLEAN /\ restarts \in 0..MaxRestarts

IntakeTypes ==
    /\ confirmed \in 1..MaxUpdates + 1 /\ told \subseteq Posts
    /\ queue \in Seq(Messages) /\ Len(queue) <= QueueSize
    /\ remembered \in Seq(Events) /\ Len(remembered) <= MaxRemembered
    /\ poller \in [stage : {"running", "stopped"}, offset : 0..MaxUpdates + 1,
                   batch : Seq(Ids)]
    /\ accepted \in Seq(Events) /\ since \in 0..Len(accepted)

\* Every update below n that makes a message was queued.
Passed(n) == \A id \in Ids : Eligible(id) /\ id < n => id \in Range(accepted)

\* A batch holds updates in order, without a gap, and what comes before it was
\* queued, as is what Telegram was told.
Batched ==
    /\ \A i \in 1..Len(poller.batch) : poller.batch[i] = poller.batch[1] + i - 1
    /\ poller.batch # <<>> => Passed(poller.batch[1])
    /\ Passed(poller.offset) /\ Passed(confirmed)

\* What one process accepts: nothing twice while it is remembered, and
\* Telegram's updates in order.
Sparse(from, list) ==
    \A i, j \in from + 1..Len(list) : i < j =>
        /\ list[i] = list[j] => j - i > MaxRemembered
        /\ {list[i], list[j]} \subseteq Ids => list[i] < list[j]

\* The memory of events: the latest of those this process has accepted.
Latest(memory, from, list) ==
    /\ Len(memory) <= Len(list) - from
    /\ Len(memory) < MaxRemembered => Len(memory) = Len(list) - from
    /\ \A i \in 1..Len(memory) : memory[i] = list[Len(list) - Len(memory) + i]

\* Telegram's offset is above whatever this process has taken from it.
Above(from, list, offset) ==
    \A i \in from + 1..Len(list) : list[i] \in Ids => list[i] < offset

IntakeInv ==
    /\ IntakeTypes
    /\ told \subseteq Range(accepted)
    /\ Batched
    /\ Sparse(since, accepted)
    /\ Latest(remembered, since, accepted)
    /\ Above(since, accepted, poller.offset)

\* Sessions that agree with what was answered.
Kept(list, ex) ==
    /\ list \in Seq(Sess) /\ Len(list) <= MaxSessions /\ Unique(list)
    /\ \A i \in 1..Len(list) : /\ Talk(ex[list[i].key], list[i].messages)
                               /\ Len(list[i].messages) <= HistoryMessages

\* The worker's message and, while it has a question to answer, its history.
Working(w, ex) ==
    /\ w \in [stage : {"idle", "fixed", "chat", "reply", "stopped"},
              message : Messages \cup {<<>>}, history : Seq(Sayings)]
    /\ w.stage \in {"fixed", "chat", "reply"} => w.message \in Messages
    /\ w.stage \in {"chat", "reply"} =>
         /\ w.history # <<>> /\ Len(w.history) <= MaxRequestMessages
         /\ Talk(ex[w.message.key], Front(w.history))
         /\ Last(w.history) = Said("user", w.message.event)

TalkInv ==
    /\ exchanges \in [Keys -> Seq(Events)]
    /\ Kept(sessions, exchanges)
    /\ Working(worker, exchanges)

IInv == ProcessTypes /\ IntakeInv /\ TalkInv

LEMMA InvariantImplies ==
    ASSUME IInv
    PROVE  TypeOK /\ AcceptedOnce /\ HistoryIsADialogue
<1>1. ProcessTypes /\ IntakeInv /\ TalkInv
  BY DEF IInv
<1>2. TypeOK
  BY <1>1 DEF ProcessTypes, IntakeInv, IntakeTypes, TalkInv, Kept, Working, TypeOK, Sess
<1>3. AcceptedOnce
  <2>1. \A id \in Ids :
          Eligible(id) /\ (id < poller.offset \/ id < confirmed) => id \in Range(accepted)
    BY <1>1 DEF IntakeInv, Batched, Passed
  <2> QED
    BY <1>1, <2>1 DEF IntakeInv, Sparse, AcceptedOnce
<1>4. HistoryIsADialogue
  <2>1. DOMAIN sessions = 1..Len(sessions)
    BY <1>1 DEF TalkInv, Kept
  <2>2. ASSUME NEW i \in DOMAIN sessions
        PROVE  /\ DialogueOf(sessions[i].key, sessions[i].messages)
               /\ Len(sessions[i].messages) <= HistoryMessages
               /\ \A j \in DOMAIN sessions : sessions[i].key = sessions[j].key => i = j
    BY <1>1, <2>1 DEF TalkInv, Kept, Unique, Talk, DialogueOf
  <2>3. ASSUME worker.stage \in {"chat", "reply"}
        PROVE  /\ Len(worker.history) <= MaxRequestMessages
               /\ DialogueOf(worker.message.key, Front(worker.history))
               /\ Last(worker.history) = Said("user", worker.message.event)
    BY <1>1, <2>3 DEF TalkInv, Working, Talk, DialogueOf
  <2> QED
    BY <2>2, <2>3 DEF HistoryIsADialogue
<1> QED
  BY <1>2, <1>3, <1>4

\* The intake is left alone but for the queue.
LEMMA IntakeKept ==
    ASSUME ProcessTypes, IntakeInv, queue' \in Seq(Messages), Len(queue') <= QueueSize,
           UNCHANGED <<updates, confirmed, told, remembered, accepted, since, poller>>
    PROVE  IntakeInv'
<1>1. IntakeTypes'
  BY DEF IntakeInv, IntakeTypes
<1>2. Batched'
  BY DEF IntakeInv, Batched, Passed, Eligible
<1> QED
  BY <1>1, <1>2 DEF IntakeInv

LEMMA TalkKept ==
    ASSUME TalkInv, UNCHANGED <<sessions, exchanges, worker>>
    PROVE  TalkInv'
BY DEF TalkInv
-----------------------------------------------------------------------------
(* What is queued.                                                         *)

LEMMA MessageType ==
    ASSUME ProcessTypes, NEW e \in Events, e \in Ids => Eligible(e)
    PROVE  Message(e) \in Messages
<1>1. \A from \in {"telegram", "mattermost"}, kind \in Commands, c \in Conversations :
        [event |-> e, kind |-> kind, key |-> <<from, c>>] \in Messages
  BY DEF Messages, Keys
<1>2. CASE e \in Ids
  <2>1. updates[e].kind \in Commands /\ updates[e].conversation \in Conversations
    <3>1. updates[e] \in Content(Kinds)
      BY <1>2 DEF ProcessTypes
    <3> QED
      BY <1>2, <3>1 DEF Eligible, Content
  <2>2. Message(e) = [event |-> e, kind |-> updates[e].kind,
                      key |-> <<"telegram", updates[e].conversation>>]
    BY <1>2 DEF Message
  <2>3. "telegram" \in {"telegram", "mattermost"}
    OBVIOUS
  <2> QED
    BY <1>1, <2>1, <2>2, <2>3
<1>3. CASE e \notin Ids
  <2>1. posts[e].kind \in Commands /\ posts[e].conversation \in Conversations
    <3>1. e \in Posts
      BY <1>3 DEF Events
    <3>2. posts[e] \in Content(PostKinds)
      BY <3>1 DEF ProcessTypes
    <3> QED
      BY <3>2, BotAssumption DEF Content
  <2>2. Message(e) = [event |-> e, kind |-> posts[e].kind,
                      key |-> <<"mattermost", posts[e].conversation>>]
    BY <1>3 DEF Message
  <2>3. "mattermost" \in {"telegram", "mattermost"}
    OBVIOUS
  <2> QED
    BY <1>1, <2>1, <2>2, <2>3
<1> QED
  BY <1>2, <1>3

\* What is remembered was accepted.
LEMMA KnownIsAccepted ==
    ASSUME IntakeInv, NEW e, Known(e)
    PROVE  e \in Range(accepted)
<1>1. /\ remembered \in Seq(Events) /\ accepted \in Seq(Events) /\ since \in 0..Len(accepted)
      /\ Len(remembered) <= Len(accepted) - since
      /\ \A i \in 1..Len(remembered) :
           remembered[i] = accepted[Len(accepted) - Len(remembered) + i]
  BY DEF IntakeInv, IntakeTypes, Latest
<1>2. PICK i \in 1..Len(remembered) : remembered[i] = e
  BY <1>1 DEF Known, Range
<1>3. Len(accepted) - Len(remembered) + i \in 1..Len(accepted)
  BY <1>1
<1>4. DOMAIN accepted = 1..Len(accepted)
  BY <1>1
<1> QED
  BY <1>1, <1>2, <1>3, <1>4 DEF Range

\* The memory is moved on by one event, and the new one is not in the old memory.
LEMMA Enqueued ==
    ASSUME ProcessTypes, IntakeInv, NEW e \in Events, e \in Ids => Eligible(e),
           e \in Ids => poller.offset <= e, Enqueue(e)
    PROVE  /\ queue' \in Seq(Messages) /\ Len(queue') <= QueueSize
           /\ remembered' \in Seq(Events) /\ Len(remembered') <= MaxRemembered
           /\ accepted' \in Seq(Events) /\ since \in 0..Len(accepted')
           /\ Range(accepted') = Range(accepted) \cup {e}
           /\ Latest(remembered', since, accepted')
           /\ Sparse(since, accepted')
           /\ \A i \in since + 1..Len(accepted') :
                (i \in since + 1..Len(accepted) /\ accepted'[i] = accepted[i])
                \/ accepted'[i] = e
<1> DEFINE list == accepted'
           memory == remembered'
<1>1. /\ queue \in Seq(Messages) /\ Len(queue) < QueueSize
      /\ remembered \in Seq(Events) /\ Len(remembered) <= MaxRemembered
      /\ accepted \in Seq(Events) /\ since \in 0..Len(accepted)
      /\ ~Known(e) /\ queue' = Append(queue, Message(e)) /\ memory = Remember(e)
      /\ list = Append(accepted, e)
      /\ Latest(remembered, since, accepted) /\ Sparse(since, accepted)
      /\ Above(since, accepted, poller.offset)
      /\ poller.offset \in Nat /\ QueueSize \in Nat /\ MaxRemembered \in Nat \ {0}
  BY BotAssumption DEF IntakeInv, IntakeTypes, Enqueue
<1> HIDE DEF list, memory
<1>2. /\ Len(accepted) \in Nat /\ since \in Nat /\ since <= Len(accepted)
      /\ Len(remembered) \in Nat /\ Len(remembered) <= MaxRemembered
      /\ MaxRemembered \in Nat \ {0}
  BY <1>1
<1>3. queue' \in Seq(Messages) /\ Len(queue') <= QueueSize
  <2>0. Len(queue) \in Nat
    BY <1>1
  <2>1. Message(e) \in Messages
    BY MessageType
  <2>2. queue' \in Seq(Messages) /\ Len(queue') = Len(queue) + 1
    BY <1>1, <2>1, Appended
  <2> QED
    BY <1>1, <2>0, <2>2
<1>4. /\ list \in Seq(Events) /\ Len(list) = Len(accepted) + 1
      /\ \A i \in 1..Len(accepted) : list[i] = accepted[i]
      /\ list[Len(accepted) + 1] = e
      /\ Range(list) = Range(accepted) \cup {e}
  BY <1>1, Appended
<1>5. \A i \in 1..Len(remembered) : remembered[i] # e
  BY <1>1 DEF Known, Range
<1>6. /\ Len(remembered) <= Len(accepted) - since
      /\ Len(remembered) < MaxRemembered => Len(remembered) = Len(accepted) - since
      /\ \A i \in 1..Len(remembered) :
           remembered[i] = accepted[Len(accepted) - Len(remembered) + i]
  BY <1>1 DEF Latest
<1>7. /\ memory \in Seq(Events) /\ Len(memory) <= MaxRemembered
      /\ Len(memory) <= Len(accepted) + 1 - since
      /\ Len(memory) < MaxRemembered => Len(memory) = Len(accepted) + 1 - since
      /\ \A i \in 1..Len(memory) : memory[i] = list[Len(accepted) + 1 - Len(memory) + i]
  <2>1. CASE Len(remembered) < MaxRemembered
    <3>1. memory = Append(remembered, e)
      BY <1>1, <2>1 DEF Remember
    <3>2. /\ memory \in Seq(Events) /\ Len(memory) = Len(remembered) + 1
          /\ \A i \in 1..Len(remembered) : memory[i] = remembered[i]
          /\ memory[Len(remembered) + 1] = e
      BY <1>1, <3>1, Appended
    <3>3. ASSUME NEW i \in 1..Len(memory)
          PROVE  memory[i] = list[Len(accepted) + 1 - Len(memory) + i]
      <4>1. Len(accepted) + 1 - Len(memory) + i = Len(accepted) - Len(remembered) + i
        BY <1>2, <3>2
      <4>2. CASE i = Len(remembered) + 1
        <5>1. Len(accepted) - Len(remembered) + i = Len(accepted) + 1
          BY <1>2, <4>2
        <5> QED
          BY <1>4, <3>2, <4>1, <4>2, <5>1
      <4>3. CASE i # Len(remembered) + 1
        <5>1. i \in 1..Len(remembered) /\ Len(accepted) - Len(remembered) + i \in 1..Len(accepted)
          BY <1>2, <1>6, <3>2, <4>3
        <5> QED
          BY <1>4, <1>6, <3>2, <4>1, <5>1
      <4> QED
        BY <4>2, <4>3
    <3>4. Len(memory) <= MaxRemembered /\ Len(memory) = Len(accepted) + 1 - since
      BY <1>2, <1>6, <2>1, <3>2
    <3>5. Len(memory) <= Len(accepted) + 1 - since
      BY <1>2, <3>2, <3>4
    <3> QED
      BY <3>2, <3>3, <3>4, <3>5
  <2>2. CASE ~(Len(remembered) < MaxRemembered)
    <3>0. Len(remembered) = MaxRemembered
      BY <1>2, <2>2
    <3>1. memory = Append(Tail(remembered), e)
      BY <1>1, <2>2 DEF Remember
    <3>2. remembered # <<>>
      BY <1>2, <3>0
    <3>3. /\ Tail(remembered) \in Seq(Events) /\ Len(Tail(remembered)) = Len(remembered) - 1
          /\ \A i \in 1..Len(remembered) - 1 : Tail(remembered)[i] = remembered[i + 1]
      BY <1>1, <3>2, TailIs
    <3>4. /\ memory \in Seq(Events) /\ Len(memory) = Len(Tail(remembered)) + 1
          /\ \A i \in 1..Len(Tail(remembered)) : memory[i] = Tail(remembered)[i]
          /\ memory[Len(Tail(remembered)) + 1] = e
      BY <3>1, <3>3, Appended
    <3>5. Len(memory) = Len(remembered)
      BY <1>2, <3>3, <3>4
    <3>6. ASSUME NEW i \in 1..Len(memory)
          PROVE  memory[i] = list[Len(accepted) + 1 - Len(memory) + i]
      <4>1. CASE i = Len(remembered)
        <5>1. Len(accepted) + 1 - Len(memory) + i = Len(accepted) + 1
              /\ Len(Tail(remembered)) + 1 = i
          BY <1>2, <3>3, <3>5, <4>1
        <5> QED
          BY <1>4, <3>4, <5>1
      <4>2. CASE i # Len(remembered)
        <5>0. i \in 1..Len(remembered) - 1
          BY <1>2, <3>5, <4>2
        <5>1. i \in 1..Len(Tail(remembered)) /\ i + 1 \in 1..Len(remembered)
              /\ Len(accepted) - Len(remembered) + (i + 1) \in 1..Len(accepted)
              /\ Len(accepted) - Len(remembered) + (i + 1) = Len(accepted) + 1 - Len(memory) + i
          BY <1>2, <1>6, <3>3, <3>5, <5>0
        <5>2. memory[i] = remembered[i + 1]
          BY <3>3, <3>4, <5>0, <5>1
        <5>3. remembered[i + 1] = accepted[Len(accepted) - Len(remembered) + (i + 1)]
          BY <1>6, <5>1
        <5> QED
          BY <1>4, <5>1, <5>2, <5>3
      <4> QED
        BY <4>1, <4>2
    <3>7. Len(memory) <= MaxRemembered /\ ~(Len(memory) < MaxRemembered)
          /\ Len(memory) <= Len(accepted) + 1 - since
      BY <1>2, <1>6, <3>0, <3>5
    <3> QED
      BY <3>4, <3>6, <3>7
  <2> QED
    BY <2>1, <2>2
<1>8. Latest(memory, since, list)
  <2>1. Len(list) - Len(memory) = Len(accepted) + 1 - Len(memory)
        /\ Len(list) - since = Len(accepted) + 1 - since
    BY <1>2, <1>4
  <2> QED
    BY <1>7, <2>1 DEF Latest
<1>9. \A i \in since + 1..Len(list) :
        (i \in since + 1..Len(accepted) /\ list[i] = accepted[i])
        \/ (i = Len(accepted) + 1 /\ list[i] = e)
  BY <1>2, <1>4
<1>10. Sparse(since, list)
  <2> SUFFICES ASSUME NEW i \in since + 1..Len(list), NEW j \in since + 1..Len(list), i < j
               PROVE  /\ list[i] = list[j] => j - i > MaxRemembered
                      /\ {list[i], list[j]} \subseteq Ids => list[i] < list[j]
    BY DEF Sparse
  <2>1. i \in since + 1..Len(accepted) /\ list[i] = accepted[i]
    BY <1>2, <1>4, <1>9
  <2>2. CASE j \in since + 1..Len(accepted)
    <3>1. list[j] = accepted[j]
      BY <1>2, <1>4, <2>2
    <3> QED
      BY <1>1, <2>1, <2>2, <3>1 DEF Sparse
  <2>3. CASE j \notin since + 1..Len(accepted)
    <3>1. j = Len(accepted) + 1 /\ list[j] = e
      BY <1>9, <2>3
    <3>2. ASSUME accepted[i] = e PROVE j - i > MaxRemembered
      <4>1. ~(Len(accepted) - Len(remembered) < i)
        <5> SUFFICES ASSUME Len(accepted) - Len(remembered) < i PROVE FALSE
          OBVIOUS
        <5> DEFINE k == i - (Len(accepted) - Len(remembered))
        <5>1. k \in 1..Len(remembered) /\ Len(accepted) - Len(remembered) + k = i
          BY <1>2, <2>1
        <5> HIDE DEF k
        <5> QED
          BY <1>5, <1>6, <3>2, <5>1
      <4>2. ~(Len(remembered) < MaxRemembered)
        BY <1>2, <1>6, <2>1, <4>1
      <4> QED
        BY <1>1, <1>2, <2>1, <3>1, <4>1, <4>2
    <3>3. ASSUME {accepted[i], e} \subseteq Ids PROVE accepted[i] < e
      <4>1. accepted[i] \in Ids /\ e \in Ids
        BY <3>3
      <4>2. accepted[i] < poller.offset /\ poller.offset <= e
        BY <1>1, <2>1, <4>1 DEF Above
      <4>3. accepted[i] \in Nat /\ e \in Nat /\ poller.offset \in Nat
        <5>1. MaxUpdates \in Nat
          BY BotAssumption
        <5> QED
          BY <1>1, <4>1, <5>1 DEF Ids
      <4> QED
        BY <4>2, <4>3
    <3> QED
      BY <2>1, <3>1, <3>2, <3>3
  <2> QED
    BY <2>2, <2>3
<1>11. since \in 0..Len(list)
  BY <1>2, <1>4
<1> QED
  BY <1>3, <1>4, <1>7, <1>8, <1>9, <1>10, <1>11 DEF list, memory

\* Nothing is sparser for being accepted elsewhere: the step of a post.
LEMMA WebhookIntake ==
    ASSUME ProcessTypes, IntakeInv, NEW p \in Posts, Webhook(p)
    PROVE  IntakeInv'
<1>1. p \in Events /\ p \notin Ids
  BY BotAssumption DEF Events, Ids
<1>2. UNCHANGED <<updates, confirmed, poller, since>> /\ told' = told \cup {p}
  BY DEF Webhook, outside, process
<1>3. CASE Enqueue(p)
  <2>1. /\ queue' \in Seq(Messages) /\ Len(queue') <= QueueSize
        /\ remembered' \in Seq(Events) /\ Len(remembered') <= MaxRemembered
        /\ accepted' \in Seq(Events) /\ since \in 0..Len(accepted')
        /\ Range(accepted') = Range(accepted) \cup {p}
        /\ Latest(remembered', since, accepted')
        /\ Sparse(since, accepted')
        /\ \A i \in since + 1..Len(accepted') :
             (i \in since + 1..Len(accepted) /\ accepted'[i] = accepted[i])
             \/ accepted'[i] = p
    BY <1>1, <1>3, Enqueued
  <2>2. IntakeTypes'
    BY <1>2, <2>1 DEF IntakeInv, IntakeTypes
  <2>3. (told \subseteq Range(accepted))'
    BY <1>2, <2>1 DEF IntakeInv
  <2>4. Batched'
    BY <1>2, <2>1 DEF IntakeInv, Batched, Passed, Eligible
  <2>5. Above(since, accepted', poller.offset)
    BY <1>1, <2>1 DEF IntakeInv, Above
  <2> QED
    BY <1>2, <2>1, <2>2, <2>3, <2>4, <2>5 DEF IntakeInv
<1>4. CASE Known(p) /\ UNCHANGED intake
  <2>1. UNCHANGED <<queue, remembered, accepted>> /\ p \in Range(accepted)
    BY <1>4, KnownIsAccepted DEF intake
  <2>2. IntakeTypes' /\ (told \subseteq Range(accepted))'
    BY <1>2, <2>1 DEF IntakeInv, IntakeTypes
  <2>3. Batched'
    BY <1>2, <2>1 DEF IntakeInv, Batched, Passed, Eligible
  <2> QED
    BY <1>2, <2>1, <2>2, <2>3 DEF IntakeInv
<1> QED
  BY <1>3, <1>4 DEF Webhook

\* The head of the batch, and what is left of it.
LEMMA HeadOfBatch ==
    ASSUME IntakeInv, Reading
    PROVE  LET id == Head(poller.batch)
               rest == Tail(poller.batch)
           IN  /\ id \in Ids /\ id \in Nat /\ id + 1 \in 0..MaxUpdates + 1
               /\ rest \in Seq(Ids)
               /\ \A i \in 1..Len(rest) : rest[i] = rest[1] + i - 1
               /\ rest # <<>> => rest[1] = id + 1
               /\ Passed(id)
<1> DEFINE b == poller.batch
           id == Head(b)
           rest == Tail(b)
<1>1. /\ b \in Seq(Ids) /\ b # <<>> /\ Passed(b[1])
      /\ \A i \in 1..Len(b) : b[i] = b[1] + i - 1
  BY DEF IntakeInv, IntakeTypes, Batched, Reading
<1> HIDE DEF b
<1>2. /\ rest \in Seq(Ids) /\ Len(rest) = Len(b) - 1 /\ Len(b) \in Nat \ {0}
      /\ \A i \in 1..Len(b) - 1 : rest[i] = b[i + 1]
      /\ id = b[1] /\ id \in Ids
  BY <1>1, TailIs
<1>3. id \in Nat /\ id + 1 \in 0..MaxUpdates + 1
  <2>1. MaxUpdates \in Nat
    BY BotAssumption
  <2> QED
    BY <1>2, <2>1 DEF Ids
<1> HIDE DEF rest, id
<1>4. \A i \in 1..Len(rest) : rest[i] = id + i
  <2> SUFFICES ASSUME NEW i \in 1..Len(rest) PROVE rest[i] = id + i
    OBVIOUS
  <2>1. i \in 1..Len(b) - 1 /\ i + 1 \in 1..Len(b)
    BY <1>2
  <2>2. rest[i] = b[1] + (i + 1) - 1
    BY <1>1, <1>2, <2>1
  <2> QED
    BY <1>2, <1>3, <2>1, <2>2
<1>5. rest # <<>> => rest[1] = id + 1
  <2> SUFFICES ASSUME rest # <<>> PROVE rest[1] = id + 1
    OBVIOUS
  <2>1. Len(rest) \in Nat /\ Len(rest) # 0
    BY <1>2, EmptySeq
  <2>2. 1 \in 1..Len(rest)
    BY <2>1
  <2> QED
    BY <1>4, <2>2
<1>6. \A i \in 1..Len(rest) : rest[i] = rest[1] + i - 1
  <2> SUFFICES ASSUME NEW i \in 1..Len(rest) PROVE rest[i] = rest[1] + i - 1
    OBVIOUS
  <2>1. 1 \in 1..Len(rest)
    BY <1>2
  <2>2. rest[1] = id + 1 /\ rest[i] = id + i
    BY <1>4, <2>1
  <2> QED
    BY <1>3, <2>2
<1> QED
  BY <1>1, <1>2, <1>3, <1>5, <1>6 DEF b, id, rest

\* The poller goes past an update that was queued or makes no message.
LEMMA Past ==
    ASSUME IntakeInv, NEW id \in Nat, Passed(id),
           id \in Range(accepted) \/ ~Eligible(id)
    PROVE  Passed(id + 1)
<1>1. \A n \in Ids : n \in Nat
  BY BotAssumption DEF Ids
<1>2. \A n \in Ids : n < id + 1 => n < id \/ n = id
  BY <1>1
<1> QED
  BY <1>2 DEF Passed

\* The poller moves within what it has read.
LEMMA PollerMoves ==
    ASSUME IntakeInv, NEW offset \in 0..MaxUpdates + 1, NEW batch \in Seq(Ids),
           NEW stage \in {"running", "stopped"},
           poller' = [stage |-> stage, offset |-> offset, batch |-> batch],
           \A i \in 1..Len(batch) : batch[i] = batch[1] + i - 1,
           batch # <<>> => Passed(batch[1]),
           Passed(offset), Above(since, accepted, offset),
           confirmed' \in 1..MaxUpdates + 1, Passed(confirmed'),
           UNCHANGED <<updates, told, queue, remembered, accepted, since>>
    PROVE  IntakeInv'
<1>1. poller'.offset = offset /\ poller'.batch = batch
  OBVIOUS
<1>2. poller' \in [stage : {"running", "stopped"}, offset : 0..MaxUpdates + 1, batch : Seq(Ids)]
  OBVIOUS
<1>3. IntakeTypes'
  BY <1>2 DEF IntakeInv, IntakeTypes
<1>4. Batched'
  BY <1>1 DEF Batched, Passed, Eligible
<1> QED
  BY <1>1, <1>3, <1>4 DEF IntakeInv

LEMMA PollerFields ==
    ASSUME IntakeInv, NEW offset, NEW batch
    PROVE  /\ [poller EXCEPT !.batch = batch]
              = [stage |-> poller.stage, offset |-> poller.offset, batch |-> batch]
           /\ [poller EXCEPT !.offset = offset, !.batch = batch]
              = [stage |-> poller.stage, offset |-> offset, batch |-> batch]
           /\ poller.stage \in {"running", "stopped"}
           /\ poller.offset \in 0..MaxUpdates + 1 /\ poller.offset \in Nat
           /\ poller.batch \in Seq(Ids)
<1>1. poller \in [stage : {"running", "stopped"}, offset : 0..MaxUpdates + 1, batch : Seq(Ids)]
  BY DEF IntakeInv, IntakeTypes
<1> DEFINE Stages == {"running", "stopped"}
           Offsets == 0..MaxUpdates + 1
           Batches == Seq(Ids)
<1> HIDE DEF Stages, Offsets, Batches
<1>2. poller \in [stage : Stages, offset : Offsets, batch : Batches]
  BY <1>1 DEF Stages, Offsets, Batches
<1>3. poller.stage \in Stages /\ poller.offset \in Offsets /\ poller.batch \in Batches
  BY <1>2
<1>4. [poller EXCEPT !.batch = batch]
        = [stage |-> poller.stage, offset |-> poller.offset, batch |-> batch]
  BY <1>2
<1>5. [poller EXCEPT !.offset = offset, !.batch = batch]
        = [stage |-> poller.stage, offset |-> offset, batch |-> batch]
  <2>1. PICK p : p = [poller EXCEPT !.offset = offset, !.batch = batch]
    OBVIOUS
  <2>2. p = [stage |-> p.stage, offset |-> p.offset, batch |-> p.batch]
    BY <1>2, <2>1
  <2>3. p.stage = poller.stage /\ p.offset = offset /\ p.batch = batch
    BY <1>2, <2>1
  <2> QED
    BY <2>1, <2>2, <2>3
<1>6. poller.offset \in Nat
  <2>1. MaxUpdates \in Nat
    BY BotAssumption
  <2> QED
    BY <1>3, <2>1 DEF Offsets
<1> QED
  BY <1>3, <1>4, <1>5, <1>6 DEF Stages, Offsets, Batches

LEMMA AboveMore ==
    ASSUME IntakeInv, NEW n \in Nat, NEW id \in Nat, n <= id, Above(since, accepted, n)
    PROVE  Above(since, accepted, id + 1)
<1>1. \A k \in Ids : k \in Nat
  BY BotAssumption DEF Ids
<1>2. \A k \in Ids : k < n => k < id + 1
  BY <1>1
<1> QED
  BY <1>2 DEF Above

LEMMA SkipUpdateIntake ==
    ASSUME ProcessTypes, IntakeInv, SkipUpdate
    PROVE  IntakeInv'
<1> DEFINE id == Head(poller.batch)
           rest == Tail(poller.batch)
<1>1. /\ Reading /\ (id < poller.offset \/ updates[id].kind = "garbled")
      /\ poller' = [poller EXCEPT !.batch = rest]
      /\ UNCHANGED <<updates, confirmed, told, queue, remembered, accepted, since>>
  BY DEF SkipUpdate, outside, intake, process
<1>2. /\ id \in Ids /\ id \in Nat /\ rest \in Seq(Ids)
      /\ \A i \in 1..Len(rest) : rest[i] = rest[1] + i - 1
      /\ rest # <<>> => rest[1] = id + 1
      /\ Passed(id)
  BY <1>1, HeadOfBatch
<1> HIDE DEF id, rest
<1>3. id \in Range(accepted) \/ ~Eligible(id)
  <2>1. CASE id < poller.offset
    BY <1>2, <2>1 DEF IntakeInv, Batched, Passed
  <2>2. CASE updates[id].kind = "garbled"
    BY <2>2 DEF Eligible, Commands
  <2> QED
    BY <1>1, <2>1, <2>2
<1>4. Passed(id + 1)
  BY <1>2, <1>3, Past
<1>5. /\ poller' = [stage |-> poller.stage, offset |-> poller.offset, batch |-> rest]
      /\ poller.stage \in {"running", "stopped"} /\ poller.offset \in 0..MaxUpdates + 1
  BY <1>1, PollerFields
<1>6. rest # <<>> => Passed(rest[1])
  BY <1>2, <1>4
<1>7. /\ Passed(poller.offset) /\ Above(since, accepted, poller.offset)
      /\ confirmed' \in 1..MaxUpdates + 1 /\ Passed(confirmed')
  BY <1>1 DEF IntakeInv, IntakeTypes, Batched
<1> QED
  BY <1>1, <1>2, <1>5, <1>6, <1>7, PollerMoves

LEMMA IgnoreUpdateIntake ==
    ASSUME ProcessTypes, IntakeInv, IgnoreUpdate
    PROVE  IntakeInv'
<1> DEFINE id == Head(poller.batch)
           rest == Tail(poller.batch)
<1>1. /\ Reading /\ id >= poller.offset /\ updates[id].kind = "ignored"
      /\ poller' = Acknowledged(id)
      /\ UNCHANGED <<updates, confirmed, told, queue, remembered, accepted, since>>
  BY DEF IgnoreUpdate, outside, intake, process
<1>2. poller' = [poller EXCEPT !.offset = id + 1, !.batch = rest]
  BY <1>1 DEF Acknowledged
<1>3. /\ id \in Ids /\ id \in Nat /\ id + 1 \in 0..MaxUpdates + 1 /\ rest \in Seq(Ids)
      /\ \A i \in 1..Len(rest) : rest[i] = rest[1] + i - 1
      /\ rest # <<>> => rest[1] = id + 1
      /\ Passed(id)
  BY <1>1, HeadOfBatch
<1> HIDE DEF id, rest
<1>4. Passed(id + 1)
  <2>1. ~Eligible(id)
    BY <1>1 DEF Eligible, Commands
  <2> QED
    BY <1>3, <2>1, Past
<1>5. /\ poller' = [stage |-> poller.stage, offset |-> id + 1, batch |-> rest]
      /\ poller.stage \in {"running", "stopped"} /\ poller.offset \in Nat
  BY <1>2, PollerFields
<1>6. rest # <<>> => Passed(rest[1])
  BY <1>3, <1>4
<1>7. Above(since, accepted, id + 1)
  BY <1>1, <1>3, <1>5, AboveMore DEF IntakeInv
<1>8. confirmed' \in 1..MaxUpdates + 1 /\ Passed(confirmed')
  BY <1>1 DEF IntakeInv, IntakeTypes, Batched
<1> QED
  BY <1>1, <1>3, <1>4, <1>5, <1>6, <1>7, <1>8, PollerMoves

LEMMA PollerStopsIntake ==
    ASSUME ProcessTypes, IntakeInv, PollerStops
    PROVE  IntakeInv'
<1>1. /\ poller' = [poller EXCEPT !.stage = "stopped", !.batch = <<>>]
      /\ UNCHANGED <<updates, confirmed, told, queue, remembered, accepted, since>>
  BY DEF PollerStops, outside, intake, process
<1>2. poller \in [stage : {"running", "stopped"}, offset : 0..MaxUpdates + 1, batch : Seq(Ids)]
  BY DEF IntakeInv, IntakeTypes
<1>3. poller' = [stage |-> "stopped", offset |-> poller.offset, batch |-> <<>>]
  BY <1>1, <1>2
<1>4. poller.offset \in 0..MaxUpdates + 1
  BY PollerFields
<1>6. "stopped" \in {"running", "stopped"} /\ <<>> \in Seq(Ids)
  OBVIOUS
<1>7. \A i \in 1..Len(<<>>) : <<>>[i] = <<>>[1] + i - 1
  OBVIOUS
<1>5. /\ Passed(poller.offset) /\ Above(since, accepted, poller.offset)
      /\ confirmed' \in 1..MaxUpdates + 1 /\ Passed(confirmed')
  BY <1>1 DEF IntakeInv, IntakeTypes, Batched
<1> QED
  BY <1>1, <1>3, <1>4, <1>5, <1>6, <1>7, PollerMoves

LEMMA AcceptUpdateIntake ==
    ASSUME ProcessTypes, IntakeInv, AcceptUpdate
    PROVE  IntakeInv'
<1> DEFINE id == Head(poller.batch)
           rest == Tail(poller.batch)
<1>1. /\ Reading /\ id >= poller.offset /\ Eligible(id)
      /\ Enqueue(id) \/ (Known(id) /\ UNCHANGED intake)
      /\ poller' = Acknowledged(id)
      /\ UNCHANGED <<updates, confirmed, told, since>>
  BY DEF AcceptUpdate, outside, process
<1>2. poller' = [poller EXCEPT !.offset = id + 1, !.batch = rest]
  BY <1>1 DEF Acknowledged
<1>3. /\ id \in Ids /\ id \in Nat /\ id + 1 \in 0..MaxUpdates + 1 /\ rest \in Seq(Ids)
      /\ \A i \in 1..Len(rest) : rest[i] = rest[1] + i - 1
      /\ rest # <<>> => rest[1] = id + 1
      /\ Passed(id)
  BY <1>1, HeadOfBatch
<1> HIDE DEF id, rest
<1>4. /\ poller' = [stage |-> poller.stage, offset |-> id + 1, batch |-> rest]
      /\ poller.stage \in {"running", "stopped"} /\ poller.offset \in Nat
  BY <1>2, PollerFields
<1>5. Above(since, accepted, id + 1)
  BY <1>1, <1>3, <1>4, AboveMore DEF IntakeInv
<1>6. confirmed' \in 1..MaxUpdates + 1 /\ Passed(confirmed')
  BY <1>1 DEF IntakeInv, IntakeTypes, Batched
<1>7. CASE Known(id) /\ UNCHANGED intake
  <2>1. Passed(id + 1)
    BY <1>3, <1>7, KnownIsAccepted, Past
  <2>2. rest # <<>> => Passed(rest[1])
    BY <1>3, <2>1
  <2>3. UNCHANGED <<queue, remembered, accepted>>
    BY <1>7 DEF intake
  <2> QED
    BY <1>1, <1>3, <1>4, <1>5, <1>6, <2>1, <2>2, <2>3, PollerMoves
<1>8. CASE Enqueue(id)
  <2>1. id \in Events /\ poller.offset <= id
    BY <1>1, <1>3, <1>4 DEF Events
  <2>2. /\ queue' \in Seq(Messages) /\ Len(queue') <= QueueSize
        /\ remembered' \in Seq(Events) /\ Len(remembered') <= MaxRemembered
        /\ accepted' \in Seq(Events) /\ since \in 0..Len(accepted')
        /\ Range(accepted') = Range(accepted) \cup {id}
        /\ Latest(remembered', since, accepted')
        /\ Sparse(since, accepted')
        /\ \A i \in since + 1..Len(accepted') :
             (i \in since + 1..Len(accepted) /\ accepted'[i] = accepted[i])
             \/ accepted'[i] = id
    BY <1>1, <1>8, <2>1, Enqueued
  <2>3. poller'.offset = id + 1 /\ poller'.batch = rest
    BY <1>4
  <2>4. poller' \in [stage : {"running", "stopped"}, offset : 0..MaxUpdates + 1, batch : Seq(Ids)]
    BY <1>3, <1>4
  <2>5. IntakeTypes'
    BY <1>1, <2>2, <2>4 DEF IntakeInv, IntakeTypes
  <2>6. (told \subseteq Range(accepted))'
    BY <1>1, <2>2 DEF IntakeInv
  <2>7. \A n \in Ids : Eligible(n) /\ n < id + 1 => n \in Range(accepted')
    <3>1. \A n \in Ids : n \in Nat
      BY BotAssumption DEF Ids
    <3>2. \A n \in Ids : n < id + 1 => n < id \/ n = id
      BY <1>3, <3>1
    <3> QED
      BY <1>3, <2>2, <3>2 DEF Passed
  <2>8. Batched'
    <3>1. rest # <<>> => \A n \in Ids : Eligible(n) /\ n < rest[1] => n \in Range(accepted')
      BY <1>3, <2>7
    <3>2. \A n \in Ids : Eligible(n) /\ n < confirmed => n \in Range(accepted')
      BY <2>2 DEF IntakeInv, Batched, Passed
    <3>3. \A n : Eligible(n)' <=> Eligible(n)
      BY <1>1 DEF Eligible
    <3> QED
      BY <1>1, <1>3, <2>3, <2>7, <3>1, <3>2, <3>3 DEF Batched, Passed
  <2>9. Above(since, accepted', id + 1)
    BY <1>3, <1>5, <2>2 DEF Above
  <2> QED
    BY <1>1, <2>2, <2>3, <2>5, <2>6, <2>8, <2>9 DEF IntakeInv
<1> QED
  BY <1>1, <1>7, <1>8

LEMMA GetUpdatesIntake ==
    ASSUME ProcessTypes, IntakeInv, GetUpdates
    PROVE  IntakeInv'
<1>1. /\ confirmed' = IF poller.offset > confirmed THEN poller.offset ELSE confirmed
      /\ UNCHANGED <<updates, told, queue, remembered, accepted, since>>
  BY DEF GetUpdates, outside, intake, process
<1>2. /\ MaxUpdates \in Nat /\ poller.offset \in 0..MaxUpdates + 1
      /\ confirmed \in 1..MaxUpdates + 1 /\ Passed(poller.offset) /\ Passed(confirmed)
      /\ Above(since, accepted, poller.offset) /\ poller.stage \in {"running", "stopped"}
  BY BotAssumption, PollerFields DEF IntakeInv, IntakeTypes, Batched
<1>3. confirmed' \in 1..MaxUpdates + 1 /\ Passed(confirmed')
  BY <1>1, <1>2
<1> DEFINE B(first, last) == [i \in 1..(last - first + 1) |-> first + i - 1]
<1>4. PICK first \in {confirmed' - 1, confirmed'}, last \in confirmed'..MaxUpdates :
        first \in Ids /\ poller' = [poller EXCEPT !.batch = B(first, last)]
  BY DEF GetUpdates
<1>5. first \in Nat /\ last \in Nat /\ 1 <= first /\ first <= last /\ last <= MaxUpdates
      /\ first <= confirmed'
  BY <1>2, <1>3, <1>4 DEF Ids
<1> DEFINE n == last - first + 1
           b == [i \in 1..n |-> first + i - 1]
<1>6. n \in Nat /\ n >= 1 /\ \A i \in 1..n : first + i - 1 \in Ids
  BY <1>2, <1>5 DEF Ids
<1> HIDE DEF n
<1>7. b \in [1..n -> Ids] /\ \A i \in 1..n : b[i] = first + i - 1
  BY <1>6
<1> HIDE DEF b
<1>8. b \in Seq(Ids) /\ Len(b) = n
  BY <1>6, <1>7
<1>9. b[1] = first
  BY <1>5, <1>6, <1>7
<1>10. \A i \in 1..Len(b) : b[i] = b[1] + i - 1
  BY <1>7, <1>8, <1>9
<1>11. Passed(first)
  <2>1. \A k \in Ids : k \in Nat
    BY DEF Ids
  <2>2. \A k \in Ids : k < first => k < confirmed'
    BY <1>3, <1>5, <2>1
  <2> QED
    BY <1>3, <2>2 DEF Passed
<1>12. poller' = [stage |-> poller.stage, offset |-> poller.offset, batch |-> b]
  BY <1>4, PollerFields DEF b, n
<1> QED
  BY <1>1, <1>2, <1>3, <1>8, <1>9, <1>10, <1>11, <1>12, PollerMoves

LEMMA RestartIntake ==
    ASSUME ProcessTypes, IntakeInv, Restart
    PROVE  IntakeInv'
<1>1. /\ queue' = <<>> /\ remembered' = <<>> /\ since' = Len(accepted)
      /\ UNCHANGED <<updates, confirmed, told, accepted>>
      /\ poller'.offset = 0 /\ poller'.batch = <<>> /\ poller' = NewPoller
  BY DEF Restart, NewPoller, outside
<1>2. /\ MaxUpdates \in Nat /\ QueueSize \in Nat /\ MaxRemembered \in Nat
      /\ accepted \in Seq(Events) /\ Len(accepted) \in Nat /\ Passed(confirmed)
      /\ told \subseteq Range(accepted)
  BY BotAssumption DEF IntakeInv, IntakeTypes, Batched
<1>3. NewPoller \in [stage : {"running", "stopped"}, offset : 0..MaxUpdates + 1, batch : Seq(Ids)]
  <2>1. 0 \in 0..MaxUpdates + 1 /\ <<>> \in Seq(Ids) /\ "running" \in {"running", "stopped"}
    BY <1>2
  <2> QED
    BY <2>1 DEF NewPoller
<1>4. IntakeTypes'
  BY <1>1, <1>2, <1>3 DEF IntakeInv, IntakeTypes
<1>5. \A id \in Ids : ~(id < 0)
  BY <1>2 DEF Ids
<1>6. Batched'
  BY <1>1, <1>2, <1>5 DEF Batched, Passed, Eligible
<1>7. \A i \in Len(accepted) + 1..Len(accepted) : FALSE
  BY <1>2
<1>8. Sparse(Len(accepted), accepted) /\ Above(Len(accepted), accepted, 0)
  BY <1>7 DEF Sparse, Above
<1>9. Latest(<<>>, Len(accepted), accepted)
  BY <1>2 DEF Latest
<1> QED
  BY <1>1, <1>2, <1>4, <1>6, <1>8, <1>9 DEF IntakeInv
-----------------------------------------------------------------------------
(* What is talked about.                                                   *)

LEMMA KeptWithin ==
    ASSUME NEW ex, NEW list, NEW some, Kept(list, ex), Within(some, list)
    PROVE  Kept(some, ex)
<1>1. Len(list) \in Nat /\ Len(some) \in Nat /\ MaxSessions \in Nat
  BY BotAssumption DEF Kept, Within
<1>2. Len(some) <= MaxSessions
  BY <1>1 DEF Kept, Within
<1> QED
  BY <1>2 DEF Kept, Within

LEMMA PrunedIs ==
    ASSUME NEW n \in Prunes, TalkInv
    PROVE  Kept(Pruned(n), exchanges)
<1>1. Kept(sessions, exchanges) /\ sessions \in Seq(Sess)
  BY DEF TalkInv, Kept
<1>2. Within(Pruned(n), sessions)
  BY <1>1, RestWithin DEF Prunes, Pruned
<1> QED
  BY <1>1, <1>2, KeptWithin

\* What a conversation has said is a dialogue with its worker.
LEMMA MessagesKept ==
    ASSUME NEW ex \in [Keys -> Seq(Events)], NEW list, Kept(list, ex), NEW key \in Keys
    PROVE  /\ Talk(ex[key], MessagesOf(list, key))
           /\ Len(MessagesOf(list, key)) <= HistoryMessages
<1>1. list \in Seq(Sess) /\ ex[key] \in Seq(Events)
  BY DEF Kept
<1>2. CASE MessagesOf(list, key) = <<>>
  BY <1>1, <1>2, TalkOfNothing, BotAssumption
<1>3. ASSUME NEW i \in 1..Len(list), list[i].key = key, MessagesOf(list, key) = list[i].messages
      PROVE  /\ Talk(ex[key], MessagesOf(list, key))
             /\ Len(MessagesOf(list, key)) <= HistoryMessages
  BY <1>3 DEF Kept
<1> QED
  BY <1>1, <1>2, <1>3, MessagesAre

LEMMA TailWithin ==
    ASSUME NEW list \in Seq(Sess), list # <<>>
    PROVE  Within(Tail(list), list) /\ Len(Tail(list)) = Len(list) - 1
<1> DEFINE some == Tail(list)
           f == [j \in 1..Len(some) |-> j + 1]
<1>1. /\ some \in Seq(Sess) /\ Len(some) = Len(list) - 1 /\ Len(list) \in Nat \ {0}
      /\ \A i \in 1..Len(list) - 1 : some[i] = list[i + 1]
  BY TailIs
<1> HIDE DEF some
<1>2. f \in [1..Len(some) -> 1..Len(list)]
  BY <1>1
<1>3. \A i, j \in 1..Len(some) : f[i] = f[j] => i = j
  BY <1>1
<1>4. \A j \in 1..Len(some) : some[j] = list[f[j]]
  BY <1>1
<1>5. Len(some) <= Len(list)
  BY <1>1
<1> HIDE DEF f
<1>6. Within(some, list)
  BY <1>1, <1>2, <1>3, <1>4, <1>5, PickedWithin
<1> QED
  BY <1>1, <1>6 DEF some

\* The worker starts on a message to which it has a fixed reply.
LEMMA DoingWorks ==
    ASSUME NEW ex, NEW m \in Messages
    PROVE  Working(Doing("fixed", m), ex)
<1> DEFINE w == [stage |-> "fixed", message |-> m, history |-> <<>>]
           Stages == {"idle", "fixed", "chat", "reply", "stopped"}
<1>1. Doing("fixed", m) = w
  <2>1. PICK p : p = [Idle EXCEPT !.stage = "fixed", !.message = m]
    OBVIOUS
  <2>2. p = [stage |-> p.stage, message |-> p.message, history |-> p.history]
    BY <2>1 DEF Idle
  <2>3. p.stage = "fixed" /\ p.message = m /\ p.history = <<>>
    BY <2>1 DEF Idle
  <2> QED
    BY <2>1, <2>2, <2>3 DEF Doing
<1>2. "fixed" \in Stages /\ m \in Messages \cup {<<>>} /\ <<>> \in Seq(Sayings)
  OBVIOUS
<1> HIDE DEF Stages
<1>3. w \in [stage : Stages, message : Messages \cup {<<>>}, history : Seq(Sayings)]
  BY <1>2
<1>4. w.stage = "fixed" /\ w.message = m
  OBVIOUS
<1> HIDE DEF w
<1>5. Working(w, ex)
  BY <1>3, <1>4 DEF Working, Stages
<1> QED
  BY <1>1, <1>5

LEMMA IdleWorks ==
    ASSUME NEW ex, NEW stage \in {"idle", "stopped"}
    PROVE  Working([Idle EXCEPT !.stage = stage], ex) /\ Working(Idle, ex)
<1> DEFINE w(s) == [stage |-> s, message |-> <<>>, history |-> <<>>]
           Stages == {"idle", "fixed", "chat", "reply", "stopped"}
<1>1. Idle = w("idle") /\ [Idle EXCEPT !.stage = stage] = w(stage)
  BY DEF Idle
<1>2. /\ \A s \in {"idle", "stopped"} : s \in Stages /\ s \notin {"fixed", "chat", "reply"}
      /\ <<>> \in Messages \cup {<<>>} /\ <<>> \in Seq(Sayings)
  OBVIOUS
<1> HIDE DEF Stages
<1>3. \A s \in {"idle", "stopped"} :
        /\ w(s) \in [stage : Stages, message : Messages \cup {<<>>}, history : Seq(Sayings)]
        /\ w(s).stage = s
  BY <1>2
<1> HIDE DEF w
<1>4. \A s \in {"idle", "stopped"} : Working(w(s), ex)
  BY <1>2, <1>3 DEF Working, Stages
<1> QED
  BY <1>1, <1>4

LEMMA HeadOfQueue ==
    ASSUME IntakeInv, queue # <<>>, queue' = Tail(queue)
    PROVE  /\ Head(queue) \in Messages
           /\ Head(queue).key \in Keys /\ Head(queue).event \in Events
           /\ queue' \in Seq(Messages) /\ Len(queue') <= QueueSize
<1>1. queue \in Seq(Messages) /\ Len(queue) <= QueueSize /\ QueueSize \in Nat
  BY BotAssumption DEF IntakeInv, IntakeTypes
<1>2. /\ Tail(queue) \in Seq(Messages) /\ Len(Tail(queue)) = Len(queue) - 1
      /\ Len(queue) \in Nat \ {0} /\ Head(queue) \in Messages
  BY <1>1, TailIs
<1>3. Len(Tail(queue)) <= QueueSize
  BY <1>1, <1>2
<1>4. \A m \in Messages : m.key \in Keys /\ m.event \in Events
  BY DEF Messages
<1> QED
  BY <1>2, <1>3, <1>4

LEMMA TakeCommandTalk ==
    ASSUME IntakeInv, TalkInv, TakeCommand
    PROVE  TalkInv' /\ queue' \in Seq(Messages) /\ Len(queue') <= QueueSize
<1> DEFINE m == Head(queue)
<1>1. queue # <<>> /\ queue' = Tail(queue) /\ worker' = Doing("fixed", m)
  BY DEF TakeCommand
<1>2. m \in Messages /\ m.key \in Keys /\ queue' \in Seq(Messages) /\ Len(queue') <= QueueSize
  BY <1>1, HeadOfQueue
<1>3. \/ sessions' = Without(sessions, m.key) /\ exchanges' = [exchanges EXCEPT ![m.key] = <<>>]
      \/ \E n \in Prunes : sessions' = Pruned(n) /\ UNCHANGED exchanges
      \/ UNCHANGED history
  BY DEF TakeCommand
<1> HIDE DEF m
<1>4. exchanges \in [Keys -> Seq(Events)] /\ Kept(sessions, exchanges) /\ sessions \in Seq(Sess)
  BY DEF TalkInv, Kept
<1>5. exchanges' \in [Keys -> Seq(Events)] /\ Kept(sessions', exchanges')
  <2>1. CASE sessions' = Without(sessions, m.key)
             /\ exchanges' = [exchanges EXCEPT ![m.key] = <<>>]
    <3>0. <<>> \in Seq(Events)
      OBVIOUS
    <3>1. PICK ex \in [Keys -> Seq(Events)] : ex = exchanges'
      BY <1>4, <2>1, <3>0
    <3>2. PICK list : list = sessions'
      OBVIOUS
    <3>3. /\ Within(list, sessions) /\ \A j \in 1..Len(list) : list[j].key # m.key
      BY <1>4, <2>1, <3>2, WithoutIs DEF Kept
    <3>4. Kept(list, exchanges)
      BY <1>4, <3>3, KeptWithin
    <3>5. \A k \in Keys : k # m.key => ex[k] = exchanges[k]
      BY <1>4, <2>1, <3>1
    <3>6. \A j \in 1..Len(list) : list[j].key \in Keys
      BY <3>4, KeyOfSession DEF Kept
    <3>7. Kept(list, ex)
      BY <3>3, <3>4, <3>5, <3>6 DEF Kept
    <3> QED
      BY <3>1, <3>2, <3>7
  <2>2. ASSUME NEW n \in Prunes, sessions' = Pruned(n), UNCHANGED exchanges
        PROVE  exchanges' \in [Keys -> Seq(Events)] /\ Kept(sessions', exchanges')
    BY <1>4, <2>2, PrunedIs
  <2>3. CASE UNCHANGED history
    BY <1>4, <2>3 DEF history
  <2> QED
    BY <1>3, <2>1, <2>2, <2>3
<1>6. Working(worker', exchanges')
  BY <1>1, <1>2, DoingWorks
<1> QED
  BY <1>2, <1>5, <1>6 DEF TalkInv

LEMMA TakeChatTalk ==
    ASSUME IntakeInv, TalkInv, TakeChat
    PROVE  TalkInv' /\ queue' \in Seq(Messages) /\ Len(queue') <= QueueSize
<1> DEFINE m == Head(queue)
<1>1. /\ queue # <<>> /\ queue' = Tail(queue) /\ exchanges' = exchanges
  BY DEF TakeChat
<1>2. PICK n \in Prunes :
        /\ sessions' = Pruned(n)
        /\ \E h \in RequestHistories(Append(MessagesOf(sessions', m.key), Said("user", m.event))) :
             worker' = [stage |-> "chat", message |-> m, history |-> h]
  BY DEF TakeChat
<1>3. PICK h \in RequestHistories(Append(MessagesOf(sessions', m.key), Said("user", m.event))) :
        worker' = [stage |-> "chat", message |-> m, history |-> h]
  BY <1>2
<1>4. /\ m \in Messages /\ m.key \in Keys /\ m.event \in Events
      /\ queue' \in Seq(Messages) /\ Len(queue') <= QueueSize
  BY <1>1, HeadOfQueue
<1> HIDE DEF m
<1> DEFINE old == MessagesOf(sessions', m.key)
           u == Said("user", m.event)
<1>5. exchanges \in [Keys -> Seq(Events)] /\ Kept(sessions', exchanges)
  BY <1>2, PrunedIs DEF TalkInv
<1>6. Talk(exchanges[m.key], old) /\ Len(old) <= HistoryMessages
  BY <1>4, <1>5, MessagesKept
<1>7. u \in Sayings
  BY <1>4 DEF Said, Sayings
<1> HIDE DEF old, u
<1>8. exchanges[m.key] \in Seq(Events)
  BY <1>4, <1>5
<1>9. old \in Seq(Sayings) /\ Len(old) \in Nat
  BY <1>6, <1>8, TalkIs
<1>10. PICK k \in 0..(Len(Append(old, u)) - 1) \div 2 :
         /\ h = DropPairs(Append(old, u), k)
         /\ Len(h) <= MaxRequestMessages \/ Len(h) <= 2
  BY <1>3 DEF RequestHistories, old, u
<1>11. /\ k \in 0..Len(old) \div 2 /\ h \in Seq(Sayings) /\ h # <<>>
       /\ Len(h) = Len(old) - 2 * k + 1
       /\ Front(h) = DropPairs(old, k) /\ Last(h) = u
  BY <1>7, <1>9, <1>10, DropAppended
<1>12. Len(h) <= MaxRequestMessages
  <2>1. MaxRequestMessages \in Nat /\ MaxRequestMessages >= HistoryMessages
        /\ HistoryMessages \in Nat \ {0, 1}
    BY BotAssumption
  <2>2. Len(h) \in Nat
    BY <1>11
  <2>3. Len(h) <= 2 => Len(h) <= MaxRequestMessages
    BY <2>1, <2>2
  <2> QED
    BY <1>10, <2>3
<1>13. Talk(exchanges[m.key], Front(h))
  BY <1>6, <1>8, <1>11, TalkDrop
<1> DEFINE w == [stage |-> "chat", message |-> m, history |-> h]
           Stages == {"idle", "fixed", "chat", "reply", "stopped"}
<1>14. w.stage = "chat" /\ w.message = m /\ w.history = h /\ "chat" \in Stages
       /\ m \in Messages \cup {<<>>}
  BY <1>4
<1> HIDE DEF Stages
<1>15. w \in [stage : Stages, message : Messages \cup {<<>>}, history : Seq(Sayings)]
  BY <1>11, <1>14
<1> HIDE DEF w
<1>16. Working(w, exchanges)
  BY <1>4, <1>11, <1>12, <1>13, <1>14, <1>15 DEF Working, Stages, u
<1> QED
  BY <1>1, <1>3, <1>4, <1>5, <1>16 DEF TalkInv, w

LEMMA ChatReturnsTalk ==
    ASSUME TalkInv, ChatReturns
    PROVE  TalkInv'
<1>1. /\ worker.stage = "chat" /\ UNCHANGED <<sessions, exchanges>>
      /\ \/ worker' = [worker EXCEPT !.stage = "reply"]
         \/ worker' = Doing("fixed", worker.message)
  BY DEF ChatReturns, history
<1>2. Working(worker, exchanges) /\ worker.message \in Messages
  BY <1>1 DEF TalkInv, Working
<1>3. CASE worker' = Doing("fixed", worker.message)
  BY <1>1, <1>2, <1>3, DoingWorks DEF TalkInv
<1>4. CASE worker' = [worker EXCEPT !.stage = "reply"]
  <2> DEFINE Stages == {"idle", "fixed", "chat", "reply", "stopped"}
  <2>1. "reply" \in Stages
    OBVIOUS
  <2>2. worker \in [stage : Stages, message : Messages \cup {<<>>}, history : Seq(Sayings)]
    BY <1>2 DEF Working
  <2> HIDE DEF Stages
  <2>3. PICK w \in [stage : Stages, message : Messages \cup {<<>>}, history : Seq(Sayings)] :
          w = worker' /\ w.stage = "reply" /\ w.message = worker.message
          /\ w.history = worker.history
    BY <1>4, <2>1, <2>2
  <2>4. Working(w, exchanges)
    BY <1>1, <1>2, <2>3 DEF Working, Stages
  <2> QED
    BY <1>1, <2>3, <2>4 DEF TalkInv
<1> QED
  BY <1>1, <1>3, <1>4

LEMMA GoesIdleTalk ==
    ASSUME TalkInv, FixedReply \/ ReplyFails \/ WorkerStops
    PROVE  TalkInv'
<1>1. UNCHANGED <<sessions, exchanges>>
      /\ (worker' = Idle \/ worker' = [Idle EXCEPT !.stage = "stopped"])
  BY DEF FixedReply, ReplyFails, WorkerStops, history
<1>2. Working(worker', exchanges)
  BY <1>1, IdleWorks
<1> QED
  BY <1>1, <1>2 DEF TalkInv

\* The session stored is the dialogue with the answer just delivered.
LEMMA DeliveredTalk ==
    ASSUME TalkInv, Delivered
    PROVE  TalkInv'
<1> DEFINE key == worker.message.key
           e == worker.message.event
           answer == Append(worker.history, Said("assistant", e))
<1>1. /\ worker.stage = "reply" /\ StoreSession(key, answer) /\ worker' = Idle
      /\ exchanges' = [exchanges EXCEPT ![key] = Append(@, e)]
  BY DEF Delivered
<1>2. /\ worker.message \in Messages /\ worker.history \in Seq(Sayings)
      /\ worker.history # <<>> /\ Talk(exchanges[key], Front(worker.history))
      /\ Last(worker.history) = Said("user", e)
  BY <1>1 DEF TalkInv, Working
<1>3. key \in Keys /\ e \in Events /\ Said("assistant", e) \in Sayings
  BY <1>2 DEF Messages, Said, Sayings
<1> HIDE DEF key, e
<1>4. exchanges \in [Keys -> Seq(Events)] /\ exchanges[key] \in Seq(Events)
  BY <1>3 DEF TalkInv
<1>5. Talk(Append(exchanges[key], e), answer)
  BY <1>2, <1>3, <1>4, TalkAnswer
<1> HIDE DEF answer
<1>6. Append(exchanges[key], e) \in Seq(Events)
  BY <1>3, <1>4, Appended
<1>7. PICK ex \in [Keys -> Seq(Events)] :
        /\ ex = exchanges' /\ ex[key] = Append(exchanges[key], e)
        /\ \A k \in Keys : k # key => ex[k] = exchanges[k]
  BY <1>1, <1>3, <1>4, <1>6
<1>8. PICK n \in Prunes, h \in StoredHistories(answer) :
        LET kept == Pruned(n)
            room == IF Has(kept, key) \/ Len(kept) < MaxSessions THEN kept ELSE Tail(kept)
        IN  sessions' = Append(Without(room, key), [key |-> key, messages |-> h])
  BY <1>1 DEF StoreSession
<1> DEFINE kept == Pruned(n)
           room == IF Has(kept, key) \/ Len(kept) < MaxSessions THEN kept ELSE Tail(kept)
           rest == Without(room, key)
           s == [key |-> key, messages |-> h]
<1>9. sessions' = Append(rest, s)
  BY <1>8
<1>10. Kept(kept, exchanges)
  BY PrunedIs
<1>11. /\ MaxSessions \in Nat \ {0} /\ kept \in Seq(Sess) /\ Len(kept) \in Nat
       /\ Len(kept) <= MaxSessions
  BY <1>10, BotAssumption DEF Kept
<1> HIDE DEF kept
<1>12. /\ Kept(room, exchanges) /\ Len(room) \in Nat
       /\ Has(room, key) \/ Len(room) < MaxSessions
  <2>1. CASE Has(kept, key) \/ Len(kept) < MaxSessions
    BY <1>10, <1>11, <2>1
  <2>2. CASE ~(Has(kept, key) \/ Len(kept) < MaxSessions)
    <3>1. room = Tail(kept) /\ ~(Len(kept) < MaxSessions)
      BY <2>2
    <3>2. kept # <<>>
      BY <1>11, <3>1
    <3>3. Within(Tail(kept), kept) /\ Len(Tail(kept)) = Len(kept) - 1
      BY <1>11, <3>2, TailWithin
    <3>4. Len(kept) - 1 \in Nat /\ Len(kept) - 1 < MaxSessions
      BY <1>11, <3>1
    <3> QED
      BY <1>10, <3>1, <3>3, <3>4, KeptWithin
  <2> QED
    BY <2>1, <2>2
<1> HIDE DEF room
<1>13. /\ Within(rest, room) /\ \A j \in 1..Len(rest) : rest[j].key # key
       /\ Has(room, key) => Len(rest) = Len(room) - 1
  BY <1>12, WithoutIs DEF Kept
<1>14. Kept(rest, exchanges)
  BY <1>12, <1>13, KeptWithin
<1>15. Len(rest) + 1 <= MaxSessions
  <2>1. Len(rest) \in Nat /\ Len(rest) <= Len(room) /\ Len(room) <= MaxSessions
    BY <1>12, <1>13 DEF Within, Kept
  <2> QED
    BY <1>11, <1>12, <1>13, <2>1
<1> HIDE DEF rest
<1>16. /\ Talk(ex[key], h) /\ h \in Seq(Sayings) /\ Len(h) <= HistoryMessages
  <2>1. PICK k \in 0..Len(answer) \div 2 : h = DropPairs(answer, k) /\ Len(h) <= HistoryMessages
    BY <1>8 DEF StoredHistories
  <2> QED
    BY <1>5, <1>6, <1>7, <2>1, TalkDrop
<1>17. s \in Sess /\ s.key = key /\ s.messages = h
  BY <1>3, <1>16 DEF Sess
<1> HIDE DEF s
<1> DEFINE list == Append(rest, s)
<1>18. /\ list \in Seq(Sess) /\ Len(list) = Len(rest) + 1 /\ Unique(list)
       /\ \A j \in 1..Len(list) :
            list[j] = s \/ \E i \in 1..Len(rest) : list[j] = rest[i]
  BY <1>13, <1>14, <1>17, AddedSession DEF Kept
<1> HIDE DEF list
<1>19. ASSUME NEW j \in 1..Len(list)
       PROVE  Talk(ex[list[j].key], list[j].messages) /\ Len(list[j].messages) <= HistoryMessages
  <2>1. CASE list[j] = s
    BY <1>16, <1>17, <2>1
  <2>2. ASSUME NEW i \in 1..Len(rest), list[j] = rest[i]
        PROVE  Talk(ex[list[j].key], list[j].messages) /\ Len(list[j].messages) <= HistoryMessages
    <3>1. rest[i].key \in Keys /\ rest[i].key # key
      BY <1>13, <1>14, KeyOfSession DEF Kept
    <3>2. ex[rest[i].key] = exchanges[rest[i].key]
      BY <1>7, <3>1
    <3> QED
      BY <1>14, <2>2, <3>2 DEF Kept
  <2> QED
    BY <1>18, <2>1, <2>2
<1>20. Kept(list, ex)
  BY <1>15, <1>18, <1>19 DEF Kept
<1>21. Working(worker', ex)
  BY <1>1, IdleWorks
<1> QED
  BY <1>7, <1>9, <1>20, <1>21 DEF TalkInv, list

LEMMA RestartTalk ==
    ASSUME Restart
    PROVE  TalkInv'
<1>1. sessions' = <<>> /\ worker' = Idle /\ exchanges' = [k \in Keys |-> <<>>]
  BY DEF Restart
<1>2. Kept(<<>>, exchanges')
  <2>1. MaxSessions \in Nat
    BY BotAssumption
  <2> QED
    BY <2>1 DEF Kept, Unique
<1>3. exchanges' \in [Keys -> Seq(Events)]
  BY <1>1
<1> QED
  BY <1>1, <1>2, <1>3, IdleWorks DEF TalkInv
-----------------------------------------------------------------------------
(* Every step.                                                             *)

LEMMA InitInvariant ==
    ASSUME Init
    PROVE  IInv
<1>0. /\ MaxUpdates \in Nat /\ QueueSize \in Nat /\ MaxRemembered \in Nat
      /\ MaxSessions \in Nat /\ MaxRestarts \in Nat
  BY BotAssumption
<1>1. ProcessTypes
  <2>1. updates \in [Ids -> Content(Kinds)] /\ posts \in [Posts -> Content(PostKinds)]
        /\ closing = FALSE /\ restarts = 0
    BY DEF Init
  <2>2. 0 \in 0..MaxRestarts
    BY <1>0
  <2> QED
    BY <2>1, <2>2 DEF ProcessTypes
<1>2. NewPoller \in [stage : {"running", "stopped"}, offset : 0..MaxUpdates + 1, batch : Seq(Ids)]
  <2>1. 0 \in 0..MaxUpdates + 1 /\ <<>> \in Seq(Ids) /\ "running" \in {"running", "stopped"}
    BY <1>0
  <2> QED
    BY <2>1 DEF NewPoller
<1>3. /\ poller = NewPoller /\ poller.offset = 0 /\ poller.batch = <<>> /\ confirmed = 1
      /\ told = {} /\ queue = <<>> /\ remembered = <<>> /\ accepted = <<>> /\ since = 0
  BY DEF Init, NewPoller
<1>4. IntakeTypes
  BY <1>0, <1>2, <1>3 DEF IntakeTypes
<1>5. \A id \in Ids : ~(id < 0) /\ ~(id < 1)
  BY <1>0 DEF Ids
<1>6. Batched
  BY <1>3, <1>5 DEF Batched, Passed
<1>7. Sparse(0, <<>>) /\ Above(0, <<>>, 0) /\ Latest(<<>>, 0, <<>>)
  BY <1>0 DEF Sparse, Above, Latest
<1>8. IntakeInv
  BY <1>3, <1>4, <1>6, <1>7 DEF IntakeInv
<1>9. Kept(<<>>, exchanges)
  BY <1>0 DEF Kept, Unique
<1>10. exchanges \in [Keys -> Seq(Events)] /\ Working(worker, exchanges) /\ sessions = <<>>
  BY IdleWorks DEF Init
<1> QED
  BY <1>1, <1>8, <1>9, <1>10 DEF IInv, TalkInv

\* The steps that neither queue nor talk.
LEMMA ProcessKept ==
    ASSUME ProcessTypes, UNCHANGED outside,
           UNCHANGED <<closing, restarts>> \/ Close \/ Restart
    PROVE  ProcessTypes'
<1>1. updates' = updates /\ posts' = posts
  BY DEF outside
<1>2. closing' \in BOOLEAN /\ restarts' \in 0..MaxRestarts
  <2>1. CASE UNCHANGED <<closing, restarts>>
    BY <2>1 DEF ProcessTypes
  <2>2. CASE Close
    BY <2>2 DEF Close, ProcessTypes
  <2>3. CASE Restart
    <3>1. restarts \in 0..MaxRestarts /\ MaxRestarts \in Nat
      BY BotAssumption DEF ProcessTypes
    <3>2. restarts < MaxRestarts /\ restarts' = restarts + 1 /\ closing' = FALSE
      BY <2>3 DEF Restart
    <3>3. restarts + 1 \in 0..MaxRestarts
      BY <3>1, <3>2
    <3> QED
      BY <3>2, <3>3
  <2> QED
    BY <2>1, <2>2, <2>3
<1> QED
  BY <1>1, <1>2 DEF ProcessTypes

LEMMA NextInvariant ==
    ASSUME IInv, [Next]_vars
    PROVE  IInv'
<1>0. ProcessTypes /\ IntakeInv /\ TalkInv /\ queue \in Seq(Messages) /\ Len(queue) <= QueueSize
  BY DEF IInv, IntakeInv, IntakeTypes
<1>1. ASSUME NEW p \in Posts, Webhook(p) PROVE IInv'
  <2>1. ProcessTypes'
    BY <1>0, <1>1, ProcessKept DEF Webhook, process
  <2>2. TalkInv'
    BY <1>0, <1>1, TalkKept DEF Webhook, history
  <2> QED
    BY <1>0, <1>1, <2>1, <2>2, WebhookIntake DEF IInv
<1>2. CASE PollerStep
  <2>1. UNCHANGED <<outside, history, worker, process>>
    BY <1>2 DEF PollerStep, GetUpdates, SkipUpdate, IgnoreUpdate, AcceptUpdate, PollerStops
  <2>2. ProcessTypes'
    BY <1>0, <2>1, ProcessKept DEF process
  <2>3. TalkInv'
    BY <1>0, <2>1, TalkKept DEF history
  <2>4. IntakeInv'
    BY <1>0, <1>2, GetUpdatesIntake, SkipUpdateIntake, IgnoreUpdateIntake, AcceptUpdateIntake,
       PollerStopsIntake DEF PollerStep
  <2> QED
    BY <2>2, <2>3, <2>4 DEF IInv
<1>3. CASE WorkerStep
  <2>1. UNCHANGED <<outside, confirmed, told, remembered, accepted, poller, process>>
    BY <1>3 DEF WorkerStep, TakeCommand, TakeChat, ChatReturns, FixedReply, ReplyFails,
                Delivered, WorkerStops, intake
  <2>2. ProcessTypes'
    BY <1>0, <2>1, ProcessKept DEF process
  <2>3. TalkInv' /\ queue' \in Seq(Messages) /\ Len(queue') <= QueueSize
    <3>1. CASE TakeCommand \/ TakeChat
      BY <1>0, <3>1, TakeCommandTalk, TakeChatTalk
    <3>2. CASE ChatReturns \/ FixedReply \/ ReplyFails \/ Delivered \/ WorkerStops
      <4>1. queue' = queue
        BY <3>2 DEF ChatReturns, FixedReply, ReplyFails, Delivered, WorkerStops, intake
      <4> QED
        BY <1>0, <3>2, <4>1, ChatReturnsTalk, GoesIdleTalk, DeliveredTalk
    <3> QED
      BY <1>3, <3>1, <3>2 DEF WorkerStep
  <2>4. IntakeInv'
    BY <1>0, <2>1, <2>3, IntakeKept DEF outside, process
  <2> QED
    BY <2>2, <2>3, <2>4 DEF IInv
<1>4. CASE Close
  <2>1. ProcessTypes'
    BY <1>0, <1>4, ProcessKept DEF Close
  <2>2. TalkInv'
    BY <1>0, <1>4, TalkKept DEF Close, history
  <2>3. IntakeInv'
    BY <1>0, <1>4, IntakeKept DEF Close, outside, intake
  <2> QED
    BY <2>1, <2>2, <2>3 DEF IInv
<1>5. CASE Restart
  <2>1. ProcessTypes'
    BY <1>0, <1>5, ProcessKept DEF Restart
  <2> QED
    BY <1>0, <1>5, <2>1, RestartIntake, RestartTalk DEF IInv
<1>6. CASE UNCHANGED vars
  <2>1. ProcessTypes'
    BY <1>0, <1>6, ProcessKept DEF vars, process
  <2>2. TalkInv'
    BY <1>0, <1>6, TalkKept DEF vars, history
  <2>3. IntakeInv'
    BY <1>0, <1>6, IntakeKept DEF vars, outside, intake, process
  <2> QED
    BY <2>1, <2>2, <2>3 DEF IInv
<1> QED
  BY <1>1, <1>2, <1>3, <1>4, <1>5, <1>6 DEF Next

LEMMA AlwaysIInv == Spec => []IInv
<1>1. Init => IInv
  BY InitInvariant
<1>2. IInv /\ [Next]_vars => IInv'
  BY NextInvariant
<1> QED
  BY <1>1, <1>2, PTL DEF Spec
-----------------------------------------------------------------------------
\* The gateway never holds more than it may: messages in its queue, events in
\* its memory, sessions (bots.go:60-110, 250-289).
THEOREM BotTypes == Spec => []TypeOK
<1>1. IInv => TypeOK
  BY InvariantImplies
<1> QED
  BY <1>1, AlwaysIInv, PTL

\* Whatever the sizes of the queue and of the memory, whoever repeats a post or
\* an update and whenever the process restarts: what was answered or
\* acknowledged as accepted was queued, no event twice while it is among the
\* latest remembered, and Telegram's updates in order (bots.go:88-110,
\* telegram_polling.go:41-43, 100-112).
THEOREM AlwaysAcceptedOnce == Spec => []AcceptedOnce
<1>1. IInv => AcceptedOnce
  BY InvariantImplies
<1> QED
  BY <1>1, AlwaysIInv, PTL

\* Whatever the limits and however many conversations there are, a session holds
\* the latest exchanges of its own conversation that were delivered, question
\* and answer in turn, and the model is shown such a history and the new
\* question (bots.go:147-170, 229-289, dialogue.go:115-142).
THEOREM AlwaysADialogue == Spec => []HistoryIsADialogue
<1>1. IInv => HistoryIsADialogue
  BY InvariantImplies
<1> QED
  BY <1>1, AlwaysIInv, PTL
==============================================================================
