-------------------------- MODULE EventTailProofs --------------------------
(***************************************************************************)
(* Theorems about EventTail, for any number of writers and clients, every  *)
(* journal, batch, frame size and queue: no wakeup is lost, every entry    *)
(* reaches a client once, in order and under its run, and the sidecar      *)
(* holds what its watermark says.                                          *)
(***************************************************************************)
EXTENDS EventTail, FiniteSetTheorems, FunctionTheorems, SequenceTheorems, TLAPS

-----------------------------------------------------------------------------
(* Numbers in order *)

\* A set of seqs up to n is finite.
LEMMA SeqsAreFinite ==
    ASSUME NEW n \in Nat, NEW S \in SUBSET (1 .. n)
    PROVE  S \in SUBSET Nat /\ IsFiniteSet(S) /\ Cardinality(S) \in Nat
<1>1. S \in SUBSET Nat /\ \A s \in S : s <= n
  OBVIOUS
<1>2. IsFiniteSet(S)
  BY <1>1, FS_BoundedSetOfNaturals
<1> QED
  BY <1>1, <1>2, FS_CardinalityType

\* The rank grows from one member of a set to the next.
LEMMA RankGrows ==
    ASSUME NEW S \in SUBSET Nat, IsFiniteSet(S), NEW s \in S, NEW t \in S, s < t
    PROVE  Rank(S, s) < Rank(S, t)
<1> DEFINE A == {x \in S : x <= s}
           B == {x \in S : x <= t}
<1>1. IsFiniteSet(A) /\ IsFiniteSet(B)
  BY FS_Subset
<1>2. Cardinality(A) \in Nat /\ Cardinality(B) \in Nat
  BY <1>1, FS_CardinalityType
<1>3. t \notin A /\ A \cup {t} \subseteq B
  <2>1. s \in Nat /\ t \in Nat /\ ~(t <= s) /\ t <= t
    OBVIOUS
  <2>2. ASSUME NEW x \in A PROVE x \in B
    <3>1. x \in Nat /\ x <= s
      OBVIOUS
    <3> QED
      BY <2>1, <3>1
  <2> QED
    BY <2>1, <2>2
<1>4. Cardinality(A \cup {t}) = Cardinality(A) + 1
  BY <1>1, <1>3, FS_AddElement
<1>5. Cardinality(A \cup {t}) <= Cardinality(B)
  BY <1>1, <1>3, FS_Subset
<1> QED
  BY <1>2, <1>4, <1>5 DEF Rank

\* The ranks of a set are the numbers up to its size, each once.
LEMMA RanksAreOnto ==
    ASSUME NEW S \in SUBSET Nat, IsFiniteSet(S)
    PROVE  /\ Cardinality(S) \in Nat
           /\ \A s \in S : Rank(S, s) \in 1 .. Cardinality(S)
           /\ \A s, t \in S : Rank(S, s) = Rank(S, t) => s = t
           /\ \A k \in 1 .. Cardinality(S) : \E s \in S : Rank(S, s) = k
<1>1. Cardinality(S) \in Nat
  BY FS_CardinalityType
<1>2. ASSUME NEW s \in S PROVE Rank(S, s) \in 1 .. Cardinality(S)
  <2> DEFINE A == {x \in S : x <= s}
  <2>1. IsFiniteSet(A) /\ Cardinality(A) <= Cardinality(S)
    BY FS_Subset
  <2>2. Cardinality(A) \in Nat
    BY <2>1, FS_CardinalityType
  <2>3. s \in A
    OBVIOUS
  <2>4. Cardinality(A) # 0
    BY <2>1, <2>3, FS_EmptySet
  <2> QED
    BY <1>1, <2>1, <2>2, <2>4 DEF Rank
<1>3. \A s, t \in S : Rank(S, s) = Rank(S, t) => s = t
  <2> SUFFICES ASSUME NEW s \in S, NEW t \in S, Rank(S, s) = Rank(S, t), s # t PROVE FALSE
    OBVIOUS
  <2>1. s < t \/ t < s
    OBVIOUS
  <2>2. Rank(S, s) \in Nat /\ Rank(S, t) \in Nat
    BY <1>2
  <2> QED
    BY <2>1, <2>2, RankGrows
<1> DEFINE f == [s \in S |-> Rank(S, s)]
           I == 1 .. Cardinality(S)
<1>4. f \in Injection(S, I)
  BY <1>2, <1>3, Fun_IsInj
<1>5. IsFiniteSet(I) /\ Cardinality(I) = Cardinality(S)
  <2>1. 1 \in Int /\ Cardinality(S) \in Int
    BY <1>1
  <2>2. IsFiniteSet(I) /\ Cardinality(I) = IF 1 > Cardinality(S) THEN 0 ELSE Cardinality(S) - 1 + 1
    BY <2>1, FS_Interval
  <2> QED
    BY <1>1, <2>2
<1>6. f \in Surjection(S, I)
  BY <1>4, <1>5, FS_Injection
<1>7. \A k \in I : \E s \in S : f[s] = k
  BY <1>6 DEF Surjection
<1> QED
  BY <1>1, <1>2, <1>3, <1>7

\* q lists the numbers of S in ascending order.
Lists(q, S) ==
    /\ q \in Seq(S)
    /\ \A i, j \in 1 .. Len(q) : i < j => q[i] < q[j]
    /\ \A s \in S : \E i \in 1 .. Len(q) : q[i] = s

\* InOrder lists its set.
LEMMA InOrderLists ==
    ASSUME NEW S \in SUBSET Nat, IsFiniteSet(S)
    PROVE  Lists(InOrder(S), S) /\ Len(InOrder(S)) = Cardinality(S)
<1> DEFINE q == InOrder(S)
           n == Cardinality(S)
<1>1. n \in Nat
  BY RanksAreOnto
<1>2. \A k \in 1 .. n : q[k] \in S /\ Rank(S, q[k]) = k
  BY RanksAreOnto DEF InOrder
<1>3. q = [k \in 1 .. n |-> q[k]]
  BY DEF InOrder
<1> HIDE DEF q
<1>4. q \in Seq(S) /\ Len(q) = n
  BY <1>1, <1>2, <1>3
<1>5. ASSUME NEW i \in 1 .. n, NEW j \in 1 .. n, i < j PROVE q[i] < q[j]
  <2>1. q[i] \in S /\ q[j] \in S /\ Rank(S, q[i]) = i /\ Rank(S, q[j]) = j
    BY <1>2
  <2>2. q[j] < q[i] => j < i
    BY <2>1, RankGrows
  <2>3. q[i] \in Nat /\ q[j] \in Nat
    BY <2>1
  <2> QED
    BY <1>1, <1>5, <2>1, <2>2, <2>3
<1>6. ASSUME NEW s \in S PROVE \E i \in 1 .. n : q[i] = s
  <2>1. Rank(S, s) \in 1 .. n
    BY RanksAreOnto
  <2>2. \A x, y \in S : Rank(S, x) = Rank(S, y) => x = y
    BY RanksAreOnto
  <2>3. q[Rank(S, s)] = s
    BY <1>2, <2>1, <2>2
  <2> QED
    BY <2>1, <2>3
<1>7. Lists(q, S)
  BY <1>4, <1>5, <1>6 DEF Lists
<1> QED
  BY <1>4, <1>7 DEF q

\* A listing is the set in order.
LEMMA ListsIsInOrder ==
    ASSUME NEW S \in SUBSET Nat, IsFiniteSet(S), NEW q, Lists(q, S)
    PROVE  q = InOrder(S)
<1> DEFINE n == Cardinality(S)
<1>1. q \in Seq(S) /\ Len(q) \in Nat /\ q \in [1 .. Len(q) -> S]
  BY DEF Lists
<1>2. ASSUME NEW k \in 1 .. Len(q) PROVE Rank(S, q[k]) = k
  <2> DEFINE A == {x \in S : x <= q[k]}
             f == [i \in 1 .. k |-> q[i]]
  <2>0. k \in Nat /\ k <= Len(q) /\ \A i \in 1 .. k : i \in 1 .. Len(q)
    BY <1>1
  <2>1. \A i \in 1 .. Len(q) : q[i] \in S /\ q[i] \in Nat
    BY <1>1
  <2>2. ASSUME NEW i \in 1 .. k PROVE q[i] \in A
    <3>1. i \in 1 .. Len(q) /\ (i < k \/ i = k)
      BY <2>0
    <3>2. q[i] <= q[k]
      BY <2>1, <3>1 DEF Lists
    <3> QED
      BY <2>1, <3>1, <3>2
  <2>3. ASSUME NEW i \in 1 .. k, NEW j \in 1 .. k, q[i] = q[j] PROVE i = j
    <3>1. i \in 1 .. Len(q) /\ j \in 1 .. Len(q) /\ (i < j \/ j < i \/ i = j)
      BY <2>0
    <3>2. ~(q[i] < q[j]) /\ ~(q[j] < q[i])
      BY <2>1, <2>3, <3>1
    <3> QED
      BY <3>1, <3>2 DEF Lists
  <2>4. ASSUME NEW x \in A PROVE \E i \in 1 .. k : q[i] = x
    <3>1. PICK i \in 1 .. Len(q) : q[i] = x
      BY DEF Lists
    <3>2. ~(k < i)
      <4>1. k < i => q[k] < q[i]
        BY DEF Lists
      <4>2. q[i] <= q[k] /\ q[i] \in Nat /\ q[k] \in Nat
        BY <2>1, <3>1
      <4> QED
        BY <4>1, <4>2
    <3>3. i \in 1 .. k
      BY <2>0, <3>2
    <3> QED
      BY <3>1, <3>3
  <2>5. f \in Bijection(1 .. k, A)
    BY <2>2, <2>3, <2>4, Fun_IsBij
  <2>6. ExistsBijection(1 .. k, A)
    BY <2>5 DEF ExistsBijection
  <2>7. Cardinality(A) = k
    BY <2>0, <2>6, FS_CountingElements
  <2> QED
    BY <2>7 DEF Rank
<1>3. n \in Nat /\ \A s \in S : Rank(S, s) \in 1 .. n
  BY RanksAreOnto
<1>4. Len(q) = n
  <2>1. \A k \in 1 .. Len(q) : k \in 1 .. n
    BY <1>1, <1>2, <1>3
  <2>2. Len(q) <= n
    <3>1. CASE Len(q) = 0
      BY <1>3, <3>1
    <3>2. CASE Len(q) # 0
      <4>1. Len(q) \in 1 .. Len(q)
        BY <1>1, <3>2
      <4> QED
        BY <1>3, <2>1, <4>1
    <3> QED
      BY <3>1, <3>2
  <2>3. n <= Len(q)
    <3>1. CASE n = 0
      BY <1>1, <3>1
    <3>2. CASE n # 0
      <4>1. n \in 1 .. n
        BY <1>3, <3>2
      <4>2. PICK s \in S : Rank(S, s) = n
        BY <4>1, RanksAreOnto
      <4>3. PICK i \in 1 .. Len(q) : q[i] = s
        BY DEF Lists
      <4>4. i = n
        BY <1>2, <4>2, <4>3
      <4> QED
        BY <1>1, <1>3, <4>3, <4>4
    <3> QED
      BY <3>1, <3>2
  <2> QED
    BY <1>1, <1>3, <2>2, <2>3
<1>5. ASSUME NEW k \in 1 .. n PROVE q[k] = InOrder(S)[k]
  <2>1. q[k] \in S /\ Rank(S, q[k]) = k
    BY <1>1, <1>2, <1>4
  <2>2. InOrder(S)[k] \in S /\ Rank(S, InOrder(S)[k]) = k
    BY RanksAreOnto DEF InOrder
  <2>3. \A x, y \in S : Rank(S, x) = Rank(S, y) => x = y
    BY RanksAreOnto
  <2> QED
    BY <2>1, <2>2, <2>3
<1>6. q = [k \in 1 .. n |-> q[k]]
  BY <1>1, <1>4
<1>7. InOrder(S) = [k \in 1 .. n |-> InOrder(S)[k]]
  BY DEF InOrder
<1> QED
  BY <1>5, <1>6, <1>7

\* Two listings, one below the other, make one.
LEMMA ListsConcat ==
    ASSUME NEW A \in SUBSET Nat, NEW B \in SUBSET Nat, NEW p, NEW q, Lists(p, A), Lists(q, B),
           \A a \in A, b \in B : a < b
    PROVE  Lists(p \o q, A \cup B)
<1> DEFINE r == p \o q
           S == A \cup B
<1>1. p \in Seq(A) /\ q \in Seq(B) /\ Len(p) \in Nat /\ Len(q) \in Nat
  BY DEF Lists
<1>2. p \in Seq(S) /\ q \in Seq(S)
  BY <1>1, SeqMonotonic
<1>3. r \in Seq(S) /\ Len(r) = Len(p) + Len(q)
  BY <1>2, ConcatProperties
<1>4. /\ \A i \in 1 .. Len(p) : r[i] = p[i] /\ p[i] \in A
      /\ \A i \in 1 .. Len(q) : r[Len(p) + i] = q[i] /\ q[i] \in B
  <2>1. \A i \in 1 .. Len(p) + Len(q) : r[i] = IF i <= Len(p) THEN p[i] ELSE q[i - Len(p)]
    BY <1>2, ConcatProperties
  <2>2. ASSUME NEW i \in 1 .. Len(p) PROVE r[i] = p[i]
    <3>1. i \in 1 .. Len(p) + Len(q) /\ i <= Len(p)
      BY <1>1
    <3> QED
      BY <2>1, <3>1
  <2>3. ASSUME NEW i \in 1 .. Len(q) PROVE r[Len(p) + i] = q[i]
    <3>1. Len(p) + i \in 1 .. Len(p) + Len(q) /\ ~(Len(p) + i <= Len(p)) /\ Len(p) + i - Len(p) = i
      BY <1>1
    <3> QED
      BY <2>1, <3>1
  <2> QED
    BY <1>1, <2>2, <2>3
<1> HIDE DEF r
<1>5. ASSUME NEW i \in 1 .. Len(r)
      PROVE  \/ i \in 1 .. Len(p)
             \/ \E k \in 1 .. Len(q) : i = Len(p) + k
  <2>1. CASE i <= Len(p)
    BY <1>1, <1>3, <2>1
  <2>2. CASE ~(i <= Len(p))
    <3>1. i - Len(p) \in 1 .. Len(q) /\ i = Len(p) + (i - Len(p))
      BY <1>1, <1>3, <2>2
    <3> QED
      BY <3>1
  <2> QED
    BY <2>1, <2>2
<1>6. ASSUME NEW i \in 1 .. Len(r), NEW j \in 1 .. Len(r), i < j PROVE r[i] < r[j]
  <2>1. CASE i \in 1 .. Len(p) /\ j \in 1 .. Len(p)
    BY <1>4, <1>6, <2>1 DEF Lists
  <2>2. ASSUME i \in 1 .. Len(p), NEW k \in 1 .. Len(q), j = Len(p) + k PROVE r[i] < r[j]
    BY <1>4, <2>2
  <2>3. ASSUME NEW h \in 1 .. Len(q), NEW k \in 1 .. Len(q), i = Len(p) + h, j = Len(p) + k
        PROVE  r[i] < r[j]
    <3>1. h < k
      BY <1>1, <1>6, <2>3
    <3> QED
      BY <1>4, <2>3, <3>1 DEF Lists
  <2>4. ASSUME NEW h \in 1 .. Len(q), i = Len(p) + h, j \in 1 .. Len(p) PROVE FALSE
    BY <1>1, <1>6, <2>4
  <2> QED
    BY <1>5, <2>1, <2>2, <2>3, <2>4
<1>7. ASSUME NEW s \in S PROVE \E i \in 1 .. Len(r) : r[i] = s
  <2>1. CASE s \in A
    <3>1. PICK i \in 1 .. Len(p) : p[i] = s
      BY <2>1 DEF Lists
    <3>2. i \in 1 .. Len(r)
      BY <1>1, <1>3
    <3> QED
      BY <1>4, <3>1, <3>2
  <2>2. CASE s \in B
    <3>1. PICK i \in 1 .. Len(q) : q[i] = s
      BY <2>2 DEF Lists
    <3>2. Len(p) + i \in 1 .. Len(r)
      BY <1>1, <1>3
    <3> QED
      BY <1>4, <3>1, <3>2
  <2> QED
    BY <2>1, <2>2
<1>8. Lists(r, S)
  BY <1>3, <1>6, <1>7 DEF Lists
<1> QED
  BY <1>8 DEF r

\* A set of seqs has a latest one.
LEMMA LatestIsMax ==
    ASSUME NEW S \in SUBSET Nat, IsFiniteSet(S), S # {}
    PROVE  Latest(S) \in S /\ \A x \in S : x <= Latest(S)
<1> DEFINE q == InOrder(S)
<1>1. Lists(q, S)
  BY InOrderLists
<1> HIDE DEF q
<1>2. Len(q) \in Nat /\ \A i \in 1 .. Len(q) : q[i] \in S
  BY <1>1 DEF Lists
<1>3. PICK s \in S : TRUE
  OBVIOUS
<1>4. PICK i \in 1 .. Len(q) : q[i] = s
  BY <1>1 DEF Lists
<1>5. Len(q) \in 1 .. Len(q)
  BY <1>2, <1>4
<1>6. ASSUME NEW x \in S PROVE x <= q[Len(q)]
  <2>1. PICK j \in 1 .. Len(q) : q[j] = x
    BY <1>1 DEF Lists
  <2>2. j < Len(q) \/ j = Len(q)
    BY <1>2
  <2>3. j < Len(q) => q[j] < q[Len(q)]
    BY <1>1, <1>5 DEF Lists
  <2>4. q[j] \in Nat /\ q[Len(q)] \in Nat
    BY <1>2, <1>5
  <2> QED
    BY <2>1, <2>2, <2>3, <2>4
<1>7. \E m \in S : \A x \in S : x <= m
  BY <1>2, <1>5, <1>6
<1> QED
  BY <1>7 DEF Latest

-----------------------------------------------------------------------------
(* The journal *)

LogType == log \in Seq(Entries)

\* What a batch adds to the log.
LEMMA StagedEntries ==
    ASSUME LogType, NEW batch \in Batches
    PROVE  /\ Fresh(batch) \subseteq 1 .. Len(batch)
           /\ Staged(batch) \in Seq(Entries)
           /\ Cardinality(Fresh(batch)) \in Nat
           /\ Len(Staged(batch)) = Cardinality(Fresh(batch))
           /\ Fresh(batch) # {} => Cardinality(Fresh(batch)) > 0
           /\ Fresh(batch) = {} => Cardinality(Fresh(batch)) = 0
<1> DEFINE F == Fresh(batch)
           order == InOrder(F)
           n == Cardinality(F)
<1>1. batch \in Seq(Entries) /\ Len(batch) \in Nat
  BY EventTailAssumption DEF EventTailAssumption
<1>2. F \in SUBSET (1 .. Len(batch))
  BY DEF Fresh
<1>3. F \in SUBSET Nat /\ IsFiniteSet(F) /\ n \in Nat
  <2> HIDE DEF F
  <2> QED
    BY <1>1, <1>2, SeqsAreFinite
<1>4. Lists(order, F) /\ Len(order) = n
  <2> HIDE DEF F
  <2> QED
    BY <1>3, InOrderLists
<1>5. order \in Seq(F) /\ DOMAIN order = 1 .. n /\ \A k \in 1 .. n : order[k] \in F
  BY <1>4 DEF Lists
<1>6. Staged(batch) = [k \in 1 .. n |-> batch[order[k]]]
  BY <1>5 DEF Staged
<1>7. \A k \in 1 .. n : batch[order[k]] \in Entries
  BY <1>1, <1>2, <1>5
<1>8. n = 0 <=> F = {}
  BY <1>3, FS_EmptySet
<1> QED
  BY <1>2, <1>3, <1>6, <1>7, <1>8

\* The log is only added to.
LEMMA LogGrows ==
    ASSUME LogType, [Next]_vars
    PROVE  /\ log' \in Seq(Entries) /\ Len(log) \in Nat /\ Len(log') \in Nat
           /\ Len(log) <= Len(log')
           /\ \A s \in 1 .. Len(log) : log'[s] = log[s]
           /\ UNCHANGED log \/ \E w \in Writers, batch \in Batches : AppendBatch(w, batch)
<1>1. Len(log) \in Nat
  BY DEF LogType
<1>2. UNCHANGED log \/ \E w \in Writers, batch \in Batches : AppendBatch(w, batch)
  BY DEF Next, vars, Publish, Open, Follow, StopAtStart, ReadHead, SendFrame, SendStatus, Changed,
         FollowerReturns, ReadFails, Consume, Receive, StreamEnds, Drop, FoldTask, FoldStep,
         FoldSubscribes, FoldChanged, FoldFails, FoldAborted, Shutdown, journalVars
<1>3. CASE UNCHANGED log
  BY <1>1, <1>2, <1>3 DEF LogType
<1>4. ASSUME NEW w \in Writers, NEW batch \in Batches, AppendBatch(w, batch)
      PROVE  /\ log' \in Seq(Entries) /\ Len(log') \in Nat
             /\ Len(log) <= Len(log')
             /\ \A s \in 1 .. Len(log) : log'[s] = log[s]
  <2> DEFINE t == Staged(batch)
  <2>1. t \in Seq(Entries) /\ Len(t) \in Nat
    BY StagedEntries
  <2>2. log' = log \o t
    BY <1>4 DEF AppendBatch
  <2> HIDE DEF t
  <2>3. log' \in Seq(Entries) /\ Len(log') = Len(log) + Len(t)
    BY <2>1, <2>2, ConcatProperties DEF LogType
  <2>4. \A s \in 1 .. Len(log) + Len(t) : (log \o t)[s] = IF s <= Len(log) THEN log[s] ELSE t[s - Len(log)]
    BY <2>1, ConcatProperties DEF LogType
  <2>5. ASSUME NEW s \in 1 .. Len(log) PROVE log'[s] = log[s]
    <3>1. s \in 1 .. Len(log) + Len(t) /\ s <= Len(log)
      BY <1>1, <2>1
    <3> QED
      BY <2>2, <2>4, <3>1
  <2> QED
    BY <1>1, <2>1, <2>3, <2>5
<1> QED
  BY <1>1, <1>2, <1>3, <1>4

-----------------------------------------------------------------------------
(* Runs and surfaced entries *)

RunType == Runs \cup {NoRun}

\* The registrations of a range are finitely many seqs of the range.
LEMMA RegistrationsOf ==
    ASSUME LogType, NEW a \in Nat, NEW b \in Nat, b <= Len(log)
    PROVE  LET R == Registrations(a, b)
           IN  /\ R \in SUBSET (1 .. Len(log)) /\ R \in SUBSET Nat /\ IsFiniteSet(R)
               /\ \A s \in R : a < s /\ s <= b /\ log[s].key \in Runs
               /\ R # {} => Latest(R) \in R /\ \A x \in R : x <= Latest(R)
<1> DEFINE R == Registrations(a, b)
<1>1. Len(log) \in Nat /\ \A s \in 1 .. Len(log) : log[s] \in Entries
  BY DEF LogType
<1>2. R \in SUBSET (1 .. Len(log)) /\ \A s \in R : a < s /\ s <= b /\ log[s].kind = "RunRegistered"
  BY <1>1 DEF Registrations
<1>3. \A s \in R : log[s].key \in Runs
  BY <1>1, <1>2 DEF Runs
<1> HIDE DEF R
<1>4. R \in SUBSET Nat /\ IsFiniteSet(R)
  BY <1>1, <1>2, SeqsAreFinite
<1>5. R # {} => Latest(R) \in R /\ \A x \in R : x <= Latest(R)
  BY <1>4, LatestIsMax
<1>6. /\ R \in SUBSET (1 .. Len(log)) /\ R \in SUBSET Nat /\ IsFiniteSet(R)
      /\ \A s \in R : a < s /\ s <= b /\ log[s].key \in Runs
      /\ R # {} => Latest(R) \in R /\ \A x \in R : x <= Latest(R)
  BY <1>2, <1>3, <1>4, <1>5
<1> QED
  BY <1>6 DEF R

\* An attribution is a run or none.
LEMMA RunAfterType ==
    ASSUME LogType, NEW a \in Nat, NEW b \in Nat, b <= Len(log), NEW run \in RunType
    PROVE  RunAfter(run, a, b) \in RunType
<1> DEFINE R == Registrations(a, b)
<1>1. R # {} => log[Latest(R)].key \in Runs
  BY RegistrationsOf
<1> QED
  BY <1>1 DEF RunAfter, RunType

\* The attribution may be advanced over a range in two steps.
LEMMA RunCompose ==
    ASSUME LogType, NEW a \in Nat, NEW b \in Nat, NEW d \in Nat, a <= b, b <= d, d <= Len(log), NEW run
    PROVE  RunAfter(RunAfter(run, a, b), b, d) = RunAfter(run, a, d)
<1> DEFINE P == Registrations(a, b)
           Q == Registrations(b, d)
           R == Registrations(a, d)
<1>0. Len(log) \in Nat /\ b <= Len(log)
  BY DEF LogType
<1>1. R = P \cup Q
  <2>1. a + 1 .. d = (a + 1 .. b) \cup (b + 1 .. d)
    OBVIOUS
  <2> QED
    BY <2>1 DEF Registrations
<1>2. /\ P \in SUBSET Nat /\ Q \in SUBSET Nat /\ R \in SUBSET Nat
      /\ \A s \in P : s <= b
      /\ \A s \in Q : b < s
  BY <1>0, RegistrationsOf
<1>3. /\ R # {} => Latest(R) \in R /\ \A x \in R : x <= Latest(R)
      /\ Q # {} => Latest(Q) \in Q /\ \A x \in Q : x <= Latest(Q)
  BY <1>0, RegistrationsOf
<1> HIDE DEF P, Q, R
<1>4. CASE Q = {}
  <2>1. R = P
    BY <1>1, <1>4
  <2> QED
    BY <1>4, <2>1 DEF RunAfter, P, Q, R
<1>5. CASE Q # {}
  <2>1. Latest(R) \in R /\ Latest(Q) \in R /\ Latest(Q) <= Latest(R)
    BY <1>1, <1>3, <1>5
  <2>2. Latest(R) \in Q
    <3>1. b < Latest(Q) /\ Latest(Q) \in Nat /\ Latest(R) \in Nat
      BY <1>2, <1>3, <1>5, <2>1
    <3>2. ~(Latest(R) <= b)
      BY <2>1, <3>1
    <3> QED
      BY <1>1, <1>2, <2>1, <3>2
  <2>3. Latest(R) <= Latest(Q)
    BY <1>3, <1>5, <2>2
  <2>4. Latest(R) = Latest(Q)
    <3>1. Latest(R) \in Nat /\ Latest(Q) \in Nat
      BY <1>2, <1>3, <1>5, <2>1
    <3> QED
      BY <2>1, <2>3, <3>1
  <2>5. R # {}
    BY <2>1
  <2> QED
    BY <1>5, <2>4, <2>5 DEF RunAfter, P, Q, R
<1> QED
  BY <1>4, <1>5

\* What was attributed and surfaced stays so while the log grows.
LEMMA RangesKept ==
    ASSUME LogType, [Next]_vars, NEW a \in Nat, NEW b \in Nat, b <= Len(log)
    PROVE  /\ \A run : RunAfter(run, a, b)' = RunAfter(run, a, b)
           /\ \A t : SurfacedIn(t, a, b)' = SurfacedIn(t, a, b)
<1>1. \A s \in a + 1 .. b : log'[s] = log[s]
  <2>1. \A s \in a + 1 .. b : s \in 1 .. Len(log)
    BY DEF LogType
  <2> QED
    BY <2>1, LogGrows
<1>2. Registrations(a, b)' = Registrations(a, b)
  BY <1>1 DEF Registrations
<1>3. \A t : SurfacedIn(t, a, b)' = SurfacedIn(t, a, b)
  BY <1>1 DEF SurfacedIn, Surfaced
<1>4. ASSUME NEW run PROVE RunAfter(run, a, b)' = RunAfter(run, a, b)
  <2> DEFINE R == Registrations(a, b)
  <2>1. R # {} => Latest(R) \in a + 1 .. b
    <3>1. R # {} => Latest(R) \in R
      BY RegistrationsOf
    <3> QED
      BY <3>1 DEF Registrations
  <2>2. R # {} => log'[Latest(R)] = log[Latest(R)]
    BY <1>1, <2>1
  <2> QED
    BY <1>2, <2>2 DEF RunAfter
<1> QED
  BY <1>3, <1>4

\* The surfaced entries of a range are finitely many seqs.
LEMMA SurfacedOf ==
    ASSUME LogType, NEW t, NEW a \in Nat, NEW b \in Nat, b <= Len(log)
    PROVE  LET S == SurfacedIn(t, a, b)
           IN  /\ S \in SUBSET Nat /\ S \in SUBSET (1 .. Len(log)) /\ IsFiniteSet(S)
               /\ \A s \in S : a < s /\ s <= b
<1> DEFINE S == SurfacedIn(t, a, b)
<1>1. Len(log) \in Nat
  BY DEF LogType
<1>2. S \in SUBSET (1 .. Len(log)) /\ \A s \in S : a < s /\ s <= b
  BY <1>1 DEF SurfacedIn
<1> HIDE DEF S
<1>3. S \in SUBSET Nat /\ IsFiniteSet(S)
  BY <1>1, <1>2, SeqsAreFinite
<1>4. /\ S \in SUBSET Nat /\ S \in SUBSET (1 .. Len(log)) /\ IsFiniteSet(S)
      /\ \A s \in S : a < s /\ s <= b
  BY <1>2, <1>3
<1> QED
  BY <1>4 DEF S

\* Two adjacent ranges surface what the whole does.
LEMMA SurfacedSplit ==
    ASSUME NEW t, NEW a \in Nat, NEW b \in Nat, NEW d \in Nat, a <= b, b <= d
    PROVE  SurfacedIn(t, a, d) = SurfacedIn(t, a, b) \cup SurfacedIn(t, b, d)
<1>1. a + 1 .. d = (a + 1 .. b) \cup (b + 1 .. d)
  OBVIOUS
<1> QED
  BY <1>1 DEF SurfacedIn

-----------------------------------------------------------------------------
(* Types and bounds *)

TailRecs ==
    [pc : {"none", "start", "send", "wait", "woken", "resource_exhausted", "internal"},
     seen : Nat, cursor : Nat, head : Nat, from : Nat, run : RunType]

\* A follower stands between what it has sent and the head it has read.
Placed(c) ==
    /\ tail[c].seen <= mark
    /\ tail[c].from <= tail[c].cursor
    /\ tail[c].cursor <= Len(log) /\ tail[c].head <= Len(log)
    /\ tail[c].pc = "send" => tail[c].cursor <= tail[c].head
    /\ tail[c].pc \in {"start", "wait", "woken"} => tail[c].from = tail[c].cursor

\* Nobody is ahead of the log.
Bounds ==
    /\ mark <= Len(log)
    /\ \A w \in Writers : announce[w] <= Len(log)
    /\ \A c \in Clients :
          /\ client[c].since <= Len(log)
          /\ Placed(c)
          /\ \A i \in 1 .. Len(queue[c]) : queue[c][i].next_seq <= Len(log)
    /\ fold.wm <= Len(log)

BaseInv == TypeOK /\ Bounds

\* The types that the other lemmas use.
LEMMA BaseTypes ==
    ASSUME BaseInv
    PROVE  /\ LogType /\ Len(log) \in Nat /\ mark \in Nat
           /\ \A w \in Writers : announce[w] \in Nat
           /\ \A c \in Clients :
                 /\ tail[c] \in TailRecs /\ client[c].since \in Nat
                 /\ client[c].target \in {"run", "all"}
                 /\ queue[c] \in Seq(FrameType) /\ Len(queue[c]) \in Nat
                 /\ \A i \in 1 .. Len(queue[c]) : queue[c][i] \in FrameType
           /\ fold.wm \in Nat /\ fold.run \in RunType
<1>1. LogType /\ mark \in Nat /\ \A w \in Writers : announce[w] \in Nat
  BY DEF BaseInv, TypeOK, LogType
<1>2. Len(log) \in Nat
  BY <1>1 DEF LogType
<1>3. ASSUME NEW c \in Clients
      PROVE  /\ tail[c] \in TailRecs /\ client[c].since \in Nat
             /\ client[c].target \in {"run", "all"}
             /\ queue[c] \in Seq(FrameType)
  BY <1>3 DEF BaseInv, TypeOK, TailRecs, RunType
<1>4. ASSUME NEW c \in Clients
      PROVE  Len(queue[c]) \in Nat /\ \A i \in 1 .. Len(queue[c]) : queue[c][i] \in FrameType
  BY <1>3, ElementOfSeq, LenProperties
<1>5. fold.wm \in Nat /\ fold.run \in RunType
  BY DEF BaseInv, TypeOK, RunType
<1> QED
  BY <1>1, <1>2, <1>3, <1>4, <1>5

\* What a batch announces.
LEMMA HighestIs ==
    ASSUME LogType, NEW batch \in Batches, batch # <<>>
    PROVE  LET n == Len(log) + Cardinality(Fresh(batch))
           IN  /\ Highest(batch) \in 1 .. n
               /\ Fresh(batch) # {} => Highest(batch) = n
<1> DEFINE F == Fresh(batch)
           n == Len(log) + Cardinality(F)
           P == UNION {Positions(batch[i]) : i \in 1 .. Len(batch)}
<1>1. Len(log) \in Nat /\ Cardinality(F) \in Nat /\ n \in Nat
  BY StagedEntries DEF LogType
<1>2. CASE F # {}
  <2>1. Cardinality(F) > 0
    BY <1>2, StagedEntries
  <2>2. Highest(batch) = n
    BY <1>2 DEF Highest
  <2> QED
    BY <1>1, <1>2, <2>1, <2>2
<1>3. CASE F = {}
  <2>1. batch \in Seq(Entries) /\ Len(batch) \in Nat
    BY EventTailAssumption DEF EventTailAssumption
  <2>2. 1 \in 1 .. Len(batch)
    BY <2>1, EmptySeq
  <2>3. 1 .. 1 - 1 = {}
    OBVIOUS
  <2>4. Positions(batch[1]) # {}
    BY <1>3, <2>2, <2>3 DEF Fresh
  <2>5. P \in SUBSET (1 .. Len(log)) /\ P # {}
    BY <2>2, <2>4 DEF Positions
  <2>6. Highest(batch) = Latest(P)
    BY <1>3 DEF Highest
  <2> HIDE DEF P
  <2>7. P \in SUBSET Nat /\ IsFiniteSet(P)
    BY <1>1, <2>5, SeqsAreFinite
  <2>8. Latest(P) \in P
    BY <2>5, <2>7, LatestIsMax
  <2>9. Latest(P) \in 1 .. Len(log)
    BY <2>5, <2>8
  <2>10. Latest(P) \in 1 .. n
    BY <1>1, <2>9
  <2> QED
    BY <1>3, <2>6, <2>10
<1> QED
  BY <1>2, <1>3

\* The frame a follower sends next: it carries the surfaced entries of the range from
\* the cursor to its next_seq, in order.
LEMMA FrameIs ==
    ASSUME BaseInv, NEW c \in Clients, tail[c].pc = "send"
    PROVE  /\ NextSeq(c) \in Nat
           /\ tail[c].cursor <= NextSeq(c) /\ NextSeq(c) <= tail[c].head
           /\ LastFrame(c) => NextSeq(c) = tail[c].head
           /\ LET S == SurfacedIn(client[c].target, tail[c].cursor, NextSeq(c))
                  q == InOrder(S)
              IN  NextFrame(c) =
                     Frame([k \in 1 .. Len(q) |-> [seq |-> q[k], run |-> Stamp(c, q[k])]], NextSeq(c))
<1> DEFINE O == Owed(c)
           q == InOrder(O)
           t == client[c].target
           x == tail[c].cursor
           h == tail[c].head
<1>1. /\ LogType /\ Len(log) \in Nat
      /\ x \in Nat /\ h \in Nat /\ x <= h /\ h <= Len(log)
  BY BaseTypes DEF BaseInv, Bounds, Placed, TailRecs
<1>2. O \in SUBSET Nat /\ IsFiniteSet(O) /\ \A s \in O : x < s /\ s <= h
  BY <1>1, SurfacedOf DEF Owed
<1>3. Lists(q, O) /\ Len(q) = Cardinality(O) /\ Cardinality(O) \in Nat
  BY <1>2, InOrderLists, FS_CardinalityType
<1>4. ~LastFrame(c) => ChunkEnd(c) \in O
  <2>1. ASSUME ~LastFrame(c) PROVE MaxFrame \in 1 .. Len(q)
    BY <1>3, <2>1, EventTailAssumption DEF LastFrame, EventTailAssumption
  <2> QED
    BY <1>3, <2>1 DEF Lists, ChunkEnd
<1>5. NextSeq(c) \in Nat /\ x <= NextSeq(c) /\ NextSeq(c) <= h /\ (LastFrame(c) => NextSeq(c) = h)
  <2>1. CASE LastFrame(c)
    BY <1>1, <2>1 DEF NextSeq
  <2>2. CASE ~LastFrame(c)
    <3>1. NextSeq(c) = ChunkEnd(c) /\ ChunkEnd(c) \in Nat /\ x < ChunkEnd(c) /\ ChunkEnd(c) <= h
      BY <1>2, <1>4, <2>2 DEF NextSeq
    <3> QED
      BY <1>1, <2>2, <3>1
  <2> QED
    BY <2>1, <2>2
<1>6. {s \in O : LastFrame(c) \/ s <= ChunkEnd(c)} = SurfacedIn(t, x, NextSeq(c))
  <2>1. CASE LastFrame(c)
    BY <1>5, <2>1 DEF Owed
  <2>2. CASE ~LastFrame(c)
    <3>1. NextSeq(c) = ChunkEnd(c)
      BY <2>2 DEF NextSeq
    <3>2. \A s : s \in x + 1 .. NextSeq(c) <=> s \in x + 1 .. h /\ s <= NextSeq(c)
      BY <1>1, <1>5
    <3> QED
      BY <2>2, <3>1, <3>2 DEF Owed, SurfacedIn
  <2> QED
    BY <2>1, <2>2
<1>7. LET S == SurfacedIn(t, x, NextSeq(c))
          p == InOrder(S)
      IN  NextFrame(c) = Frame([k \in 1 .. Len(p) |-> [seq |-> p[k], run |-> Stamp(c, p[k])]], NextSeq(c))
  <2> DEFINE S == SurfacedIn(t, x, NextSeq(c))
             p == InOrder(S)
  <2>1. S \in SUBSET Nat /\ IsFiniteSet(S)
    <3>1. NextSeq(c) <= Len(log)
      BY <1>1, <1>5
    <3> QED
      BY <1>1, <1>5, <3>1, SurfacedOf
  <2>2. DOMAIN p = 1 .. Len(p)
    BY <2>1, InOrderLists DEF Lists
  <2>3. InOrder({s \in O : LastFrame(c) \/ s <= ChunkEnd(c)}) = p
    BY <1>6
  <2> QED
    BY <2>2, <2>3 DEF NextFrame
<1> QED
  BY <1>5, <1>7

ClientRecs ==
    [target : {"run", "all"},
     state : {"idle", "open", "resume", "stopped", "refused", "absent"},
     start : Nat, since : Nat, drops : 0 .. MaxDrops]

FoldRecs ==
    [pc : {"backfill", "spawned", "wait", "woken", "final", "done"},
     seen : Nat, wm : Nat, run : RunType, lost : SUBSET Nat, torn : BOOLEAN]

\* What BaseInv says of one client: its follower, its channel, its own state and
\* what it printed.
Fits(T, Q, K, G) ==
    /\ T \in TailRecs /\ T.seen <= mark
    /\ T.from <= T.cursor /\ T.cursor <= Len(log) /\ T.head <= Len(log)
    /\ T.pc = "send" => T.cursor <= T.head
    /\ T.pc \in {"start", "wait", "woken"} => T.from = T.cursor
    /\ Q \in Seq(FrameType) /\ Len(Q) <= Queue
    /\ \A i \in 1 .. Len(Q) : Q[i].next_seq <= Len(log)
    /\ K \in ClientRecs /\ K.since <= Len(log)
    /\ G \in Seq(Deltas)

\* BaseInv, client by client.
LEMMA BaseParts ==
    BaseInv <=>
    /\ log \in Seq(Entries) /\ mark \in Nat /\ mark <= Len(log)
    /\ announce \in [Writers -> Nat] /\ \A w \in Writers : announce[w] <= Len(log)
    /\ shutdown \in BOOLEAN
    /\ tail \in [Clients -> TailRecs] /\ queue \in [Clients -> Seq(FrameType)]
    /\ client \in [Clients -> ClientRecs] /\ got \in [Clients -> Seq(Deltas)]
    /\ \A c \in Clients : Fits(tail[c], queue[c], client[c], got[c])
    /\ fold \in FoldRecs /\ fold.wm <= Len(log)
    /\ rows \subseteq Deltas
    /\ faults \in 0 .. MaxFaults
<1>1. TypeOK <=>
      /\ log \in Seq(Entries) /\ mark \in Nat
      /\ announce \in [Writers -> Nat]
      /\ shutdown \in BOOLEAN
      /\ tail \in [Clients -> TailRecs] /\ queue \in [Clients -> Seq(FrameType)]
      /\ \A c \in Clients : Len(queue[c]) <= Queue
      /\ client \in [Clients -> ClientRecs] /\ got \in [Clients -> Seq(Deltas)]
      /\ fold \in FoldRecs
      /\ rows \subseteq Deltas
      /\ faults \in 0 .. MaxFaults
  BY DEF TypeOK, TailRecs, ClientRecs, FoldRecs, RunType
<1> QED
  BY <1>1 DEF BaseInv, Bounds, Placed, Fits

\* The same of the next state.
LEMMA BasePartsNext ==
    BaseInv' <=>
    /\ log' \in Seq(Entries) /\ mark' \in Nat /\ mark' <= Len(log')
    /\ announce' \in [Writers -> Nat] /\ \A w \in Writers : announce'[w] <= Len(log')
    /\ shutdown' \in BOOLEAN
    /\ tail' \in [Clients -> TailRecs] /\ queue' \in [Clients -> Seq(FrameType)]
    /\ client' \in [Clients -> ClientRecs] /\ got' \in [Clients -> Seq(Deltas)]
    /\ \A c \in Clients : Fits(tail[c], queue[c], client[c], got[c])'
    /\ fold' \in FoldRecs /\ fold'.wm <= Len(log')
    /\ rows' \subseteq Deltas
    /\ faults' \in 0 .. MaxFaults
<1>1. TypeOK' <=>
      /\ log' \in Seq(Entries) /\ mark' \in Nat
      /\ announce' \in [Writers -> Nat]
      /\ shutdown' \in BOOLEAN
      /\ tail' \in [Clients -> TailRecs] /\ queue' \in [Clients -> Seq(FrameType)]
      /\ \A c \in Clients : Len(queue'[c]) <= Queue
      /\ client' \in [Clients -> ClientRecs] /\ got' \in [Clients -> Seq(Deltas)]
      /\ fold' \in FoldRecs
      /\ rows' \subseteq Deltas
      /\ faults' \in 0 .. MaxFaults
  BY DEF TypeOK, TailRecs, ClientRecs, FoldRecs, RunType
<1> QED
  BY <1>1 DEF BaseInv, Bounds, Placed, Fits

\* A step of one client's stream keeps the invariant if the client's part fits.
LEMMA StreamKeeps ==
    ASSUME BaseInv, NEW c \in Clients, NEW T, NEW Q, NEW K, NEW G, Fits(T, Q, K, G),
           tail' = [tail EXCEPT ![c] = T], queue' = [queue EXCEPT ![c] = Q],
           client' = [client EXCEPT ![c] = K], got' = [got EXCEPT ![c] = G],
           faults' \in 0 .. MaxFaults, UNCHANGED <<journalVars, shutdown, fold, rows>>
    PROVE  BaseInv'
<1>1. /\ log \in Seq(Entries) /\ mark \in Nat /\ mark <= Len(log)
      /\ announce \in [Writers -> Nat] /\ \A w \in Writers : announce[w] <= Len(log)
      /\ shutdown \in BOOLEAN
      /\ tail \in [Clients -> TailRecs] /\ queue \in [Clients -> Seq(FrameType)]
      /\ client \in [Clients -> ClientRecs] /\ got \in [Clients -> Seq(Deltas)]
      /\ \A d \in Clients : Fits(tail[d], queue[d], client[d], got[d])
      /\ fold \in FoldRecs /\ fold.wm <= Len(log)
      /\ rows \subseteq Deltas
  BY BaseParts
<1>2. UNCHANGED <<log, announce, mark, shutdown, fold, rows>>
  BY DEF journalVars
<1>3. T \in TailRecs /\ Q \in Seq(FrameType) /\ K \in ClientRecs /\ G \in Seq(Deltas)
  BY DEF Fits
<1>4. /\ tail' \in [Clients -> TailRecs] /\ queue' \in [Clients -> Seq(FrameType)]
      /\ client' \in [Clients -> ClientRecs] /\ got' \in [Clients -> Seq(Deltas)]
  BY <1>1, <1>3
<1>5. ASSUME NEW d \in Clients PROVE Fits(tail'[d], queue'[d], client'[d], got'[d])
  BY <1>1
<1>6. \A d \in Clients : Fits(tail[d], queue[d], client[d], got[d])'
  BY <1>2, <1>5 DEF Fits
<1>7. BaseInv' <=>
      /\ log' \in Seq(Entries) /\ mark' \in Nat /\ mark' <= Len(log')
      /\ announce' \in [Writers -> Nat] /\ \A w \in Writers : announce'[w] <= Len(log')
      /\ shutdown' \in BOOLEAN
      /\ tail' \in [Clients -> TailRecs] /\ queue' \in [Clients -> Seq(FrameType)]
      /\ client' \in [Clients -> ClientRecs] /\ got' \in [Clients -> Seq(Deltas)]
      /\ \A d \in Clients : Fits(tail[d], queue[d], client[d], got[d])'
      /\ fold' \in FoldRecs /\ fold'.wm <= Len(log')
      /\ rows' \subseteq Deltas
      /\ faults' \in 0 .. MaxFaults
  BY BasePartsNext
<1> QED
  BY <1>1, <1>2, <1>4, <1>6, <1>7

\* A follower stamps runs.
LEMMA StampType ==
    ASSUME BaseInv, NEW c \in Clients, NEW s \in Nat, s <= Len(log)
    PROVE  Stamp(c, s) \in RunType
<1>1. LogType /\ tail[c].run \in RunType /\ tail[c].from \in Nat
  BY BaseTypes DEF TailRecs
<1>2. RunAfter(tail[c].run, tail[c].from, s) \in RunType
  BY <1>1, RunAfterType
<1> QED
  BY <1>2 DEF Stamp, RunType

\* What a follower sends is a frame.
LEMMA FrameTyped ==
    ASSUME BaseInv, NEW c \in Clients, tail[c].pc = "send"
    PROVE  /\ NextFrame(c) \in FrameType
           /\ NextFrame(c).next_seq = NextSeq(c) /\ NextFrame(c).status = "ok"
           /\ NextSeq(c) <= Len(log)
<1> DEFINE S == SurfacedIn(client[c].target, tail[c].cursor, NextSeq(c))
           q == InOrder(S)
           d == [k \in 1 .. Len(q) |-> [seq |-> q[k], run |-> Stamp(c, q[k])]]
<1>1. NextSeq(c) \in Nat /\ NextSeq(c) <= tail[c].head /\ NextFrame(c) = Frame(d, NextSeq(c))
  BY FrameIs
<1>2. /\ LogType /\ Len(log) \in Nat /\ tail[c].head \in Nat /\ tail[c].head <= Len(log)
      /\ tail[c].cursor \in Nat
  BY BaseTypes DEF BaseInv, Bounds, Placed, TailRecs
<1>3. NextSeq(c) <= Len(log)
  BY <1>1, <1>2
<1>4. S \in SUBSET Nat /\ IsFiniteSet(S) /\ S \in SUBSET (1 .. Len(log))
  BY <1>1, <1>2, <1>3, SurfacedOf
<1>5. q \in Seq(S) /\ Len(q) \in Nat /\ \A k \in 1 .. Len(q) : q[k] \in S
  BY <1>4, InOrderLists DEF Lists
<1>6. ASSUME NEW k \in 1 .. Len(q) PROVE [seq |-> q[k], run |-> Stamp(c, q[k])] \in Deltas
  <2>1. q[k] \in Nat /\ q[k] <= Len(log)
    BY <1>4, <1>5
  <2>2. Stamp(c, q[k]) \in RunType
    BY <2>1, StampType
  <2> QED
    BY <2>1, <2>2 DEF Deltas, RunType
<1> HIDE DEF q
<1>7. d \in Seq(Deltas)
  BY <1>5, <1>6
<1> HIDE DEF d
<1> QED
  BY <1>1, <1>3, <1>7 DEF Frame, FrameType

\* Opening a stream, and its end on either side.
LEMMA OpenKeeps ==
    ASSUME BaseInv, NEW c \in Clients, Open(c)
    PROVE  BaseInv'
<1> DEFINE K == [client[c] EXCEPT !.state = "open"]
           L == [client[c] EXCEPT !.state = "refused"]
           T == [NoTail EXCEPT !.pc = "start", !.seen = mark, !.cursor = client[c].since,
                               !.from = client[c].since, !.run = Seed(c)]
<1>0. /\ tail \in [Clients -> TailRecs] /\ queue \in [Clients -> Seq(FrameType)]
      /\ client \in [Clients -> ClientRecs] /\ got \in [Clients -> Seq(Deltas)]
      /\ Fits(tail[c], queue[c], client[c], got[c])
      /\ mark \in Nat /\ LogType /\ Len(log) \in Nat /\ faults \in 0 .. MaxFaults
  BY BaseParts DEF LogType
<1>1. client[c].since \in Nat /\ client[c].since <= Len(log) /\ client[c] \in ClientRecs
  BY <1>0 DEF Fits, ClientRecs
<1>2. Seed(c) \in RunType
  <2>1. RunAfter(NoRun, 0, client[c].since) \in RunType
    BY <1>0, <1>1, RunAfterType DEF RunType
  <2> QED
    BY <2>1 DEF Seed, RunAt, RunType
<1>a. NoTail \in TailRecs /\ NoTail.head = 0
  BY DEF NoTail, TailRecs, RunType
<1>b. T \in TailRecs /\ T.seen = mark /\ T.from = client[c].since /\ T.cursor = client[c].since
      /\ T.head = 0 /\ T.pc = "start"
  BY <1>0, <1>1, <1>2, <1>a DEF TailRecs
<1>3. T \in TailRecs /\ T.seen <= mark /\ T.from <= T.cursor /\ T.cursor <= Len(log) /\ T.head <= Len(log)
      /\ T.pc = "start" /\ T.from = T.cursor
  <2> HIDE DEF T
  <2> QED
    BY <1>0, <1>1, <1>b
<1>4. K \in ClientRecs /\ K.since = client[c].since /\ L \in ClientRecs /\ L.since = client[c].since
  BY <1>1 DEF ClientRecs
<1>5. <<>> \in Seq(FrameType) /\ Len(<<>>) = 0 /\ 0 <= Queue
  BY EventTailAssumption DEF EventTailAssumption
<1>6. Fits(T, <<>>, K, got[c]) /\ Fits(tail[c], <<>>, L, got[c])
  BY <1>0, <1>1, <1>3, <1>4, <1>5 DEF Fits
<1>7. /\ queue' = [queue EXCEPT ![c] = <<>>] /\ got' = [got EXCEPT ![c] = got[c]]
      /\ faults' \in 0 .. MaxFaults /\ UNCHANGED <<journalVars, shutdown, fold, rows>>
  BY <1>0 DEF Open
<1>8. CASE Owned(c)
  <2>1. tail' = [tail EXCEPT ![c] = T] /\ client' = [client EXCEPT ![c] = K]
    BY <1>8 DEF Open
  <2> HIDE DEF T, K
  <2> QED
    BY <1>6, <1>7, <2>1, StreamKeeps
<1>9. CASE ~Owned(c)
  <2>1. tail' = [tail EXCEPT ![c] = tail[c]] /\ client' = [client EXCEPT ![c] = L]
    BY <1>0, <1>9 DEF Open
  <2> HIDE DEF L
  <2> QED
    BY <1>6, <1>7, <2>1, StreamKeeps
<1> QED
  BY <1>8, <1>9

\* The steps of a follower that send nothing.
LEMMA QuietFollowKeeps ==
    ASSUME BaseInv, NEW c \in Clients,
           StopAtStart(c) \/ ReadHead(c) \/ ReadFails(c) \/ Changed(c) \/ FollowerReturns(c)
    PROVE  BaseInv'
<1>0. /\ tail \in [Clients -> TailRecs] /\ queue \in [Clients -> Seq(FrameType)]
      /\ client \in [Clients -> ClientRecs] /\ got \in [Clients -> Seq(Deltas)]
      /\ Fits(tail[c], queue[c], client[c], got[c])
      /\ mark \in Nat /\ LogType /\ Len(log) \in Nat /\ mark <= Len(log) /\ faults \in 0 .. MaxFaults
  BY BaseParts DEF LogType
<1>1. tail[c] \in TailRecs
  BY <1>0
<1>2. UNCHANGED <<queue, client, got, journalVars, shutdown, fold, rows>>
  BY DEF StopAtStart, ReadHead, ReadFails, Changed, FollowerReturns
<1>3. faults' \in 0 .. MaxFaults
  BY <1>0, EventTailAssumption
     DEF StopAtStart, ReadHead, ReadFails, Changed, FollowerReturns, EventTailAssumption
<1>4. SUFFICES \E T : Fits(T, queue[c], client[c], got[c]) /\ tail' = [tail EXCEPT ![c] = T]
  <2>1. /\ queue' = [queue EXCEPT ![c] = queue[c]] /\ client' = [client EXCEPT ![c] = client[c]]
        /\ got' = [got EXCEPT ![c] = got[c]] /\ UNCHANGED <<journalVars, shutdown, fold, rows>>
    BY <1>0, <1>2
  <2> QED
    BY <1>3, <1>4, <2>1, StreamKeeps
<1>5. CASE StopAtStart(c) \/ FollowerReturns(c)
  <2>1. NoTail \in TailRecs /\ NoTail.seen = 0 /\ NoTail.from = 0 /\ NoTail.cursor = 0
        /\ NoTail.head = 0 /\ NoTail.pc = "none"
    BY DEF NoTail, TailRecs, RunType
  <2>2. Fits(NoTail, queue[c], client[c], got[c])
    BY <1>0, <2>1 DEF Fits
  <2>3. tail' = [tail EXCEPT ![c] = NoTail]
    BY <1>5 DEF StopAtStart, FollowerReturns
  <2> QED
    BY <2>2, <2>3
<1>6. CASE ReadHead(c)
  <2> DEFINE p == IF tail[c].pc = "start" \/ Advances(c, Len(log)) THEN "send" ELSE "wait"
             T == [tail[c] EXCEPT !.pc = p, !.head = Len(log)]
  <2>1. tail' = [tail EXCEPT ![c] = T]
    BY <1>6 DEF ReadHead
  <2>2. T \in TailRecs /\ T.seen = tail[c].seen /\ T.from = tail[c].from /\ T.cursor = tail[c].cursor
        /\ T.head = Len(log) /\ T.pc \in {"send", "wait"}
    BY <1>0, <1>1 DEF TailRecs
  <2>3. tail[c].from = tail[c].cursor
    BY <1>0, <1>6 DEF Fits, ReadHead, Reading
  <2>4. Fits(T, queue[c], client[c], got[c])
    BY <1>0, <2>2, <2>3 DEF Fits
  <2> HIDE DEF T
  <2> QED
    BY <2>1, <2>4
<1>7. CASE ReadFails(c)
  <2> DEFINE T == [tail[c] EXCEPT !.pc = "internal"]
  <2>1. tail' = [tail EXCEPT ![c] = T]
    BY <1>7 DEF ReadFails
  <2>2. T \in TailRecs /\ T.seen = tail[c].seen /\ T.from = tail[c].from /\ T.cursor = tail[c].cursor
        /\ T.head = tail[c].head /\ T.pc = "internal"
    BY <1>1 DEF TailRecs
  <2>3. Fits(T, queue[c], client[c], got[c])
    BY <1>0, <2>2 DEF Fits
  <2> HIDE DEF T
  <2> QED
    BY <2>1, <2>3
<1>8. CASE Changed(c)
  <2> DEFINE T == [tail[c] EXCEPT !.pc = "woken", !.seen = mark]
  <2>1. tail' = [tail EXCEPT ![c] = T]
    BY <1>8 DEF Changed
  <2>2. T \in TailRecs /\ T.seen = mark /\ T.from = tail[c].from /\ T.cursor = tail[c].cursor
        /\ T.head = tail[c].head /\ T.pc = "woken"
    BY <1>0, <1>1 DEF TailRecs
  <2>3. tail[c].from = tail[c].cursor
    BY <1>0, <1>8 DEF Fits, Changed
  <2>4. Fits(T, queue[c], client[c], got[c])
    BY <1>0, <2>2, <2>3 DEF Fits
  <2> HIDE DEF T
  <2> QED
    BY <2>1, <2>4
<1> QED
  BY <1>5, <1>6, <1>7, <1>8

\* A queue that takes one more.
LEMMA QueueTakes ==
    ASSUME NEW Q \in Seq(FrameType), NEW f \in FrameType, Len(Q) < Queue,
           NEW n \in Nat, f.next_seq <= n, \A i \in 1 .. Len(Q) : Q[i].next_seq <= n
    PROVE  /\ Append(Q, f) \in Seq(FrameType) /\ Len(Append(Q, f)) <= Queue
           /\ \A i \in 1 .. Len(Append(Q, f)) : Append(Q, f)[i].next_seq <= n
<1>1. Len(Q) \in Nat /\ Queue \in Nat
  BY EventTailAssumption DEF EventTailAssumption
<1>2. /\ Append(Q, f) \in Seq(FrameType) /\ Len(Append(Q, f)) = Len(Q) + 1
      /\ \A i \in 1 .. Len(Q) : Append(Q, f)[i] = Q[i]
      /\ Append(Q, f)[Len(Q) + 1] = f
  BY AppendProperties
<1>3. \A i \in 1 .. Len(Q) + 1 : i \in 1 .. Len(Q) \/ i = Len(Q) + 1
  BY <1>1
<1> QED
  BY <1>1, <1>2, <1>3

\* The steps of a follower that send a frame or a status.
LEMMA SendKeeps ==
    ASSUME BaseInv, NEW c \in Clients, SendFrame(c) \/ SendStatus(c)
    PROVE  BaseInv'
<1>0. /\ tail \in [Clients -> TailRecs] /\ queue \in [Clients -> Seq(FrameType)]
      /\ client \in [Clients -> ClientRecs] /\ got \in [Clients -> Seq(Deltas)]
      /\ Fits(tail[c], queue[c], client[c], got[c])
      /\ mark \in Nat /\ LogType /\ Len(log) \in Nat /\ mark <= Len(log) /\ faults \in 0 .. MaxFaults
  BY BaseParts DEF LogType
<1>1. tail[c] \in TailRecs /\ queue[c] \in Seq(FrameType)
      /\ \A i \in 1 .. Len(queue[c]) : queue[c][i].next_seq <= Len(log)
  BY <1>0 DEF Fits
<1>2. /\ client' = [client EXCEPT ![c] = client[c]] /\ got' = [got EXCEPT ![c] = got[c]]
      /\ faults' \in 0 .. MaxFaults /\ UNCHANGED <<journalVars, shutdown, fold, rows>>
  BY <1>0 DEF SendFrame, SendStatus
<1>3. CASE SendFrame(c) /\ HasSlot(c)
  <2> DEFINE l == LastFrame(c)
             T == [tail[c] EXCEPT !.cursor = NextSeq(c), !.pc = IF l THEN "wait" ELSE "send",
                                  !.from = IF l THEN NextSeq(c) ELSE @,
                                  !.run = IF l THEN Stamp(c, tail[c].head) ELSE @]
             Q == Append(queue[c], NextFrame(c))
  <2>1. tail[c].pc = "send"
    BY <1>3 DEF SendFrame
  <2>2. tail' = [tail EXCEPT ![c] = T] /\ queue' = [queue EXCEPT ![c] = Q]
    BY <1>3 DEF SendFrame
  <2>3. /\ NextSeq(c) \in Nat /\ tail[c].cursor <= NextSeq(c) /\ NextSeq(c) <= tail[c].head
        /\ NextSeq(c) <= Len(log)
        /\ NextFrame(c) \in FrameType /\ NextFrame(c).next_seq = NextSeq(c)
    BY <2>1, FrameIs, FrameTyped
  <2>4. Stamp(c, tail[c].head) \in RunType
    BY <1>0, <1>1, StampType DEF Fits, TailRecs
  <2>5. Q \in Seq(FrameType) /\ Len(Q) <= Queue /\ \A i \in 1 .. Len(Q) : Q[i].next_seq <= Len(log)
    BY <1>0, <1>1, <1>3, <2>3, QueueTakes DEF HasSlot
  <2>6. T \in TailRecs /\ T.seen = tail[c].seen /\ T.cursor = NextSeq(c) /\ T.head = tail[c].head
        /\ (l => T.pc = "wait" /\ T.from = NextSeq(c)) /\ (~l => T.pc = "send" /\ T.from = tail[c].from)
    <3>1. CASE l
      BY <1>1, <2>3, <2>4, <3>1 DEF TailRecs
    <3>2. CASE ~l
      BY <1>1, <2>3, <3>2 DEF TailRecs
    <3> QED
      BY <3>1, <3>2
  <2>7. tail[c].from <= NextSeq(c)
    BY <1>0, <1>1, <2>3 DEF Fits, TailRecs
  <2> HIDE DEF T, Q, l
  <2>8. Fits(T, Q, client[c], got[c])
    BY <1>0, <2>3, <2>5, <2>6, <2>7 DEF Fits
  <2> QED
    BY <1>2, <2>2, <2>8, StreamKeeps
<1>4. CASE SendFrame(c) /\ ~HasSlot(c)
  <2> DEFINE T == [tail[c] EXCEPT !.pc = "resource_exhausted"]
  <2>1. tail' = [tail EXCEPT ![c] = T] /\ queue' = [queue EXCEPT ![c] = queue[c]]
    BY <1>0, <1>4 DEF SendFrame
  <2>2. T \in TailRecs /\ T.seen = tail[c].seen /\ T.from = tail[c].from /\ T.cursor = tail[c].cursor
        /\ T.head = tail[c].head /\ T.pc = "resource_exhausted"
    BY <1>1 DEF TailRecs
  <2>3. Fits(T, queue[c], client[c], got[c])
    BY <1>0, <2>2 DEF Fits
  <2> HIDE DEF T
  <2> QED
    BY <1>2, <2>1, <2>3, StreamKeeps
<1>5. CASE SendStatus(c)
  <2> DEFINE Q == Append(queue[c], Terminal(tail[c].pc))
  <2>1. tail' = [tail EXCEPT ![c] = NoTail] /\ queue' = [queue EXCEPT ![c] = Q]
    BY <1>5 DEF SendStatus
  <2>2. NoTail \in TailRecs /\ NoTail.seen = 0 /\ NoTail.from = 0 /\ NoTail.cursor = 0
        /\ NoTail.head = 0 /\ NoTail.pc = "none"
    BY DEF NoTail, TailRecs, RunType
  <2>3. Terminal(tail[c].pc) \in FrameType /\ Terminal(tail[c].pc).next_seq = 0
    BY <1>5 DEF SendStatus, Terminal, FrameType
  <2>4. Q \in Seq(FrameType) /\ Len(Q) <= Queue /\ \A i \in 1 .. Len(Q) : Q[i].next_seq <= Len(log)
    BY <1>0, <1>1, <1>5, <2>3, QueueTakes DEF HasSlot, SendStatus
  <2> HIDE DEF Q
  <2>5. Fits(NoTail, Q, client[c], got[c])
    BY <1>0, <2>2, <2>4 DEF Fits
  <2> QED
    BY <1>2, <2>1, <2>5, StreamKeeps
<1> QED
  BY <1>3, <1>4, <1>5

\* The steps of a client.
LEMMA ClientKeeps ==
    ASSUME BaseInv, NEW c \in Clients, Receive(c) \/ StreamEnds(c) \/ Drop(c)
    PROVE  BaseInv'
<1>0. /\ tail \in [Clients -> TailRecs] /\ queue \in [Clients -> Seq(FrameType)]
      /\ client \in [Clients -> ClientRecs] /\ got \in [Clients -> Seq(Deltas)]
      /\ Fits(tail[c], queue[c], client[c], got[c])
      /\ mark \in Nat /\ LogType /\ Len(log) \in Nat /\ mark <= Len(log) /\ faults \in 0 .. MaxFaults
  BY BaseParts DEF LogType
<1>1. /\ client[c] \in ClientRecs /\ queue[c] \in Seq(FrameType) /\ got[c] \in Seq(Deltas)
      /\ Len(queue[c]) \in Nat /\ Len(queue[c]) <= Queue /\ Queue \in Nat
      /\ \A i \in 1 .. Len(queue[c]) : queue[c][i].next_seq <= Len(log)
  BY <1>0, EventTailAssumption DEF Fits, EventTailAssumption
<1>2. /\ tail' = [tail EXCEPT ![c] = tail[c]]
      /\ faults' \in 0 .. MaxFaults /\ UNCHANGED <<journalVars, shutdown, fold, rows>>
  BY <1>0 DEF Receive, StreamEnds, Drop
<1>3. CASE Receive(c)
  <2> DEFINE Q == Tail(queue[c])
             f == Head(queue[c])
             K == [client[c] EXCEPT !.since = f.next_seq]
             L == [client[c] EXCEPT !.state = AfterStatus(f.status)]
             G == got[c] \o f.deltas
  <2>1. queue[c] # <<>> /\ queue' = [queue EXCEPT ![c] = Q]
    BY <1>3 DEF Receive
  <2>2. /\ f \in FrameType /\ Q \in Seq(FrameType) /\ Len(Q) = Len(queue[c]) - 1
        /\ \A i \in 1 .. Len(Q) : Q[i] = queue[c][i + 1]
    BY <1>1, <2>1, HeadTailProperties
  <2>3. f = queue[c][1] /\ 1 \in 1 .. Len(queue[c]) /\ \A i \in 1 .. Len(Q) : i + 1 \in 1 .. Len(queue[c])
    <3>1. Len(queue[c]) # 0
      BY <1>1, <2>1, EmptySeq
    <3> QED
      BY <1>1, <2>1, <2>2, <3>1
  <2>4. Len(Q) <= Queue /\ \A i \in 1 .. Len(Q) : Q[i].next_seq <= Len(log)
    BY <1>1, <2>2, <2>3
  <2>5. f.next_seq \in Nat /\ f.next_seq <= Len(log) /\ f.deltas \in Seq(Deltas)
    <3>1. f.next_seq <= Len(log)
      BY <1>1, <2>3
    <3> HIDE DEF f
    <3> QED
      BY <2>2, <3>1 DEF FrameType
  <2>6. G \in Seq(Deltas)
    BY <1>1, <2>5, ConcatProperties
  <2>7. K \in ClientRecs /\ K.since = f.next_seq
    <3> HIDE DEF f
    <3> QED
      BY <1>1, <2>5 DEF ClientRecs
  <2>8. L \in ClientRecs /\ L.since = client[c].since
    BY <1>1 DEF ClientRecs, AfterStatus
  <2>9. Fits(tail[c], Q, K, G) /\ Fits(tail[c], Q, L, got[c])
    <3> HIDE DEF Q, K, L, G, f
    <3> QED
      BY <1>0, <2>2, <2>4, <2>5, <2>6, <2>7, <2>8 DEF Fits
  <2>10. \/ got' = [got EXCEPT ![c] = G] /\ client' = [client EXCEPT ![c] = K]
         \/ got' = [got EXCEPT ![c] = got[c]] /\ client' = [client EXCEPT ![c] = L]
    BY <1>0, <1>3 DEF Receive
  <2> HIDE DEF Q, K, L, G, f
  <2> QED
    BY <1>2, <2>1, <2>9, <2>10, StreamKeeps
<1>4. CASE StreamEnds(c)
  <2> DEFINE K == [client[c] EXCEPT !.state = "stopped"]
  <2>1. /\ client' = [client EXCEPT ![c] = K] /\ got' = [got EXCEPT ![c] = got[c]]
        /\ queue' = [queue EXCEPT ![c] = queue[c]]
    BY <1>0, <1>4 DEF StreamEnds
  <2>2. K \in ClientRecs /\ K.since = client[c].since
    BY <1>1 DEF ClientRecs
  <2> HIDE DEF K
  <2>3. Fits(tail[c], queue[c], K, got[c])
    BY <1>0, <2>2 DEF Fits
  <2> QED
    BY <1>2, <2>1, <2>3, StreamKeeps
<1>5. CASE Drop(c)
  <2> DEFINE K == [client[c] EXCEPT !.state = "idle", !.drops = @ + 1]
  <2>1. /\ client' = [client EXCEPT ![c] = K] /\ got' = [got EXCEPT ![c] = got[c]]
        /\ queue' = [queue EXCEPT ![c] = <<>>] /\ client[c].drops < MaxDrops
    BY <1>0, <1>5 DEF Drop
  <2>2. client[c].drops + 1 \in 0 .. MaxDrops
    BY <1>1, <2>1, EventTailAssumption DEF ClientRecs, EventTailAssumption
  <2>3. K \in ClientRecs /\ K.since = client[c].since
    BY <1>1, <2>2 DEF ClientRecs
  <2>4. <<>> \in Seq(FrameType) /\ Len(<<>>) = 0
    OBVIOUS
  <2> HIDE DEF K
  <2>5. Fits(tail[c], <<>>, K, got[c])
    BY <1>0, <1>1, <2>3, <2>4 DEF Fits
  <2> QED
    BY <1>2, <2>1, <2>5, StreamKeeps
<1> QED
  BY <1>3, <1>4, <1>5

\* A client's part still fits when the log and the watermark have grown.
LEMMA FitsLater ==
    ASSUME BaseInv, LogType', Len(log) <= Len(log'), mark <= mark', mark' \in Nat,
           UNCHANGED <<tail, queue, client, got>>
    PROVE  /\ tail' \in [Clients -> TailRecs] /\ queue' \in [Clients -> Seq(FrameType)]
           /\ client' \in [Clients -> ClientRecs] /\ got' \in [Clients -> Seq(Deltas)]
           /\ \A c \in Clients : Fits(tail[c], queue[c], client[c], got[c])'
<1>1. /\ tail \in [Clients -> TailRecs] /\ queue \in [Clients -> Seq(FrameType)]
      /\ client \in [Clients -> ClientRecs] /\ got \in [Clients -> Seq(Deltas)]
      /\ \A c \in Clients : Fits(tail[c], queue[c], client[c], got[c])
      /\ LogType /\ Len(log) \in Nat /\ mark \in Nat
  BY BaseParts DEF LogType
<1>2. Len(log') \in Nat
  BY DEF LogType
<1>3. ASSUME NEW c \in Clients PROVE Fits(tail[c], queue[c], client[c], got[c])'
  <2>1. /\ tail[c] \in TailRecs /\ tail[c].seen \in Nat /\ tail[c].seen <= mark
        /\ tail[c].cursor \in Nat /\ tail[c].cursor <= Len(log)
        /\ tail[c].head \in Nat /\ tail[c].head <= Len(log)
    BY <1>1 DEF Fits, TailRecs
  <2>2. tail[c].seen <= mark' /\ tail[c].cursor <= Len(log') /\ tail[c].head <= Len(log')
    BY <1>1, <1>2, <2>1
  <2>3. client[c].since \in Nat /\ client[c].since <= Len(log)
    BY <1>1 DEF Fits, ClientRecs
  <2>4. client[c].since <= Len(log')
    BY <1>1, <1>2, <2>3
  <2>5. \A i \in 1 .. Len(queue[c]) : queue[c][i].next_seq <= Len(log')
    <3> SUFFICES ASSUME NEW i \in 1 .. Len(queue[c]) PROVE queue[c][i].next_seq <= Len(log')
      OBVIOUS
    <3>1. queue[c][i] \in FrameType /\ queue[c][i].next_seq <= Len(log)
      BY BaseTypes, <1>1 DEF Fits
    <3>2. queue[c][i].next_seq \in Nat
      BY <3>1 DEF FrameType
    <3> QED
      BY <1>1, <1>2, <3>1, <3>2
  <2>6. Fits(tail[c], queue[c], client[c], got[c])
    BY <1>1
  <2> QED
    BY <2>2, <2>4, <2>5, <2>6 DEF Fits
<1> QED
  BY <1>1, <1>3

\* A transaction makes the log longer by what is new in its batch.
LEMMA AppendLength ==
    ASSUME LogType, NEW w, NEW batch \in Batches, AppendBatch(w, batch)
    PROVE  Len(log') = Len(log) + Cardinality(Fresh(batch))
<1> DEFINE t == Staged(batch)
<1>1. t \in Seq(Entries) /\ Len(t) = Cardinality(Fresh(batch))
  BY StagedEntries
<1>2. log' = log \o t
  BY DEF AppendBatch
<1> HIDE DEF t
<1>3. Len(log') = Len(log) + Len(t)
  BY <1>1, <1>2, ConcatProperties DEF LogType
<1> QED
  BY <1>1, <1>3

\* A transaction and its publication.
LEMMA JournalKeeps ==
    ASSUME BaseInv, [Next]_vars, NEW w \in Writers,
           Publish(w) \/ \E batch \in Batches : AppendBatch(w, batch)
    PROVE  BaseInv'
<1>0. /\ LogType /\ Len(log) \in Nat /\ mark \in Nat /\ mark <= Len(log)
      /\ announce \in [Writers -> Nat] /\ \A v \in Writers : announce[v] <= Len(log)
      /\ shutdown \in BOOLEAN /\ fold \in FoldRecs /\ fold.wm <= Len(log) /\ fold.wm \in Nat
      /\ rows \subseteq Deltas /\ faults \in 0 .. MaxFaults
  BY BaseParts DEF LogType, FoldRecs
<1>1. UNCHANGED <<tail, queue, client, got, shutdown, fold, rows, faults>>
  BY DEF Publish, AppendBatch, streamVars
<1>2. log' \in Seq(Entries) /\ Len(log') \in Nat /\ Len(log) <= Len(log') /\ LogType'
  BY <1>0, LogGrows DEF LogType
<1>3. ASSUME mark' \in Nat, mark <= mark', mark' <= Len(log'),
             announce' \in [Writers -> Nat], \A v \in Writers : announce'[v] <= Len(log')
      PROVE  BaseInv'
  <2>1. fold'.wm <= Len(log')
    BY <1>0, <1>1, <1>2
  <2> QED
    BY <1>0, <1>1, <1>2, <1>3, <2>1, FitsLater, BasePartsNext
<1>4. CASE Publish(w)
  <2>1. announce[w] \in Nat /\ announce[w] <= Len(log)
    BY <1>0
  <2>2. mark' \in Nat /\ mark <= mark' /\ mark' <= Len(log')
    BY <1>0, <1>2, <1>4, <2>1 DEF Publish, AtLeast
  <2>3. announce' \in [Writers -> Nat]
    BY <1>0, <1>4 DEF Publish
  <2>4. ASSUME NEW v \in Writers PROVE announce'[v] <= Len(log')
    <3>1. announce'[v] = 0 \/ announce'[v] = announce[v]
      BY <1>0, <1>4 DEF Publish
    <3>2. announce[v] \in Nat /\ announce[v] <= Len(log)
      BY <1>0
    <3> QED
      BY <1>0, <1>2, <3>1, <3>2
  <2> QED
    BY <1>3, <2>2, <2>3, <2>4
<1>5. ASSUME NEW batch \in Batches, AppendBatch(w, batch) PROVE BaseInv'
  <2> DEFINE n == Len(log) + Cardinality(Fresh(batch))
  <2>1. batch # <<>> /\ mark' = mark /\ announce' = [announce EXCEPT ![w] = Highest(batch)]
        /\ log' = log \o Staged(batch)
    BY <1>5 DEF AppendBatch
  <2>3. Len(log') = n
    BY <1>0, <1>5, AppendLength
  <2>4. Highest(batch) \in 1 .. n
    BY <1>0, <2>1, HighestIs
  <2>5. Highest(batch) \in Nat /\ Highest(batch) <= Len(log')
    BY <1>2, <2>3, <2>4
  <2>6. announce' \in [Writers -> Nat]
    BY <1>0, <2>1, <2>5
  <2>7. ASSUME NEW v \in Writers PROVE announce'[v] <= Len(log')
    <3>1. announce'[v] = Highest(batch) \/ announce'[v] = announce[v]
      BY <1>0, <2>1
    <3>2. announce[v] \in Nat /\ announce[v] <= Len(log)
      BY <1>0
    <3> QED
      BY <1>0, <1>2, <2>5, <3>1, <3>2
  <2>8. mark' \in Nat /\ mark <= mark' /\ mark' <= Len(log')
    BY <1>0, <1>2, <2>1
  <2> QED
    BY <1>3, <2>6, <2>7, <2>8
<1> QED
  BY <1>4, <1>5

\* The statements that may fail in one fold can be counted.
LEMMA FailuresCount ==
    ASSUME LogType, NEW bad \in SUBSET Statements, NEW failed \in SUBSET (1 .. Len(log))
    PROVE  Cardinality(bad) \in Nat /\ Cardinality(failed) \in Nat
<1>1. IsFiniteSet({"watermark"}) /\ IsFiniteSet({"seed"}) /\ IsFiniteSet({"stamp"})
      /\ IsFiniteSet({"last_seq"})
  BY FS_Singleton
<1>2. IsFiniteSet({"watermark"} \cup {"seed"}) /\ IsFiniteSet({"stamp"} \cup {"last_seq"})
  BY <1>1, FS_Union
<1>3. IsFiniteSet(({"watermark"} \cup {"seed"}) \cup ({"stamp"} \cup {"last_seq"}))
  BY <1>2, FS_Union
<1>4. Statements = ({"watermark"} \cup {"seed"}) \cup ({"stamp"} \cup {"last_seq"})
  BY DEF Statements
<1>5. IsFiniteSet(bad)
  BY <1>3, <1>4, FS_Subset
<1>6. Len(log) \in Nat
  BY DEF LogType
<1>7. IsFiniteSet(failed)
  BY <1>6, SeqsAreFinite
<1> QED
  BY <1>5, <1>7, FS_CardinalityType

\* The rows of a fold carry seqs and runs, and so does the rest of what it writes.
LEMMA FoldedType ==
    ASSUME BaseInv, NEW bad, NEW failed \in SUBSET (1 .. Len(log))
    PROVE  /\ FoldFrom(bad) \in Nat /\ FoldFrom(bad) <= fold.wm
           /\ FoldedRows(bad, failed) \subseteq Deltas
           /\ RunMeta(bad, failed) \in RunType
           /\ NewlyLost(failed) \in SUBSET Nat
<1> DEFINE from == FoldFrom(bad)
           seed == IF "seed" \in bad THEN NoRun ELSE SeedRun
           last == RunAfter(seed, from, Len(log))
           ins == Written("Committed", from, failed)
           new == {[seq |-> s, run |-> RunAfter(seed, from, s)] : s \in ins}
           kept == {r \in rows : r.seq \notin ins}
           F(r) == IF r.run = NoRun /\ "stamp" \notin bad THEN [r EXCEPT !.run = last] ELSE r
           regs == Written("RunRegistered", from, failed)
<1>1. /\ LogType /\ Len(log) \in Nat /\ fold.wm \in Nat /\ SeedRun \in RunType
      /\ rows \subseteq Deltas /\ fold.run \in RunType
  BY BaseTypes DEF BaseInv, TypeOK, SeedRun
<1>2. Deltas = [seq : Nat, run : RunType]
  BY DEF Deltas, RunType
<1>3. seed \in RunType
  BY <1>1 DEF RunType
<1>4. from \in Nat /\ from <= fold.wm
  BY <1>1 DEF FoldFrom
<1> HIDE DEF seed, from
<1>5. last \in RunType
  BY <1>1, <1>3, <1>4, RunAfterType
<1>6. ASSUME NEW s \in ins PROVE s \in Nat /\ RunAfter(seed, from, s) \in RunType
  <2>1. s \in Nat /\ s <= Len(log)
    BY <1>1, <1>4 DEF Written
  <2> QED
    BY <1>1, <1>3, <1>4, <2>1, RunAfterType
<1>7. FoldedRows(bad, failed) = {F(r) : r \in kept \cup new}
  BY DEF FoldedRows, seed, from
<1>8. RunMeta(bad, failed) \in RunType
  <2>1. regs \subseteq Registrations(from, Len(log))
    BY DEF Written, Registrations
  <2>2. /\ Registrations(from, Len(log)) \in SUBSET (1 .. Len(log))
        /\ \A s \in Registrations(from, Len(log)) : log[s].key \in Runs
    BY <1>1, <1>4, RegistrationsOf
  <2>3. regs \in SUBSET (1 .. Len(log)) /\ \A s \in regs : log[s].key \in Runs
    BY <2>1, <2>2
  <2>4. regs \in SUBSET Nat /\ IsFiniteSet(regs)
    BY <1>1, <2>3, SeqsAreFinite
  <2>5. RunMeta(bad, failed) = IF regs = {} THEN fold.run ELSE log[Latest(regs)].key
    BY DEF RunMeta, from
  <2> HIDE DEF regs
  <2>6. regs # {} => log[Latest(regs)].key \in Runs
    BY <2>3, <2>4, LatestIsMax
  <2> QED
    BY <1>1, <2>5, <2>6 DEF RunType
<1>9. NewlyLost(failed) \in SUBSET Nat
  BY <1>1 DEF NewlyLost
<1> HIDE DEF last, ins
<1>10. new \subseteq Deltas
  BY <1>2, <1>6
<1>11. kept \subseteq Deltas
  BY <1>1
<1> HIDE DEF new, kept
<1>12. ASSUME NEW r \in kept \cup new PROVE F(r) \in Deltas
  <2>1. r \in Deltas
    BY <1>10, <1>11
  <2> QED
    BY <1>2, <1>5, <2>1
<1> QED
  BY <1>4, <1>7, <1>8, <1>9, <1>12 DEF from

\* The steps of the fold loop and the shutdown.
LEMMA FoldKeeps ==
    ASSUME BaseInv, FoldTask \/ FoldFails \/ FoldAborted \/ Shutdown
    PROVE  BaseInv'
<1>0. /\ LogType /\ Len(log) \in Nat /\ mark \in Nat /\ mark <= Len(log)
      /\ announce \in [Writers -> Nat] /\ \A v \in Writers : announce[v] <= Len(log)
      /\ shutdown \in BOOLEAN /\ fold \in FoldRecs /\ fold.wm <= Len(log) /\ fold.wm \in Nat
      /\ fold.run \in RunType /\ fold.seen \in Nat
      /\ rows \subseteq Deltas /\ faults \in 0 .. MaxFaults
  BY BaseParts DEF LogType, FoldRecs
<1>1. UNCHANGED <<log, announce, mark, tail, queue, client, got>>
  BY DEF FoldTask, FoldStep, FoldSubscribes, FoldChanged, FoldFails, FoldAborted, Shutdown,
         journalVars, streamVars
<1>2. ASSUME shutdown' \in BOOLEAN, fold' \in FoldRecs, fold'.wm <= Len(log),
             rows' \subseteq Deltas, faults' \in 0 .. MaxFaults
      PROVE  BaseInv'
  <2>1. LogType' /\ Len(log) <= Len(log') /\ mark <= mark' /\ mark' \in Nat
    BY <1>0, <1>1 DEF LogType
  <2>2. log' \in Seq(Entries) /\ log' = log /\ mark' = mark /\ announce' = announce
    BY <1>0, <1>1 DEF LogType
  <2> QED
    BY <1>0, <1>1, <1>2, <2>1, <2>2, FitsLater, BasePartsNext
<1>3. \A p \in {"spawned", "wait", "woken", "final", "done"} : [fold EXCEPT !.pc = p] \in FoldRecs
  BY <1>0 DEF FoldRecs
<1>4. DOMAIN AfterFold = {"backfill", "woken", "final"}
      /\ \A p \in DOMAIN AfterFold : AfterFold[p] \in {"spawned", "wait", "woken", "final", "done"}
  BY DEF AfterFold
<1>5. CASE FoldStep
  <2> DEFINE p == AfterFold[fold.pc]
  <2>1. p \in {"spawned", "wait", "woken", "final", "done"}
    BY <1>4, <1>5 DEF FoldStep
  <2>2. shutdown' = shutdown
    BY <1>5 DEF FoldStep
  <2>3. PICK bad \in SUBSET Statements, failed \in SUBSET (1 .. Len(log)) :
            /\ faults' = faults + Cardinality(bad) + Cardinality(failed)
            /\ faults' <= MaxFaults
            /\ NothingNew(bad, failed) \/ FoldNow(bad, failed)
    BY <1>5 DEF FoldStep
  <2>4. Cardinality(bad) \in Nat /\ Cardinality(failed) \in Nat
    BY <1>0, FailuresCount
  <2>5. faults' \in 0 .. MaxFaults
    BY <1>0, <2>3, <2>4, EventTailAssumption DEF EventTailAssumption
  <2>6. CASE NothingNew(bad, failed)
    <3>1. rows' = rows /\ fold' = [fold EXCEPT !.pc = p]
      BY <2>6 DEF NothingNew
    <3> HIDE DEF p
    <3>2. fold' \in FoldRecs /\ fold'.wm <= Len(log)
      BY <1>0, <1>3, <2>1, <3>1 DEF FoldRecs
    <3> QED
      BY <1>0, <1>2, <2>2, <2>5, <3>1, <3>2
  <2>7. CASE FoldNow(bad, failed)
    <3> DEFINE w == IF "last_seq" \in bad THEN fold.wm ELSE Len(log)
               l == (fold.lost \ Written("Committed", FoldFrom(bad), failed)) \cup NewlyLost(failed)
               t == fold.torn \/ Tears(bad, failed)
    <3>1. /\ rows' = FoldedRows(bad, failed)
          /\ fold' = [fold EXCEPT !.pc = p, !.wm = w, !.run = RunMeta(bad, failed), !.lost = l,
                                  !.torn = t]
      BY <2>7 DEF FoldNow
    <3>2. rows' \subseteq Deltas /\ RunMeta(bad, failed) \in RunType /\ NewlyLost(failed) \in SUBSET Nat
      BY <3>1, FoldedType
    <3>3. l \in SUBSET Nat
      BY <1>0, <3>2 DEF FoldRecs
    <3>4. w \in Nat /\ w <= Len(log)
      BY <1>0
    <3>5. t \in BOOLEAN
      BY DEF Tears
    <3> HIDE DEF p, w, l, t
    <3>6. fold' \in FoldRecs /\ fold'.wm = w
      BY <1>0, <2>1, <3>1, <3>2, <3>3, <3>4, <3>5 DEF FoldRecs
    <3> QED
      BY <1>0, <1>2, <2>2, <2>5, <3>2, <3>4, <3>6
  <2> QED
    BY <2>3, <2>6, <2>7
<1>6. ASSUME NEW p \in {"spawned", "wait", "woken", "final", "done"}, NEW n \in {fold.seen, mark},
             fold' = [fold EXCEPT !.pc = p, !.seen = n]
      PROVE  fold' \in FoldRecs /\ fold'.wm <= Len(log)
  BY <1>0, <1>6 DEF FoldRecs
<1>7. ASSUME NEW p \in {"spawned", "wait", "woken", "final", "done"}, fold' = [fold EXCEPT !.pc = p]
      PROVE  fold' \in FoldRecs /\ fold'.wm <= Len(log)
  BY <1>0, <1>7 DEF FoldRecs
<1>8. CASE FoldFails
  <2>1. AfterFold[fold.pc] \in {"spawned", "wait", "woken", "final", "done"}
    BY <1>4, <1>8 DEF FoldFails
  <2>2. fold' = [fold EXCEPT !.pc = AfterFold[fold.pc]]
        /\ shutdown' = shutdown /\ rows' = rows
    BY <1>8 DEF FoldFails
  <2>3. faults' \in 0 .. MaxFaults
    BY <1>0, <1>8, EventTailAssumption DEF FoldFails, EventTailAssumption
  <2> QED
    BY <1>0, <1>2, <1>7, <2>1, <2>2, <2>3
<1>9. CASE FoldSubscribes
  <2>1. fold' = [fold EXCEPT !.pc = "wait", !.seen = mark]
        /\ shutdown' = shutdown /\ rows' = rows /\ faults' = faults
    BY <1>9 DEF FoldSubscribes
  <2> QED
    BY <1>0, <1>2, <1>6, <2>1
<1>10. CASE FoldChanged
  <2>1. \/ fold' = [fold EXCEPT !.pc = "woken", !.seen = mark]
        \/ fold' = [fold EXCEPT !.pc = "final"]
    BY <1>10 DEF FoldChanged
  <2>2. shutdown' = shutdown /\ rows' = rows /\ faults' = faults
    BY <1>10 DEF FoldChanged
  <2> QED
    BY <1>0, <1>2, <1>6, <1>7, <2>1, <2>2
<1>11. CASE FoldAborted
  <2>1. fold' = [fold EXCEPT !.pc = "done"]
        /\ shutdown' = shutdown /\ rows' = rows /\ faults' = faults
    BY <1>11 DEF FoldAborted
  <2> QED
    BY <1>0, <1>2, <1>7, <2>1
<1>12. CASE Shutdown
  <2>1. fold' = fold /\ shutdown' = TRUE /\ rows' = rows /\ faults' = faults
    BY <1>12 DEF Shutdown
  <2> QED
    BY <1>0, <1>2, <2>1
<1> QED
  BY <1>5, <1>8, <1>9, <1>10, <1>11, <1>12 DEF FoldTask

\* A serve starts with every reader inside the log.
LEMMA BaseInit ==
    Init => BaseInv
<1> SUFFICES ASSUME Init PROVE BaseInv
  OBVIOUS
<1>1. PICK reader \in Readers, since \in 0 .. Len(log) :
          /\ client = [c \in Clients |->
                [target |-> IF reader = "run" THEN "run" ELSE "all",
                 state |-> IF reader = "sidecar" THEN "absent" ELSE "idle",
                 start |-> since, since |-> since, drops |-> 0]]
          /\ fold = [pc |-> IF reader = "sidecar" THEN "backfill" ELSE "done",
                     seen |-> 0, wm |-> 0, run |-> NoRun,
                     lost |-> {}, torn |-> FALSE]
  BY DEF Init
<1>2. /\ log \in Seq(Entries) /\ announce = [w \in Writers |-> 0] /\ mark = 0 /\ shutdown = FALSE
      /\ tail = [c \in Clients |-> NoTail] /\ queue = [c \in Clients |-> <<>>]
      /\ got = [c \in Clients |-> <<>>] /\ rows = {} /\ faults = 0
  BY EventTailAssumption DEF Init, EventTailAssumption
<1>3. Len(log) \in Nat
  BY <1>2
<1>4. since \in Nat /\ since <= Len(log)
  BY <1>1, <1>3
<1>5. MaxDrops \in Nat /\ MaxFaults \in Nat /\ Queue \in Nat
  BY EventTailAssumption DEF EventTailAssumption
<1>6. NoRun \in RunType
  BY DEF RunType
<1>7. NoTail \in TailRecs
  BY <1>6 DEF NoTail, TailRecs
<1>8. NoTail.seen = 0 /\ NoTail.from = 0 /\ NoTail.cursor = 0 /\ NoTail.head = 0 /\ NoTail.pc = "none"
  BY DEF NoTail
<1>9. fold \in FoldRecs /\ fold.wm = 0
  BY <1>1, <1>6 DEF FoldRecs
<1>10. ASSUME NEW c \in Clients PROVE client[c] \in ClientRecs /\ client[c].since = since
  BY <1>1, <1>4, <1>5 DEF ClientRecs
<1>11. client \in [Clients -> ClientRecs]
  BY <1>1, <1>10
<1>12. /\ tail \in [Clients -> TailRecs] /\ queue \in [Clients -> Seq(FrameType)]
       /\ got \in [Clients -> Seq(Deltas)]
  BY <1>2, <1>7
<1>13. ASSUME NEW c \in Clients PROVE Fits(tail[c], queue[c], client[c], got[c])
  <2>1. tail[c] = NoTail /\ queue[c] = <<>> /\ got[c] = <<>>
    BY <1>2
  <2>2. Len(queue[c]) = 0 /\ \A i \in 1 .. Len(queue[c]) : queue[c][i].next_seq <= Len(log)
    BY <2>1
  <2> QED
    BY <1>2, <1>3, <1>4, <1>5, <1>7, <1>8, <1>10, <1>12, <2>1, <2>2 DEF Fits
<1>14. announce \in [Writers -> Nat] /\ \A w \in Writers : announce[w] <= Len(log)
  BY <1>2, <1>3
<1>15. mark \in Nat /\ mark <= Len(log) /\ faults \in 0 .. MaxFaults /\ fold.wm <= Len(log)
  BY <1>2, <1>3, <1>5, <1>9
<1>16. shutdown \in BOOLEAN /\ rows \subseteq Deltas
  BY <1>2
<1> QED
  BY <1>2, <1>9, <1>11, <1>12, <1>13, <1>14, <1>15, <1>16, BaseParts

\* Every step keeps the types and the bounds.
LEMMA BaseStep ==
    BaseInv /\ [Next]_vars => BaseInv'
<1> SUFFICES ASSUME BaseInv, [Next]_vars PROVE BaseInv'
  OBVIOUS
<1>1. CASE UNCHANGED vars
  <2>1. UNCHANGED <<log, announce, mark, shutdown, tail, queue, client, got, fold, rows, faults>>
    BY <1>1 DEF vars
  <2> QED
    BY <2>1 DEF BaseInv, TypeOK, Bounds, Placed
<1>2. ASSUME NEW w \in Writers, Publish(w) \/ \E batch \in Batches : AppendBatch(w, batch)
      PROVE  BaseInv'
  BY <1>2, JournalKeeps
<1>3. ASSUME NEW c \in Clients, Open(c) \/ Follow(c) \/ ReadFails(c) \/ Consume(c) \/ Drop(c)
      PROVE  BaseInv'
  BY <1>3, OpenKeeps, QuietFollowKeeps, SendKeeps, ClientKeeps DEF Follow, Consume
<1> QED
  BY <1>1, <1>2, <1>3, FoldKeeps DEF Next

\* Every variable keeps its type and no channel holds more frames than
\* SUBSCRIBER_QUEUE, for any number of clients and any journal (live_tail.rs).
THEOREM TailTypeCorrect == Spec => []TypeOK
<1>1. BaseInv => TypeOK
  BY DEF BaseInv
<1> QED
  BY <1>1, BaseInit, BaseStep, PTL DEF Spec

-----------------------------------------------------------------------------
(* No lost wakeup *)

\* The end of the log is published or about to be.
Announced == mark = Len(log) \/ \E w \in Writers : announce[w] = Len(log)

\* How far the log has been read by a follower that will wait next, or waits.
Reached(T) == IF T.pc = "wait" THEN T.cursor ELSE T.head

\* Such a follower has read at least what it has seen announced, and what lies
\* past it is announced or will be.
Awake(T) ==
    T.pc \in {"send", "wait"} =>
        /\ T.seen <= Reached(T)
        /\ Reached(T) < Len(log) => Announced

WakeInv == BaseInv /\ \A c \in Clients : Awake(tail[c])

\* The follower of one client moves, the journal does not.
LEMMA WakeKeeps ==
    ASSUME WakeInv, BaseInv', NEW c \in Clients, NEW T, tail' = [tail EXCEPT ![c] = T], Awake(T),
           UNCHANGED journalVars
    PROVE  WakeInv'
<1>1. tail \in [Clients -> TailRecs]
  BY BaseParts DEF WakeInv
<1>2. UNCHANGED <<log, announce, mark>>
  BY DEF journalVars
<1>3. \A d \in Clients : tail'[d] = IF d = c THEN T ELSE tail[d]
  BY <1>1
<1>4. ASSUME NEW d \in Clients PROVE Awake(tail[d])'
  <2>1. Awake(tail'[d])
    BY <1>3 DEF WakeInv
  <2> QED
    BY <1>2, <2>1 DEF Awake, Announced, Reached
<1> QED
  BY <1>4 DEF WakeInv

\* The steps of the followers.
LEMMA FollowStaysAwake ==
    ASSUME WakeInv, BaseInv', NEW c \in Clients, Open(c) \/ Follow(c) \/ ReadFails(c)
    PROVE  WakeInv'
<1>0. /\ tail \in [Clients -> TailRecs] /\ tail[c] \in TailRecs /\ Awake(tail[c])
      /\ mark \in Nat /\ Len(log) \in Nat /\ mark <= Len(log)
      /\ tail[c].seen \in Nat /\ tail[c].cursor \in Nat /\ tail[c].head \in Nat
      /\ tail[c].seen <= mark /\ tail[c].cursor <= Len(log)
  BY BaseParts DEF WakeInv, Fits, TailRecs
<1>1. UNCHANGED journalVars
  BY DEF Open, Follow, StopAtStart, ReadHead, SendFrame, SendStatus, Changed, FollowerReturns, ReadFails
<1>2. ASSUME NEW T, T.pc \notin {"send", "wait"}, tail' = [tail EXCEPT ![c] = T]
      PROVE  WakeInv'
  BY <1>1, <1>2, WakeKeeps DEF Awake
<1>3. ASSUME tail' = tail PROVE WakeInv'
  <2>1. tail' = [tail EXCEPT ![c] = tail[c]]
    BY <1>0, <1>3
  <2> QED
    BY <1>0, <1>1, <2>1, WakeKeeps
<1>4. NoTail.pc = "none"
  BY DEF NoTail
<1>5. CASE Open(c)
  <2> DEFINE T == [NoTail EXCEPT !.pc = "start", !.seen = mark, !.cursor = client[c].since,
                                 !.from = client[c].since, !.run = Seed(c)]
  <2>1. T.pc = "start"
    BY DEF NoTail
  <2>2. tail' = [tail EXCEPT ![c] = T] \/ tail' = tail
    BY <1>5 DEF Open
  <2> QED
    BY <1>2, <1>3, <2>1, <2>2
<1>6. CASE StopAtStart(c) \/ SendStatus(c) \/ FollowerReturns(c)
  BY <1>2, <1>4, <1>6 DEF StopAtStart, SendStatus, FollowerReturns
<1>7. CASE ReadFails(c)
  <2> DEFINE T == [tail[c] EXCEPT !.pc = "internal"]
  <2>1. tail' = [tail EXCEPT ![c] = T] /\ T.pc = "internal"
    BY <1>0, <1>7 DEF ReadFails, TailRecs
  <2> QED
    BY <1>2, <2>1
<1>8. CASE Changed(c)
  <2> DEFINE T == [tail[c] EXCEPT !.pc = "woken", !.seen = mark]
  <2>1. tail' = [tail EXCEPT ![c] = T] /\ T.pc = "woken"
    BY <1>0, <1>8 DEF Changed, TailRecs
  <2> QED
    BY <1>2, <2>1
<1>9. CASE ReadHead(c)
  <2> DEFINE emits == tail[c].pc = "start" \/ Advances(c, Len(log))
             p == IF emits THEN "send" ELSE "wait"
             T == [tail[c] EXCEPT !.pc = p, !.head = Len(log)]
  <2>1. tail' = [tail EXCEPT ![c] = T]
    BY <1>0, <1>9 DEF ReadHead, TailRecs
  <2>2. T.pc = p /\ T.head = Len(log) /\ T.seen = tail[c].seen /\ T.cursor = tail[c].cursor
    BY <1>0 DEF TailRecs
  <2>3. emits \/ tail[c].cursor = Len(log)
    BY <1>0 DEF Advances
  <2>4. Reached(T) = Len(log)
    BY <2>2, <2>3 DEF Reached
  <2>5. Awake(T)
    BY <1>0, <2>2, <2>4 DEF Awake
  <2> QED
    BY <1>1, <2>1, <2>5, WakeKeeps
<1>10. CASE SendFrame(c)
  <2>1. tail[c].pc = "send" /\ Reached(tail[c]) = tail[c].head
    BY <1>10 DEF SendFrame, Reached
  <2>2. tail[c].seen <= tail[c].head /\ (tail[c].head < Len(log) => Announced)
    BY <1>0, <2>1 DEF Awake
  <2>3. CASE HasSlot(c)
    <3> DEFINE n == NextSeq(c)
               l == LastFrame(c)
               p == IF l THEN "wait" ELSE "send"
               T == [tail[c] EXCEPT !.cursor = n, !.pc = p,
                        !.from = IF l THEN n ELSE @,
                        !.run = IF l THEN Stamp(c, tail[c].head) ELSE @]
    <3>1. tail' = [tail EXCEPT ![c] = T]
      BY <1>0, <1>10, <2>3 DEF SendFrame, TailRecs
    <3>2. T.pc = p /\ T.head = tail[c].head /\ T.seen = tail[c].seen /\ T.cursor = n
      BY <1>0 DEF TailRecs
    <3>3. l => n = tail[c].head
      BY DEF NextSeq
    <3> HIDE DEF T, n, l
    <3>4. Reached(T) = tail[c].head
      BY <3>2, <3>3 DEF Reached
    <3>5. Awake(T)
      BY <2>2, <3>2, <3>4 DEF Awake
    <3> QED
      BY <1>1, <3>1, <3>5, WakeKeeps
  <2>4. CASE ~HasSlot(c)
    <3> DEFINE T == [tail[c] EXCEPT !.pc = "resource_exhausted"]
    <3>1. tail' = [tail EXCEPT ![c] = T] /\ T.pc = "resource_exhausted"
      BY <1>0, <1>10, <2>4 DEF SendFrame, TailRecs
    <3> QED
      BY <1>2, <3>1
  <2> QED
    BY <2>3, <2>4
<1> QED
  BY <1>5, <1>6, <1>7, <1>8, <1>9, <1>10 DEF Follow

\* A transaction is announced by its writer, and a publication keeps the end of
\* the log announced.
LEMMA JournalStaysAwake ==
    ASSUME WakeInv, BaseInv', NEW w \in Writers,
           Publish(w) \/ \E batch \in Batches : AppendBatch(w, batch)
    PROVE  WakeInv'
<1>0. /\ LogType /\ Len(log) \in Nat /\ mark \in Nat /\ mark <= Len(log)
      /\ announce \in [Writers -> Nat] /\ \A v \in Writers : announce[v] <= Len(log)
      /\ tail \in [Clients -> TailRecs]
  BY BaseParts DEF WakeInv, LogType
<1>1. tail' = tail
  BY DEF Publish, AppendBatch, streamVars
<1>2. mark' \in Nat /\ mark' <= Len(log')
  BY BasePartsNext
<1>3. ASSUME \/ Announced'
             \/ Len(log') = Len(log) /\ (0 < Len(log) /\ Announced => Announced')
      PROVE  WakeInv'
  <2>1. ASSUME NEW c \in Clients PROVE Awake(tail[c])'
    <3>1. Awake(tail[c]) /\ tail[c] \in TailRecs
      BY <1>0 DEF WakeInv
    <3>2. Reached(tail[c]) \in Nat
      BY <3>1 DEF Reached, TailRecs
    <3>3. Reached(tail[c])' = Reached(tail[c])
      BY <1>1 DEF Reached
    <3>4. tail[c].pc \in {"send", "wait"} =>
            /\ tail[c].seen <= Reached(tail[c])
            /\ Reached(tail[c]) < Len(log) => Announced
      BY <3>1 DEF Awake
    <3>5. Reached(tail[c]) < Len(log) => 0 < Len(log)
      BY <1>0, <3>2
    <3>6. tail[c].pc \in {"send", "wait"} =>
            /\ tail[c].seen <= Reached(tail[c])
            /\ Reached(tail[c]) < Len(log') => Announced'
      BY <1>3, <3>4, <3>5
    <3> QED
      BY <1>1, <3>3, <3>6 DEF Awake
  <2> QED
    BY <2>1 DEF WakeInv
<1>4. CASE Publish(w)
  <2>1. /\ log' = log /\ announce[w] \in Nat /\ announce[w] <= Len(log)
        /\ mark' = AtLeast(mark, announce[w]) /\ announce' = [announce EXCEPT ![w] = 0]
    BY <1>0, <1>4 DEF Publish
  <2>2. ASSUME Announced PROVE Announced'
    <3>1. CASE mark = Len(log)
      <4>1. mark' = Len(log')
        BY <1>0, <1>2, <2>1, <3>1 DEF AtLeast
      <4> QED
        BY <4>1 DEF Announced
    <3>2. ASSUME NEW v \in Writers, announce[v] = Len(log) PROVE Announced'
      <4>1. CASE v = w
        <5>1. mark' = Len(log')
          BY <1>0, <1>2, <2>1, <3>2, <4>1 DEF AtLeast
        <5> QED
          BY <5>1 DEF Announced
      <4>2. CASE v # w
        <5>1. announce'[v] = Len(log')
          BY <1>0, <2>1, <3>2, <4>2
        <5> QED
          BY <5>1 DEF Announced
      <4> QED
        BY <4>1, <4>2
    <3> QED
      BY <2>2, <3>1, <3>2 DEF Announced
  <2> QED
    BY <1>3, <2>1, <2>2
<1>5. ASSUME NEW batch \in Batches, AppendBatch(w, batch) PROVE WakeInv'
  <2>1. /\ announce[w] = 0 /\ batch # <<>> /\ mark' = mark
        /\ announce' = [announce EXCEPT ![w] = Highest(batch)]
    BY <1>5 DEF AppendBatch
  <2>2. Len(log') = Len(log) + Cardinality(Fresh(batch))
    BY <1>0, <1>5, AppendLength
  <2>3. CASE Fresh(batch) # {}
    <3>1. Highest(batch) = Len(log')
      BY <1>0, <2>1, <2>2, <2>3, HighestIs
    <3>2. announce'[w] = Len(log')
      BY <1>0, <2>1, <3>1
    <3>3. Announced'
      BY <3>2 DEF Announced
    <3> QED
      BY <1>3, <3>3
  <2>4. CASE Fresh(batch) = {}
    <3>0. Cardinality(Fresh(batch)) = 0
      BY <1>0, <2>4, StagedEntries
    <3>1. Len(log') = Len(log)
      BY <1>0, <2>2, <3>0
    <3>2. ASSUME 0 < Len(log), Announced PROVE Announced'
      <4>1. CASE mark = Len(log)
        BY <2>1, <3>1, <4>1 DEF Announced
      <4>2. ASSUME NEW v \in Writers, announce[v] = Len(log) PROVE Announced'
        <5>1. v # w
          BY <1>0, <2>1, <3>2, <4>2
        <5>2. announce'[v] = Len(log')
          BY <1>0, <2>1, <3>1, <4>2, <5>1
        <5> QED
          BY <5>2 DEF Announced
      <4> QED
        BY <3>2, <4>1, <4>2 DEF Announced
    <3> QED
      BY <1>3, <3>1, <3>2
  <2> QED
    BY <2>3, <2>4
<1> QED
  BY <1>4, <1>5

\* No step loses a wakeup.
LEMMA WakeStep ==
    WakeInv /\ [Next]_vars => WakeInv'
<1> SUFFICES ASSUME WakeInv, [Next]_vars PROVE WakeInv'
  OBVIOUS
<1>1. BaseInv'
  BY BaseStep DEF WakeInv
<1>2. ASSUME UNCHANGED <<log, announce, mark, tail>> PROVE WakeInv'
  BY <1>1, <1>2 DEF WakeInv, Awake, Reached, Announced
<1>3. CASE UNCHANGED vars
  BY <1>2, <1>3 DEF vars
<1>4. ASSUME NEW w \in Writers, Publish(w) \/ \E batch \in Batches : AppendBatch(w, batch)
      PROVE  WakeInv'
  BY <1>1, <1>4, JournalStaysAwake
<1>5. ASSUME NEW c \in Clients, Open(c) \/ Follow(c) \/ ReadFails(c) PROVE WakeInv'
  BY <1>1, <1>5, FollowStaysAwake
<1>6. ASSUME NEW c \in Clients, Consume(c) \/ Drop(c) PROVE WakeInv'
  BY <1>2, <1>6 DEF Consume, Receive, StreamEnds, Drop, journalVars
<1>7. CASE FoldTask \/ FoldFails \/ FoldAborted \/ Shutdown
  <2>1. UNCHANGED <<log, announce, mark, tail>>
    BY <1>7 DEF FoldTask, FoldStep, FoldSubscribes, FoldChanged, FoldFails, FoldAborted,
                Shutdown, journalVars, streamVars
  <2> QED
    BY <1>2, <2>1
<1> QED
  BY <1>3, <1>4, <1>5, <1>6, <1>7 DEF Next

\* No commit falls between a follower's read of the head and its wait: one that
\* waits with nothing left to wake it has sent everything, for any number of
\* writers and clients, any batches and any old journal (watch.rs publish and
\* changed, live_tail.rs follow_loop).
THEOREM NoWakeupIsLost == Spec => []NoLostWakeup
<1>1. Init => WakeInv
  <2> SUFFICES ASSUME Init PROVE WakeInv
    OBVIOUS
  <2>1. \A c \in Clients : tail[c].pc = "none"
    BY DEF Init, NoTail
  <2> QED
    BY <2>1, BaseInit DEF WakeInv, Awake
<1>2. WakeInv => NoLostWakeup
  <2> SUFFICES ASSUME WakeInv, NEW c \in Clients, tail[c].pc = "wait", tail[c].seen = mark,
                      NothingToAnnounce
               PROVE  tail[c].cursor = Len(log)
    BY DEF NoLostWakeup
  <2>1. /\ mark \in Nat /\ Len(log) \in Nat /\ mark <= Len(log)
        /\ announce \in [Writers -> Nat]
        /\ tail[c].cursor \in Nat /\ tail[c].cursor <= Len(log)
    BY BaseParts DEF WakeInv, Fits, TailRecs
  <2>2. mark <= tail[c].cursor /\ (tail[c].cursor < Len(log) => Announced)
    BY DEF WakeInv, Awake, Reached
  <2>3. Announced => mark = Len(log)
    BY <2>1 DEF Announced, NothingToAnnounce
  <2> QED
    BY <2>1, <2>2, <2>3
<1> QED
  BY <1>1, <1>2, WakeStep, PTL DEF Spec

-----------------------------------------------------------------------------
(* The sidecar *)

\* The sidecar's attribution is the one at its watermark, unless it is torn.
SidecarInv ==
    /\ BaseInv /\ RowsTrue
    /\ ~fold.torn => fold.run = RunAt(fold.wm)

\* What RowsTrue says, piece by piece.
LEMMA RowsParts ==
    RowsTrue <=>
    /\ \A s \in CommittedTo(fold.wm) : s \notin fold.lost => \E r \in rows : r.seq = s
    /\ \A r \in rows : r.seq \in CommittedTo(Len(log))
    /\ ~fold.torn => \A r \in rows : r.seq \in CommittedTo(fold.wm) /\ r.seq \notin fold.lost
    /\ ~fold.torn => \A r \in rows : RunAt(r.seq) # NoRun => r.run = RunAt(r.seq)
<1> DEFINE S == {r.seq : r \in rows}
           C == CommittedTo(fold.wm)
           L == CommittedTo(Len(log))
<1>1. C \ fold.lost \subseteq S <=> \A s \in C : s \notin fold.lost => \E r \in rows : r.seq = s
  OBVIOUS
<1>2. S \subseteq L <=> \A r \in rows : r.seq \in L
  OBVIOUS
<1>3. S \subseteq C \ fold.lost <=> \A r \in rows : r.seq \in C /\ r.seq \notin fold.lost
  OBVIOUS
<1>4. RowsTrue <=> /\ C \ fold.lost \subseteq S
                   /\ S \subseteq L
                   /\ ~fold.torn =>
                         /\ S = C \ fold.lost
                         /\ \A r \in rows : RunAt(r.seq) # NoRun => r.run = RunAt(r.seq)
  BY DEF RowsTrue
<1> HIDE DEF S, C, L
<1>5. C \ fold.lost \subseteq S => (S = C \ fold.lost <=> S \subseteq C \ fold.lost)
  OBVIOUS
<1>6. RowsTrue <=> /\ C \ fold.lost \subseteq S
                   /\ S \subseteq L
                   /\ ~fold.torn => S \subseteq C \ fold.lost
                   /\ ~fold.torn => \A r \in rows : RunAt(r.seq) # NoRun => r.run = RunAt(r.seq)
  BY <1>4, <1>5
<1> QED
  BY <1>1, <1>2, <1>3, <1>6 DEF C, L

\* A row lies in the log.
LEMMA RowPlaced ==
    ASSUME SidecarInv, NEW r \in rows
    PROVE  /\ r \in Deltas /\ r.seq \in Nat /\ r.seq \in 1 .. Len(log)
           /\ log[r.seq].kind = "Committed"
<1>1. r \in Deltas
  BY BaseParts DEF SidecarInv
<1>2. r.seq \in CommittedTo(Len(log))
  BY RowsParts DEF SidecarInv
<1> QED
  BY <1>1, <1>2 DEF Deltas, CommittedTo

\* The log may grow under a sidecar that rests.
LEMMA SidecarRests ==
    ASSUME SidecarInv, [Next]_vars, BaseInv', rows' = rows, fold'.wm = fold.wm,
           fold'.run = fold.run, fold'.lost = fold.lost, fold'.torn = fold.torn
    PROVE  SidecarInv'
<1>0. LogType /\ Len(log) \in Nat /\ fold.wm \in Nat /\ fold.wm <= Len(log)
  BY BaseParts, BaseTypes DEF SidecarInv
<1>1. \A s \in Nat : s <= Len(log) => RunAt(s)' = RunAt(s)
  BY <1>0, RangesKept DEF RunAt
<1>2. RunAt(fold.wm)' = RunAt(fold.wm)
  <2>1. RunAfter(NoRun, 0, fold.wm)' = RunAfter(NoRun, 0, fold.wm)
    BY <1>0, RangesKept
  <2> QED
    BY <2>1 DEF RunAt
<1>3. /\ \A s \in 1 .. Len(log) : log'[s] = log[s]
      /\ Len(log') \in Nat /\ Len(log) <= Len(log')
  BY <1>0, LogGrows
<1>4. /\ CommittedTo(fold.wm)' = CommittedTo(fold.wm)
      /\ CommittedTo(Len(log)) \subseteq CommittedTo(Len(log))'
  <2>1. ASSUME NEW n \in Nat, n <= Len(log)
        PROVE  CommittedTo(n) = {s \in 1 .. n : log'[s].kind = "Committed"}
    BY <1>0, <1>3, <2>1 DEF CommittedTo
  <2>2. CommittedTo(fold.wm) = {s \in 1 .. fold'.wm : log'[s].kind = "Committed"}
    BY <1>0, <2>1
  <2>3. CommittedTo(Len(log)) = {s \in 1 .. Len(log) : log'[s].kind = "Committed"}
    BY <1>0, <2>1
  <2>4. 1 .. Len(log) \subseteq 1 .. Len(log')
    BY <1>0, <1>3
  <2> QED
    BY <2>2, <2>3, <2>4 DEF CommittedTo
<1>5. ASSUME NEW r \in rows, RunAt(r.seq) # NoRun => r.run = RunAt(r.seq), RunAt(r.seq)' # NoRun
      PROVE  r.run = RunAt(r.seq)'
  <2>1. r.seq \in Nat /\ r.seq <= Len(log)
    BY <1>0, RowPlaced
  <2> QED
    BY <1>1, <1>5, <2>1
<1>6. RowsTrue'
  <2>1. /\ CommittedTo(fold.wm) \ fold.lost \subseteq {r.seq : r \in rows}
        /\ {r.seq : r \in rows} \subseteq CommittedTo(Len(log))
        /\ ~fold.torn => {r.seq : r \in rows} = CommittedTo(fold.wm) \ fold.lost
    BY DEF SidecarInv, RowsTrue
  <2>2. ASSUME ~fold.torn, NEW r \in rows PROVE RunAt(r.seq)' # NoRun => r.run = RunAt(r.seq)'
    BY <1>5, <2>2 DEF SidecarInv, RowsTrue
  <2> QED
    BY <1>4, <2>1, <2>2 DEF RowsTrue
<1> QED
  BY <1>2, <1>6 DEF SidecarInv

\* A fold over part of the journal, from the start or from the watermark, gives
\* an entry with a registration below it the latest one.
LEMMA FoldedRun ==
    ASSUME SidecarInv, ~fold.torn, NEW from \in {0, fold.wm}, NEW s \in Nat, from <= s,
           s <= Len(log), RunAt(s) # NoRun
    PROVE  RunAfter(fold.run, from, s) = RunAt(s)
<1>1. LogType /\ fold.wm \in Nat /\ fold.run = RunAt(fold.wm)
  BY BaseTypes DEF SidecarInv
<1>2. CASE from = fold.wm
  BY <1>1, <1>2, RunCompose DEF RunAt
<1>3. CASE from = 0
  BY <1>3 DEF RunAt, RunAfter
<1> QED
  BY <1>2, <1>3

\* What a fold leaves in the sidecar: the rows it wrote beside those that were
\* there; a row with an attribution keeps it.
LEMMA FoldedSeqs ==
    ASSUME SidecarInv, NEW bad, NEW failed \in SUBSET (1 .. Len(log))
    PROVE  LET ins == Written("Committed", FoldFrom(bad), failed)
               seed == IF "seed" \in bad THEN NoRun ELSE SeedRun
           IN  /\ \A s \in ins : \E r \in FoldedRows(bad, failed) : r.seq = s
               /\ \A x \in rows : \E r \in FoldedRows(bad, failed) : r.seq = x.seq
               /\ \A r \in FoldedRows(bad, failed) :
                     \E x \in Deltas :
                        /\ x \in rows \/ (x.seq \in ins /\ x.run = RunAfter(seed, FoldFrom(bad), x.seq))
                        /\ r.seq = x.seq /\ (x.run # NoRun => r.run = x.run)
<1> DEFINE from == FoldFrom(bad)
           seed == IF "seed" \in bad THEN NoRun ELSE SeedRun
           last == RunAfter(seed, from, Len(log))
           ins == Written("Committed", from, failed)
           New(s) == [seq |-> s, run |-> RunAfter(seed, from, s)]
           new == {New(s) : s \in ins}
           kept == {r \in rows : r.seq \notin ins}
           F(r) == IF r.run = NoRun /\ "stamp" \notin bad THEN [r EXCEPT !.run = last] ELSE r
<1>1. BaseInv /\ LogType /\ Len(log) \in Nat /\ rows \subseteq Deltas /\ from \in Nat
  BY BaseTypes, BaseParts, FoldedType DEF SidecarInv
<1>2. Deltas = [seq : Nat, run : RunType]
  BY DEF Deltas, RunType
<1>3. seed \in RunType
  BY <1>1, BaseTypes DEF RunType, SeedRun
<1>4. FoldedRows(bad, failed) = {F(r) : r \in kept \cup new}
  BY DEF FoldedRows
<1> HIDE DEF seed, from
<1>5. ASSUME NEW s \in ins PROVE New(s) \in Deltas /\ New(s).seq = s /\ New(s).run = RunAfter(seed, from, s)
  <2>1. s \in Nat /\ s <= Len(log)
    BY <1>1 DEF Written
  <2>2. RunAfter(seed, from, s) \in RunType
    BY <1>1, <1>3, <2>1, RunAfterType
  <2> QED
    BY <1>2, <2>1, <2>2
<1> HIDE DEF last, ins, New
<1>6. ASSUME NEW x \in kept \cup new
      PROVE  x \in Deltas /\ F(x).seq = x.seq /\ (x.run # NoRun => F(x).run = x.run)
  <2>1. x \in Deltas
    BY <1>1, <1>5
  <2> QED
    BY <1>2, <2>1
<1> HIDE DEF F
<1>7. ASSUME NEW s \in ins PROVE \E r \in FoldedRows(bad, failed) : r.seq = s
  <2>1. New(s) \in new /\ New(s).seq = s
    BY <1>5
  <2>2. F(New(s)) \in FoldedRows(bad, failed) /\ F(New(s)).seq = s
    BY <1>4, <1>6, <2>1
  <2> QED
    BY <2>2
<1>8. ASSUME NEW x \in rows PROVE \E r \in FoldedRows(bad, failed) : r.seq = x.seq
  <2>1. CASE x.seq \in ins
    BY <1>7, <2>1
  <2>2. CASE x.seq \notin ins
    <3>1. F(x) \in FoldedRows(bad, failed) /\ F(x).seq = x.seq
      BY <1>4, <1>6, <2>2
    <3> QED
      BY <3>1
  <2> QED
    BY <2>1, <2>2
<1>9. ASSUME NEW r \in FoldedRows(bad, failed)
      PROVE  \E x \in Deltas :
                /\ x \in rows \/ (x.seq \in ins /\ x.run = RunAfter(seed, from, x.seq))
                /\ r.seq = x.seq /\ (x.run # NoRun => r.run = x.run)
  <2>1. PICK x \in kept \cup new : r = F(x)
    BY <1>4
  <2>2. x \in Deltas /\ r.seq = x.seq /\ (x.run # NoRun => r.run = x.run)
    BY <1>6, <2>1
  <2>3. x \in rows \/ (x.seq \in ins /\ x.run = RunAfter(seed, from, x.seq))
    BY <1>5
  <2> QED
    BY <2>2, <2>3
<1> QED
  BY <1>7, <1>8, <1>9 DEF ins, seed, from

\* Unless a fold tears it, run_meta is the attribution at the head after it.
LEMMA FoldedMeta ==
    ASSUME SidecarInv, ~fold.torn, NEW bad, NEW failed \in SUBSET (1 .. Len(log)),
           ~Tears(bad, failed)
    PROVE  RunMeta(bad, failed) = RunAt(Len(log))
<1> DEFINE from == FoldFrom(bad)
           regs == Written("RunRegistered", from, failed)
<1>1. /\ LogType /\ Len(log) \in Nat /\ fold.wm \in Nat /\ fold.wm <= Len(log)
      /\ fold.run = RunAt(fold.wm) /\ from \in {0, fold.wm}
  BY BaseTypes, BaseParts DEF SidecarInv, FoldFrom
<1>2. regs = Registrations(from, Len(log))
  BY DEF Written, Registrations, Tears
<1>3. RunMeta(bad, failed) = RunAfter(fold.run, from, Len(log))
  BY <1>2 DEF RunMeta, RunAfter
<1> HIDE DEF from
<1>4. CASE from = fold.wm
  BY <1>1, <1>3, <1>4, RunCompose DEF RunAt
<1>5. CASE from = 0
  <2>1. CASE Registrations(0, Len(log)) # {}
    BY <1>3, <1>5, <2>1 DEF RunAt, RunAfter
  <2>2. CASE Registrations(0, Len(log)) = {}
    <3>1. Registrations(0, fold.wm) = {}
      BY <1>1, <2>2 DEF Registrations
    <3>2. fold.run = NoRun
      BY <1>1, <3>1 DEF RunAt, RunAfter
    <3> QED
      BY <1>3, <1>5, <2>2, <3>2 DEF RunAt, RunAfter
  <2> QED
    BY <2>1, <2>2
<1> QED
  BY <1>1, <1>4, <1>5

\* A fold writes the Committed entries past the watermark, each under the run that
\* precedes it, and remembers those it could not write.
LEMMA FoldIsTrue ==
    ASSUME SidecarInv, BaseInv', FoldStep
    PROVE  SidecarInv'
<1> DEFINE m == fold.wm
           h == Len(log)
<1>0. LogType /\ h \in Nat /\ m \in Nat /\ m <= h /\ fold \in FoldRecs
  BY BaseParts, BaseTypes DEF SidecarInv
<1>1. log' = log
  BY DEF FoldStep, journalVars
<1>2. PICK bad \in SUBSET Statements, failed \in SUBSET (1 .. Len(log)) :
         /\ \A s \in failed : s > FoldFrom(bad) /\ log[s].kind \in {"Committed", "RunRegistered"}
         /\ IF Len(log) <= FoldFrom(bad) THEN NothingNew(bad, failed) ELSE FoldNow(bad, failed)
  BY DEF FoldStep
<1>3. ASSUME NothingNew(bad, failed) PROVE SidecarInv'
  <2>1. rows' = rows /\ fold' = [fold EXCEPT !.pc = AfterFold[fold.pc]]
    BY <1>3 DEF NothingNew
  <2>2. /\ fold'.wm = fold.wm /\ fold'.run = fold.run
        /\ fold'.lost = fold.lost /\ fold'.torn = fold.torn
    BY <1>0, <2>1 DEF FoldRecs
  <2>3. Next
    BY DEF Next, FoldTask
  <2> QED
    BY <2>1, <2>2, <2>3, SidecarRests
<1>4. ASSUME FoldNow(bad, failed) PROVE SidecarInv'
  <2> DEFINE from == FoldFrom(bad)
             seed == IF "seed" \in bad THEN NoRun ELSE SeedRun
             ins == Written("Committed", from, failed)
             lost == (fold.lost \ ins) \cup NewlyLost(failed)
             torn == fold.torn \/ Tears(bad, failed)
             wm == IF "last_seq" \in bad THEN m ELSE h
             R == FoldedRows(bad, failed)
  <2>1. /\ rows' = R
        /\ fold'.wm = wm /\ fold'.run = RunMeta(bad, failed) /\ fold'.lost = lost /\ fold'.torn = torn
    <3>1. /\ rows' = R
          /\ fold' = [fold EXCEPT !.pc = AfterFold[fold.pc], !.wm = wm, !.run = RunMeta(bad, failed),
                                  !.lost = lost, !.torn = torn]
      BY <1>4 DEF FoldNow
    <3> HIDE DEF R, wm, lost, torn
    <3> QED
      BY <1>0, <3>1 DEF FoldRecs
  <2>2. from \in {0, m} /\ from \in Nat /\ from <= m /\ wm \in Nat /\ wm <= h
    BY <1>0 DEF FoldFrom
  <2>3. \A s \in ins : s \in Nat /\ from < s /\ s <= h /\ s \in CommittedTo(h) /\ s \notin failed
    BY <1>0, <2>2 DEF Written, CommittedTo
  <2>4. /\ \A s \in CommittedTo(m) : s \notin fold.lost => \E r \in rows : r.seq = s
        /\ \A r \in rows : r.seq \in CommittedTo(h)
        /\ ~fold.torn => \A r \in rows : r.seq \in CommittedTo(m) /\ r.seq \notin fold.lost
        /\ ~fold.torn => \A r \in rows : RunAt(r.seq) # NoRun => r.run = RunAt(r.seq)
    BY RowsParts DEF SidecarInv
  <2>5. /\ \A s \in ins : \E r \in R : r.seq = s
        /\ \A x \in rows : \E r \in R : r.seq = x.seq
        /\ \A r \in R : \E x \in Deltas :
              /\ x \in rows \/ (x.seq \in ins /\ x.run = RunAfter(seed, from, x.seq))
              /\ r.seq = x.seq /\ (x.run # NoRun => r.run = x.run)
    BY FoldedSeqs
  <2>6. CommittedTo(m) \subseteq CommittedTo(h) /\ CommittedTo(wm) \subseteq CommittedTo(h)
    BY <1>0, <2>2 DEF CommittedTo
  <2>7. ASSUME NEW s \in CommittedTo(h), s \notin lost PROVE \E r \in R : r.seq = s
    <3>1. CASE s \in ins \/ \E r \in rows : r.seq = s
      BY <2>5, <3>1
    <3>2. CASE s \notin ins /\ ~\E r \in rows : r.seq = s
      <4>1. s \in 1 .. h /\ log[s].kind = "Committed"
        BY DEF CommittedTo
      <4>2. s \notin fold.lost /\ s \notin failed
        BY <2>7, <3>2, <4>1 DEF NewlyLost
      <4>3. ~(s <= m)
        <5>1. s <= m => s \in CommittedTo(m)
          BY <1>0, <4>1 DEF CommittedTo
        <5> QED
          BY <2>4, <3>2, <4>2, <5>1
      <4>4. s \in from + 1 .. h
        BY <1>0, <2>2, <4>1, <4>3
      <4>5. s \in ins
        BY <4>1, <4>2, <4>4 DEF Written
      <4> QED
        BY <3>2, <4>5
    <3> QED
      BY <3>1, <3>2
  <2>8. ASSUME NEW r \in R PROVE r.seq \in CommittedTo(h)
    BY <2>3, <2>4, <2>5
  <2>9. ASSUME ~torn
        PROVE  /\ ~fold.torn /\ seed = fold.run /\ wm = h /\ ~Tears(bad, failed)
    BY <2>9 DEF Tears, SeedRun
  <2>10. ASSUME ~torn, NEW r \in R PROVE r.seq \in CommittedTo(wm) /\ r.seq \notin lost
    <3>1. PICK x \in Deltas : (x \in rows \/ x.seq \in ins) /\ r.seq = x.seq
      BY <2>5
    <3>2. CASE x \in rows
      BY <2>4, <2>8, <2>9, <2>10, <3>1, <3>2 DEF NewlyLost
    <3>3. CASE x.seq \in ins
      BY <2>3, <2>8, <2>9, <2>10, <3>1, <3>3 DEF NewlyLost
    <3> QED
      BY <3>1, <3>2, <3>3
  <2>11. ASSUME ~torn, NEW r \in R, RunAt(r.seq) # NoRun PROVE r.run = RunAt(r.seq)
    <3>1. PICK x \in Deltas :
             /\ x \in rows \/ (x.seq \in ins /\ x.run = RunAfter(seed, from, x.seq))
             /\ r.seq = x.seq /\ (x.run # NoRun => r.run = x.run)
      BY <2>5
    <3>2. CASE x \in rows
      BY <2>4, <2>9, <2>11, <3>1, <3>2
    <3>3. CASE x.seq \in ins /\ x.run = RunAfter(seed, from, x.seq)
      <4>1. x.seq \in Nat /\ from <= x.seq /\ x.seq <= Len(log)
        BY <2>2, <2>3, <3>3
      <4>2. RunAfter(fold.run, from, x.seq) = RunAt(x.seq)
        BY <2>2, <2>9, <2>11, <3>1, <4>1, FoldedRun
      <4> QED
        BY <2>9, <2>11, <3>1, <3>3, <4>2
    <3> QED
      BY <3>1, <3>2, <3>3
  <2>12. ~torn => RunMeta(bad, failed) = RunAt(wm)
    BY <2>9, FoldedMeta
  <2>13. /\ \A s : RunAt(s)' = RunAt(s)
         /\ RunAt(fold.wm)' = RunAt(wm)
         /\ CommittedTo(fold.wm)' = CommittedTo(wm)
         /\ CommittedTo(Len(log))' = CommittedTo(h)
    BY <1>1, <2>1 DEF RunAt, RunAfter, Registrations, CommittedTo
  <2> HIDE DEF R, lost, torn, wm, h
  <2>14. RowsTrue'
    <3>1. CommittedTo(wm) \ lost \subseteq {r.seq : r \in R}
      BY <2>6, <2>7
    <3>2. {r.seq : r \in R} \subseteq CommittedTo(h)
      BY <2>8
    <3>3. ~torn => {r.seq : r \in R} = CommittedTo(wm) \ lost
      BY <2>10, <3>1
    <3>4. ~torn => \A r \in R : RunAt(r.seq)' # NoRun => r.run = RunAt(r.seq)'
      BY <2>11, <2>13
    <3>5. /\ (CommittedTo(fold.wm) \ fold.lost \subseteq {r.seq : r \in rows})'
          /\ ({r.seq : r \in rows} \subseteq CommittedTo(Len(log)))'
          /\ (~fold.torn => {r.seq : r \in rows} = CommittedTo(fold.wm) \ fold.lost)'
          /\ (~fold.torn => \A r \in rows : RunAt(r.seq) # NoRun => r.run = RunAt(r.seq))'
      BY <2>1, <2>13, <3>1, <3>2, <3>3, <3>4
    <3> QED
      BY <3>5 DEF RowsTrue
  <2> QED
    BY <2>1, <2>12, <2>13, <2>14 DEF SidecarInv
<1> QED
  BY <1>2, <1>3, <1>4

\* The sidecar misses no Committed entry up to its watermark but those whose own
\* INSERT failed and holds no other entry; as long as no fold lost the attribution
\* or the watermark, a row has the latest registration below it, however the folds
\* split the journal, whichever of them fail and wherever they start over
\* (capture.rs fold).
THEOREM RowsAreTrue == Spec => []RowsTrue
<1>1. Init => SidecarInv
  <2> SUFFICES ASSUME Init PROVE SidecarInv
    OBVIOUS
  <2>1. fold.wm = 0 /\ fold.run = NoRun /\ rows = {}
    BY DEF Init
  <2>2. RunAt(0) = NoRun
    BY DEF RunAt, RunAfter, Registrations
  <2>3. CommittedTo(0) = {}
    BY DEF CommittedTo
  <2>4. RowsTrue
    BY <2>1, <2>3 DEF RowsTrue
  <2> QED
    BY <2>1, <2>2, <2>4, BaseInit DEF SidecarInv
<1>2. SidecarInv /\ [Next]_vars => SidecarInv'
  <2> SUFFICES ASSUME SidecarInv, [Next]_vars PROVE SidecarInv'
    OBVIOUS
  <2>1. BaseInv' /\ fold \in FoldRecs
    BY BaseStep, BaseParts DEF SidecarInv
  <2>2. CASE FoldStep
    BY <2>1, <2>2, FoldIsTrue
  <2>3. CASE FoldFails \/ FoldSubscribes \/ FoldChanged \/ FoldAborted
    <3>1. /\ rows' = rows /\ fold'.wm = fold.wm /\ fold'.run = fold.run
          /\ fold'.lost = fold.lost /\ fold'.torn = fold.torn
      BY <2>1, <2>3 DEF FoldFails, FoldSubscribes, FoldChanged, FoldAborted, FoldRecs
    <3> QED
      BY <2>1, <3>1, SidecarRests
  <2>4. ASSUME UNCHANGED <<rows, fold>> PROVE SidecarInv'
    BY <2>1, <2>4, SidecarRests
  <2>5. ASSUME NEW w \in Writers, Publish(w) \/ \E batch \in Batches : AppendBatch(w, batch)
        PROVE  UNCHANGED <<rows, fold>>
    BY <2>5 DEF Publish, AppendBatch
  <2>6. ASSUME NEW c \in Clients, Open(c) \/ Follow(c) \/ ReadFails(c) \/ Consume(c) \/ Drop(c)
        PROVE  UNCHANGED <<rows, fold>>
    BY <2>6 DEF Open, Follow, StopAtStart, ReadHead, SendFrame, SendStatus, Changed, FollowerReturns,
                ReadFails, Consume, Receive, StreamEnds, Drop
  <2>7. CASE Shutdown \/ UNCHANGED vars
    BY <2>4, <2>7 DEF Shutdown, vars
  <2> QED
    BY <2>2, <2>3, <2>4, <2>5, <2>6, <2>7 DEF Next, FoldTask
<1>3. SidecarInv => RowsTrue
  BY DEF SidecarInv
<1> QED
  BY <1>1, <1>2, <1>3, PTL DEF Spec

-----------------------------------------------------------------------------
(* Every entry once, in order and under its run *)

SeqsOf(d) == [i \in 1 .. Len(d) |-> d[i].seq]

\* The deltas d are those of the entries in (a, b].
DeltasTrue(t, d, a, b) ==
    /\ Lists(SeqsOf(d), SurfacedIn(t, a, b))
    /\ t = "all" => \A i \in 1 .. Len(d) : d[i].run = RunAt(d[i].seq)

\* The cursor the i-th frame in the channel starts from.
FrameFrom(K, Q, i) == IF i = 1 THEN K.since ELSE Q[i - 1].next_seq

\* What a client has printed, the frames in its channel and the range its follower
\* sends next adjoin: nothing is missing between them and nothing is sent twice.
Adjoin(T, Q, K, G) ==
    /\ K.start <= K.since
    /\ DeltasTrue(K.target, G, K.start, K.since)
    /\ (T.pc # "none" /\ K.target = "all") => T.run = RunAt(T.from)
    /\ K.state = "open" =>
          /\ \A i \in 1 .. Len(Q) :
                IF Q[i].status = "ok"
                THEN /\ FrameFrom(K, Q, i) <= Q[i].next_seq
                     /\ DeltasTrue(K.target, Q[i].deltas, FrameFrom(K, Q, i), Q[i].next_seq)
                ELSE i = Len(Q) /\ T.pc = "none"
          /\ T.pc # "none" => T.cursor = FrameFrom(K, Q, Len(Q) + 1)

StreamInv == BaseInv /\ \A c \in Clients : Adjoin(tail[c], queue[c], client[c], got[c])

\* The deltas of two adjacent ranges, one after the other.
LEMMA DeltasJoin ==
    ASSUME LogType, NEW t, NEW a \in Nat, NEW b \in Nat, NEW e \in Nat, a <= b, b <= e, e <= Len(log),
           NEW p \in Seq(Deltas), NEW q \in Seq(Deltas),
           DeltasTrue(t, p, a, b), DeltasTrue(t, q, b, e)
    PROVE  DeltasTrue(t, p \o q, a, e)
<1> DEFINE A == SurfacedIn(t, a, b)
           B == SurfacedIn(t, b, e)
           r == p \o q
<1>1. Len(p) \in Nat /\ Len(q) \in Nat /\ Len(log) \in Nat
  BY DEF LogType
<1>2. /\ r \in Seq(Deltas) /\ Len(r) = Len(p) + Len(q)
      /\ \A i \in 1 .. Len(p) + Len(q) : r[i] = IF i <= Len(p) THEN p[i] ELSE q[i - Len(p)]
  BY ConcatProperties
<1>3. /\ A \in SUBSET Nat /\ B \in SUBSET Nat
      /\ \A x \in A : x <= b
      /\ \A x \in B : b < x
  <2>1. b <= Len(log)
    BY <1>1
  <2> QED
    BY <2>1, SurfacedOf
<1>4. SurfacedIn(t, a, e) = A \cup B
  BY SurfacedSplit
<1>5. Lists(SeqsOf(p), A) /\ Lists(SeqsOf(q), B)
  BY DEF DeltasTrue
<1>6. t = "all" => /\ \A i \in 1 .. Len(p) : p[i].run = RunAt(p[i].seq)
                   /\ \A i \in 1 .. Len(q) : q[i].run = RunAt(q[i].seq)
  BY DEF DeltasTrue
<1> HIDE DEF A, B, r
<1>7. \A x \in A, y \in B : x < y
  BY <1>3
<1>8. Lists(SeqsOf(p) \o SeqsOf(q), A \cup B)
  BY <1>3, <1>5, <1>7, ListsConcat
<1>9. SeqsOf(p) \o SeqsOf(q) = SeqsOf(r)
  <2> DEFINE sp == SeqsOf(p)
             sq == SeqsOf(q)
  <2>1. sp \in Seq(A) /\ sq \in Seq(B)
    BY <1>5 DEF Lists
  <2>2. /\ Len(sp) = Len(p) /\ Len(sq) = Len(q)
        /\ \A i \in 1 .. Len(p) : sp[i] = p[i].seq
        /\ \A i \in 1 .. Len(q) : sq[i] = q[i].seq
    BY <1>1, <2>1 DEF SeqsOf
  <2> HIDE DEF sp, sq
  <2>3. sp \in Seq(A \cup B) /\ sq \in Seq(A \cup B)
    BY <2>1
  <2>4. /\ sp \o sq \in Seq(A \cup B) /\ Len(sp \o sq) = Len(p) + Len(q)
        /\ \A i \in 1 .. Len(p) + Len(q) : (sp \o sq)[i] = IF i <= Len(p) THEN sp[i] ELSE sq[i - Len(p)]
    <3> DEFINE M == A \cup B
    <3>1. sp \in Seq(M) /\ sq \in Seq(M)
      BY <2>3
    <3> HIDE DEF M
    <3>2. /\ sp \o sq \in Seq(M) /\ Len(sp \o sq) = Len(sp) + Len(sq)
          /\ \A i \in 1 .. Len(sp) + Len(sq) :
                (sp \o sq)[i] = IF i <= Len(sp) THEN sp[i] ELSE sq[i - Len(sp)]
      BY <3>1, ConcatProperties
    <3> QED
      BY <2>2, <3>2 DEF M
  <2>5. ASSUME NEW i \in 1 .. Len(p) + Len(q) PROVE (sp \o sq)[i] = r[i].seq
    <3>1. CASE i <= Len(p)
      <4>1. i \in 1 .. Len(p)
        BY <1>1, <3>1
      <4> QED
        BY <1>2, <2>2, <2>4, <3>1, <4>1
    <3>2. CASE ~(i <= Len(p))
      <4>1. i - Len(p) \in 1 .. Len(q)
        BY <1>1, <3>2
      <4> QED
        BY <1>2, <2>2, <2>4, <3>2, <4>1
    <3> QED
      BY <3>1, <3>2
  <2>6. sp \o sq = [i \in 1 .. Len(p) + Len(q) |-> (sp \o sq)[i]]
    <3> DEFINE u == sp \o sq
    <3>1. u \in Seq(A \cup B) /\ Len(u) = Len(p) + Len(q)
      BY <2>4
    <3> HIDE DEF u
    <3>2. u = [i \in 1 .. Len(u) |-> u[i]]
      BY <3>1
    <3> QED
      BY <3>1, <3>2 DEF u
  <2>7. sp \o sq = [i \in 1 .. Len(p) + Len(q) |-> r[i].seq]
    BY <2>5, <2>6
  <2> QED
    BY <1>2, <2>7 DEF SeqsOf, sp, sq
<1>10. ASSUME t = "all", NEW i \in 1 .. Len(r) PROVE r[i].run = RunAt(r[i].seq)
  <2>0. i \in 1 .. Len(p) + Len(q)
    BY <1>2
  <2>1. CASE i <= Len(p)
    <3>1. i \in 1 .. Len(p)
      BY <1>1, <2>0, <2>1
    <3> QED
      BY <1>2, <1>6, <1>10, <2>0, <2>1, <3>1
  <2>2. CASE ~(i <= Len(p))
    <3>1. i - Len(p) \in 1 .. Len(q)
      BY <1>1, <2>0, <2>2
    <3> QED
      BY <1>2, <1>6, <1>10, <2>0, <2>2, <3>1
  <2> QED
    BY <2>1, <2>2
<1> QED
  BY <1>4, <1>8, <1>9, <1>10 DEF DeltasTrue, r

\* The entries of a delta list lie in its range.
LEMMA DeltasPlaced ==
    ASSUME LogType, NEW t, NEW a \in Nat, NEW b \in Nat, b <= Len(log), NEW d \in Seq(Deltas),
           DeltasTrue(t, d, a, b)
    PROVE  \A i \in 1 .. Len(d) : d[i].seq \in Nat /\ d[i].seq <= Len(log)
<1> DEFINE S == SurfacedIn(t, a, b)
<1>1. S \in SUBSET (1 .. Len(log)) /\ Len(log) \in Nat
  BY SurfacedOf DEF LogType
<1>2. SeqsOf(d) \in Seq(S)
  BY DEF DeltasTrue, Lists
<1>3. Len(d) \in Nat /\ Len(SeqsOf(d)) = Len(d)
  BY <1>2 DEF SeqsOf
<1> HIDE DEF S
<1>4. \A i \in 1 .. Len(d) : SeqsOf(d)[i] \in S
  BY <1>2, <1>3
<1>5. \A i \in 1 .. Len(d) : SeqsOf(d)[i] = d[i].seq
  BY DEF SeqsOf
<1>6. ASSUME NEW i \in 1 .. Len(d) PROVE d[i].seq \in Nat /\ d[i].seq <= Len(log)
  <2>1. d[i].seq \in 1 .. Len(log)
    BY <1>1, <1>4, <1>5
  <2> QED
    BY <1>1, <2>1
<1> QED
  BY <1>6

\* They stay true while the log grows.
LEMMA DeltasKept ==
    ASSUME LogType, [Next]_vars, NEW t, NEW a \in Nat, NEW b \in Nat, b <= Len(log),
           NEW d \in Seq(Deltas), DeltasTrue(t, d, a, b)
    PROVE  DeltasTrue(t, d, a, b)'
<1>1. SurfacedIn(t, a, b)' = SurfacedIn(t, a, b)
  BY RangesKept
<1>2. \A s \in Nat : s <= Len(log) => RunAt(s)' = RunAt(s)
  BY RangesKept DEF RunAt
<1>3. \A i \in 1 .. Len(d) : RunAt(d[i].seq)' = RunAt(d[i].seq)
  BY <1>2, DeltasPlaced
<1>4. /\ Lists(SeqsOf(d), SurfacedIn(t, a, b))
      /\ t = "all" => \A i \in 1 .. Len(d) : d[i].run = RunAt(d[i].seq)
  BY DEF DeltasTrue
<1>5. Lists(SeqsOf(d), SurfacedIn(t, a, b)')
  BY <1>1, <1>4
<1>6. t = "all" => \A i \in 1 .. Len(d) : d[i].run = RunAt(d[i].seq)'
  BY <1>3, <1>4
<1> QED
  BY <1>5, <1>6 DEF DeltasTrue, Lists, SeqsOf

\* The cursor a frame starts from.
LEMMA FrameFromType ==
    ASSUME NEW Q \in Seq(FrameType), NEW K \in ClientRecs, NEW i \in 1 .. Len(Q) + 1,
           K.since <= Len(log), \A j \in 1 .. Len(Q) : Q[j].next_seq <= Len(log)
    PROVE  FrameFrom(K, Q, i) \in Nat /\ FrameFrom(K, Q, i) <= Len(log)
<1>1. Len(Q) \in Nat
  OBVIOUS
<1>2. CASE i = 1
  BY <1>2 DEF FrameFrom, ClientRecs
<1>3. CASE i # 1
  <2>1. i - 1 \in 1 .. Len(Q)
    BY <1>1, <1>3
  <2>2. Q[i - 1] \in FrameType
    BY <2>1
  <2> QED
    BY <1>3, <2>1, <2>2 DEF FrameFrom, FrameType
<1> QED
  BY <1>2, <1>3

\* A stream that rests adjoins still when the log has grown.
LEMMA AdjoinLater ==
    ASSUME BaseInv, [Next]_vars, NEW T, NEW Q, NEW K, NEW G, Fits(T, Q, K, G), Adjoin(T, Q, K, G)
    PROVE  Adjoin(T, Q, K, G)'
<1>0. /\ T \in TailRecs /\ Q \in Seq(FrameType) /\ K \in ClientRecs /\ G \in Seq(Deltas)
      /\ T.from <= T.cursor /\ T.cursor <= Len(log) /\ K.since <= Len(log)
      /\ \A i \in 1 .. Len(Q) : Q[i].next_seq <= Len(log)
  BY DEF Fits
<1>1. LogType /\ Len(log) \in Nat /\ Len(Q) \in Nat
  BY <1>0, BaseTypes
<1>2. T.from \in Nat /\ T.cursor \in Nat /\ K.since \in Nat /\ K.start \in Nat
  BY <1>0 DEF TailRecs, ClientRecs
<1>3. DeltasTrue(K.target, G, K.start, K.since)'
  BY <1>0, <1>1, <1>2, DeltasKept DEF Adjoin
<1>4. RunAt(T.from)' = RunAt(T.from)
  <2>1. T.from <= Len(log)
    BY <1>0, <1>1, <1>2
  <2> QED
    BY <1>1, <1>2, <2>1, RangesKept DEF RunAt
<1>5. ASSUME K.state = "open", NEW i \in 1 .. Len(Q), Q[i].status = "ok"
      PROVE  /\ FrameFrom(K, Q, i) <= Q[i].next_seq
             /\ DeltasTrue(K.target, Q[i].deltas, FrameFrom(K, Q, i), Q[i].next_seq)'
  <2>1. Q[i] \in FrameType
    BY <1>0
  <2>2. Q[i].next_seq \in Nat /\ Q[i].deltas \in Seq(Deltas) /\ Q[i].next_seq <= Len(log)
    BY <1>0, <2>1 DEF FrameType
  <2>3. i \in 1 .. Len(Q) + 1
    BY <1>1
  <2>4. FrameFrom(K, Q, i) \in Nat
    BY <1>0, <2>3, FrameFromType
  <2>5. /\ FrameFrom(K, Q, i) <= Q[i].next_seq
        /\ DeltasTrue(K.target, Q[i].deltas, FrameFrom(K, Q, i), Q[i].next_seq)
    BY <1>5 DEF Adjoin
  <2> QED
    BY <1>1, <2>2, <2>4, <2>5, DeltasKept
<1>6. K.state = "open" =>
          /\ \A i \in 1 .. Len(Q) : Q[i].status # "ok" => i = Len(Q) /\ T.pc = "none"
          /\ T.pc # "none" => T.cursor = FrameFrom(K, Q, Len(Q) + 1)
  BY DEF Adjoin
<1>7. K.start <= K.since /\ ((T.pc # "none" /\ K.target = "all") => T.run = RunAt(T.from)')
  BY <1>4 DEF Adjoin
<1> QED
  BY <1>3, <1>5, <1>6, <1>7 DEF Adjoin, FrameFrom

\* One stream moves, the log and the other streams do not.
LEMMA StreamMoves ==
    ASSUME StreamInv, BaseInv', NEW c \in Clients, NEW T, NEW Q, NEW K, NEW G, Adjoin(T, Q, K, G),
           tail' = [tail EXCEPT ![c] = T], queue' = [queue EXCEPT ![c] = Q],
           client' = [client EXCEPT ![c] = K], got' = [got EXCEPT ![c] = G], log' = log
    PROVE  StreamInv'
<1>1. /\ tail \in [Clients -> TailRecs] /\ queue \in [Clients -> Seq(FrameType)]
      /\ client \in [Clients -> ClientRecs] /\ got \in [Clients -> Seq(Deltas)]
  BY BaseParts DEF StreamInv
<1>2. ASSUME NEW t, NEW d, NEW a, NEW b
      PROVE  DeltasTrue(t, d, a, b)' <=> DeltasTrue(t, d, a, b)
  BY DEF DeltasTrue, Lists, SeqsOf, SurfacedIn, Surfaced, RunAt, RunAfter, Registrations
<1>3. \A s : RunAt(s)' = RunAt(s)
  BY DEF RunAt, RunAfter, Registrations
<1>4. ASSUME NEW t, NEW q, NEW k, NEW g PROVE Adjoin(t, q, k, g)' <=> Adjoin(t, q, k, g)
  BY <1>2, <1>3 DEF Adjoin, FrameFrom
<1>5. ASSUME NEW d \in Clients PROVE Adjoin(tail[d], queue[d], client[d], got[d])'
  <2>1. CASE d = c
    <3>1. tail'[d] = T /\ queue'[d] = Q /\ client'[d] = K /\ got'[d] = G
      BY <1>1, <2>1
    <3> QED
      BY <1>4, <3>1
  <2>2. CASE d # c
    <3>1. tail'[d] = tail[d] /\ queue'[d] = queue[d] /\ client'[d] = client[d] /\ got'[d] = got[d]
      BY <1>1, <2>2
    <3>2. Adjoin(tail[d], queue[d], client[d], got[d])
      BY DEF StreamInv
    <3> QED
      BY <1>4, <3>1, <3>2
  <2> QED
    BY <2>1, <2>2
<1> QED
  BY <1>5 DEF StreamInv

\* A stream opens at its client's cursor.
LEMMA OpenAdjoins ==
    ASSUME StreamInv, BaseInv', NEW c \in Clients, Open(c)
    PROVE  StreamInv'
<1> DEFINE k == client[c]
           Q == <<>>
           K == [k EXCEPT !.state = "open"]
           L == [k EXCEPT !.state = "refused"]
           T == [NoTail EXCEPT !.pc = "start", !.seen = mark, !.cursor = k.since,
                               !.from = k.since, !.run = Seed(c)]
<1>1. /\ tail \in [Clients -> TailRecs] /\ queue \in [Clients -> Seq(FrameType)]
      /\ client \in [Clients -> ClientRecs] /\ got \in [Clients -> Seq(Deltas)]
      /\ k \in ClientRecs
  BY BaseParts DEF StreamInv
<1>2. /\ log' = log /\ queue' = [queue EXCEPT ![c] = Q] /\ got' = [got EXCEPT ![c] = got[c]]
      /\ tail[c].pc = "none"
  BY <1>1 DEF Open, journalVars
<1>3. \/ tail' = [tail EXCEPT ![c] = T] /\ client' = [client EXCEPT ![c] = K]
      \/ tail' = [tail EXCEPT ![c] = tail[c]] /\ client' = [client EXCEPT ![c] = L]
  <2>1. CASE Owned(c)
    BY <1>1, <2>1 DEF Open
  <2>2. CASE ~Owned(c)
    <3>1. tail' = tail /\ client' = [client EXCEPT ![c] = L]
      BY <1>1, <2>2 DEF Open
    <3> QED
      BY <1>1, <3>1
  <2> QED
    BY <2>1, <2>2
<1>4. k.start <= k.since /\ DeltasTrue(k.target, got[c], k.start, k.since)
  BY DEF StreamInv, Adjoin
<1>5. /\ K.start = k.start /\ K.since = k.since /\ K.target = k.target
      /\ L.start = k.start /\ L.since = k.since /\ L.target = k.target /\ L.state = "refused"
  BY <1>1 DEF ClientRecs
<1>6. T.pc = "start" /\ T.cursor = k.since /\ T.from = k.since /\ T.run = Seed(c)
  BY DEF NoTail
<1>7. Adjoin(tail[c], Q, L, got[c])
  BY <1>2, <1>4, <1>5 DEF Adjoin
<1>8. Adjoin(T, Q, K, got[c])
  <2>1. k.target = "all" => Seed(c) = RunAt(k.since)
    BY DEF Seed
  <2>2. Len(Q) = 0 /\ FrameFrom(K, Q, Len(Q) + 1) = k.since
    BY <1>5 DEF FrameFrom
  <2> HIDE DEF K, T, Q, k
  <2>3. \A i \in 1 .. Len(Q) : FALSE
    BY <2>2
  <2> QED
    BY <1>4, <1>5, <1>6, <2>1, <2>2, <2>3 DEF Adjoin
<1> HIDE DEF K, L, T, Q, k
<1> QED
  BY <1>2, <1>3, <1>7, <1>8, StreamMoves

\* A follower that ends, or that only reads and waits, sends nothing.
LEMMA QuietAdjoins ==
    ASSUME StreamInv, BaseInv', NEW c \in Clients,
           StopAtStart(c) \/ ReadHead(c) \/ ReadFails(c) \/ Changed(c) \/ FollowerReturns(c)
    PROVE  StreamInv'
<1>1. /\ tail \in [Clients -> TailRecs] /\ queue \in [Clients -> Seq(FrameType)]
      /\ client \in [Clients -> ClientRecs] /\ got \in [Clients -> Seq(Deltas)]
      /\ tail[c] \in TailRecs
  BY BaseParts DEF StreamInv
<1>2. UNCHANGED <<log, queue, client, got>>
  BY DEF StopAtStart, ReadHead, ReadFails, Changed, FollowerReturns, journalVars
<1>3. /\ queue' = [queue EXCEPT ![c] = queue[c]] /\ client' = [client EXCEPT ![c] = client[c]]
      /\ got' = [got EXCEPT ![c] = got[c]]
  BY <1>1, <1>2
<1>4. Adjoin(tail[c], queue[c], client[c], got[c])
  BY DEF StreamInv
<1>5. ASSUME NEW T, tail' = [tail EXCEPT ![c] = T],
             \/ T.pc = "none"
             \/ /\ tail[c].pc # "none"
                /\ T.cursor = tail[c].cursor /\ T.from = tail[c].from /\ T.run = tail[c].run
      PROVE  StreamInv'
  <2>1. Adjoin(T, queue[c], client[c], got[c])
    BY <1>4, <1>5 DEF Adjoin
  <2>2. log' = log /\ tail' = [tail EXCEPT ![c] = T]
    BY <1>2, <1>5
  <2> QED
    BY <1>3, <2>1, <2>2, StreamMoves
<1>6. CASE StopAtStart(c) \/ FollowerReturns(c)
  <2>1. tail' = [tail EXCEPT ![c] = NoTail] /\ NoTail.pc = "none"
    BY <1>6 DEF StopAtStart, FollowerReturns, NoTail
  <2> QED
    BY <1>5, <2>1
<1>7. CASE ReadHead(c)
  <2> DEFINE p == IF tail[c].pc = "start" \/ Advances(c, Len(log)) THEN "send" ELSE "wait"
             T == [tail[c] EXCEPT !.pc = p, !.head = Len(log)]
  <2>1. tail' = [tail EXCEPT ![c] = T] /\ tail[c].pc # "none"
    BY <1>1, <1>7 DEF ReadHead, Reading, TailRecs
  <2>2. T.cursor = tail[c].cursor /\ T.from = tail[c].from /\ T.run = tail[c].run
    BY <1>1 DEF TailRecs
  <2> QED
    BY <1>5, <2>1, <2>2
<1>8. CASE ReadFails(c)
  <2> DEFINE T == [tail[c] EXCEPT !.pc = "internal"]
  <2>1. tail' = [tail EXCEPT ![c] = T] /\ tail[c].pc # "none"
    BY <1>1, <1>8 DEF ReadFails, Reading, TailRecs
  <2>2. T.cursor = tail[c].cursor /\ T.from = tail[c].from /\ T.run = tail[c].run
    BY <1>1 DEF TailRecs
  <2> QED
    BY <1>5, <2>1, <2>2
<1>9. CASE Changed(c)
  <2> DEFINE T == [tail[c] EXCEPT !.pc = "woken", !.seen = mark]
  <2>1. tail' = [tail EXCEPT ![c] = T] /\ tail[c].pc # "none"
    BY <1>1, <1>9 DEF Changed, TailRecs
  <2>2. T.cursor = tail[c].cursor /\ T.from = tail[c].from /\ T.run = tail[c].run
    BY <1>1 DEF TailRecs
  <2> QED
    BY <1>5, <2>1, <2>2
<1> QED
  BY <1>6, <1>7, <1>8, <1>9

\* The frame a follower sends is true: it starts from the cursor and every delta
\* has the run of its seq.
LEMMA FrameIsTrue ==
    ASSUME BaseInv, NEW c \in Clients, tail[c].pc = "send",
           client[c].target = "all" => tail[c].run = RunAt(tail[c].from)
    PROVE  DeltasTrue(client[c].target, NextFrame(c).deltas, tail[c].cursor, NextSeq(c))
<1> DEFINE S == SurfacedIn(client[c].target, tail[c].cursor, NextSeq(c))
           q == InOrder(S)
           d == [i \in 1 .. Len(q) |-> [seq |-> q[i], run |-> Stamp(c, q[i])]]
<1>1. NextSeq(c) \in Nat /\ NextFrame(c) = Frame(d, NextSeq(c))
  BY FrameIs
<1>2. /\ tail[c] \in TailRecs /\ tail[c].cursor \in Nat /\ tail[c].from \in Nat
      /\ tail[c].from <= tail[c].cursor /\ LogType /\ Len(log) \in Nat /\ NextSeq(c) <= Len(log)
  BY BaseTypes, FrameTyped DEF BaseInv, Bounds, Placed, TailRecs
<1>3. NextFrame(c).deltas = d
  BY <1>1 DEF Frame
<1>4. /\ S \in SUBSET Nat /\ IsFiniteSet(S) /\ \A s \in S : tail[c].cursor < s /\ s <= NextSeq(c)
  BY <1>1, <1>2, SurfacedOf
<1> HIDE DEF S
<1>5. Lists(q, S)
  BY <1>4, InOrderLists
<1> HIDE DEF q
<1>6. q \in Seq(S) /\ Len(q) \in Nat
  BY <1>5 DEF Lists
<1>7. Len(d) = Len(q) /\ \A i \in 1 .. Len(q) : d[i].seq = q[i] /\ d[i].run = Stamp(c, q[i])
  BY <1>6
<1> HIDE DEF d
<1>8. SeqsOf(d) = q
  <2>1. q = [i \in 1 .. Len(q) |-> q[i]]
    BY <1>6
  <2> QED
    BY <1>7, <2>1 DEF SeqsOf
<1>9. ASSUME client[c].target = "all", NEW i \in 1 .. Len(q) PROVE Stamp(c, q[i]) = RunAt(q[i])
  <2>1. q[i] \in S
    BY <1>6
  <2>2. q[i] \in Nat /\ tail[c].from <= q[i] /\ q[i] <= Len(log)
    <3>1. q[i] \in Nat /\ tail[c].cursor < q[i] /\ q[i] <= NextSeq(c)
      BY <1>4, <2>1
    <3> QED
      BY <1>1, <1>2, <3>1
  <2>3. RunAfter(RunAfter(NoRun, 0, tail[c].from), tail[c].from, q[i]) = RunAfter(NoRun, 0, q[i])
    BY <1>2, <2>2, RunCompose
  <2> QED
    BY <1>9, <2>3 DEF Stamp, RunAt
<1>10. Lists(SeqsOf(d), S) /\ (client[c].target = "all" => \A i \in 1 .. Len(d) : d[i].run = RunAt(d[i].seq))
  BY <1>5, <1>7, <1>8, <1>9
<1> QED
  BY <1>3, <1>10 DEF DeltasTrue, S

\* A frame or a status joins the channel.
LEMMA SendAdjoins ==
    ASSUME StreamInv, BaseInv', NEW c \in Clients, SendFrame(c) \/ SendStatus(c)
    PROVE  StreamInv'
<1> DEFINE t == tail[c]
           q == queue[c]
           k == client[c]
<1>1. /\ BaseInv
      /\ tail \in [Clients -> TailRecs] /\ queue \in [Clients -> Seq(FrameType)]
      /\ client \in [Clients -> ClientRecs] /\ got \in [Clients -> Seq(Deltas)]
      /\ t \in TailRecs /\ q \in Seq(FrameType) /\ Len(q) \in Nat /\ k \in ClientRecs
  BY BaseParts DEF StreamInv
<1>2. UNCHANGED <<log, client, got>> /\ k.state = "open" /\ t.pc # "none"
  BY DEF SendFrame, SendStatus, Listening, journalVars
<1>3. client' = [client EXCEPT ![c] = k] /\ got' = [got EXCEPT ![c] = got[c]]
  BY <1>1, <1>2
<1>4. Adjoin(t, q, k, got[c])
  BY DEF StreamInv
<1>5. /\ k.start <= k.since /\ DeltasTrue(k.target, got[c], k.start, k.since)
      /\ k.target = "all" => t.run = RunAt(t.from)
      /\ t.cursor = FrameFrom(k, q, Len(q) + 1)
      /\ \A i \in 1 .. Len(q) :
            /\ q[i].status = "ok" /\ FrameFrom(k, q, i) <= q[i].next_seq
            /\ DeltasTrue(k.target, q[i].deltas, FrameFrom(k, q, i), q[i].next_seq)
  BY <1>2, <1>4 DEF Adjoin
<1>6. ASSUME NEW f PROVE
        /\ Len(Append(q, f)) = Len(q) + 1
        /\ \A i \in 1 .. Len(q) : Append(q, f)[i] = q[i]
        /\ Append(q, f)[Len(q) + 1] = f
        /\ \A i \in 1 .. Len(q) + 1 : FrameFrom(k, Append(q, f), i) = FrameFrom(k, q, i)
        /\ FrameFrom(k, Append(q, f), Len(q) + 2) = f.next_seq
  <2>1. /\ Len(Append(q, f)) = Len(q) + 1
        /\ \A i \in 1 .. Len(q) : Append(q, f)[i] = q[i]
        /\ Append(q, f)[Len(q) + 1] = f
    BY <1>1
  <2>2. ASSUME NEW i \in 1 .. Len(q) + 1
        PROVE  FrameFrom(k, Append(q, f), i) = FrameFrom(k, q, i)
    <3>1. CASE i = 1
      BY <3>1 DEF FrameFrom
    <3>2. CASE i # 1
      <4>1. i - 1 \in 1 .. Len(q)
        BY <1>1, <3>2
      <4> QED
        BY <2>1, <3>2, <4>1 DEF FrameFrom
    <3> QED
      BY <3>1, <3>2
  <2>3. Len(q) + 2 # 1 /\ Len(q) + 2 - 1 = Len(q) + 1
    BY <1>1
  <2>4. FrameFrom(k, Append(q, f), Len(q) + 2) = f.next_seq
    BY <2>1, <2>3 DEF FrameFrom
  <2> QED
    BY <2>1, <2>2, <2>4
<1>7. ASSUME NEW T, NEW f, tail' = [tail EXCEPT ![c] = T], queue' = [queue EXCEPT ![c] = Append(q, f)],
             \/ f.status # "ok" /\ T.pc = "none"
             \/ /\ f.status = "ok" /\ t.cursor <= f.next_seq
                /\ DeltasTrue(k.target, f.deltas, t.cursor, f.next_seq)
                /\ T.cursor = f.next_seq
                /\ k.target = "all" => T.run = RunAt(T.from)
      PROVE  StreamInv'
  <2> DEFINE Q == Append(q, f)
  <2>1. Len(Q) = Len(q) + 1 /\ Len(Q) + 1 = Len(q) + 2
    BY <1>1, <1>6
  <2>2. ASSUME NEW i \in 1 .. Len(Q)
        PROVE  IF Q[i].status = "ok"
               THEN /\ FrameFrom(k, Q, i) <= Q[i].next_seq
                    /\ DeltasTrue(k.target, Q[i].deltas, FrameFrom(k, Q, i), Q[i].next_seq)
               ELSE i = Len(Q) /\ T.pc = "none"
    <3>1. i \in 1 .. Len(q) + 1 /\ (i \in 1 .. Len(q) \/ i = Len(q) + 1)
      BY <1>1, <2>1
    <3>2. FrameFrom(k, Q, i) = FrameFrom(k, q, i)
      BY <1>6, <3>1
    <3>3. CASE i \in 1 .. Len(q)
      <4>1. Q[i] = q[i]
        BY <1>6, <3>3
      <4> HIDE DEF Q
      <4> QED
        BY <1>5, <3>2, <3>3, <4>1
    <3>4. CASE i = Len(q) + 1
      <4>1. Q[i] = f /\ FrameFrom(k, Q, i) = t.cursor /\ i = Len(Q)
        BY <1>5, <1>6, <2>1, <3>2, <3>4
      <4> HIDE DEF Q
      <4> QED
        BY <1>7, <4>1
    <3> QED
      BY <3>1, <3>3, <3>4
  <2>3. FrameFrom(k, Q, Len(Q) + 1) = f.next_seq
    BY <1>6, <2>1
  <2>4. T.pc # "none" => T.cursor = f.next_seq /\ (k.target = "all" => T.run = RunAt(T.from))
    BY <1>7
  <2> HIDE DEF Q
  <2>5. Adjoin(T, Q, k, got[c])
    BY <1>5, <2>2, <2>3, <2>4 DEF Adjoin
  <2>6. queue' = [queue EXCEPT ![c] = Q] /\ tail' = [tail EXCEPT ![c] = T] /\ log' = log
    BY <1>2, <1>7 DEF Q
  <2> HIDE DEF t, q, k
  <2> QED
    BY <1>3, <2>5, <2>6, StreamMoves
<1>8. CASE SendStatus(c)
  <2> DEFINE f == Terminal(t.pc)
  <2>1. t.pc \in {"resource_exhausted", "internal"} /\ tail' = [tail EXCEPT ![c] = NoTail]
        /\ queue' = [queue EXCEPT ![c] = Append(q, f)]
    BY <1>8 DEF SendStatus
  <2>2. f.status # "ok" /\ NoTail.pc = "none"
    BY <2>1 DEF Terminal, NoTail
  <2> QED
    BY <1>7, <2>1, <2>2
<1>9. CASE SendFrame(c) /\ HasSlot(c)
  <2> DEFINE f == NextFrame(c)
             n == NextSeq(c)
             l == LastFrame(c)
             p == IF l THEN "wait" ELSE "send"
             x == IF l THEN n ELSE t.from
             r == IF l THEN Stamp(c, t.head) ELSE t.run
             T == [t EXCEPT !.cursor = n, !.pc = p, !.from = x, !.run = r]
  <2>1. t.pc = "send"
    BY <1>9 DEF SendFrame
  <2>2. tail' = [tail EXCEPT ![c] = T] /\ queue' = [queue EXCEPT ![c] = Append(q, f)]
    BY <1>1, <1>9 DEF SendFrame, TailRecs
  <2>3. T.cursor = n /\ T.from = x /\ T.run = r
    BY <1>1 DEF TailRecs
  <2>4. /\ f.status = "ok" /\ f.next_seq = n /\ n <= Len(log) /\ n \in Nat
        /\ t.cursor <= n /\ (l => n = t.head)
    BY <1>1, <2>1, FrameTyped, FrameIs
  <2>5. DeltasTrue(k.target, f.deltas, t.cursor, n)
    BY <1>1, <1>5, <2>1, FrameIsTrue
  <2>6. ASSUME k.target = "all" PROVE r = RunAt(x)
    <3>1. t.run = RunAt(t.from)
      BY <1>5, <2>6
    <3>2. CASE l
      <4>1. /\ t.from \in Nat /\ t.cursor \in Nat /\ t.from <= t.cursor /\ LogType
            /\ Len(log) \in Nat
        BY <1>1, BaseTypes DEF BaseInv, Bounds, Placed, TailRecs
      <4>2. t.from <= n
        BY <2>4, <4>1
      <4>3. RunAfter(RunAfter(NoRun, 0, t.from), t.from, n) = RunAfter(NoRun, 0, n)
        BY <2>4, <4>1, <4>2, RunCompose
      <4>4. Stamp(c, n) = RunAt(n)
        BY <2>6, <3>1, <4>3 DEF Stamp, RunAt
      <4> QED
        BY <2>4, <3>2, <4>4
    <3>3. CASE ~l
      BY <3>1, <3>3
    <3> QED
      BY <3>2, <3>3
  <2> HIDE DEF T, f, n, l, x, r, t, q, k
  <2> QED
    BY <1>7, <2>2, <2>3, <2>4, <2>5, <2>6
<1>10. CASE SendFrame(c) /\ ~HasSlot(c)
  <2> DEFINE T == [t EXCEPT !.pc = "resource_exhausted"]
  <2>1. tail' = [tail EXCEPT ![c] = T] /\ queue' = queue /\ T.cursor = t.cursor
        /\ T.from = t.from /\ T.run = t.run
    BY <1>1, <1>10 DEF SendFrame, TailRecs
  <2>2. queue' = [queue EXCEPT ![c] = q] /\ log' = log
    BY <1>1, <1>2, <2>1
  <2> HIDE DEF T
  <2>3. Adjoin(T, q, k, got[c])
    BY <1>2, <1>4, <2>1 DEF Adjoin
  <2> HIDE DEF t, q, k
  <2> QED
    BY <1>3, <2>1, <2>2, <2>3, StreamMoves
<1> QED
  BY <1>8, <1>9, <1>10

\* The client prints a frame, or it is told to leave, or it leaves.
LEMMA ClientAdjoins ==
    ASSUME StreamInv, BaseInv', NEW c \in Clients, Receive(c) \/ StreamEnds(c) \/ Drop(c)
    PROVE  StreamInv'
<1> DEFINE t == tail[c]
           q == queue[c]
           k == client[c]
           g == got[c]
<1>1. /\ BaseInv
      /\ tail \in [Clients -> TailRecs] /\ queue \in [Clients -> Seq(FrameType)]
      /\ client \in [Clients -> ClientRecs] /\ got \in [Clients -> Seq(Deltas)]
      /\ t \in TailRecs /\ q \in Seq(FrameType) /\ Len(q) \in Nat /\ k \in ClientRecs
      /\ g \in Seq(Deltas) /\ k.since \in Nat /\ k.start \in Nat
  <2>1. /\ BaseInv
        /\ tail \in [Clients -> TailRecs] /\ queue \in [Clients -> Seq(FrameType)]
        /\ client \in [Clients -> ClientRecs] /\ got \in [Clients -> Seq(Deltas)]
    BY BaseParts DEF StreamInv
  <2>2. k \in ClientRecs /\ t \in TailRecs /\ q \in Seq(FrameType) /\ g \in Seq(Deltas)
    BY <2>1
  <2> QED
    BY <2>1, <2>2 DEF ClientRecs
<1>2. UNCHANGED <<log, tail>> /\ k.state = "open" /\ tail' = [tail EXCEPT ![c] = t]
  BY <1>1 DEF Receive, StreamEnds, Drop, Listening, journalVars
<1>3. Adjoin(t, q, k, g)
  BY DEF StreamInv
<1>4. /\ k.start <= k.since /\ DeltasTrue(k.target, g, k.start, k.since)
      /\ (t.pc # "none" /\ k.target = "all") => t.run = RunAt(t.from)
      /\ t.pc # "none" => t.cursor = FrameFrom(k, q, Len(q) + 1)
      /\ \A i \in 1 .. Len(q) :
            IF q[i].status = "ok"
            THEN /\ FrameFrom(k, q, i) <= q[i].next_seq
                 /\ DeltasTrue(k.target, q[i].deltas, FrameFrom(k, q, i), q[i].next_seq)
            ELSE i = Len(q) /\ t.pc = "none"
  BY <1>2, <1>3 DEF Adjoin
<1>5. ASSUME NEW Q, NEW s, s # "open", client'[c].state = s,
             client' = [client EXCEPT ![c] = client'[c]], queue' = [queue EXCEPT ![c] = Q], got' = got,
             client'[c].start = k.start, client'[c].since = k.since, client'[c].target = k.target
      PROVE  StreamInv'
  <2>1. PICK K : K = client'[c]
    OBVIOUS
  <2>2. Adjoin(t, Q, K, g)
    BY <1>4, <1>5, <2>1 DEF Adjoin
  <2>3. got' = [got EXCEPT ![c] = g] /\ log' = log /\ client' = [client EXCEPT ![c] = K]
        /\ queue' = [queue EXCEPT ![c] = Q]
    BY <1>1, <1>2, <1>5, <2>1
  <2> HIDE DEF t, q, k, g
  <2> QED
    BY <1>2, <2>2, <2>3, StreamMoves
<1>6. CASE StreamEnds(c)
  <2>1. client' = [client EXCEPT ![c] = [k EXCEPT !.state = "stopped"]] /\ queue' = queue /\ got' = got
    BY <1>1, <1>6 DEF StreamEnds
  <2>2. /\ client'[c] = [k EXCEPT !.state = "stopped"] /\ client'[c].state = "stopped"
        /\ client'[c].start = k.start /\ client'[c].since = k.since /\ client'[c].target = k.target
    BY <1>1, <2>1 DEF ClientRecs
  <2>3. queue' = [queue EXCEPT ![c] = q] /\ client' = [client EXCEPT ![c] = client'[c]]
    BY <1>1, <2>1, <2>2
  <2> QED
    BY <1>5, <2>1, <2>2, <2>3
<1>7. CASE Drop(c)
  <2> DEFINE K == [k EXCEPT !.state = "idle", !.drops = @ + 1]
  <2>1. client' = [client EXCEPT ![c] = K] /\ queue' = [queue EXCEPT ![c] = <<>>] /\ got' = got
    BY <1>1, <1>7 DEF Drop
  <2>2. /\ client'[c] = K /\ client'[c].state = "idle"
        /\ client'[c].start = k.start /\ client'[c].since = k.since /\ client'[c].target = k.target
    BY <1>1, <2>1 DEF ClientRecs
  <2>3. client' = [client EXCEPT ![c] = client'[c]]
    BY <2>1, <2>2
  <2> QED
    BY <1>5, <2>1, <2>2, <2>3
<1>8. ASSUME Receive(c) PROVE StreamInv'
  <2> DEFINE f == q[1]
             Q == Tail(q)
  <2>1. q # <<>> /\ queue' = [queue EXCEPT ![c] = Q] /\ Head(q) = f
    BY <1>1, <1>8 DEF Receive
  <2>2. Len(q) >= 1 /\ 1 \in 1 .. Len(q)
    BY <1>1, <2>1
  <2>3. f \in FrameType /\ f.next_seq \in Nat /\ f.deltas \in Seq(Deltas)
    <3>1. f \in FrameType
      BY <1>1, <2>2
    <3> QED
      BY <3>1 DEF FrameType
  <2>4. Len(Q) = Len(q) - 1 /\ \A i \in 1 .. Len(q) - 1 : Q[i] = q[i + 1]
    BY <1>1, <2>1
  <2>5. CASE f.status # "ok"
    <3> DEFINE s == AfterStatus(f.status)
    <3>1. client' = [client EXCEPT ![c] = [k EXCEPT !.state = s]] /\ got' = got
      BY <1>1, <1>8, <2>1, <2>5 DEF Receive
    <3>2. /\ client'[c] = [k EXCEPT !.state = s] /\ client'[c].state = s
          /\ client'[c].start = k.start /\ client'[c].since = k.since /\ client'[c].target = k.target
      BY <1>1, <3>1 DEF ClientRecs
    <3>3. s # "open"
      BY DEF AfterStatus
    <3>4. client' = [client EXCEPT ![c] = client'[c]]
      BY <3>1, <3>2
    <3> HIDE DEF s, Q, f, t, q, k, g
    <3> QED
      BY <1>5, <2>1, <3>1, <3>2, <3>3, <3>4
  <2>6. CASE f.status = "ok"
    <3> DEFINE n == f.next_seq
               K == [k EXCEPT !.since = n]
               G == g \o f.deltas
    <3>1. client' = [client EXCEPT ![c] = K] /\ got' = [got EXCEPT ![c] = G]
      BY <1>1, <1>8, <2>1, <2>6 DEF Receive
    <3>2. K.start = k.start /\ K.since = n /\ K.target = k.target /\ K.state = "open"
      BY <1>1, <1>2 DEF ClientRecs
    <3>3. FrameFrom(k, q, 1) = k.since
      BY DEF FrameFrom
    <3>4. k.since <= n /\ DeltasTrue(k.target, f.deltas, k.since, n)
      BY <1>4, <2>2, <2>6, <3>3
    <3>5. n \in Nat /\ n <= Len(log) /\ LogType /\ Len(log) \in Nat
      BY <1>1, <2>2, <2>3, BaseTypes DEF BaseInv, Bounds
    <3>6. k.start <= n
      BY <1>1, <1>4, <3>4, <3>5
    <3>7. DeltasTrue(k.target, G, k.start, n)
      <4> HIDE DEF t, q, k, g, f, n
      <4> QED
        BY <1>1, <1>4, <2>3, <3>4, <3>5, DeltasJoin
    <3>8. ASSUME NEW i \in 1 .. Len(q) PROVE FrameFrom(K, Q, i) = FrameFrom(k, q, i + 1)
      <4>1. i + 1 # 1 /\ (i + 1) - 1 = i
        BY <1>1
      <4>2. CASE i = 1
        BY <3>2, <4>1, <4>2 DEF FrameFrom
      <4>3. CASE i # 1
        <5>1. i - 1 \in 1 .. Len(q) - 1 /\ (i - 1) + 1 = i
          BY <1>1, <4>3
        <5>2. Q[i - 1] = q[i]
          BY <2>4, <5>1
        <5> QED
          BY <4>1, <4>3, <5>2 DEF FrameFrom
      <4> QED
        BY <4>2, <4>3
    <3>9. ASSUME NEW i \in 1 .. Len(Q)
          PROVE  IF Q[i].status = "ok"
                 THEN /\ FrameFrom(K, Q, i) <= Q[i].next_seq
                      /\ DeltasTrue(K.target, Q[i].deltas, FrameFrom(K, Q, i), Q[i].next_seq)
                 ELSE i = Len(Q) /\ t.pc = "none"
      <4>1. i \in 1 .. Len(q) - 1 /\ i \in 1 .. Len(q) /\ i + 1 \in 1 .. Len(q)
            /\ (i + 1 = Len(q) => i = Len(Q))
        BY <1>1, <2>4
      <4>2. Q[i] = q[i + 1] /\ FrameFrom(K, Q, i) = FrameFrom(k, q, i + 1)
        BY <2>4, <3>8, <4>1
      <4> HIDE DEF Q, K, q, k, t
      <4> QED
        BY <1>4, <3>2, <4>1, <4>2
    <3>10. t.pc # "none" => t.cursor = FrameFrom(K, Q, Len(Q) + 1)
      <4>1. Len(Q) + 1 = Len(q) /\ Len(q) \in 1 .. Len(q)
        BY <1>1, <2>2, <2>4
      <4> QED
        BY <1>4, <3>8, <4>1
    <3> HIDE DEF K, G, Q, t, q, k, g, n
    <3>11. Adjoin(t, Q, K, G)
      BY <1>4, <3>2, <3>6, <3>7, <3>9, <3>10 DEF Adjoin
    <3>12. log' = log
      BY <1>2
    <3> QED
      BY <1>2, <2>1, <3>1, <3>11, <3>12, StreamMoves
  <2> QED
    BY <2>5, <2>6
<1> QED
  BY <1>6, <1>7, <1>8

\* Every step keeps the streams whole.
LEMMA StreamStep ==
    StreamInv /\ [Next]_vars => StreamInv'
<1> SUFFICES ASSUME StreamInv, [Next]_vars PROVE StreamInv'
  OBVIOUS
<1>1. BaseInv /\ BaseInv'
  BY BaseStep DEF StreamInv
<1>2. ASSUME UNCHANGED <<tail, queue, client, got>> PROVE StreamInv'
  <2>1. ASSUME NEW c \in Clients PROVE Adjoin(tail[c], queue[c], client[c], got[c])'
    <3>1. PICK T, Q, K, G : T = tail[c] /\ Q = queue[c] /\ K = client[c] /\ G = got[c]
      OBVIOUS
    <3>2. Fits(T, Q, K, G) /\ Adjoin(T, Q, K, G)
      BY <1>1, <3>1, BaseParts DEF StreamInv
    <3>3. Adjoin(T, Q, K, G)'
      BY <1>1, <3>2, AdjoinLater
    <3>4. T = tail'[c] /\ Q = queue'[c] /\ K = client'[c] /\ G = got'[c]
      BY <1>2, <3>1
    <3> QED
      BY <3>3, <3>4
  <2> QED
    BY <1>1, <2>1 DEF StreamInv
<1>3. CASE UNCHANGED vars
  BY <1>2, <1>3 DEF vars
<1>4. ASSUME NEW w \in Writers, Publish(w) \/ \E batch \in Batches : AppendBatch(w, batch)
      PROVE  StreamInv'
  BY <1>2, <1>4 DEF Publish, AppendBatch, streamVars
<1>5. ASSUME NEW c \in Clients, Open(c) \/ Follow(c) \/ ReadFails(c) \/ Consume(c) \/ Drop(c)
      PROVE  StreamInv'
  BY <1>1, <1>5, OpenAdjoins, QuietAdjoins, SendAdjoins, ClientAdjoins DEF Follow, Consume
<1>6. CASE FoldTask \/ FoldFails \/ FoldAborted \/ Shutdown
  <2>1. UNCHANGED <<tail, queue, client, got>>
    BY <1>6 DEF FoldTask, FoldStep, FoldSubscribes, FoldChanged, FoldFails, FoldAborted,
                Shutdown, streamVars
  <2> QED
    BY <1>2, <2>1
<1> QED
  BY <1>3, <1>4, <1>5, <1>6 DEF Next

\* What a client has printed is every surfaced entry between the cursor it started
\* from and the one it holds, once, in order and, on the global tail, under its
\* run, through coalesced wakeups, chunks, overflows, drops and resumes
\* (live_tail.rs emit_range, events.rs GlobalCursor, verbs/events.rs follow_live).
THEOREM EntriesAreDelivered == Spec => []Delivered
<1>1. Init => StreamInv
  <2> SUFFICES ASSUME Init PROVE StreamInv
    OBVIOUS
  <2>1. BaseInv
    BY BaseInit
  <2>2. ASSUME NEW c \in Clients PROVE Adjoin(tail[c], queue[c], client[c], got[c])
    <3>1. /\ tail[c].pc = "none" /\ got[c] = <<>> /\ client[c].start = client[c].since
          /\ client[c].state # "open"
      BY DEF Init, NoTail
    <3>2. client[c].since \in Nat
      BY <2>1, BaseTypes
    <3>3. client[c].since <= client[c].since
      BY <3>2
    <3>4. SurfacedIn(client[c].target, client[c].since, client[c].since) = {}
      BY <3>2 DEF SurfacedIn
    <3>5. SeqsOf(<<>>) = <<>> /\ Len(<<>>) = 0
      BY DEF SeqsOf
    <3>6. Lists(<<>>, {})
      BY DEF Lists
    <3>7. DeltasTrue(client[c].target, <<>>, client[c].since, client[c].since)
      BY <3>4, <3>5, <3>6 DEF DeltasTrue
    <3> QED
      BY <3>1, <3>3, <3>7 DEF Adjoin
  <2> QED
    BY <2>1, <2>2 DEF StreamInv
<1>2. StreamInv => Delivered
  <2> SUFFICES ASSUME StreamInv, NEW c \in Clients
               PROVE  /\ [i \in DOMAIN got[c] |-> got[c][i].seq] =
                            InOrder(SurfacedIn(client[c].target, client[c].start, client[c].since))
                      /\ client[c].target = "all" =>
                            \A i \in DOMAIN got[c] : got[c][i].run = RunAt(got[c][i].seq)
    BY DEF Delivered, ExactlyOnce, Attributed
  <2> DEFINE S == SurfacedIn(client[c].target, client[c].start, client[c].since)
  <2>1. DeltasTrue(client[c].target, got[c], client[c].start, client[c].since)
    BY DEF StreamInv, Adjoin
  <2>2. /\ LogType /\ client[c] \in ClientRecs /\ client[c].since <= Len(log)
        /\ got[c] \in Seq(Deltas)
    BY BaseParts DEF StreamInv, LogType, Fits
  <2>3. client[c].since \in Nat /\ client[c].start \in Nat
    BY <2>2 DEF ClientRecs
  <2>4. DOMAIN got[c] = 1 .. Len(got[c])
    BY <2>2
  <2>5. S \in SUBSET Nat /\ IsFiniteSet(S)
    BY <2>2, <2>3, SurfacedOf
  <2>6. Lists(SeqsOf(got[c]), S)
    BY <2>1 DEF DeltasTrue
  <2> HIDE DEF S
  <2>7. SeqsOf(got[c]) = InOrder(S)
    BY <2>5, <2>6, ListsIsInOrder
  <2>8. [i \in DOMAIN got[c] |-> got[c][i].seq] = SeqsOf(got[c])
    BY <2>4 DEF SeqsOf
  <2>9. client[c].target = "all" => \A i \in DOMAIN got[c] : got[c][i].run = RunAt(got[c][i].seq)
    BY <2>1, <2>4 DEF DeltasTrue
  <2> QED
    BY <2>7, <2>8, <2>9 DEF S
<1> QED
  BY <1>1, <1>2, StreamStep, PTL DEF Spec

=============================================================================
