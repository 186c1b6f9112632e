---------------------------- MODULE EngineProofs ----------------------------
(***************************************************************************)
(* What holds of the single-process engine for every workflow, failure     *)
(* policy, cadence and number of crashes: the projection it decides from   *)
(* is the replay of the journal, the journal accounts for every effect,    *)
(* the recovery path is never taken, and the engine implements the ledger  *)
(* of Mote fates (module MoteLedger).                                      *)
(*                                                                         *)
(* The fold of the log is a recursive function.  What the proofs need of   *)
(* it (that it can be taken up anywhere, and what one more entry makes of  *)
(* it) is shown by induction over the set of seqs reached, from the least  *)
(* element of a set of numbers.                                            *)
(***************************************************************************)
EXTENDS Engine, WellFoundedInduction, SequenceTheorems, FiniteSetTheorems, TLAPS

-----------------------------------------------------------------------------
(* Induction and the fold of a log *)

\* A set of numbers has a least one.
LEMMA LeastOf ==
    ASSUME NEW S \in SUBSET Nat, S # {}
    PROVE  \E x \in S : \A y \in S : x <= y
<1> DEFINE R == OpToRel(<, Nat)
<1>1. IsWellFoundedOn(R, Nat)
  BY NatLessThanWellFounded
<1>2. \A x, y \in Nat : y < x => <<y, x>> \in R
  BY DEF OpToRel
<1> HIDE DEF R
<1>3. PICK x \in S : \A y \in S : ~(<<y, x>> \in R)
  BY <1>1, WFMin
<1>4. ASSUME NEW y \in S PROVE x <= y
  <2>1. x \in Nat /\ y \in Nat /\ ~(y < x)
    BY <1>2, <1>3
  <2> QED
    BY <2>1
<1> QED
  BY <1>3, <1>4

\* Induction over an interval, with the set of the numbers that have been reached.
LEMMA Climb ==
    ASSUME NEW a \in Nat, NEW b \in Nat, NEW T, a \in T,
           \A k \in a .. b : k < b /\ k \in T => k + 1 \in T
    PROVE  \A k \in a .. b : k \in T
<1> DEFINE N == {k \in a .. b : k \notin T}
<1> SUFFICES ASSUME N # {} PROVE FALSE
  OBVIOUS
<1>1. N \in SUBSET Nat
  OBVIOUS
<1>2. PICK x \in N : \A y \in N : x <= y
  BY <1>1, LeastOf
<1>3. x \in Nat /\ a <= x /\ x <= b /\ x # a /\ x \notin T
  BY <1>2
<1>4. x - 1 \in a .. b /\ x - 1 < b /\ (x - 1) + 1 = x /\ ~(x <= x - 1)
  BY <1>3
<1>5. x - 1 \in T
  BY <1>2, <1>4
<1> QED
  BY <1>3, <1>4, <1>5

\* g folds log on top of st, from seq a to seq b.
FoldsTo(g, st, l, a, b) ==
    g = [n \in a .. b |-> IF n = a THEN st ELSE FoldEntry(g[n - 1], n, l[n])]

\* Such a function exists.
LEMMA FoldExists ==
    ASSUME NEW st, NEW l, NEW a \in Nat, NEW b \in Nat, a <= b
    PROVE  \E g : FoldsTo(g, st, l, a, b)
<1> DEFINE T == {k \in a .. b : \E g : FoldsTo(g, st, l, a, k)}
<1>1. a \in T
  <2> DEFINE g == [n \in a .. a |-> st]
  <2>1. \A n \in a .. a : n = a
    OBVIOUS
  <2>2. g = [n \in a .. a |-> IF n = a THEN st ELSE FoldEntry(g[n - 1], n, l[n])]
    BY <2>1
  <2>3. FoldsTo(g, st, l, a, a)
    BY <2>2 DEF FoldsTo
  <2> QED
    BY <2>3
<1>2. ASSUME NEW k \in a .. b, k < b, k \in T PROVE k + 1 \in T
  <2>1. PICK g : FoldsTo(g, st, l, a, k)
    BY <1>2
  <2>2. k \in Nat /\ k + 1 \in a .. b /\ k + 1 # a
    BY <1>2
  <2> DEFINE h == [n \in a .. k + 1 |-> IF n = k + 1 THEN FoldEntry(g[k], k + 1, l[k + 1]) ELSE g[n]]
  <2>3. ASSUME NEW n \in a .. k + 1
        PROVE  h[n] = IF n = a THEN st ELSE FoldEntry(h[n - 1], n, l[n])
    <3>0. n \in Nat
      OBVIOUS
    <3>1. CASE n = k + 1
      <4>1. n - 1 = k /\ k \in a .. k + 1 /\ k # k + 1 /\ n # a
        BY <2>2, <3>1
      <4>2. h[k] = g[k]
        BY <4>1
      <4> QED
        BY <3>1, <4>1, <4>2
    <3>2. CASE n # k + 1
      <4>1. n \in a .. k
        BY <2>2, <3>2
      <4>2. h[n] = g[n] /\ g[n] = IF n = a THEN st ELSE FoldEntry(g[n - 1], n, l[n])
        BY <2>1, <3>2, <4>1 DEF FoldsTo
      <4>3. n # a => h[n - 1] = g[n - 1]
        <5>1. n # a => n - 1 \in a .. k + 1 /\ n - 1 # k + 1
          BY <2>2, <4>1
        <5> QED
          BY <5>1
      <4> QED
        BY <4>2, <4>3
    <3> QED
      BY <3>1, <3>2
  <2>4. FoldsTo(h, st, l, a, k + 1)
    BY <2>3 DEF FoldsTo
  <2> HIDE DEF h
  <2> QED
    BY <2>2, <2>4
<1>3. \A k \in a .. b : k < b /\ k \in T => k + 1 \in T
  BY <1>2
<1> HIDE DEF T
<1>4. \A k \in a .. b : k \in T
  BY <1>1, <1>3, Climb
<1>5. b \in T
  BY <1>4
<1> QED
  BY <1>5 DEF T

\* FoldTail is the last value of one.
LEMMA FoldTailIs ==
    ASSUME NEW st, NEW l, NEW a \in Nat, Len(l) \in Nat, a <= Len(l)
    PROVE  \E g : FoldsTo(g, st, l, a, Len(l)) /\ FoldTail(st, l, a) = g[Len(l)]
<1> DEFINE b == Len(l)
           f == CHOOSE g : FoldsTo(g, st, l, a, b)
<1>1. FoldsTo(f, st, l, a, b)
  BY FoldExists
<1>2. FoldTail(st, l, a) = f[b]
  BY DEF FoldTail, FoldsTo
<1> QED
  BY <1>1, <1>2

\* l and q hold the same entries after seq k, up to seq e.
Alike(l, q, k, e) == \A n \in k + 1 .. e : l[n] = q[n]

\* Two folds that meet go on alike over the same entries.
LEMMA FoldsAgree ==
    ASSUME NEW g, NEW s, NEW l, NEW a \in Nat, NEW b \in Nat, FoldsTo(g, s, l, a, b),
           NEW h, NEW t, NEW q, NEW c \in Nat, NEW d \in Nat, FoldsTo(h, t, q, c, d),
           NEW k \in Nat, NEW e \in Nat, a <= k, c <= k, k <= e, e <= b, e <= d, g[k] = h[k],
           Alike(l, q, k, e)
    PROVE  g[e] = h[e]
<1> DEFINE T == {n \in k .. e : g[n] = h[n]}
<1>1. k \in T
  OBVIOUS
<1>2. ASSUME NEW n \in k .. e, n < e, n \in T PROVE n + 1 \in T
  <2>1. /\ n + 1 \in k .. e /\ n + 1 \in k + 1 .. e /\ n + 1 \in a .. b /\ n + 1 \in c .. d
        /\ n + 1 # a /\ n + 1 # c /\ (n + 1) - 1 = n
    BY <1>2
  <2>2. g[n + 1] = FoldEntry(g[n], n + 1, l[n + 1])
    BY <2>1 DEF FoldsTo
  <2>3. h[n + 1] = FoldEntry(h[n], n + 1, q[n + 1])
    BY <2>1 DEF FoldsTo
  <2> QED
    BY <1>2, <2>1, <2>2, <2>3 DEF Alike
<1>3. \A n \in k .. e : n < e /\ n \in T => n + 1 \in T
  BY <1>2
<1> HIDE DEF T
<1>4. \A n \in k .. e : n \in T
  BY <1>1, <1>3, Climb
<1>5. e \in k .. e
  OBVIOUS
<1> QED
  BY <1>4, <1>5 DEF T

-----------------------------------------------------------------------------
(* Entries and folded states *)

\* The states a fold can end in, and the entries the engine appends.
States == [motes : [Motes -> SUBSET Flags], valid : SUBSET Motes, last_seq : Nat]

Entries ==
    [kind : {"Proposed"}, mote : Motes]
    \cup [kind : {"Committed"}, mote : Motes, verdict : BOOLEAN]
    \cup [kind : {"EffectStaged"}, mote : Motes]
    \cup [kind : {"Failed"}, mote : Motes, reason : {"DeadLettered"}]
    \cup [kind : {"DigestSealed"}, through_seq : Nat, state_digest : States]

\* What the fold of one entry changes.
LEMMA FoldOne ==
    ASSUME NEW st \in States, NEW e \in Entries, NEW n \in Nat
    PROVE  LET r == FoldEntry(st, n, e)
           IN  /\ r \in States
               /\ e.kind = "DigestSealed" => r.motes = st.motes /\ r.valid = st.valid
               /\ e.kind # "DigestSealed" =>
                     /\ e.mote \in Motes
                     /\ \A m \in Motes :
                           r.motes[m] = IF m = e.mote THEN FoldMote(st.motes[m], e) ELSE st.motes[m]
<1> DEFINE r == FoldEntry(st, n, e)
<1>1. CASE e.kind = "DigestSealed"
  <2>1. r = [st EXCEPT !.last_seq = n]
    BY <1>1 DEF FoldEntry
  <2>2. r \in States /\ r.motes = st.motes /\ r.valid = st.valid
    BY <2>1 DEF States
  <2> QED
    BY <1>1, <2>2
<1>2. CASE e.kind # "DigestSealed"
  <2> DEFINE i == FoldMote(st.motes[e.mote], e)
             v == IF e.kind = "Committed" /\ e.verdict THEN st.valid \cup {e.mote} ELSE st.valid
             w == [st.motes EXCEPT ![e.mote] = i]
  <2>0. e.mote \in Motes /\ e.kind \in {"Proposed", "Committed", "EffectStaged", "Failed"}
        /\ (e.kind = "Failed" => e.reason = "DeadLettered")
    BY <1>2 DEF Entries
  <2>1. st.motes \in [Motes -> SUBSET Flags] /\ st.valid \in SUBSET Motes
    BY DEF States
  <2>2. i \in SUBSET Flags
    <3>1. st.motes[e.mote] \in SUBSET Flags
      BY <2>0, <2>1
    <3> QED
      BY <2>0, <3>1 DEF FoldMote, FoldProposed, FoldCommitted, FoldEffectStaged, FoldFailed, Flags
  <2>3. v \in SUBSET Motes
    BY <2>0, <2>1
  <2>4. r = [st EXCEPT !.motes = w, !.valid = v, !.last_seq = n]
    BY <1>2, <2>1 DEF FoldEntry, States
  <2> HIDE DEF i, v
  <2>5. w \in [Motes -> SUBSET Flags]
    BY <2>0, <2>1, <2>2
  <2>6. \A m \in Motes : w[m] = IF m = e.mote THEN i ELSE st.motes[m]
    BY <2>0, <2>1
  <2> HIDE DEF w
  <2>7. r \in States /\ r.motes = w
    BY <2>3, <2>4, <2>5 DEF States
  <2> QED
    BY <1>2, <2>0, <2>6, <2>7 DEF i
<1> QED
  BY <1>1, <1>2

\* The state before the first entry is one.
LEMMA EmptyIsState == EmptyState \in States
BY DEF EmptyState, States

\* A fold of entries ends in a state.
LEMMA FoldType ==
    ASSUME NEW st \in States, NEW l \in Seq(Entries), NEW a \in Nat, a <= Len(l)
    PROVE  FoldTail(st, l, a) \in States
<1> DEFINE b == Len(l)
<1>0. b \in Nat
  OBVIOUS
<1>1. PICK g : FoldsTo(g, st, l, a, b) /\ FoldTail(st, l, a) = g[b]
  BY FoldTailIs
<1> DEFINE T == {k \in a .. b : g[k] \in States}
<1>2. a \in T
  BY <1>1 DEF FoldsTo
<1>3. ASSUME NEW k \in a .. b, k < b, k \in T PROVE k + 1 \in T
  <2>1. k + 1 \in a .. b /\ k + 1 # a /\ (k + 1) - 1 = k /\ k + 1 \in 1 .. Len(l) /\ k + 1 \in Nat
    BY <1>3
  <2>2. g[k + 1] = FoldEntry(g[k], k + 1, l[k + 1])
    BY <1>1, <2>1 DEF FoldsTo
  <2>3. l[k + 1] \in Entries
    BY <2>1
  <2> QED
    BY <1>3, <2>1, <2>2, <2>3, FoldOne
<1>4. \A k \in a .. b : k < b /\ k \in T => k + 1 \in T
  BY <1>3
<1> HIDE DEF T
<1>5. \A k \in a .. b : k \in T
  BY <1>0, <1>2, <1>4, Climb
<1>6. b \in a .. b
  BY <1>0
<1> QED
  BY <1>1, <1>5, <1>6 DEF T

\* So does a replay.
LEMMA ReplayType ==
    ASSUME NEW l \in Seq(Entries)
    PROVE  Replay(l) \in States
BY FoldType, EmptyIsState DEF Replay

\* The replay of no entries.
LEMMA ReplayEmpty == Replay(<<>>) = EmptyState
<1>1. Len(<<>>) = 0 /\ Len(<<>>) \in Nat /\ 0 <= Len(<<>>)
  OBVIOUS
<1>2. PICK g : FoldsTo(g, EmptyState, <<>>, 0, Len(<<>>)) /\ FoldTail(EmptyState, <<>>, 0) = g[Len(<<>>)]
  BY <1>1, FoldTailIs
<1>3. g[0] = EmptyState
  BY <1>1, <1>2 DEF FoldsTo
<1> QED
  BY <1>1, <1>2, <1>3 DEF Replay

\* A replay may be taken up at any seq (fold_new, from_journal_with_checkpoint).
LEMMA ReplayResumes ==
    ASSUME NEW l \in Seq(Entries), NEW p \in Seq(Entries), Len(p) <= Len(l),
           \A n \in 1 .. Len(p) : p[n] = l[n]
    PROVE  FoldTail(Replay(p), l, Len(p)) = Replay(l)
<1>0. Len(l) \in Nat /\ Len(p) \in Nat
  OBVIOUS
<1>1. PICK f : FoldsTo(f, EmptyState, l, 0, Len(l)) /\ Replay(l) = f[Len(l)]
  BY <1>0, FoldTailIs DEF Replay
<1>2. PICK g : FoldsTo(g, EmptyState, p, 0, Len(p)) /\ Replay(p) = g[Len(p)]
  BY <1>0, FoldTailIs DEF Replay
<1>3. PICK h : FoldsTo(h, Replay(p), l, Len(p), Len(l)) /\ FoldTail(Replay(p), l, Len(p)) = h[Len(l)]
  BY <1>0, FoldTailIs
<1>4. f[0] = EmptyState /\ g[0] = EmptyState
  BY <1>0, <1>1, <1>2 DEF FoldsTo
<1>5. f[Len(p)] = g[Len(p)]
  <2>1. PICK z \in Nat : z = 0
    OBVIOUS
  <2>2. Alike(l, p, z, Len(p))
    BY <2>1 DEF Alike
  <2>3. FoldsTo(f, EmptyState, l, z, Len(l)) /\ FoldsTo(g, EmptyState, p, z, Len(p)) /\ f[z] = g[z]
    BY <1>1, <1>2, <1>4, <2>1
  <2>4. z <= z /\ z <= Len(p) /\ Len(p) <= Len(p)
    BY <1>0, <2>1
  <2> QED
    BY <1>0, <2>2, <2>3, <2>4, FoldsAgree
<1>6. h[Len(p)] = Replay(p)
  BY <1>0, <1>3 DEF FoldsTo
<1>7. h[Len(l)] = f[Len(l)]
  <2>1. h[Len(p)] = f[Len(p)]
    BY <1>2, <1>5, <1>6
  <2>2. FoldsTo(h, Replay(p), l, Len(p), Len(l)) /\ FoldsTo(f, EmptyState, l, 0, Len(l))
    BY <1>1, <1>3
  <2>3. Alike(l, l, Len(p), Len(l))
    BY DEF Alike
  <2> QED
    BY <1>0, <2>1, <2>2, <2>3, FoldsAgree
<1> QED
  BY <1>1, <1>3, <1>7

\* One more entry.
LEMMA ReplayAppend ==
    ASSUME NEW l \in Seq(Entries), NEW e \in Entries
    PROVE  /\ Append(l, e) \in Seq(Entries)
           /\ Replay(Append(l, e)) = FoldEntry(Replay(l), Len(l) + 1, e)
           /\ FoldTail(Replay(l), Append(l, e), Len(l)) = Replay(Append(l, e))
<1> DEFINE q == Append(l, e)
           k == Len(l)
<1>1. /\ q \in Seq(Entries) /\ k \in Nat /\ Len(q) = k + 1 /\ q[k + 1] = e
      /\ \A n \in 1 .. k : l[n] = q[n]
  BY AppendProperties
<1> HIDE DEF q
<1>2. FoldTail(Replay(l), q, k) = Replay(q)
  BY <1>1, ReplayResumes
<1>3. PICK h : FoldsTo(h, Replay(l), q, k, k + 1) /\ FoldTail(Replay(l), q, k) = h[k + 1]
  BY <1>1, FoldTailIs
<1>4. h[k] = Replay(l) /\ h[k + 1] = FoldEntry(h[k], k + 1, q[k + 1])
  <2>1. k \in k .. k + 1 /\ k + 1 \in k .. k + 1 /\ k + 1 # k /\ (k + 1) - 1 = k
    BY <1>1
  <2> QED
    BY <1>3, <2>1 DEF FoldsTo
<1>5. q \in Seq(Entries) /\ Replay(q) = FoldEntry(Replay(l), k + 1, e) /\ FoldTail(Replay(l), q, k) = Replay(q)
  BY <1>1, <1>2, <1>3, <1>4
<1> QED
  BY <1>5 DEF q

-----------------------------------------------------------------------------
(* The state, and what a step appends *)

\* What the sidecar can hold.
Checkpoints == [journal_offset : Nat, state : States]

\* Where the process is, and its counters.
Control ==
    /\ phase \in Phases
    /\ cur \in Motes \cup {NoMote}
    /\ cur # NoMote <=> phase \in Dispatching \cup {"failed"}
    /\ error # "none" <=> phase = "failed"
    /\ attempts \in [Motes -> Nat]
    /\ fired \in [Motes -> 0 .. 2]
    /\ starts \in 0 .. MaxStarts /\ replaced \in 0 .. MaxReplaced
    /\ max_attempts \in Policies

\* The journal, the sidecar and the state folded from the journal.
Stored ==
    /\ log \in Seq(Entries)
    /\ sidecar = {} \/ \E cp \in Checkpoints : sidecar = {cp}
    /\ projection \in States
    /\ folded_through \in Nat /\ folded_through <= Len(log)
    /\ last_checkpoint_at \in Nat /\ last_checkpoint_at <= folded_through
    /\ phase = "down" => folded_through = 0 /\ last_checkpoint_at = 0

\* The state, but for the budget of attempts.
Types == Control /\ Stored

\* The log is as long as an old one or longer, and begins with it.
Extends(new, old) ==
    /\ new \in Seq(Entries) /\ Len(new) \in Nat /\ Len(old) <= Len(new)
    /\ \A i \in 1 .. Len(old) : new[i] = old[i]

\* An append adds one entry, or the entry is there already.
LEMMA Appends ==
    ASSUME NEW l \in Seq(Entries), NEW e \in Entries, NEW q, q = JournalAppend(l, e)
    PROVE  /\ Extends(q, l)
           /\ \/ q = l /\ e.kind \in DedupedKinds /\ Present(l, e)
              \/ /\ q = Append(l, e) /\ Len(q) = Len(l) + 1 /\ q[Len(l) + 1] = e
                 /\ Replay(q) = FoldEntry(Replay(l), Len(l) + 1, e)
<1>0. Len(l) \in Nat
  OBVIOUS
<1>1. CASE e.kind \in DedupedKinds /\ Present(l, e)
  <2>1. q = l
    BY <1>1 DEF JournalAppend
  <2> QED
    BY <1>0, <1>1, <2>1 DEF Extends
<1>2. CASE ~(e.kind \in DedupedKinds /\ Present(l, e))
  <2>1. q = Append(l, e)
    BY <1>2 DEF JournalAppend
  <2>2. /\ Append(l, e) \in Seq(Entries) /\ Len(Append(l, e)) = Len(l) + 1
        /\ \A i \in 1 .. Len(l) : Append(l, e)[i] = l[i]
        /\ Append(l, e)[Len(l) + 1] = e
    BY AppendProperties
  <2>3. Extends(q, l)
    BY <1>0, <2>1, <2>2 DEF Extends
  <2>4. Replay(q) = FoldEntry(Replay(l), Len(l) + 1, e)
    BY <2>1, ReplayAppend
  <2> QED
    BY <2>1, <2>2, <2>3, <2>4
<1> QED
  BY <1>1, <1>2

\* What the engine appends are entries.
LEMMA EntryTypes ==
    /\ \A m \in Motes : /\ Proposed(m) \in Entries /\ EffectStaged(m) \in Entries
                        /\ \A r : Failed(m, reason_for(r)) \in Entries
    /\ \A m \in Motes, v \in BOOLEAN : Committed(m, v) \in Entries
    /\ \A n \in Nat, st \in States : DigestSealed(n, st) \in Entries
<1>1. \A m \in Motes : Proposed(m) \in Entries /\ EffectStaged(m) \in Entries
  BY DEF Entries, Proposed, EffectStaged
<1>2. \A m \in Motes : \A r : Failed(m, reason_for(r)) \in Entries
  BY DEF Entries, Failed, reason_for
<1>3. \A m \in Motes, v \in BOOLEAN : Committed(m, v) \in Entries
  BY DEF Entries, Committed
<1>4. \A n \in Nat, st \in States : DigestSealed(n, st) \in Entries
  BY DEF Entries, DigestSealed
<1> QED
  BY <1>1, <1>2, <1>3, <1>4

\* The prefix of a longer log.
LEMMA PrefixKept ==
    ASSUME NEW l \in Seq(Entries), NEW q, Extends(q, l), NEW k \in Nat, k <= Len(l)
    PROVE  /\ SubSeq(q, 1, k) = SubSeq(l, 1, k)
           /\ SubSeq(l, 1, k) \in Seq(Entries) /\ Len(SubSeq(l, 1, k)) = k
           /\ \A i \in 1 .. k : SubSeq(l, 1, k)[i] = l[i]
<1>0. Len(l) \in Nat /\ Len(q) \in Nat /\ q \in Seq(Entries) /\ k <= Len(q)
      /\ \A i \in 1 .. Len(l) : q[i] = l[i]
  BY DEF Extends
<1>1. SubSeq(l, 1, k) = [i \in 1 .. k |-> l[i]] /\ SubSeq(q, 1, k) = [i \in 1 .. k |-> q[i]]
  BY <1>0
<1>2. \A i \in 1 .. k : q[i] = l[i] /\ l[i] \in Entries
  BY <1>0
<1>3. [i \in 1 .. k |-> l[i]] \in Seq(Entries) /\ Len([i \in 1 .. k |-> l[i]]) = k
  BY <1>2
<1> QED
  BY <1>1, <1>2, <1>3

\* A state folded from a prefix is brought up to date by folding the rest.
LEMMA CatchUp ==
    ASSUME NEW l \in Seq(Entries), NEW k \in Nat, k <= Len(l)
    PROVE  FoldTail(Replay(SubSeq(l, 1, k)), l, k) = Replay(l)
<1> DEFINE p == SubSeq(l, 1, k)
<1>1. Extends(l, l)
  BY DEF Extends
<1>2. p \in Seq(Entries) /\ Len(p) = k /\ \A i \in 1 .. k : p[i] = l[i]
  BY <1>1, PrefixKept
<1> HIDE DEF p
<1>3. FoldTail(Replay(p), l, Len(p)) = Replay(l)
  BY <1>2, ReplayResumes
<1> QED
  BY <1>2, <1>3 DEF p

\* The whole log is a prefix of itself.
LEMMA WholePrefix ==
    ASSUME NEW l \in Seq(Entries)
    PROVE  SubSeq(l, 1, Len(l)) = l
<1>1. SubSeq(l, 1, Len(l)) = [i \in 1 .. Len(l) |-> l[i]]
  OBVIOUS
<1>2. l = [i \in 1 .. Len(l) |-> l[i]]
  OBVIOUS
<1> QED
  BY <1>1, <1>2

-----------------------------------------------------------------------------
(* The projection is the replay of the journal *)

\* A seal in the journal holds the state it was made from.
SealsTrue ==
    \A i \in 1 .. Len(log) : log[i].kind = "DigestSealed" =>
        /\ log[i].through_seq <= Len(log)
        /\ log[i].state_digest = Replay(SubSeq(log, 1, log[i].through_seq))

\* The invariant behind the first theorem.
ReplayInv == Types /\ SealsTrue /\ ProjectionIsReplay

\* A seal is of a number of entries.
LEMMA SealType ==
    ASSUME NEW e \in Entries, e.kind = "DigestSealed"
    PROVE  e.through_seq \in Nat /\ e.state_digest \in States
BY DEF Entries

\* What a process starts from, whatever sidecar lies beside the journal.
LEMMA RecoveryIsReplay ==
    ASSUME Stored, SealsTrue
    PROVE  RecoveredState(log, sidecar) = Replay(log)
<1> DEFINE usable == {cp \in sidecar : SeedUsable(log, cp)}
           cp == CHOOSE c \in usable : TRUE
<1>0. log \in Seq(Entries) /\ Len(log) \in Nat
  BY DEF Stored
<1>1. CASE usable = {}
  BY <1>1 DEF RecoveredState
<1>2. CASE usable # {}
  <2> DEFINE k == cp.journal_offset
  <2>1. cp \in usable
    BY <1>2
  <2>2. RecoveredState(log, sidecar) = FoldTail(cp.state, log, k)
    BY <1>2 DEF RecoveredState
  <2> HIDE DEF cp
  <2>3. cp \in sidecar /\ SeedUsable(log, cp)
    BY <2>1
  <2>4. k \in Nat
    BY <2>3 DEF Stored, Checkpoints
  <2> HIDE DEF k
  <2>5. /\ k <= Len(log) /\ k + 1 <= Len(log) /\ log[k + 1].kind = "DigestSealed"
        /\ log[k + 1].through_seq = k /\ log[k + 1].state_digest = cp.state
    BY <2>3 DEF SeedUsable, SealedAt, k
  <2>6. k + 1 \in 1 .. Len(log)
    BY <1>0, <2>4, <2>5
  <2>7. cp.state = Replay(SubSeq(log, 1, k))
    BY <2>5, <2>6 DEF SealsTrue
  <2> QED
    BY <1>0, <2>2, <2>4, <2>5, <2>7, CatchUp
<1> QED
  BY <1>1, <1>2

\* The counters that steps move.
LEMMA Counters ==
    /\ \A n \in Nat : n + 1 \in Nat
    /\ \A n \in 0 .. MaxStarts : n < MaxStarts => n + 1 \in 0 .. MaxStarts
    /\ \A n \in 0 .. MaxReplaced : n < MaxReplaced => n + 1 \in 0 .. MaxReplaced
    /\ \A n \in 0 .. 2 : (IF n < 2 THEN n + 1 ELSE n) \in 0 .. 2
    /\ [m \in Motes |-> 0] \in [Motes -> Nat] /\ [m \in Motes |-> 0] \in [Motes -> 0 .. 2]
BY EngineAssumption DEF EngineAssumption

\* Every Mote of the submission order is one.
LEMMA OrderType == \A i \in 1 .. Len(Order) : Order[i] \in Motes /\ Order[i] # NoMote
<1>1. Order \in Seq(Motes) /\ NoMote \notin Motes
  BY GraphAssumption, EngineAssumption DEF GraphAssumption, EngineAssumption
<1>2. ASSUME NEW i \in 1 .. Len(Order) PROVE Order[i] \in Motes
  BY <1>1
<1> QED
  BY <1>1, <1>2

\* Every action keeps the control state.
LEMMA ControlStep ==
    ASSUME Control, Next
    PROVE  Control'
<1> USE DEF Control, Phases, Dispatching, Goto
<1>1. CASE Start
  <2>1. /\ phase' = "top" /\ starts' = starts + 1 /\ starts < MaxStarts /\ phase \in {"down", "ended"}
        /\ attempts' = [m \in Motes |-> 0]
        /\ UNCHANGED <<cur, error, max_attempts, fired, replaced>>
    BY <1>1 DEF Start
  <2>2. starts' \in 0 .. MaxStarts /\ attempts' \in [Motes -> Nat]
    BY <2>1, Counters
  <2> QED
    BY <2>1, <2>2
<1>2. ASSUME NEW i \in 1 .. Len(Order), PickNext(i) PROVE Control'
  <2>1. Order[i] \in Motes /\ Order[i] # NoMote
    BY OrderType
  <2> QED
    BY <1>2, <2>1 DEF PickNext, memory, bounds
<1>3. CASE LoopEnds
  BY <1>3 DEF LoopEnds, memory, bounds
<1>4. CASE Propose \/ Stage
  BY <1>4 DEF Propose, Stage, memory, bounds
<1>5. ASSUME Fires, cur \in Motes PROVE fired' \in [Motes -> 0 .. 2]
  <2> DEFINE n == IF fired[cur] < 2 THEN fired[cur] + 1 ELSE fired[cur]
  <2>1. fired \in [Motes -> 0 .. 2] /\ fired' = [fired EXCEPT ![cur] = n]
    BY <1>5 DEF Fires
  <2>2. fired[cur] \in 0 .. 2
    BY <1>5, <2>1
  <2>3. n \in 0 .. 2
    BY <2>2, Counters
  <2> HIDE DEF n
  <2> QED
    BY <2>1, <2>3
<1>6. CASE Dispatch
  BY <1>5, <1>6 DEF Dispatch, AtDispatch, memory, bounds
<1>7. ASSUME NEW v \in BOOLEAN, Commit(v) PROVE Control'
  <2>1. UNCHANGED <<error, attempts, fired, max_attempts, starts, replaced>>
    BY <1>7 DEF Commit, memory, bounds
  <2>2. error = "none" /\ cur # NoMote /\ cur \in Motes
    BY <1>7 DEF Commit
  <2>3. \/ phase' = "bottom" /\ cur' = NoMote
        \/ phase' = "critic" /\ cur' = cur
    BY <1>7 DEF Commit
  <2> QED
    BY <2>1, <2>2, <2>3
<1>8. CASE ScheduleCritic
  BY <1>8 DEF ScheduleCritic, memory, bounds
<1>9. ASSUME NEW c \in {"transient", "terminal"}, DispatchFails(c) PROVE Control'
  BY <1>5, <1>9 DEF DispatchFails, AtDispatch, memory, bounds
<1>10. CASE RunAborts
  BY <1>10 DEF RunAborts, memory, bounds
<1>11. CASE HandleFailure
  <2>1. UNCHANGED <<fired, max_attempts, starts, replaced>> /\ phase' = "top" /\ cur' = NoMote /\ error' = "none"
        /\ cur \in Motes
    BY <1>11 DEF HandleFailure, bounds
  <2>2. attempts[cur] \in Nat /\ attempts \in [Motes -> Nat]
    BY <2>1
  <2>3. \/ attempts' = attempts
        \/ attempts' = [attempts EXCEPT ![cur] = attempts[cur] + 1]
        \/ attempts' = [attempts EXCEPT ![cur] = attempts[cur]]
    BY <1>11 DEF HandleFailure, FailureHandled, NextAttempt
  <2>4. attempts' \in [Motes -> Nat]
    <3>1. attempts[cur] + 1 \in Nat
      BY <2>2, Counters
    <3> QED
      BY <2>2, <2>3, <3>1
  <2> QED
    BY <2>1, <2>4
<1>12. CASE Bottom
  BY <1>12 DEF Bottom, bounds
<1>13. CASE WriteSidecar \/ Seal
  BY <1>13 DEF WriteSidecar, Seal, AfterCheckpoint, memory, bounds
<1>14. CASE Crash
  BY <1>14 DEF Crash, bounds
<1>15. CASE LoseSidecar
  BY <1>15 DEF LoseSidecar, memory, bounds
<1>16. CASE ReplaceJournal
  BY <1>16, Counters DEF ReplaceJournal, memory
<1> QED
  BY <1>1, <1>2, <1>3, <1>4, <1>6, <1>7, <1>8, <1>9, <1>10, <1>11, <1>12, <1>13, <1>14, <1>15, <1>16
     DEF Next, Step

\* A seal that tells the truth about the log, or a hint of an effect that has one.
Honest(e, l) ==
    /\ e.kind = "DigestSealed" =>
          e.through_seq <= Len(l) /\ e.state_digest = Replay(SubSeq(l, 1, e.through_seq))
    /\ e.kind = "EffectStaged" => Class[e.mote] = "Staged"

\* The fold_new of the loop catches up with the journal.
LEMMA FoldNew ==
    ASSUME Stored, ProjectionIsReplay, phase # "down"
    PROVE  FoldTail(projection, log, folded_through) = Replay(log)
<1>1. projection = Replay(SubSeq(log, 1, folded_through))
  BY DEF ProjectionIsReplay
<1>2. log \in Seq(Entries) /\ folded_through \in Nat /\ folded_through <= Len(log)
  BY DEF Stored
<1> QED
  BY <1>1, <1>2, CatchUp

\* What handle_failure does.
LEMMA Handled ==
    ASSUME ReplayInv, HandleFailure
    PROVE  /\ projection' = Replay(log') /\ folded_through' = Len(log')
           /\ last_checkpoint_at' = last_checkpoint_at /\ sidecar' = sidecar
           /\ phase' = "top" /\ phase = "failed" /\ cur \in Motes /\ fired' = fired
           /\ \/ log' = log
              \/ /\ ~is_terminal(StateOf(Replay(log).motes[cur]))
                 /\ log' = JournalAppend(log, Failed(cur, reason_for(error)))
<1>1. phase = "failed" /\ phase # "down" /\ Stored /\ Control /\ ProjectionIsReplay
  BY DEF HandleFailure, ReplayInv, Types
<1>2. FoldTail(projection, log, folded_through) = Replay(log)
  BY <1>1, FoldNew
<1>3. /\ FailureHandled(Replay(log)) /\ folded_through' = Len(log') /\ phase' = "top"
      /\ last_checkpoint_at' = last_checkpoint_at /\ sidecar' = sidecar /\ fired' = fired
  BY <1>2 DEF HandleFailure, Goto
<1>4. cur \in Motes
  BY <1>1 DEF Control
<1>5. \/ log' = log /\ projection' = Replay(log)
      \/ /\ ~is_terminal(StateOf(Replay(log).motes[cur]))
         /\ log' = JournalAppend(log, Failed(cur, reason_for(error)))
         /\ projection' = FoldTail(Replay(log), log', Len(log))
  BY <1>3 DEF FailureHandled, AppendEntry
<1>6. CASE log' = log /\ projection' = Replay(log)
  BY <1>1, <1>3, <1>4, <1>6
<1>7. CASE /\ ~is_terminal(StateOf(Replay(log).motes[cur]))
           /\ log' = JournalAppend(log, Failed(cur, reason_for(error)))
           /\ projection' = FoldTail(Replay(log), log', Len(log))
  <2>1. log \in Seq(Entries) /\ Failed(cur, reason_for(error)) \in Entries
    BY <1>1, <1>4, EntryTypes DEF Stored
  <2>2. log' = Append(log, Failed(cur, reason_for(error)))
    BY <1>7 DEF JournalAppend, Failed, DedupedKinds
  <2>3. projection' = Replay(log')
    BY <1>7, <2>1, <2>2, ReplayAppend
  <2> QED
    BY <1>1, <1>3, <1>4, <1>7, <2>3
<1> QED
  BY <1>5, <1>6, <1>7

\* A step leaves the journal alone, appends an entry to it, or replaces it.
LEMMA Logged ==
    ASSUME ReplayInv, Next
    PROVE  \/ log' = log
           \/ \E e \in Entries : log' = JournalAppend(log, e) /\ Honest(e, log)
           \/ ReplaceJournal
<1> DEFINE Goal == \/ log' = log
                   \/ \E e \in Entries : log' = JournalAppend(log, e) /\ Honest(e, log)
                   \/ ReplaceJournal
<1>0. Stored /\ Control /\ ProjectionIsReplay
  BY DEF ReplayInv, Types
<1>1. ASSUME Start \/ LoopEnds \/ Dispatch \/ RunAborts \/ Bottom \/ WriteSidecar \/ Crash \/ LoseSidecar
      PROVE  log' = log
  BY <1>1 DEF Start, LoopEnds, Dispatch, RunAborts, Bottom, WriteSidecar, Crash, LoseSidecar, durable
<1>2. ASSUME NEW i \in 1 .. Len(Order), PickNext(i) PROVE log' = log
  BY <1>2 DEF PickNext, durable
<1>3. ASSUME NEW c \in {"transient", "terminal"}, DispatchFails(c) PROVE log' = log
  BY <1>3 DEF DispatchFails, durable
<1>4. ASSUME Propose PROVE Goal
  <2>1. cur \in Motes /\ log' = JournalAppend(log, Proposed(cur))
    BY <1>0, <1>4 DEF Propose, AppendEntry, Control, Dispatching
  <2>2. Proposed(cur) \in Entries /\ Honest(Proposed(cur), log)
    BY <2>1, EntryTypes DEF Honest, Proposed
  <2> QED
    BY <2>1, <2>2
<1>5. ASSUME Stage PROVE Goal
  <2>1. cur \in Motes /\ Class[cur] = "Staged" /\ log' = JournalAppend(log, EffectStaged(cur))
    BY <1>0, <1>5 DEF Stage, AppendEntry, Control, Dispatching
  <2>2. EffectStaged(cur) \in Entries /\ Honest(EffectStaged(cur), log)
    BY <2>1, EntryTypes DEF Honest, EffectStaged
  <2> QED
    BY <2>1, <2>2
<1>6. ASSUME NEW v \in BOOLEAN, Commit(v) PROVE Goal
  <2>1. cur \in Motes /\ log' = JournalAppend(log, Committed(cur, v))
    BY <1>0, <1>6 DEF Commit, AppendEntry, Control, Dispatching
  <2>2. Committed(cur, v) \in Entries /\ Honest(Committed(cur, v), log)
    BY <2>1, EntryTypes DEF Honest, Committed
  <2> QED
    BY <2>1, <2>2
<1>7. ASSUME ScheduleCritic PROVE Goal
  <2>1. PICK c \in SiblingCritics(cur) : log' = JournalAppend(log, Proposed(c))
    BY <1>7 DEF ScheduleCritic, AppendEntry
  <2>2. c \in Motes
    BY DEF SiblingCritics
  <2>3. Proposed(c) \in Entries /\ Honest(Proposed(c), log)
    BY <2>2, EntryTypes DEF Honest, Proposed
  <2> QED
    BY <2>1, <2>3
<1>8. ASSUME HandleFailure PROVE Goal
  <2>1. cur \in Motes /\ (log' = log \/ log' = JournalAppend(log, Failed(cur, reason_for(error))))
    BY <1>8, Handled
  <2>2. Failed(cur, reason_for(error)) \in Entries /\ Honest(Failed(cur, reason_for(error)), log)
    BY <2>1, EntryTypes DEF Honest, Failed
  <2> QED
    BY <2>1, <2>2
<1>9. ASSUME Seal PROVE Goal
  <2> DEFINE e == DigestSealed(folded_through, projection)
  <2>1. phase # "down" /\ (log' = log \/ log' = JournalAppend(log, e))
    BY <1>9 DEF Seal, AppendEntry
  <2>2. folded_through \in Nat /\ projection \in States /\ folded_through <= Len(log)
    BY <1>0 DEF Stored
  <2>3. projection = Replay(SubSeq(log, 1, folded_through))
    BY <1>0, <2>1 DEF ProjectionIsReplay
  <2>4. e \in Entries /\ Honest(e, log)
    BY <2>2, <2>3, EntryTypes DEF Honest, DigestSealed
  <2> QED
    BY <2>1, <2>4
<1> QED
  BY <1>1, <1>2, <1>3, <1>4, <1>5, <1>6, <1>7, <1>8, <1>9 DEF Next, Step

\* True seals stay true.
LEMMA SealsStep ==
    ASSUME ReplayInv, Next
    PROVE  SealsTrue' /\ log' \in Seq(Entries)
<1>0. log \in Seq(Entries) /\ Len(log) \in Nat /\ SealsTrue
  BY DEF ReplayInv, Types, Stored
<1>1. CASE log' = log
  BY <1>0, <1>1 DEF SealsTrue
<1>2. ASSUME NEW e \in Entries, log' = JournalAppend(log, e), Honest(e, log)
      PROVE  SealsTrue' /\ log' \in Seq(Entries)
  <2>1. /\ Extends(log', log)
        /\ log' = log \/ (Len(log') = Len(log) + 1 /\ log'[Len(log) + 1] = e)
    BY <1>0, <1>2, Appends
  <2>2. /\ log' \in Seq(Entries) /\ Len(log') \in Nat /\ Len(log) <= Len(log')
        /\ \A i \in 1 .. Len(log) : log'[i] = log[i]
    BY <2>1 DEF Extends
  <2>3. ASSUME NEW i \in 1 .. Len(log'), log'[i].kind = "DigestSealed"
        PROVE  /\ log'[i].through_seq <= Len(log)
               /\ log'[i].state_digest = Replay(SubSeq(log, 1, log'[i].through_seq))
    <3>1. CASE i \in 1 .. Len(log)
      BY <1>0, <2>2, <2>3, <3>1 DEF SealsTrue
    <3>2. CASE i \notin 1 .. Len(log)
      <4>1. i = Len(log) + 1 /\ log' # log
        BY <1>0, <2>1, <2>2, <3>2
      <4> QED
        BY <1>2, <2>1, <2>3, <4>1 DEF Honest
    <3> QED
      BY <3>1, <3>2
  <2>4. ASSUME NEW i \in 1 .. Len(log'), log'[i].kind = "DigestSealed"
        PROVE  /\ log'[i].through_seq <= Len(log')
               /\ log'[i].state_digest = Replay(SubSeq(log', 1, log'[i].through_seq))
    <3> DEFINE k == log'[i].through_seq
    <3>1. k \in Nat
      <4>1. log'[i] \in Entries
        BY <2>2
      <4> QED
        BY <2>4, <4>1, SealType
    <3>2. k <= Len(log) /\ log'[i].state_digest = Replay(SubSeq(log, 1, k))
      BY <2>3, <2>4
    <3> HIDE DEF k
    <3>3. SubSeq(log', 1, k) = SubSeq(log, 1, k)
      BY <1>0, <2>1, <3>1, <3>2, PrefixKept
    <3>4. k <= Len(log')
      BY <1>0, <2>2, <3>1, <3>2
    <3> QED
      BY <3>2, <3>3, <3>4 DEF k
  <2> QED
    BY <2>2, <2>4 DEF SealsTrue
<1>3. CASE ReplaceJournal
  <2>1. log' = <<>>
    BY <1>3 DEF ReplaceJournal
  <2>2. log' \in Seq(Entries) /\ \A i \in 1 .. Len(log') : FALSE
    BY <2>1
  <2> QED
    BY <2>2 DEF SealsTrue
<1> QED
  BY <1>1, <1>2, <1>3, Logged

\* A step of the process keeps what the journal holds.
LEMMA Lengthens ==
    ASSUME ReplayInv, Next, ~ReplaceJournal
    PROVE  Extends(log', log)
<1>0. log \in Seq(Entries) /\ Len(log) \in Nat
  BY DEF ReplayInv, Types, Stored
<1>1. CASE log' = log
  BY <1>0, <1>1 DEF Extends
<1>2. ASSUME NEW e \in Entries, log' = JournalAppend(log, e) PROVE Extends(log', log)
  BY <1>0, <1>2, Appends
<1> QED
  BY <1>1, <1>2, Logged

\* What a step does to the state in memory: it is lost or is not there, is
\* brought up to date, or is left alone.
LEMMA Remembered ==
    ASSUME ReplayInv, Next
    PROVE  \/ /\ phase' = "down" /\ folded_through' = 0 /\ last_checkpoint_at' = 0
              /\ projection' = EmptyState \/ projection' = projection
           \/ /\ projection' = Replay(log') /\ folded_through' = Len(log')
              /\ last_checkpoint_at' \in {Len(log'), last_checkpoint_at}
              /\ ~ReplaceJournal
           \/ /\ UNCHANGED <<projection, folded_through, last_checkpoint_at>>
              /\ phase # "down" /\ phase' # "down" /\ ~ReplaceJournal
<1> DEFINE Goal ==
       \/ /\ phase' = "down" /\ folded_through' = 0 /\ last_checkpoint_at' = 0
          /\ projection' = EmptyState \/ projection' = projection
       \/ /\ projection' = Replay(log') /\ folded_through' = Len(log')
          /\ last_checkpoint_at' \in {Len(log'), last_checkpoint_at}
          /\ ~ReplaceJournal
       \/ /\ UNCHANGED <<projection, folded_through, last_checkpoint_at>>
          /\ phase # "down" /\ phase' # "down" /\ ~ReplaceJournal
<1>0. Stored /\ Control /\ ProjectionIsReplay /\ SealsTrue
  BY DEF ReplayInv, Types
<1>1. phase # "down" => ~ReplaceJournal
  BY DEF ReplaceJournal
<1>2. ASSUME Start PROVE Goal
  <2>1. /\ projection' = Replay(log') /\ folded_through' = Len(log') /\ last_checkpoint_at' = Len(log')
        /\ phase' = "top"
    BY <1>0, <1>2, RecoveryIsReplay DEF Start, durable, Goto
  <2>2. ~ReplaceJournal
    BY <2>1 DEF ReplaceJournal
  <2> QED
    BY <2>1, <2>2
<1>3. ASSUME Crash PROVE Goal
  BY <1>3 DEF Crash, Goto
<1>4. ASSUME LoseSidecar \/ ReplaceJournal PROVE Goal
  BY <1>0, <1>4 DEF LoseSidecar, ReplaceJournal, memory, Stored
<1>5. ASSUME Bottom PROVE Goal
  <2>1. phase # "down" /\ log' = log /\ last_checkpoint_at' \in {Len(log'), last_checkpoint_at}
        /\ projection' = FoldTail(projection, log, folded_through) /\ folded_through' = Len(log')
    BY <1>5 DEF Bottom, durable
  <2>2. projection' = Replay(log')
    BY <1>0, <2>1, FoldNew
  <2> QED
    BY <1>1, <2>1, <2>2
<1>6. ASSUME HandleFailure PROVE Goal
  <2>1. phase # "down"
    BY <1>6 DEF HandleFailure
  <2> QED
    BY <1>1, <1>6, <2>1, Handled
<1>7. ASSUME LoopEnds \/ Propose \/ Stage \/ ScheduleCritic PROVE Goal
  BY <1>1, <1>7 DEF LoopEnds, Propose, Stage, ScheduleCritic, memory, Goto
<1>8. ASSUME Dispatch PROVE Goal
  BY <1>1, <1>8 DEF Dispatch, AtDispatch, memory, Goto
<1>9. ASSUME NEW v \in BOOLEAN, Commit(v) PROVE Goal
  BY <1>1, <1>9 DEF Commit, memory, Goto
<1>10. ASSUME NEW i \in 1 .. Len(Order), PickNext(i) PROVE Goal
  BY <1>1, <1>10 DEF PickNext, memory, Goto
<1>11. ASSUME NEW c \in {"transient", "terminal"}, DispatchFails(c) PROVE Goal
  BY <1>1, <1>11 DEF DispatchFails, Dispatching, memory, Goto
<1>12. ASSUME RunAborts \/ WriteSidecar \/ Seal PROVE Goal
  BY <1>1, <1>12 DEF RunAborts, WriteSidecar, Seal, AfterCheckpoint, memory, Goto
<1> QED
  BY <1>2, <1>3, <1>4, <1>5, <1>6, <1>7, <1>8, <1>9, <1>10, <1>11, <1>12 DEF Next, Step

\* A step leaves one checkpoint in the sidecar at most.
LEMMA SidecarStep ==
    ASSUME ReplayInv, Next
    PROVE  sidecar' = {} \/ \E cp \in Checkpoints : sidecar' = {cp}
<1> DEFINE cp == [journal_offset |-> projection.last_seq, state |-> projection]
<1>1. projection \in States /\ (sidecar = {} \/ \E c \in Checkpoints : sidecar = {c})
  BY DEF ReplayInv, Types, Stored
<1>2. cp \in Checkpoints
  BY <1>1 DEF Checkpoints, States
<1>3. sidecar' = sidecar \/ sidecar' = {} \/ sidecar' = {cp}
  BY DEF Next, Step, Start, PickNext, LoopEnds, Propose, Stage, Dispatch, ScheduleCritic, Commit, RunAborts,
         HandleFailure, Bottom, WriteSidecar, Seal, DispatchFails, Crash, LoseSidecar, ReplaceJournal, durable
<1> QED
  BY <1>1, <1>2, <1>3

\* The invariant is inductive.
LEMMA ReplayStep ==
    ASSUME ReplayInv, Next
    PROVE  ReplayInv'
<1>0. Control /\ Stored /\ ProjectionIsReplay /\ SealsTrue
  BY DEF ReplayInv, Types
<1>1. Control' /\ SealsTrue' /\ log' \in Seq(Entries)
  BY <1>0, ControlStep, SealsStep
<1>2. /\ log \in Seq(Entries) /\ Len(log) \in Nat /\ Len(log') \in Nat /\ 0 <= Len(log')
      /\ projection \in States /\ folded_through \in Nat /\ last_checkpoint_at \in Nat
      /\ folded_through <= Len(log) /\ last_checkpoint_at <= folded_through
  BY <1>0, <1>1 DEF Stored
<1>3. sidecar' = {} \/ \E cp \in Checkpoints : sidecar' = {cp}
  BY SidecarStep
<1>4. ASSUME ~ReplaceJournal PROVE Len(log) <= Len(log')
  BY <1>4, Lengthens DEF Extends
<1>5. CASE /\ phase' = "down" /\ folded_through' = 0 /\ last_checkpoint_at' = 0
           /\ projection' = EmptyState \/ projection' = projection
  <2>1. projection' \in States
    BY <1>2, <1>5, EmptyIsState
  <2>2. folded_through' \in Nat /\ folded_through' <= Len(log')
        /\ last_checkpoint_at' \in Nat /\ last_checkpoint_at' <= folded_through'
    BY <1>2, <1>5
  <2>3. Stored'
    BY <1>1, <1>3, <1>5, <2>1, <2>2 DEF Stored
  <2> QED
    BY <1>1, <1>5, <2>3 DEF ReplayInv, Types, ProjectionIsReplay
<1>6. CASE /\ projection' = Replay(log') /\ folded_through' = Len(log')
           /\ last_checkpoint_at' \in {Len(log'), last_checkpoint_at}
           /\ ~ReplaceJournal
  <2>1. projection' \in States
    BY <1>1, <1>6, ReplayType
  <2>2. folded_through' \in Nat /\ folded_through' <= Len(log')
        /\ last_checkpoint_at' \in Nat /\ last_checkpoint_at' <= folded_through'
    BY <1>2, <1>4, <1>6
  <2>3. phase' # "down" \/ (folded_through' = 0 /\ last_checkpoint_at' = 0)
    BY <1>0, <1>2 DEF Next, Step, Start, PickNext, LoopEnds, Propose, Stage, Dispatch, AtDispatch, ScheduleCritic, Commit, RunAborts,
         HandleFailure, Bottom, WriteSidecar, Seal, AfterCheckpoint, DispatchFails, Crash, LoseSidecar, ReplaceJournal, Goto, memory, Stored
  <2>4. Stored'
    BY <1>1, <1>3, <2>1, <2>2, <2>3 DEF Stored
  <2>5. SubSeq(log', 1, folded_through') = log'
    BY <1>1, <1>6, WholePrefix
  <2> QED
    BY <1>1, <1>6, <2>4, <2>5 DEF ReplayInv, Types, ProjectionIsReplay
<1>7. CASE /\ UNCHANGED <<projection, folded_through, last_checkpoint_at>>
           /\ phase # "down" /\ phase' # "down" /\ ~ReplaceJournal
  <2>1. Extends(log', log)
    BY <1>7, Lengthens
  <2>2. SubSeq(log', 1, folded_through) = SubSeq(log, 1, folded_through)
    BY <1>2, <2>1, PrefixKept
  <2>3. folded_through' <= Len(log')
    BY <1>2, <1>4, <1>7
  <2>4. Stored'
    BY <1>1, <1>2, <1>3, <1>7, <2>3 DEF Stored
  <2>5. ProjectionIsReplay'
    BY <1>0, <1>7, <2>2 DEF ProjectionIsReplay
  <2> QED
    BY <1>1, <2>4, <2>5 DEF ReplayInv, Types
<1> QED
  BY <1>5, <1>6, <1>7, Remembered

\* The first state.
LEMMA ReplayInit == Init => ReplayInv
<1> SUFFICES ASSUME Init PROVE ReplayInv
  OBVIOUS
<1>1. Control
  <2>1. 0 \in 0 .. MaxStarts /\ 0 \in 0 .. MaxReplaced
    BY EngineAssumption DEF EngineAssumption
  <2> QED
    BY <2>1, Counters DEF Init, Control, Phases, Dispatching
<1>2. Stored
  <2>1. log = <<>> /\ projection \in States /\ folded_through = 0 /\ last_checkpoint_at = 0 /\ sidecar = {}
    BY EmptyIsState DEF Init
  <2>2. log \in Seq(Entries) /\ Len(log) = 0
    BY <2>1
  <2> QED
    BY <2>1, <2>2 DEF Stored
<1>3. SealsTrue
  <2>1. \A i \in 1 .. Len(log) : FALSE
    BY DEF Init
  <2> QED
    BY <2>1 DEF SealsTrue
<1> QED
  BY <1>1, <1>2, <1>3 DEF ReplayInv, Types, ProjectionIsReplay, Init

\* Nothing moves when the process does nothing.
LEMMA ReplayStutter ==
    ASSUME ReplayInv, UNCHANGED vars
    PROVE  ReplayInv'
<1>1. /\ UNCHANGED <<log, sidecar, phase, cur, error>>
      /\ UNCHANGED <<projection, folded_through, last_checkpoint_at, attempts>>
      /\ UNCHANGED <<fired, max_attempts, starts, replaced>>
  BY DEF vars, durable, memory, bounds
<1>2. Control'
  BY <1>1 DEF ReplayInv, Types, Control
<1>3. Stored'
  BY <1>1 DEF ReplayInv, Types, Stored
<1> QED
  BY <1>1, <1>2, <1>3 DEF ReplayInv, Types, SealsTrue, ProjectionIsReplay

\* The invariant holds in every state.
LEMMA ReplayAlways == Spec => []ReplayInv
<1>1. ReplayInv /\ [Next]_vars => ReplayInv'
  BY ReplayStep, ReplayStutter
<1> QED
  BY <1>1, ReplayInit, PTL DEF Spec

\* Whatever was killed, and whichever sidecar recovery finds, the loop decides
\* from the fold of the journal up to its frontier.
THEOREM DecidesFromReplay == Spec => []ProjectionIsReplay
<1>1. ReplayInv => ProjectionIsReplay
  BY DEF ReplayInv
<1> QED
  BY <1>1, ReplayAlways, PTL

-----------------------------------------------------------------------------
(* What the journal says of each Mote *)

\* The flags of the Motes, as folded from a whole journal.
Info(l) == Replay(l).motes

\* The index of the journal and the fold agree: an entry that is deduped was
\* folded.
Reflected(l) ==
    \A i \in 1 .. Len(l) :
        /\ l[i].kind = "Committed" => "committed" \in Info(l)[l[i].mote]
        /\ l[i].kind = "EffectStaged" => "staged" \in Info(l)[l[i].mote]

\* Flags that are never taken back.
Kept == {"proposed", "committed", "staged", "terminal"}

\* What the engine's entries make of a Mote.
Tame(info, m) ==
    /\ "inconsistent" \notin info /\ "repudiated" \notin info
    /\ "reattempt" \in info => "terminal" \in info
    /\ "staged" \in info => Class[m] = "Staged"

\* What holds of the whole journal.
Folded == Reflected(log) /\ \A m \in Motes : Tame(Info(log)[m], m)

\* The folds of the four kinds of entry that name a Mote.
LEMMA MoteKinds ==
    ASSUME NEW e \in Entries, e.kind # "DigestSealed"
    PROVE  /\ e.mote \in Motes /\ e.kind \in {"Proposed", "Committed", "EffectStaged", "Failed"}
           /\ \A i : /\ e.kind = "Proposed" => FoldMote(i, e) = FoldProposed(i)
                     /\ e.kind = "Committed" => FoldMote(i, e) = FoldCommitted(i)
                     /\ e.kind = "EffectStaged" => FoldMote(i, e) = FoldEffectStaged(i)
                     /\ e.kind = "Failed" => FoldMote(i, e) = FoldFailed(i, "DeadLettered")
<1>1. e.mote \in Motes /\ e.kind \in {"Proposed", "Committed", "EffectStaged", "Failed"}
      /\ (e.kind = "Failed" => e.reason = "DeadLettered")
  BY DEF Entries
<1> QED
  BY <1>1 DEF FoldMote

\* They keep the flags that are kept, and stay tame.
LEMMA FoldKeeps ==
    ASSUME NEW e \in Entries, e.kind # "DigestSealed", NEW i \in SUBSET Flags
    PROVE  /\ \A f \in Kept : f \in i => f \in FoldMote(i, e)
           /\ e.kind = "Committed" => "committed" \in FoldMote(i, e)
           /\ e.kind = "EffectStaged" => "staged" \in FoldMote(i, e)
           /\ Tame(i, e.mote) /\ (e.kind = "EffectStaged" => Class[e.mote] = "Staged")
                 => Tame(FoldMote(i, e), e.mote)
<1> USE DEF Kept, Tame
<1>1. CASE e.kind = "Proposed"
  BY <1>1, MoteKinds DEF FoldProposed
<1>2. CASE e.kind = "Committed"
  BY <1>2, MoteKinds DEF FoldCommitted
<1>3. CASE e.kind = "EffectStaged"
  BY <1>3, MoteKinds DEF FoldEffectStaged
<1>4. CASE e.kind = "Failed"
  BY <1>4, MoteKinds DEF FoldFailed, is_pre_commit_crash
<1> QED
  BY <1>1, <1>2, <1>3, <1>4, MoteKinds

\* What appending an entry makes of the Motes.
LEMMA InfoAppend ==
    ASSUME NEW l \in Seq(Entries), Reflected(l), NEW e \in Entries, NEW q, q = JournalAppend(l, e)
    PROVE  /\ Reflected(q)
           /\ e.kind = "DigestSealed" => Info(q) = Info(l)
           /\ e.kind # "DigestSealed" =>
                 \A m \in Motes : Info(q)[m] = IF m = e.mote THEN FoldMote(Info(l)[m], e) ELSE Info(l)[m]
<1>0. Len(l) \in Nat /\ Replay(l) \in States /\ Info(l) \in [Motes -> SUBSET Flags]
  BY ReplayType DEF States, Info
<1>1. CASE q = l /\ e.kind \in DedupedKinds /\ Present(l, e)
  <2>1. PICK i \in 1 .. Len(l) : l[i].kind = e.kind /\ l[i].mote = e.mote
    BY <1>1 DEF Present
  <2>2. e.kind # "DigestSealed" /\ e.mote \in Motes
    BY <1>1, MoteKinds DEF DedupedKinds
  <2>3. CASE e.kind = "Committed"
    <3>1. "committed" \in Info(l)[e.mote]
      BY <2>1, <2>3 DEF Reflected
    <3>2. FoldMote(Info(l)[e.mote], e) = Info(l)[e.mote]
      <4>1. FoldMote(Info(l)[e.mote], e) = Info(l)[e.mote] \cup {"committed"}
        BY <2>2, <2>3, MoteKinds DEF FoldCommitted
      <4>2. \A S : "committed" \in S => S \cup {"committed"} = S
        OBVIOUS
      <4> QED
        BY <3>1, <4>1, <4>2
    <3> QED
      BY <1>1, <2>2, <3>2
  <2>4. CASE e.kind = "EffectStaged"
    <3>1. "staged" \in Info(l)[e.mote]
      BY <2>1, <2>4 DEF Reflected
    <3>2. FoldMote(Info(l)[e.mote], e) = Info(l)[e.mote]
      <4>1. FoldMote(Info(l)[e.mote], e) = Info(l)[e.mote] \cup {"staged"}
        BY <2>2, <2>4, MoteKinds DEF FoldEffectStaged
      <4>2. \A S : "staged" \in S => S \cup {"staged"} = S
        OBVIOUS
      <4> QED
        BY <3>1, <4>1, <4>2
    <3> QED
      BY <1>1, <2>2, <3>2
  <2> QED
    BY <1>1, <2>3, <2>4 DEF DedupedKinds
<1>2. CASE /\ q = Append(l, e) /\ Len(q) = Len(l) + 1 /\ q[Len(l) + 1] = e
           /\ Replay(q) = FoldEntry(Replay(l), Len(l) + 1, e)
  <2>0. Len(l) + 1 \in Nat
    BY <1>0
  <2>1. /\ e.kind = "DigestSealed" => Info(q) = Info(l)
        /\ e.kind # "DigestSealed" =>
              /\ e.mote \in Motes
              /\ \A m \in Motes : Info(q)[m] = IF m = e.mote THEN FoldMote(Info(l)[m], e) ELSE Info(l)[m]
    BY <1>0, <1>2, <2>0, FoldOne DEF Info
  <2>2. Extends(q, l)
    BY Appends
  <2>3. ASSUME NEW m \in Motes, NEW f \in Kept, f \in Info(l)[m] PROVE f \in Info(q)[m]
    <3>1. Info(l)[m] \in SUBSET Flags
      BY <1>0
    <3> QED
      BY <2>1, <2>3, <3>1, FoldKeeps
  <2>4. ASSUME NEW i \in 1 .. Len(q)
        PROVE  /\ q[i].kind = "Committed" => "committed" \in Info(q)[q[i].mote]
               /\ q[i].kind = "EffectStaged" => "staged" \in Info(q)[q[i].mote]
    <3>1. CASE i \in 1 .. Len(l)
      <4>1. q[i] = l[i] /\ l[i] \in Entries
        BY <2>2, <3>1 DEF Extends
      <4>2. l[i].kind \in {"Committed", "EffectStaged"} => l[i].mote \in Motes
        BY <4>1, MoteKinds
      <4> QED
        BY <2>3, <3>1, <4>1, <4>2 DEF Reflected, Kept
    <3>2. CASE i \notin 1 .. Len(l)
      <4>1. i = Len(l) + 1
        BY <1>0, <1>2, <3>2
      <4>2. q[i] = e
        BY <1>2, <4>1
      <4>3. e.kind # "DigestSealed" => e.mote \in Motes /\ Info(l)[e.mote] \in SUBSET Flags
        BY <1>0, <2>1
      <4> QED
        BY <2>1, <4>2, <4>3, FoldKeeps
    <3> QED
      BY <3>1, <3>2
  <2> QED
    BY <2>1, <2>4 DEF Reflected
<1> QED
  BY <1>1, <1>2, Appends

\* A seal says nothing of a Mote.
LEMMA InfoSeal ==
    ASSUME NEW l \in Seq(Entries), NEW e \in Entries, e.kind = "DigestSealed", NEW q, q = JournalAppend(l, e)
    PROVE  Info(q) = Info(l)
<1>1. Replay(l) \in States /\ Len(l) + 1 \in Nat
  BY ReplayType
<1>2. Replay(q) = FoldEntry(Replay(l), Len(l) + 1, e)
  BY Appends DEF DedupedKinds
<1> QED
  BY <1>1, <1>2, FoldOne DEF Info

\* A step keeps what the journal says of each Mote.
LEMMA FoldedStep ==
    ASSUME ReplayInv, Folded, Next
    PROVE  /\ Reflected(log') /\ \A m \in Motes : Tame(Info(log')[m], m)
           /\ ~ReplaceJournal => \A m \in Motes, f \in Kept : f \in Info(log)[m] => f \in Info(log')[m]
<1>0. log \in Seq(Entries) /\ Info(log) \in [Motes -> SUBSET Flags] /\ Reflected(log)
  BY ReplayType DEF ReplayInv, Types, Stored, States, Info, Folded
<1>1. CASE log' = log
  BY <1>0, <1>1 DEF Folded
<1>2. CASE ReplaceJournal
  <2>1. log' = <<>>
    BY <1>2 DEF ReplaceJournal
  <2>2. \A m \in Motes : Info(log')[m] = {}
    BY <2>1, ReplayEmpty DEF Info, EmptyState
  <2>3. \A i \in 1 .. Len(log') : FALSE
    BY <2>1
  <2> QED
    BY <1>2, <2>2, <2>3 DEF Reflected, Tame
<1>3. ASSUME NEW e \in Entries, log' = JournalAppend(log, e), Honest(e, log)
      PROVE  /\ Reflected(log') /\ \A m \in Motes : Tame(Info(log')[m], m)
             /\ \A m \in Motes, f \in Kept : f \in Info(log)[m] => f \in Info(log')[m]
  <2>1. /\ Reflected(log')
        /\ e.kind = "DigestSealed" => Info(log') = Info(log)
        /\ e.kind # "DigestSealed" =>
              \A m \in Motes : Info(log')[m] = IF m = e.mote THEN FoldMote(Info(log)[m], e) ELSE Info(log)[m]
    BY <1>0, <1>3, InfoAppend
  <2>2. ASSUME NEW m \in Motes
        PROVE  Tame(Info(log')[m], m) /\ \A f \in Kept : f \in Info(log)[m] => f \in Info(log')[m]
    <3>1. Info(log)[m] \in SUBSET Flags /\ Tame(Info(log)[m], m)
      BY <1>0 DEF Folded
    <3>2. CASE e.kind # "DigestSealed" /\ m = e.mote
      BY <1>3, <2>1, <3>1, <3>2, FoldKeeps DEF Honest
    <3>3. CASE ~(e.kind # "DigestSealed" /\ m = e.mote)
      BY <2>1, <3>1, <3>3
    <3> QED
      BY <3>2, <3>3
  <2> QED
    BY <2>1, <2>2
<1> QED
  BY <1>1, <1>2, <1>3, Logged

\* What the classification of a tame Mote tells of it.
LEMMA Classified ==
    ASSUME NEW m, NEW i, Tame(i, m)
    PROVE  /\ ~is_terminal(StateOf(i)) => "committed" \notin i /\ "terminal" \notin i
           /\ StateOf(i) = "Pending" /\ Class[m] # "Staged" => "proposed" \notin i
           /\ StateOf(i) = "Scheduled" => "proposed" \in i /\ "staged" \notin i
           /\ StateOf(i) = "Committed" => "committed" \in i
BY DEF Tame, StateOf, is_terminal

-----------------------------------------------------------------------------
(* The journal accounts for every effect *)

\* Where the projection is complete: at most seals are not folded.
Synced == {"top", "checkpoint", "seal", "last checkpoint", "last seal"}

\* There the loop decides from the whole journal.
InSync == phase \in Synced => projection.motes = Info(log)

\* What the journal says of the Mote that is being dispatched.
InFlight ==
    /\ phase \in {"proposed", "staged", "fired"} => "proposed" \in Info(log)[cur]
    /\ phase = "staged" => Class[cur] = "Staged" /\ Present(log, EffectStaged(cur))
    /\ phase \in {"begin", "proposed"} /\ Class[cur] = "Direct" => fired[cur] = 0

\* What it says of a Mote whose effect was fired.
Accounted(l, f) ==
    \A m \in Motes :
        /\ Class[m] = "Direct" => f[m] <= 1 /\ (f[m] > 0 => "proposed" \in Info(l)[m])
        /\ Class[m] = "Staged" /\ f[m] > 0 => Present(l, EffectStaged(m))

\* The invariant behind the theorems about effects.
EffectInv == ReplayInv /\ Folded /\ InSync /\ InFlight /\ Accounted(log, fired)

\* Wherever the loop decides, it decides from all there is.
LEMMA SyncStep ==
    ASSUME ReplayInv, Folded, InSync, Next
    PROVE  InSync'
<1> USE DEF InSync, Synced
<1>0. Stored /\ SealsTrue /\ ProjectionIsReplay
  BY DEF ReplayInv, Types
<1>1. CASE projection' = Replay(log')
  BY <1>1 DEF Info
<1>2. CASE Start
  BY <1>0, <1>1, <1>2, RecoveryIsReplay DEF Start, durable
<1>3. CASE HandleFailure
  BY <1>1, <1>3, Handled
<1>4. CASE Bottom
  <2>1. phase # "down" /\ log' = log /\ projection' = FoldTail(projection, log, folded_through)
    BY <1>4 DEF Bottom, durable
  <2> QED
    BY <1>0, <1>1, <2>1, FoldNew
<1>5. CASE LoopEnds
  BY <1>5 DEF LoopEnds, durable, memory
<1>6. CASE WriteSidecar
  BY <1>6 DEF WriteSidecar, memory
<1>7. CASE Seal
  <2> DEFINE e == DigestSealed(folded_through, projection)
  <2>1. phase \in Synced /\ projection' = projection /\ (log' = log \/ log' = JournalAppend(log, e))
    BY <1>7 DEF Seal, AppendEntry, memory
  <2>2. log \in Seq(Entries) /\ Reflected(log) /\ e \in Entries /\ e.kind = "DigestSealed"
    BY <1>0, EntryTypes DEF Stored, Folded, DigestSealed
  <2> HIDE DEF e
  <2>3. ASSUME NEW q, q = JournalAppend(log, e) PROVE Info(q) = Info(log)
    BY <2>2, <2>3, InfoSeal
  <2>4. Info(log') = Info(log)
    BY <2>1, <2>3
  <2> QED
    BY <2>1, <2>4
<1>8. CASE Propose \/ Stage \/ Dispatch \/ ScheduleCritic \/ RunAborts \/ Crash \/ LoseSidecar \/ ReplaceJournal
  BY <1>8 DEF Propose, Stage, Dispatch, ScheduleCritic, RunAborts, Crash, LoseSidecar, ReplaceJournal, Goto
<1>9. ASSUME NEW v \in BOOLEAN, Commit(v) PROVE InSync'
  BY <1>9 DEF Commit, Goto
<1>10. ASSUME NEW i \in 1 .. Len(Order), PickNext(i) PROVE InSync'
  BY <1>10 DEF PickNext, Goto
<1>11. ASSUME NEW c \in {"transient", "terminal"}, DispatchFails(c) PROVE InSync'
  BY <1>11 DEF DispatchFails, Goto
<1> QED
  BY <1>2, <1>3, <1>4, <1>5, <1>6, <1>7, <1>8, <1>9, <1>10, <1>11 DEF Next, Step

\* The Mote that pick_next takes.
LEMMA Picked ==
    ASSUME Folded, InSync, NEW i \in 1 .. Len(Order), PickNext(i)
    PROVE  LET m == Order[i]
           IN  /\ m \in Motes /\ cur' = m /\ phase' = "begin"
               /\ "committed" \notin Info(log)[m] /\ "terminal" \notin Info(log)[m]
               /\ Class[m] = "Direct" => "proposed" \notin Info(log)[m]
               /\ \/ \A p \in Parents[m] : StateOf(Info(log)[p]) = "Committed"
                  \/ Class[m] = "Pure" /\ "proposed" \in Info(log)[m]
<1> DEFINE m == Order[i]
<1>1. m \in Motes
  BY OrderType
<1> HIDE DEF m
<1>2. phase = "top" /\ cur' = m /\ phase' = "begin" /\ Pickable(m)
  BY DEF PickNext, Goto, m
<1>3. projection.motes = Info(log) /\ Tame(Info(log)[m], m)
  BY <1>1, <1>2 DEF InSync, Synced, Folded
<1>4. /\ ~is_terminal(StateOf(Info(log)[m]))
      /\ \/ Ready(Info(log), Motes, projection.valid, m)
         \/ Class[m] = "Pure" /\ StateOf(Info(log)[m]) = "Scheduled"
         \/ StateOf(Info(log)[m]) = "Scheduled" /\ CanRedispatch(Info(log)[m])
  BY <1>2, <1>3 DEF Pickable, Runnable, Recoverable, InReady, StateNow
<1>5. ~(StateOf(Info(log)[m]) = "Scheduled" /\ CanRedispatch(Info(log)[m]))
  BY <1>3, Classified DEF CanRedispatch
<1>6. "committed" \notin Info(log)[m] /\ "terminal" \notin Info(log)[m]
  BY <1>3, <1>4, Classified
<1>7. CASE Ready(Info(log), Motes, projection.valid, m)
  <2>1. StateOf(Info(log)[m]) = "Pending" /\ \A p \in Parents[m] : StateOf(Info(log)[p]) = "Committed"
    BY <1>7 DEF Ready
  <2>2. Class[m] = "Direct" => "proposed" \notin Info(log)[m]
    BY <1>3, <2>1, Classified
  <2> QED
    BY <1>1, <1>2, <1>6, <2>1, <2>2 DEF m
<1>8. CASE Class[m] = "Pure" /\ StateOf(Info(log)[m]) = "Scheduled"
  <2>1. "proposed" \in Info(log)[m]
    BY <1>3, <1>8, Classified
  <2> QED
    BY <1>1, <1>2, <1>6, <1>8, <2>1 DEF m
<1> QED
  BY <1>4, <1>5, <1>7, <1>8

\* An entry is in the journal once it was appended, and stays there.
LEMMA PresentKept ==
    ASSUME NEW l \in Seq(Entries), NEW q, NEW x, Extends(q, l), Present(l, x)
    PROVE  Present(q, x)
<1>1. PICK i \in 1 .. Len(l) : l[i].kind = x.kind /\ l[i].mote = x.mote
  BY DEF Present
<1>2. i \in 1 .. Len(q) /\ q[i] = l[i]
  BY DEF Extends
<1> QED
  BY <1>1, <1>2 DEF Present

\* It is there from the append on.
LEMMA PresentAfter ==
    ASSUME NEW l \in Seq(Entries), NEW x \in Entries, NEW q, q = JournalAppend(l, x)
    PROVE  Present(q, x)
<1>1. CASE q = l /\ Present(l, x)
  BY <1>1
<1>2. CASE Len(q) = Len(l) + 1 /\ q[Len(l) + 1] = x
  <2>1. Len(l) + 1 \in 1 .. Len(q)
    BY <1>2
  <2> QED
    BY <1>2, <2>1 DEF Present
<1> QED
  BY <1>1, <1>2, Appends

\* An account of the effects is good for a longer journal.
LEMMA AccountKept ==
    ASSUME ReplayInv, Folded, Next, ~ReplaceJournal, NEW f, Accounted(log, f)
    PROVE  Accounted(log', f)
<1>1. log \in Seq(Entries) /\ Extends(log', log)
  BY Lengthens DEF ReplayInv, Types, Stored
<1>2. \A m \in Motes : "proposed" \in Info(log)[m] => "proposed" \in Info(log')[m]
  BY FoldedStep DEF Kept
<1>3. \A m \in Motes : Present(log, EffectStaged(m)) => Present(log', EffectStaged(m))
  BY <1>1, PresentKept
<1> QED
  BY <1>2, <1>3 DEF Accounted

\* Firing the effect of the Mote at hand leaves the account true.
LEMMA FiresAccounted ==
    ASSUME Control, InFlight, Accounted(log, fired), AtDispatch, Fires
    PROVE  Accounted(log, fired')
<1>1. cur \in Motes
  BY DEF AtDispatch, Control, Dispatching
<1>2. fired \in [Motes -> 0 .. 2] /\ \A m \in Motes \ {cur} : fired'[m] = fired[m]
  BY DEF Fires, Control
<1>3. CASE phase = "proposed" /\ Class[cur] = "Direct"
  <2>1. fired[cur] = 0 /\ "proposed" \in Info(log)[cur]
    BY <1>3 DEF InFlight
  <2>2. fired'[cur] = 1
    BY <1>1, <1>2, <2>1 DEF Fires
  <2> QED
    BY <1>2, <1>3, <2>1, <2>2 DEF Accounted
<1>4. CASE phase = "staged"
  BY <1>2, <1>4 DEF Accounted, InFlight
<1> QED
  BY <1>3, <1>4 DEF AtDispatch

\* Every action keeps what is known of the Mote at hand, and the account.
LEMMA EffectStep ==
    ASSUME EffectInv, Next
    PROVE  InFlight' /\ Accounted(log', fired')
<1> DEFINE Goal == InFlight' /\ Accounted(log', fired')
           Quiet == {"begin", "proposed", "staged", "fired"}
<1>0. /\ ReplayInv /\ Control /\ Folded /\ InSync /\ InFlight /\ Accounted(log, fired)
      /\ log \in Seq(Entries) /\ Reflected(log) /\ fired \in [Motes -> 0 .. 2]
  BY DEF EffectInv, ReplayInv, Types, Stored, Folded, Control
<1>1. ASSUME ~ReplaceJournal PROVE Accounted(log', fired)
  BY <1>0, <1>1, AccountKept
<1>2. ASSUME ~ReplaceJournal, fired' = fired, phase' \notin Quiet PROVE Goal
  BY <1>1, <1>2 DEF InFlight
<1>3. phase' # "down" => ~ReplaceJournal
  BY DEF ReplaceJournal
<1>4. ASSUME Start \/ LoopEnds \/ ScheduleCritic \/ RunAborts \/ HandleFailure \/ Bottom \/ WriteSidecar \/ Seal
      PROVE  Goal
  <2>1. fired' = fired
    BY <1>4 DEF Start, LoopEnds, ScheduleCritic, RunAborts, HandleFailure, Bottom, WriteSidecar, Seal
  <2>2. phase' \notin Quiet /\ phase' # "down"
    BY <1>4 DEF Start, LoopEnds, ScheduleCritic, RunAborts, HandleFailure, Bottom, WriteSidecar, Seal, Goto, AfterCheckpoint
  <2> QED
    BY <1>2, <1>3, <2>1, <2>2
<1>5. ASSUME NEW v \in BOOLEAN, Commit(v) PROVE Goal
  <2>1. fired' = fired /\ phase' \notin Quiet /\ phase' # "down"
    BY <1>5 DEF Commit, Goto
  <2> QED
    BY <1>2, <1>3, <2>1
<1>6. ASSUME Crash \/ LoseSidecar PROVE Goal
  <2>1. fired' = fired /\ phase' = "down" /\ phase' \notin Quiet /\ log' = log
    BY <1>6 DEF Crash, LoseSidecar, Goto, durable
  <2> QED
    BY <1>0, <2>1 DEF InFlight
<1>7. ASSUME ReplaceJournal PROVE Goal
  <2>1. phase' = "down" /\ \A m \in Motes : fired'[m] = 0
    BY <1>7 DEF ReplaceJournal
  <2> QED
    BY <2>1 DEF InFlight, Accounted
<1>8. ASSUME NEW i \in 1 .. Len(Order), PickNext(i) PROVE Goal
  <2>1. log' = log /\ fired' = fired /\ phase' = "begin"
    BY <1>8 DEF PickNext, Goto, durable
  <2>2. cur' \in Motes /\ (Class[cur'] = "Direct" => "proposed" \notin Info(log)[cur'])
    BY <1>0, <1>8, Picked
  <2>3. Class[cur'] = "Direct" => fired[cur'] = 0
    BY <1>0, <2>2 DEF Accounted
  <2> QED
    BY <1>0, <2>1, <2>3 DEF InFlight
<1>9. ASSUME Propose PROVE Goal
  <2>1. cur \in Motes /\ cur' = cur /\ fired' = fired /\ phase = "begin" /\ phase' = "proposed" /\ phase' # "down"
        /\ log' = JournalAppend(log, Proposed(cur))
    BY <1>0, <1>9 DEF Propose, Goto, AppendEntry, Control, Dispatching
  <2>2. Proposed(cur) \in Entries /\ Proposed(cur).kind = "Proposed" /\ Proposed(cur).mote = cur
    BY <2>1, EntryTypes DEF Proposed
  <2>3. Info(log')[cur] = FoldMote(Info(log)[cur], Proposed(cur))
    BY <1>0, <2>1, <2>2, InfoAppend
  <2>4. "proposed" \in Info(log')[cur]
    BY <2>2, <2>3, MoteKinds DEF FoldProposed
  <2>5. Accounted(log', fired')
    BY <1>1, <1>3, <2>1
  <2> QED
    BY <1>0, <2>1, <2>4, <2>5 DEF InFlight
<1>10. ASSUME Stage PROVE Goal
  <2>1. cur \in Motes /\ cur' = cur /\ fired' = fired /\ phase = "proposed" /\ phase' = "staged" /\ phase' # "down"
        /\ Class[cur] = "Staged" /\ log' = JournalAppend(log, EffectStaged(cur))
    BY <1>0, <1>10 DEF Stage, Goto, AppendEntry, Control, Dispatching
  <2>2. Present(log', EffectStaged(cur))
    BY <1>0, <2>1, EntryTypes, PresentAfter
  <2>3. "proposed" \in Info(log')[cur]
    BY <1>0, <1>3, <2>1, FoldedStep DEF InFlight, Kept
  <2>4. Accounted(log', fired')
    BY <1>1, <1>3, <2>1
  <2> QED
    BY <2>1, <2>2, <2>3, <2>4 DEF InFlight
<1>11. ASSUME Dispatch PROVE Goal
  <2>1. AtDispatch /\ Fires /\ phase' = "fired" /\ cur' = cur /\ log' = log
    BY <1>11 DEF Dispatch, Goto, durable
  <2>2. Accounted(log, fired')
    BY <1>0, <2>1, FiresAccounted
  <2>3. "proposed" \in Info(log)[cur]
    BY <1>0, <2>1 DEF AtDispatch, InFlight
  <2> QED
    BY <2>1, <2>2, <2>3 DEF InFlight
<1>12. ASSUME NEW c \in {"transient", "terminal"}, DispatchFails(c) PROVE Goal
  <2>1. (fired' = fired \/ (AtDispatch /\ Fires)) /\ phase' = "failed" /\ log' = log
    BY <1>12 DEF DispatchFails, Goto, durable
  <2>2. Accounted(log, fired')
    BY <1>0, <2>1, FiresAccounted
  <2> QED
    BY <2>1, <2>2 DEF InFlight
<1> QED
  BY <1>4, <1>5, <1>6, <1>7, <1>8, <1>9, <1>10, <1>11, <1>12 DEF Next, Step

\* The invariant holds in every state.
LEMMA EffectAlways == Spec => []EffectInv
<1>1. Init => EffectInv
  <2> SUFFICES ASSUME Init PROVE EffectInv
    OBVIOUS
  <2>1. \A m \in Motes : Info(log)[m] = {}
    BY ReplayEmpty DEF Init, Info, EmptyState
  <2>2. phase = "down" /\ \A m \in Motes : fired[m] = 0
    BY DEF Init
  <2>3. \A i \in 1 .. Len(log) : FALSE
    BY DEF Init
  <2>4. Folded
    BY <2>1, <2>3 DEF Folded, Reflected, Tame
  <2>5. InSync /\ InFlight /\ Accounted(log, fired)
    BY <2>2 DEF InSync, Synced, InFlight, Accounted
  <2> QED
    BY <2>4, <2>5, ReplayInit DEF EffectInv
<1>2. ASSUME EffectInv, Next PROVE EffectInv'
  <2>1. ReplayInv /\ Folded /\ InSync
    BY <1>2 DEF EffectInv
  <2>2. ReplayInv'
    BY <1>2, <2>1, ReplayStep
  <2>3. Folded'
    BY <1>2, <2>1, FoldedStep DEF Folded
  <2>4. InSync'
    BY <1>2, <2>1, SyncStep
  <2>5. InFlight' /\ Accounted(log', fired')
    BY <1>2, EffectStep
  <2> QED
    BY <2>2, <2>3, <2>4, <2>5 DEF EffectInv
<1>3. ASSUME EffectInv, UNCHANGED vars PROVE EffectInv'
  <2>1. ReplayInv'
    BY <1>3, ReplayStutter DEF EffectInv
  <2>2. UNCHANGED <<log, phase, cur, projection, fired>>
    BY <1>3 DEF vars, durable, memory
  <2>3. Folded'
    BY <1>3, <2>2 DEF EffectInv, Folded
  <2>4. InSync' /\ InFlight'
    BY <1>3, <2>2 DEF EffectInv, InSync, InFlight
  <2> QED
    BY <1>3, <2>1, <2>2, <2>3, <2>4 DEF EffectInv
<1>4. EffectInv /\ [Next]_vars => EffectInv'
  BY <1>2, <1>3
<1> QED
  BY <1>1, <1>4, PTL DEF Spec

\* Whatever is killed and whenever, an effect without a hint fires once at most,
\* and one with a hint leaves it in the journal before it reaches the world.
THEOREM JournalAccountsForEffects == Spec => []EffectsAccounted
<1>1. EffectInv => EffectsAccounted
  BY DEF EffectInv, Accounted, EffectsAccounted, EffectAtMostOnce, StagedBeforeFired
<1> QED
  BY <1>1, EffectAlways, PTL

\* No state of the loop sends a Mote to redispatch_wm_mote.
THEOREM RecoveryArmIsDead == Spec => []RecoveryArmDead
<1>1. EffectInv => RecoveryArmDead
  <2> SUFFICES ASSUME EffectInv, phase = "top", NEW m \in Motes PROVE ~Recoverable(m)
    BY DEF RecoveryArmDead
  <2>1. projection.motes[m] = Info(log)[m] /\ Tame(Info(log)[m], m)
    BY DEF EffectInv, InSync, Synced, Folded
  <2> QED
    BY <2>1, Classified DEF Recoverable, StateNow, CanRedispatch
<1> QED
  BY <1>1, EffectAlways, PTL

-----------------------------------------------------------------------------
(* The ledger *)

\* A critic that is scheduled when its producer commits has no other input:
\* schedule_sibling_critic proposes it without a look at its parents, and
\* pick_next runs a PURE Mote that was proposed.
CriticsOnlyJudge ==
    \A c \in Motes : Class[c] = "Pure" /\ CriticFor[c] \in Validated => Parents[c] \subseteq {CriticFor[c]}

\* A PURE Mote that was proposed has its inputs.
Supplied(I) ==
    \A m \in Motes : Class[m] = "Pure" /\ "proposed" \in I[m] => \A p \in Parents[m] : "committed" \in I[p]

\* The Mote being dispatched is open and has its inputs; the producer whose
\* critic is due is committed.
Causes ==
    /\ phase \in {"begin", "proposed", "staged", "fired"} =>
          /\ "committed" \notin Info(log)[cur] /\ "terminal" \notin Info(log)[cur]
          /\ \A p \in Parents[cur] : "committed" \in Info(log)[p]
    /\ phase = "critic" => "committed" \in Info(log)[cur]
    /\ Supplied(Info(log))

\* What each entry makes of each Mote.
LEMMA InfoOf ==
    ASSUME NEW l \in Seq(Entries), Reflected(l), NEW m \in Motes, NEW x \in Motes
    PROVE  /\ Info(JournalAppend(l, Proposed(m)))[x] = IF x = m THEN FoldProposed(Info(l)[x]) ELSE Info(l)[x]
           /\ Info(JournalAppend(l, EffectStaged(m)))[x] = IF x = m THEN FoldEffectStaged(Info(l)[x]) ELSE Info(l)[x]
           /\ \A v \in BOOLEAN : Info(JournalAppend(l, Committed(m, v)))[x] =
                                    IF x = m THEN FoldCommitted(Info(l)[x]) ELSE Info(l)[x]
           /\ \A r : Info(JournalAppend(l, Failed(m, reason_for(r))))[x] =
                        IF x = m THEN FoldFailed(Info(l)[x], "DeadLettered") ELSE Info(l)[x]
<1>1. ASSUME NEW e \in Entries, e.kind # "DigestSealed", e.mote = m
      PROVE  Info(JournalAppend(l, e))[x] = IF x = m THEN FoldMote(Info(l)[x], e) ELSE Info(l)[x]
  <2>1. PICK q : q = JournalAppend(l, e)
    OBVIOUS
  <2>2. Info(q)[x] = IF x = e.mote THEN FoldMote(Info(l)[x], e) ELSE Info(l)[x]
    BY <1>1, <2>1, InfoAppend
  <2> QED
    BY <1>1, <2>1, <2>2
<1>2. Info(JournalAppend(l, Proposed(m)))[x] = IF x = m THEN FoldProposed(Info(l)[x]) ELSE Info(l)[x]
  <2>1. Proposed(m) \in Entries /\ Proposed(m).kind = "Proposed" /\ Proposed(m).mote = m
    BY EntryTypes DEF Proposed
  <2> QED
    BY <1>1, <2>1, MoteKinds
<1>3. Info(JournalAppend(l, EffectStaged(m)))[x] = IF x = m THEN FoldEffectStaged(Info(l)[x]) ELSE Info(l)[x]
  <2>1. EffectStaged(m) \in Entries /\ EffectStaged(m).kind = "EffectStaged" /\ EffectStaged(m).mote = m
    BY EntryTypes DEF EffectStaged
  <2> QED
    BY <1>1, <2>1, MoteKinds
<1>4. ASSUME NEW v \in BOOLEAN
      PROVE  Info(JournalAppend(l, Committed(m, v)))[x] = IF x = m THEN FoldCommitted(Info(l)[x]) ELSE Info(l)[x]
  <2>1. Committed(m, v) \in Entries /\ Committed(m, v).kind = "Committed" /\ Committed(m, v).mote = m
    BY EntryTypes DEF Committed
  <2> QED
    BY <1>1, <2>1, MoteKinds
<1>5. ASSUME NEW r
      PROVE  Info(JournalAppend(l, Failed(m, reason_for(r))))[x] =
                IF x = m THEN FoldFailed(Info(l)[x], "DeadLettered") ELSE Info(l)[x]
  <2> DEFINE e == Failed(m, reason_for(r))
  <2>1. e \in Entries /\ e.kind = "Failed" /\ e.mote = m
    BY EntryTypes DEF Failed
  <2> HIDE DEF e
  <2>2. Info(JournalAppend(l, e))[x] = IF x = m THEN FoldFailed(Info(l)[x], "DeadLettered") ELSE Info(l)[x]
    BY <1>1, <2>1, MoteKinds
  <2> QED
    BY <2>2 DEF e
<1> QED
  BY <1>2, <1>3, <1>4, <1>5

\* The flags the four folds add.
LEMMA FoldFlags ==
    ASSUME NEW i
    PROVE  /\ "committed" \in FoldProposed(i) <=> "committed" \in i
           /\ "terminal" \in FoldProposed(i) <=> "terminal" \in i
           /\ "committed" \in FoldEffectStaged(i) <=> "committed" \in i
           /\ "terminal" \in FoldEffectStaged(i) <=> "terminal" \in i
           /\ "proposed" \in FoldEffectStaged(i) <=> "proposed" \in i
           /\ "committed" \in FoldCommitted(i)
           /\ "proposed" \in FoldCommitted(i) <=> "proposed" \in i
           /\ "committed" \in FoldFailed(i, "DeadLettered") <=> "committed" \in i
           /\ "committed" \notin i => "terminal" \in FoldFailed(i, "DeadLettered")
           /\ "proposed" \in FoldFailed(i, "DeadLettered") <=> "proposed" \in i
<1>1. /\ "committed" \in FoldProposed(i) <=> "committed" \in i
      /\ "terminal" \in FoldProposed(i) <=> "terminal" \in i
  BY DEF FoldProposed
<1>2. /\ "committed" \in FoldEffectStaged(i) <=> "committed" \in i
      /\ "terminal" \in FoldEffectStaged(i) <=> "terminal" \in i
      /\ "proposed" \in FoldEffectStaged(i) <=> "proposed" \in i
  BY DEF FoldEffectStaged
<1>3. /\ "committed" \in FoldCommitted(i)
      /\ "proposed" \in FoldCommitted(i) <=> "proposed" \in i
  BY DEF FoldCommitted
<1>4. /\ "committed" \in FoldFailed(i, "DeadLettered") <=> "committed" \in i
      /\ "committed" \notin i => "terminal" \in FoldFailed(i, "DeadLettered")
      /\ "proposed" \in FoldFailed(i, "DeadLettered") <=> "proposed" \in i
  BY DEF FoldFailed, is_pre_commit_crash
<1> QED
  BY <1>1, <1>2, <1>3, <1>4

\* A Mote that is newly proposed has its inputs, and keeps them.
LEMMA SupplyKept ==
    ASSUME NEW I, NEW J, Supplied(I),
           \A m \in Motes : "committed" \in I[m] => "committed" \in J[m],
           \A m \in Motes : Class[m] = "Pure" /\ "proposed" \in J[m] =>
               "proposed" \in I[m] \/ \A p \in Parents[m] : "committed" \in I[p]
    PROVE  Supplied(J)
<1>1. \A m \in Motes : Parents[m] \subseteq Motes
  BY GraphAssumption DEF GraphAssumption
<1> QED
  BY <1>1 DEF Supplied

\* Every action keeps the causes.
LEMMA CauseStep ==
    ASSUME CriticsOnlyJudge, EffectInv, Causes, Next
    PROVE  Causes'
<1> DEFINE Busy == {"begin", "proposed", "staged", "fired", "critic"}
<1>0. /\ ReplayInv /\ Control /\ Folded /\ InSync /\ Supplied(Info(log))
      /\ log \in Seq(Entries) /\ Reflected(log)
  BY DEF EffectInv, ReplayInv, Types, Stored, Folded, Causes
<1>1. \A m \in Motes : Parents[m] \subseteq Motes
  BY GraphAssumption DEF GraphAssumption
<1>2. ASSUME ~ReplaceJournal PROVE \A m \in Motes : "committed" \in Info(log)[m] => "committed" \in Info(log')[m]
  BY <1>0, <1>2, FoldedStep DEF Kept
<1>3. phase' # "down" => ~ReplaceJournal
  BY DEF ReplaceJournal
<1>4. ASSUME phase' \notin Busy, Supplied(Info(log')) PROVE Causes'
  BY <1>4 DEF Causes
<1>5. ASSUME Start \/ LoopEnds \/ RunAborts \/ Bottom \/ WriteSidecar \/ Crash \/ LoseSidecar PROVE Causes'
  <2>1. log' = log
    BY <1>5 DEF Start, LoopEnds, RunAborts, Bottom, WriteSidecar, Crash, LoseSidecar, durable
  <2>2. phase' \notin Busy
    BY <1>5 DEF Start, LoopEnds, RunAborts, Bottom, WriteSidecar, Crash, LoseSidecar, Goto, AfterCheckpoint
  <2> QED
    BY <1>0, <1>4, <2>1, <2>2
<1>6. ASSUME NEW c \in {"transient", "terminal"}, DispatchFails(c) PROVE Causes'
  <2>1. log' = log /\ phase' \notin Busy
    BY <1>6 DEF DispatchFails, Goto, durable
  <2> QED
    BY <1>0, <1>4, <2>1
<1>7. ASSUME Seal PROVE Causes'
  <2>1. phase' \notin Busy
    BY <1>7 DEF Seal, Goto, AfterCheckpoint
  <2>2. DigestSealed(folded_through, projection) \in Entries
    BY <1>0, EntryTypes DEF ReplayInv, Types, Stored
  <2>3. DigestSealed(folded_through, projection).kind = "DigestSealed"
    BY DEF DigestSealed
  <2>4. Info(JournalAppend(log, DigestSealed(folded_through, projection))) = Info(log)
    BY <1>0, <2>2, <2>3, InfoSeal
  <2>5. log' = log \/ log' = JournalAppend(log, DigestSealed(folded_through, projection))
    BY <1>7 DEF Seal, AppendEntry
  <2>6. Info(log') = Info(log)
    BY <2>4, <2>5
  <2> QED
    BY <1>0, <1>4, <2>1, <2>6
<1>8. ASSUME ReplaceJournal PROVE Causes'
  <2>1. phase' \notin Busy /\ log' = <<>>
    BY <1>8 DEF ReplaceJournal
  <2>2. \A m \in Motes : Info(log')[m] = {}
    BY <2>1, ReplayEmpty DEF Info, EmptyState
  <2>3. Supplied(Info(log'))
    BY <2>2 DEF Supplied
  <2> QED
    BY <1>4, <2>1, <2>3
<1>9. ASSUME Dispatch PROVE Causes'
  <2>1. phase \in {"proposed", "staged"} /\ phase' = "fired" /\ cur' = cur /\ log' = log
    BY <1>9 DEF Dispatch, AtDispatch, Goto, durable
  <2> QED
    BY <2>1 DEF Causes
<1>10. ASSUME NEW i \in 1 .. Len(Order), PickNext(i) PROVE Causes'
  <2>1. phase' = "begin" /\ log' = log
    BY <1>10 DEF PickNext, Goto, durable
  <2>2. /\ cur' \in Motes /\ "committed" \notin Info(log)[cur'] /\ "terminal" \notin Info(log)[cur']
        /\ \/ \A p \in Parents[cur'] : StateOf(Info(log)[p]) = "Committed"
           \/ Class[cur'] = "Pure" /\ "proposed" \in Info(log)[cur']
    BY <1>0, <1>10, Picked
  <2>3. ASSUME NEW p \in Parents[cur'] PROVE "committed" \in Info(log)[p]
    <3>1. Tame(Info(log)[p], p)
      BY <1>0, <1>1, <2>2 DEF Folded
    <3>2. CASE StateOf(Info(log)[p]) = "Committed"
      BY <3>1, <3>2, Classified
    <3>3. CASE Class[cur'] = "Pure" /\ "proposed" \in Info(log)[cur']
      BY <1>0, <2>2, <3>3 DEF Supplied
    <3> QED
      BY <2>2, <3>2, <3>3
  <2> QED
    BY <1>0, <2>1, <2>2, <2>3 DEF Causes
<1>11. ASSUME Propose PROVE Causes'
  <2>1. cur \in Motes /\ cur' = cur /\ phase = "begin" /\ phase' = "proposed" /\ phase' # "down"
        /\ log' = JournalAppend(log, Proposed(cur))
    BY <1>0, <1>11 DEF Propose, Goto, AppendEntry, Control, Dispatching
  <2>2. \A x \in Motes : Info(log')[x] = IF x = cur THEN FoldProposed(Info(log)[x]) ELSE Info(log)[x]
    BY <1>0, <2>1, InfoOf
  <2>3. /\ "committed" \notin Info(log)[cur] /\ "terminal" \notin Info(log)[cur]
        /\ \A p \in Parents[cur] : "committed" \in Info(log)[p]
    BY <2>1 DEF Causes
  <2>4. "committed" \notin Info(log')[cur] /\ "terminal" \notin Info(log')[cur]
    BY <2>1, <2>2, <2>3, FoldFlags
  <2>5. \A p \in Parents[cur] : "committed" \in Info(log')[p]
    BY <1>1, <1>2, <1>3, <2>1, <2>3
  <2>6. Supplied(Info(log'))
    <3>1. \A m \in Motes : Class[m] = "Pure" /\ "proposed" \in Info(log')[m] =>
             "proposed" \in Info(log)[m] \/ \A p \in Parents[m] : "committed" \in Info(log)[p]
      BY <2>2, <2>3
    <3> QED
      BY <1>0, <1>2, <1>3, <2>1, <3>1, SupplyKept
  <2> QED
    BY <2>1, <2>4, <2>5, <2>6 DEF Causes
<1>12. ASSUME Stage PROVE Causes'
  <2>1. cur \in Motes /\ cur' = cur /\ phase = "proposed" /\ phase' = "staged" /\ phase' # "down"
        /\ log' = JournalAppend(log, EffectStaged(cur))
    BY <1>0, <1>12 DEF Stage, Goto, AppendEntry, Control, Dispatching
  <2>2. \A x \in Motes : Info(log')[x] = IF x = cur THEN FoldEffectStaged(Info(log)[x]) ELSE Info(log)[x]
    BY <1>0, <2>1, InfoOf
  <2>3. /\ "committed" \notin Info(log)[cur] /\ "terminal" \notin Info(log)[cur]
        /\ \A p \in Parents[cur] : "committed" \in Info(log)[p]
    BY <2>1 DEF Causes
  <2>4. "committed" \notin Info(log')[cur] /\ "terminal" \notin Info(log')[cur]
    BY <2>1, <2>2, <2>3, FoldFlags
  <2>5. \A p \in Parents[cur] : "committed" \in Info(log')[p]
    BY <1>1, <1>2, <1>3, <2>1, <2>3
  <2>6. Supplied(Info(log'))
    <3>1. \A m \in Motes : "proposed" \in Info(log')[m] => "proposed" \in Info(log)[m]
      BY <2>2, FoldFlags
    <3> QED
      BY <1>0, <1>2, <1>3, <2>1, <3>1, SupplyKept
  <2> QED
    BY <2>1, <2>4, <2>5, <2>6 DEF Causes
<1>13. ASSUME NEW v \in BOOLEAN, Commit(v) PROVE Causes'
  <2>1. cur \in Motes /\ (phase' = "bottom" \/ (phase' = "critic" /\ cur' = cur))
        /\ log' = JournalAppend(log, Committed(cur, v)) /\ phase' # "down"
    BY <1>0, <1>13 DEF Commit, Goto, AppendEntry, Control, Dispatching
  <2>2. \A x \in Motes : Info(log')[x] = IF x = cur THEN FoldCommitted(Info(log)[x]) ELSE Info(log)[x]
    BY <1>0, <2>1, InfoOf
  <2>3. "committed" \in Info(log')[cur]
    BY <2>1, <2>2, FoldFlags
  <2>4. Supplied(Info(log'))
    <3>1. \A m \in Motes : "proposed" \in Info(log')[m] => "proposed" \in Info(log)[m]
      BY <2>2, FoldFlags
    <3> QED
      BY <1>0, <1>2, <1>3, <2>1, <3>1, SupplyKept
  <2> QED
    BY <2>1, <2>3, <2>4 DEF Causes
<1>14. ASSUME ScheduleCritic PROVE Causes'
  <2>1. phase = "critic" /\ phase' = "bottom" /\ phase' # "down"
    BY <1>14 DEF ScheduleCritic, Goto
  <2>2. PICK c \in SiblingCritics(cur) : log' = JournalAppend(log, Proposed(c))
    BY <1>14 DEF ScheduleCritic, AppendEntry
  <2>3. c \in Motes /\ cur \in Validated /\ CriticFor[c] = cur /\ "committed" \in Info(log)[cur]
    BY <2>1 DEF SiblingCritics, Causes
  <2>4. \A x \in Motes : Info(log')[x] = IF x = c THEN FoldProposed(Info(log)[x]) ELSE Info(log)[x]
    BY <1>0, <2>2, <2>3, InfoOf
  <2>5. Class[c] = "Pure" => \A p \in Parents[c] : "committed" \in Info(log)[p]
    BY <2>3 DEF CriticsOnlyJudge
  <2>6. \A m \in Motes : Class[m] = "Pure" /\ "proposed" \in Info(log')[m] =>
           "proposed" \in Info(log)[m] \/ \A p \in Parents[m] : "committed" \in Info(log)[p]
    BY <2>4, <2>5
  <2>7. Supplied(Info(log'))
    BY <1>0, <1>2, <1>3, <2>1, <2>6, SupplyKept
  <2> QED
    BY <1>4, <2>1, <2>7
<1>15. ASSUME HandleFailure PROVE Causes'
  <2>1. cur \in Motes /\ phase' = "top" /\ phase' # "down"
        /\ (log' = log \/ log' = JournalAppend(log, Failed(cur, reason_for(error))))
    BY <1>0, <1>15, Handled
  <2>2. \A x \in Motes : Info(log')[x] = Info(log)[x] \/ Info(log')[x] = FoldFailed(Info(log)[x], "DeadLettered")
    BY <1>0, <2>1, InfoOf
  <2>3. \A m \in Motes : "proposed" \in Info(log')[m] => "proposed" \in Info(log)[m]
    BY <2>2, FoldFlags
  <2>4. Supplied(Info(log'))
    BY <1>0, <1>2, <1>3, <2>1, <2>3, SupplyKept
  <2> QED
    BY <1>4, <2>1, <2>4
<1> QED
  BY <1>5, <1>6, <1>7, <1>8, <1>9, <1>10, <1>11, <1>12, <1>13, <1>14, <1>15 DEF Next, Step

\* The fate of a Mote, read from its flags.
LEMMA FateOf ==
    /\ LedgerStatus = [m \in Motes |-> LedgerStatus[m]]
    /\ \A m \in Motes :
          /\ "committed" \in Info(log)[m] => LedgerStatus[m] = "committed"
          /\ "committed" \notin Info(log)[m] /\ "terminal" \in Info(log)[m] => LedgerStatus[m] = "failed"
          /\ "committed" \notin Info(log)[m] /\ "terminal" \notin Info(log)[m] => LedgerStatus[m] = "open"
<1>1. LedgerStatus = [m \in Motes |-> IF "committed" \in Info(log)[m] THEN "committed"
                                      ELSE IF "terminal" \in Info(log)[m] THEN "failed" ELSE "open"]
  BY DEF LedgerStatus, Info
<1> QED
  BY <1>1

\* The same after a step.
LEMMA NextFateOf ==
    /\ LedgerStatus' = [m \in Motes |-> LedgerStatus'[m]]
    /\ \A m \in Motes :
          /\ "committed" \in Info(log')[m] => LedgerStatus'[m] = "committed"
          /\ "committed" \notin Info(log')[m] /\ "terminal" \in Info(log')[m] => LedgerStatus'[m] = "failed"
          /\ "committed" \notin Info(log')[m] /\ "terminal" \notin Info(log')[m] => LedgerStatus'[m] = "open"
<1>1. LedgerStatus' = [m \in Motes |-> IF "committed" \in Info(log')[m] THEN "committed"
                                       ELSE IF "terminal" \in Info(log')[m] THEN "failed" ELSE "open"]
  BY DEF LedgerStatus, Info
<1> QED
  BY <1>1

\* Two flags decide a fate.
LEMMA SameFate ==
    ASSUME \A m \in Motes : /\ "committed" \in Info(log')[m] <=> "committed" \in Info(log)[m]
                            /\ "terminal" \in Info(log')[m] <=> "terminal" \in Info(log)[m]
    PROVE  LedgerStatus' = LedgerStatus
<1>1. ASSUME NEW m \in Motes PROVE LedgerStatus'[m] = LedgerStatus[m]
  BY FateOf, NextFateOf
<1>2. LedgerStatus = [m \in Motes |-> LedgerStatus[m]] /\ LedgerStatus' = [m \in Motes |-> LedgerStatus'[m]]
  BY FateOf, NextFateOf
<1> QED
  BY <1>1, <1>2

\* When one Mote's flags change, one fate does.
LEMMA OneFate ==
    ASSUME NEW m \in Motes, NEW s, LedgerStatus'[m] = s,
           \A n \in Motes : n # m => Info(log')[n] = Info(log)[n]
    PROVE  LedgerStatus' = [LedgerStatus EXCEPT ![m] = s]
<1>1. ASSUME NEW n \in Motes, n # m PROVE LedgerStatus'[n] = LedgerStatus[n]
  BY <1>1, FateOf, NextFateOf
<1>2. LedgerStatus = [n \in Motes |-> LedgerStatus[n]] /\ LedgerStatus' = [n \in Motes |-> LedgerStatus'[n]]
  BY FateOf, NextFateOf
<1> QED
  BY <1>1, <1>2

\* A Committed entry is CommitMote (the commit protocol).
LEMMA CommitRefines ==
    ASSUME EffectInv, Causes, NEW v \in BOOLEAN, Commit(v)
    PROVE  cur \in Motes /\ Ledger!CommitMote(cur)
<1>1. /\ cur \in Motes /\ phase \in {"proposed", "fired"} /\ log' = JournalAppend(log, Committed(cur, v))
      /\ log \in Seq(Entries) /\ Reflected(log)
  BY DEF Commit, AppendEntry, EffectInv, ReplayInv, Types, Stored, Folded, Control, Dispatching
<1>2. \A x \in Motes : Info(log')[x] = IF x = cur THEN FoldCommitted(Info(log)[x]) ELSE Info(log)[x]
  BY <1>1, InfoOf
<1>3. /\ "committed" \notin Info(log)[cur] /\ "terminal" \notin Info(log)[cur]
      /\ \A p \in Parents[cur] : "committed" \in Info(log)[p]
  BY <1>1 DEF Causes
<1>4. LedgerStatus[cur] = "open"
  BY <1>1, <1>3, FateOf
<1>5. \A p \in Parents[cur] : LedgerStatus[p] \in {"committed", "repudiated"}
  <2>1. Parents[cur] \subseteq Motes
    BY <1>1, GraphAssumption DEF GraphAssumption
  <2> QED
    BY <1>3, <2>1, FateOf
<1>6. LedgerStatus'[cur] = "committed"
  BY <1>1, <1>2, FoldFlags, NextFateOf
<1>7. LedgerStatus' = [LedgerStatus EXCEPT ![cur] = "committed"]
  BY <1>1, <1>2, <1>6, OneFate
<1> QED
  BY <1>1, <1>4, <1>5, <1>7 DEF Ledger!CommitMote

\* A dead letter is FailMote (handle_failure).
LEMMA FailureRefines ==
    ASSUME EffectInv, HandleFailure
    PROVE  UNCHANGED LedgerStatus \/ (cur \in Motes /\ Ledger!FailMote(cur))
<1>0. ReplayInv /\ log \in Seq(Entries) /\ Reflected(log) /\ cur \in Motes
  BY Handled DEF EffectInv, ReplayInv, Types, Stored, Folded
<1>1. CASE log' = log
  BY <1>1, SameFate
<1>2. CASE /\ ~is_terminal(StateOf(Replay(log).motes[cur]))
           /\ log' = JournalAppend(log, Failed(cur, reason_for(error)))
  <2>1. \A x \in Motes : Info(log')[x] = IF x = cur THEN FoldFailed(Info(log)[x], "DeadLettered") ELSE Info(log)[x]
    BY <1>0, <1>2, InfoOf
  <2>2. Tame(Info(log)[cur], cur) /\ ~is_terminal(StateOf(Info(log)[cur]))
    BY <1>0, <1>2 DEF EffectInv, Folded, Info
  <2>3. "committed" \notin Info(log)[cur] /\ "terminal" \notin Info(log)[cur]
    BY <2>2, Classified
  <2>4. "committed" \notin Info(log')[cur] /\ "terminal" \in Info(log')[cur]
    BY <1>0, <2>1, <2>3, FoldFlags
  <2>5. LedgerStatus[cur] = "open" /\ LedgerStatus'[cur] = "failed"
    BY <1>0, <2>3, <2>4, FateOf, NextFateOf
  <2>6. LedgerStatus' = [LedgerStatus EXCEPT ![cur] = "failed"]
    BY <1>0, <2>1, <2>5, OneFate
  <2> QED
    BY <1>0, <2>5, <2>6 DEF Ledger!FailMote
<1> QED
  BY <1>0, <1>1, <1>2, Handled

\* Every step of the process is a step of the ledger or leaves it as it is,
\* unless it begins a new one.
LEMMA StepRefines ==
    ASSUME EffectInv, Causes, Next
    PROVE  UNCHANGED LedgerStatus \/ Ledger!LedgerNext \/ ReplaceJournal
<1> DEFINE Goal == UNCHANGED LedgerStatus \/ Ledger!LedgerNext \/ ReplaceJournal
<1>0. Control /\ Stored /\ log \in Seq(Entries) /\ Reflected(log)
  BY DEF EffectInv, ReplayInv, Types, Stored, Folded
<1>1. ASSUME log' = log PROVE Goal
  BY <1>1, SameFate
<1>2. ASSUME Start \/ LoopEnds \/ Dispatch \/ RunAborts \/ Bottom \/ WriteSidecar \/ Crash \/ LoseSidecar
      PROVE  log' = log
  BY <1>2 DEF Start, LoopEnds, Dispatch, RunAborts, Bottom, WriteSidecar, Crash, LoseSidecar, durable
<1>3. ASSUME NEW i \in 1 .. Len(Order), PickNext(i) PROVE log' = log
  BY <1>3 DEF PickNext, durable
<1>4. ASSUME NEW c \in {"transient", "terminal"}, DispatchFails(c) PROVE log' = log
  BY <1>4 DEF DispatchFails, durable
<1>5. ASSUME NEW m \in Motes, log' = JournalAppend(log, Proposed(m)) PROVE Goal
  <2>1. \A x \in Motes : Info(log')[x] = IF x = m THEN FoldProposed(Info(log)[x]) ELSE Info(log)[x]
    BY <1>0, <1>5, InfoOf
  <2> QED
    BY <2>1, FoldFlags, SameFate
<1>6. ASSUME Propose PROVE Goal
  <2>1. cur \in Motes /\ log' = JournalAppend(log, Proposed(cur))
    BY <1>0, <1>6 DEF Propose, AppendEntry, Control, Dispatching
  <2> QED
    BY <1>5, <2>1
<1>7. ASSUME ScheduleCritic PROVE Goal
  <2>1. PICK c \in SiblingCritics(cur) : log' = JournalAppend(log, Proposed(c))
    BY <1>7 DEF ScheduleCritic, AppendEntry
  <2>2. c \in Motes
    BY DEF SiblingCritics
  <2> QED
    BY <1>5, <2>1, <2>2
<1>8. ASSUME Stage PROVE Goal
  <2>1. cur \in Motes /\ log' = JournalAppend(log, EffectStaged(cur))
    BY <1>0, <1>8 DEF Stage, AppendEntry, Control, Dispatching
  <2>2. \A x \in Motes : Info(log')[x] = IF x = cur THEN FoldEffectStaged(Info(log)[x]) ELSE Info(log)[x]
    BY <1>0, <2>1, InfoOf
  <2> QED
    BY <2>2, FoldFlags, SameFate
<1>9. ASSUME Seal PROVE Goal
  <2>1. DigestSealed(folded_through, projection) \in Entries
    BY <1>0, EntryTypes DEF Stored
  <2>2. DigestSealed(folded_through, projection).kind = "DigestSealed"
    BY DEF DigestSealed
  <2>3. Info(JournalAppend(log, DigestSealed(folded_through, projection))) = Info(log)
    BY <1>0, <2>1, <2>2, InfoSeal
  <2>4. log' = log \/ log' = JournalAppend(log, DigestSealed(folded_through, projection))
    BY <1>9 DEF Seal, AppendEntry
  <2>5. Info(log') = Info(log)
    BY <2>3, <2>4
  <2> QED
    BY <2>5, SameFate
<1>10. ASSUME NEW v \in BOOLEAN, Commit(v) PROVE Goal
  BY <1>10, CommitRefines DEF Ledger!LedgerNext
<1>11. ASSUME HandleFailure PROVE Goal
  BY <1>11, FailureRefines DEF Ledger!LedgerNext
<1> QED
  BY <1>1, <1>2, <1>3, <1>4, <1>6, <1>7, <1>8, <1>9, <1>10, <1>11 DEF Next, Step

\* The single-process driver implements the ledger of Mote fates, once for each
\* journal, when the critics of validated producers judge those producers alone.
THEOREM EngineImplementsLedger ==
    ASSUME CriticsOnlyJudge
    PROVE  Spec => RefinesLedger
<1>1. Init => Ledger!LedgerInit /\ Causes
  <2> SUFFICES ASSUME Init PROVE Ledger!LedgerInit /\ Causes
    OBVIOUS
  <2>1. \A m \in Motes : Info(log)[m] = {}
    BY ReplayEmpty DEF Init, Info, EmptyState
  <2>2. LedgerStatus = [m \in Motes |-> "open"]
    <3>1. \A m \in Motes : LedgerStatus[m] = "open"
      BY <2>1, FateOf
    <3>2. LedgerStatus = [m \in Motes |-> LedgerStatus[m]]
      BY FateOf
    <3> QED
      BY <3>1, <3>2
  <2>3. Causes
    BY <2>1 DEF Init, Causes, Supplied
  <2> QED
    BY <2>2, <2>3 DEF Ledger!LedgerInit
<1>2. EffectInv /\ Causes /\ [Next]_vars => Causes'
  <2>1. ASSUME UNCHANGED vars, Causes PROVE Causes'
    BY <2>1 DEF Causes, vars, durable
  <2> QED
    BY <2>1, CauseStep
<1>3. EffectInv /\ Causes /\ [Next]_vars => [Ledger!LedgerNext \/ ReplaceJournal]_LedgerStatus
  <2>1. ASSUME UNCHANGED vars PROVE UNCHANGED LedgerStatus
    BY <2>1, SameFate DEF vars, durable
  <2> QED
    BY <2>1, StepRefines
<1> QED
  BY <1>1, <1>2, <1>3, EffectAlways, PTL DEF Spec, RefinesLedger

-----------------------------------------------------------------------------
(* The budget of attempts, and the type invariant *)

\* A Mote whose attempts are used up has come to an end; a process that is down
\* holds none.
Budget ==
    /\ phase = "down" => attempts = [m \in Motes |-> 0]
    /\ \A m \in Motes :
          \/ attempts[m] = 0
          \/ attempts[m] < max_attempts
          \/ /\ attempts[m] = max_attempts
             /\ "committed" \in Info(log)[m] \/ "terminal" \in Info(log)[m]

\* The attempts after handle_failure.
LEMMA HandledAttempts ==
    ASSUME EffectInv, Budget, HandleFailure
    PROVE  \/ attempts' = attempts
           \/ /\ attempts' = [attempts EXCEPT ![cur] = attempts[cur] + 1]
              /\ \/ attempts[cur] + 1 < max_attempts
                 \/ /\ attempts[cur] + 1 = max_attempts
                    /\ "committed" \in Info(log')[cur] \/ "terminal" \in Info(log')[cur]
<1>0. /\ ReplayInv /\ Stored /\ Control /\ ProjectionIsReplay /\ cur \in Motes /\ phase = "failed" /\ phase # "down"
      /\ log \in Seq(Entries) /\ Reflected(log) /\ max_attempts # 0
  BY Handled DEF EffectInv, ReplayInv, Types, Stored, Folded, HandleFailure
<1>1. attempts \in [Motes -> Nat] /\ attempts[cur] \in Nat /\ max_attempts \in Nat
  BY <1>0, EngineAssumption DEF Control, EngineAssumption
<1>2. FoldTail(projection, log, folded_through) = Replay(log)
  BY <1>0, FoldNew
<1>3. FailureHandled(Replay(log))
  BY <1>2 DEF HandleFailure
<1>4. \/ attempts' = attempts
      \/ /\ ~is_terminal(StateOf(Info(log)[cur]))
         /\ ~(attempts[cur] + 1 >= max_attempts)
         /\ attempts' = [attempts EXCEPT ![cur] = attempts[cur] + 1]
      \/ /\ ~is_terminal(StateOf(Info(log)[cur]))
         /\ \/ attempts' = [attempts EXCEPT ![cur] = attempts[cur] + 1]
            \/ attempts' = [attempts EXCEPT ![cur] = attempts[cur]]
         /\ log' = JournalAppend(log, Failed(cur, reason_for(error)))
  BY <1>3 DEF FailureHandled, Exhausted, NextAttempt, AppendEntry, Info
<1>5. CASE attempts' = [attempts EXCEPT ![cur] = attempts[cur]]
  BY <1>1, <1>5
<1>6. CASE ~(attempts[cur] + 1 >= max_attempts) /\ attempts' = [attempts EXCEPT ![cur] = attempts[cur] + 1]
  <2>1. attempts[cur] + 1 < max_attempts
    BY <1>1, <1>6
  <2> QED
    BY <1>6, <2>1
<1>7. CASE /\ ~is_terminal(StateOf(Info(log)[cur]))
           /\ attempts' = [attempts EXCEPT ![cur] = attempts[cur] + 1]
           /\ log' = JournalAppend(log, Failed(cur, reason_for(error)))
  <2>1. Info(log')[cur] = FoldFailed(Info(log)[cur], "DeadLettered")
    BY <1>0, <1>7, InfoOf
  <2>2. "committed" \notin Info(log)[cur] /\ "terminal" \notin Info(log)[cur]
    BY <1>0, <1>7, Classified DEF EffectInv, Folded
  <2>3. "terminal" \in Info(log')[cur]
    BY <2>1, <2>2, FoldFlags
  <2>4. attempts[cur] = 0 \/ attempts[cur] < max_attempts
    BY <1>0, <2>2 DEF Budget
  <2>5. attempts[cur] + 1 < max_attempts \/ attempts[cur] + 1 = max_attempts
    BY <1>0, <1>1, <2>4
  <2> QED
    BY <1>7, <2>3, <2>5
<1> QED
  BY <1>4, <1>5, <1>6, <1>7

\* Every action keeps the budget.
LEMMA BudgetStep ==
    ASSUME EffectInv, Budget, Next
    PROVE  Budget'
<1>0. ReplayInv /\ Control /\ Folded /\ attempts \in [Motes -> Nat]
  BY DEF EffectInv, ReplayInv, Types, Control
<1>1. ASSUME attempts' = [m \in Motes |-> 0] PROVE Budget'
  <2>1. \A m \in Motes : attempts'[m] = 0
    BY <1>1
  <2> QED
    BY <1>1, <2>1 DEF Budget
<1>2. CASE Start \/ Crash
  BY <1>1, <1>2 DEF Start, Crash
<1>3. CASE LoseSidecar \/ ReplaceJournal
  BY <1>1, <1>3 DEF LoseSidecar, ReplaceJournal, memory, Budget
<1>4. ASSUME ~ReplaceJournal
      PROVE  \A m \in Motes : "committed" \in Info(log)[m] \/ "terminal" \in Info(log)[m]
                                 => "committed" \in Info(log')[m] \/ "terminal" \in Info(log')[m]
  BY <1>0, <1>4, FoldedStep DEF Kept
<1>5. ASSUME UNCHANGED <<attempts, max_attempts>>, phase' # "down" PROVE Budget'
  <2>1. ~ReplaceJournal
    BY <1>5 DEF ReplaceJournal
  <2> QED
    BY <1>4, <1>5, <2>1 DEF Budget
<1>6. CASE HandleFailure
  <2>1. phase' = "top" /\ max_attempts' = max_attempts /\ cur \in Motes /\ ~ReplaceJournal
    BY <1>0, <1>6, Handled DEF HandleFailure, bounds, ReplaceJournal
  <2>2. CASE attempts' = attempts
    BY <1>5, <2>1, <2>2
  <2>3. CASE /\ attempts' = [attempts EXCEPT ![cur] = attempts[cur] + 1]
             /\ \/ attempts[cur] + 1 < max_attempts
                \/ /\ attempts[cur] + 1 = max_attempts
                   /\ "committed" \in Info(log')[cur] \/ "terminal" \in Info(log')[cur]
    <3>1. attempts'[cur] = attempts[cur] + 1 /\ \A m \in Motes \ {cur} : attempts'[m] = attempts[m]
      BY <1>0, <2>1, <2>3
    <3>2. ASSUME NEW m \in Motes
          PROVE  \/ attempts'[m] = 0
                 \/ attempts'[m] < max_attempts
                 \/ /\ attempts'[m] = max_attempts
                    /\ "committed" \in Info(log')[m] \/ "terminal" \in Info(log')[m]
      <4>1. CASE m = cur
        BY <2>3, <3>1, <4>1
      <4>2. CASE m # cur
        BY <1>4, <2>1, <3>1, <4>2 DEF Budget
      <4> QED
        BY <4>1, <4>2
    <3> QED
      BY <2>1, <3>2 DEF Budget
  <2> QED
    BY <1>6, <2>2, <2>3, HandledAttempts
<1>7. CASE LoopEnds \/ Propose \/ Stage \/ Dispatch \/ ScheduleCritic
  <2>1. UNCHANGED <<attempts, max_attempts>> /\ phase' # "down"
    BY <1>7 DEF LoopEnds, Propose, Stage, Dispatch, ScheduleCritic, memory, bounds, Goto
  <2> QED
    BY <1>5, <2>1
<1>8. CASE RunAborts \/ Bottom \/ WriteSidecar \/ Seal
  <2>1. UNCHANGED <<attempts, max_attempts>> /\ phase' # "down"
    BY <1>8 DEF RunAborts, Bottom, WriteSidecar, Seal, AfterCheckpoint, memory, bounds, Goto
  <2> QED
    BY <1>5, <2>1
<1>9. ASSUME NEW v \in BOOLEAN, Commit(v) PROVE Budget'
  <2>1. UNCHANGED <<attempts, max_attempts>> /\ phase' # "down"
    BY <1>9 DEF Commit, memory, bounds, Goto
  <2> QED
    BY <1>5, <2>1
<1>10. ASSUME NEW i \in 1 .. Len(Order), PickNext(i) PROVE Budget'
  <2>1. UNCHANGED <<attempts, max_attempts>> /\ phase' # "down"
    BY <1>10 DEF PickNext, memory, bounds, Goto
  <2> QED
    BY <1>5, <2>1
<1>11. ASSUME NEW c \in {"transient", "terminal"}, DispatchFails(c) PROVE Budget'
  <2>1. UNCHANGED <<attempts, max_attempts>> /\ phase' # "down"
    BY <1>11 DEF DispatchFails, memory, bounds, Goto
  <2> QED
    BY <1>5, <2>1
<1> QED
  BY <1>2, <1>3, <1>6, <1>7, <1>8, <1>9, <1>10, <1>11 DEF Next, Step

\* The types of the state, among them that no Mote gets more attempts than its
\* policy grants and that the frontier stays within the journal.
THEOREM EngineTypeCorrect == Spec => []TypeOK
<1>1. Init => Budget
  BY DEF Init, Budget
<1>2. EffectInv /\ Budget /\ [Next]_vars => Budget'
  <2>1. ASSUME UNCHANGED vars, Budget PROVE Budget'
    BY <2>1 DEF Budget, vars, durable, memory, bounds
  <2> QED
    BY <2>1, BudgetStep
<1>3. EffectInv /\ Budget => TypeOK
  <2> SUFFICES ASSUME EffectInv, Budget PROVE TypeOK
    OBVIOUS
  <2>0. Control /\ Stored
    BY DEF EffectInv, ReplayInv, Types
  <2>1. Cardinality(sidecar) <= 1
    <3>1. CASE sidecar = {}
      <4>1. Cardinality(sidecar) = 0
        BY <3>1, FS_EmptySet
      <4> QED
        BY <4>1
    <3>2. ASSUME NEW cp, sidecar = {cp} PROVE Cardinality(sidecar) <= 1
      <4>1. Cardinality(sidecar) = 1
        BY <3>2, FS_Singleton
      <4> QED
        BY <4>1
    <3> QED
      BY <2>0, <3>1, <3>2 DEF Stored
  <2>2. (cur # NoMote) = (phase \in Dispatching \cup {"failed"})
    BY <2>0 DEF Control
  <2>3. (error # "none") = (phase = "failed")
    BY <2>0 DEF Control
  <2>4. projection.motes \in [Motes -> SUBSET Flags]
    BY <2>0 DEF Stored, States
  <2>5. folded_through \in 0 .. Len(log) /\ last_checkpoint_at \in 0 .. folded_through
    <3>1. /\ Len(log) \in Nat /\ folded_through \in Nat /\ last_checkpoint_at \in Nat
          /\ folded_through <= Len(log) /\ last_checkpoint_at <= folded_through
      BY <2>0 DEF Stored
    <3> QED
      BY <3>1
  <2>6. attempts \in [Motes -> 0 .. max_attempts]
    <3>1. attempts \in [Motes -> Nat] /\ max_attempts \in Nat
      BY <2>0, EngineAssumption DEF Control, EngineAssumption
    <3>2. ASSUME NEW m \in Motes PROVE attempts[m] \in 0 .. max_attempts
      <4>1. attempts[m] = 0 \/ attempts[m] < max_attempts \/ attempts[m] = max_attempts
        BY DEF Budget
      <4>2. attempts[m] \in Nat
        BY <3>1
      <4> QED
        BY <3>1, <4>1, <4>2
    <3> QED
      BY <3>1, <3>2
  <2>7. /\ phase \in Phases /\ cur \in Motes \cup {NoMote} /\ fired \in [Motes -> 0 .. 2]
        /\ starts \in 0 .. MaxStarts /\ replaced \in 0 .. MaxReplaced /\ max_attempts \in Policies
    BY <2>0 DEF Control
  <2> QED
    BY <2>1, <2>2, <2>3, <2>4, <2>5, <2>6, <2>7 DEF TypeOK
<1> QED
  BY <1>1, <1>2, <1>3, EffectAlways, PTL DEF Spec

=============================================================================
