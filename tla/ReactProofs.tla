---------------------------- MODULE ReactProofs ----------------------------
(***************************************************************************)
(* Theorems about ReactChain: no gated call without its grant, no turn     *)
(* before the calls of the last one are observed, no call given out twice, *)
(* the budget kept, the turn in flight on offer, and a launch that tells   *)
(* the truth, for every model, tool set, budget and sequence of faults.    *)
(*                                                                         *)
(* Every pass derives where it stands from the facts of the chain.  So the *)
(* first part is about the facts: they come in the order of their turns, a *)
(* turn is opened by a Pending fact, a final branch is the last fact, and   *)
(* what a turn's committed output decodes to never changes.                 *)
(***************************************************************************)
EXTENDS ReactChain, FiniteSetTheorems, FunctionTheorems, TLAPS

-----------------------------------------------------------------------------
(* The facts of a chain *)

LastRound == rounds[Len(rounds)]
Top == LastRound.turn
Final == {"Answer", "DeadLettered"}

\* The facts of a chain come in the order of their turns and begin with turn 0.
Ordered ==
    /\ \A j, k \in 1 .. Len(rounds) : j <= k => rounds[j].turn <= rounds[k].turn
    /\ rounds # <<>> => rounds[1].turn = 0

\* Fact k is the first, or the last, of turn t.
Opens(k, t) ==
    /\ k \in 1 .. Len(rounds) /\ rounds[k].turn = t
    /\ \A j \in 1 .. k - 1 : rounds[j].turn # t
Closes(k, t) ==
    /\ k \in 1 .. Len(rounds) /\ rounds[k].turn = t
    /\ \A j \in 1 .. Len(rounds) : rounds[j].turn = t => j <= k

\* Every turn has a first and a last fact.
Opened ==
    \A t \in Turns : HasTurn(t) => \E k \in 1 .. Len(rounds) : Opens(k, t)
Closed ==
    \A t \in Turns : HasTurn(t) => \E k \in 1 .. Len(rounds) : Closes(k, t)

\* A turn has one Pending fact, its first; a final branch is the chain's last.
PendingOpens ==
    \A k \in 1 .. Len(rounds) : rounds[k].branch = "Pending" => Opens(k, rounds[k].turn)
FinalIsLast ==
    \A k \in 1 .. Len(rounds) : rounds[k].branch \in Final => k = Len(rounds)

RoundsInv ==
    /\ rounds \in Seq(Rounds)
    /\ Ordered /\ Opened /\ Closed /\ PendingOpens /\ FinalIsLast

\* What the passes may append: the anchor, a branch of the turn they are at, or
\* the next turn.
Appendable(r) ==
    \/ rounds = <<>> /\ r = Round(0, "Pending", "none", Base)
    \/ /\ rounds # <<>> /\ LastRound.branch \notin Final
       /\ \/ r.turn = Top /\ r.branch # "Pending"
          \/ r.turn = Top + 1 /\ r.branch = "Pending"

RoundsGrow ==
    \/ rounds' = rounds
    \/ \E r \in Rounds : Appendable(r) /\ rounds' = Append(rounds, r)

\* The frontier is the last fact.
LEMMA FrontierIsLast ==
    ASSUME RoundsInv, rounds # <<>>
    PROVE  /\ LastRound \in Rounds /\ Top \in Turns
           /\ FrontierTurn = Top /\ Frontier = LastRound
           /\ Anchored /\ HasTurn(Top)
<1> USE ReactAssumption DEF RoundsInv, ReactAssumption
<1>1. /\ Len(rounds) \in 1 .. Len(rounds) /\ 1 \in 1 .. Len(rounds)
      /\ DOMAIN rounds = 1 .. Len(rounds)
  OBVIOUS
<1>2. LastRound \in Rounds /\ Top \in Turns
  <2>1. LastRound \in Rounds
    BY <1>1 DEF LastRound
  <2> QED
    BY <2>1 DEF Top, Rounds
<1>3. HasTurn(Top) /\ Anchored
  BY <1>1 DEF HasTurn, Anchored, Ordered, Top, LastRound
<1>4. \A k \in 1 .. Len(rounds) : rounds[k].turn <= Top
  BY <1>1 DEF Ordered, Top, LastRound
<1>5. \A u \in Turns : HasTurn(u) => u <= Top
  BY <1>1, <1>4 DEF HasTurn
<1>6. FrontierTurn = Top
  <2>1. \A t \in Turns : (HasTurn(t) /\ \A u \in Turns : HasTurn(u) => u <= t) => t = Top
    BY <1>2, <1>3, <1>5 DEF Turns
  <2> QED
    BY <1>2, <1>3, <1>5, <2>1 DEF FrontierTurn
<1>7. LatestOf(Top) = Len(rounds)
  <2>0. rounds[Len(rounds)].turn = Top
    BY DEF Top, LastRound
  <2>1. \A k \in 1 .. Len(rounds) :
          (\A j \in 1 .. Len(rounds) : rounds[j].turn = Top => j <= k) => k = Len(rounds)
    <3> SUFFICES ASSUME NEW k \in 1 .. Len(rounds),
                        \A j \in 1 .. Len(rounds) : rounds[j].turn = Top => j <= k
                 PROVE  k = Len(rounds)
      OBVIOUS
    <3>1. Len(rounds) <= k
      BY <1>1, <2>0
    <3> QED
      BY <3>1
  <2>2. \A j \in 1 .. Len(rounds) : rounds[j].turn = Top => j <= Len(rounds)
    OBVIOUS
  <2> QED
    BY <1>1, <2>1, <2>2, <2>0 DEF LatestOf
<1> QED
  BY <1>2, <1>3, <1>6, <1>7 DEF Frontier, LastRound

\* The first, and the last, element of a turn is what the choice finds.
LEMMA FirstIsChosen ==
    ASSUME NEW S, NEW s \in Seq(S), NEW t, NEW k \in 1 .. Len(s), s[k].turn = t,
           \A j \in 1 .. k - 1 : s[j].turn # t
    PROVE  k = CHOOSE l \in DOMAIN s : s[l].turn = t /\ \A j \in 1 .. l - 1 : s[j].turn # t
<1>1. DOMAIN s = 1 .. Len(s)
  OBVIOUS
<1>2. \A l \in 1 .. Len(s) :
        s[l].turn = t /\ (\A j \in 1 .. l - 1 : s[j].turn # t) => l = k
  OBVIOUS
<1> QED
  BY <1>1, <1>2

\* A position that is the last of turn t is the one a CHOOSE of the last position picks.
LEMMA LastIsChosen ==
    ASSUME NEW S, NEW s \in Seq(S), NEW t, NEW k \in 1 .. Len(s), s[k].turn = t,
           \A j \in 1 .. Len(s) : s[j].turn = t => j <= k
    PROVE  k = CHOOSE l \in DOMAIN s :
                  s[l].turn = t /\ \A j \in DOMAIN s : s[j].turn = t => j <= l
<1>1. DOMAIN s = 1 .. Len(s)
  OBVIOUS
<1>2. \A l \in 1 .. Len(s) :
        s[l].turn = t /\ (\A j \in 1 .. Len(s) : s[j].turn = t => j <= l) => l = k
  OBVIOUS
<1> QED
  BY <1>1, <1>2

\* A turn's Mote is the one its first fact names.
LEMMA MoteIsOpened ==
    /\ RoundsInv => \A t, k : Opens(k, t) => MoteOf(t) = TurnMote(t, rounds[k].text)
    /\ RoundsInv' => \A t, k : Opens(k, t)' => MoteOf(t)' = TurnMote(t, rounds'[k].text)
<1>1. ASSUME RoundsInv, NEW t, NEW k, Opens(k, t)
      PROVE  MoteOf(t) = TurnMote(t, rounds[k].text)
  BY <1>1, FirstIsChosen DEF RoundsInv, Opens, MoteOf
<1>2. ASSUME RoundsInv', NEW t, NEW k, Opens(k, t)'
      PROVE  MoteOf(t)' = TurnMote(t, rounds'[k].text)
  BY <1>2, FirstIsChosen DEF RoundsInv, Opens, MoteOf
<1> QED
  BY <1>1, <1>2

\* The last fact of a turn is what LatestOf finds.
LEMMA LatestIsClosed ==
    /\ RoundsInv => \A t, k : Closes(k, t) => LatestOf(t) = k
    /\ RoundsInv' => \A t, k : Closes(k, t)' => LatestOf(t)' = k
<1>1. ASSUME RoundsInv, NEW t, NEW k, Closes(k, t)
      PROVE  LatestOf(t) = k
  BY <1>1, LastIsChosen DEF RoundsInv, Closes, LatestOf
<1>2. ASSUME RoundsInv', NEW t, NEW k, Closes(k, t)'
      PROVE  LatestOf(t)' = k
  BY <1>2, LastIsChosen DEF RoundsInv, Closes, LatestOf
<1> QED
  BY <1>1, <1>2

-----------------------------------------------------------------------------
(* The facts only grow *)

\* Appending what the passes append keeps the order of the facts.
LEMMA GrowKeepsOrder ==
    ASSUME RoundsInv, RoundsGrow
    PROVE  RoundsInv'
<1> USE ReactAssumption DEF ReactAssumption
<1>1. CASE rounds' = rounds
  BY <1>1 DEF RoundsInv, Ordered, Opened, Closed, PendingOpens, FinalIsLast, Opens,
              Closes, HasTurn
<1>2. ASSUME NEW r \in Rounds, Appendable(r), rounds' = Append(rounds, r)
      PROVE  RoundsInv'
  <2> DEFINE n == Len(rounds)
  <2>1. /\ rounds \in Seq(Rounds) /\ rounds' \in Seq(Rounds)
        /\ n \in Nat /\ Len(rounds') = n + 1
        /\ rounds'[n + 1] = r
        /\ \A k \in 1 .. n : rounds'[k] = rounds[k]
        /\ DOMAIN rounds = 1 .. n /\ DOMAIN rounds' = 1 .. n + 1
    BY <1>2 DEF RoundsInv
  <2>2. r.turn \in Turns /\ r.turn \in Nat
    BY DEF Rounds, Turns
  <2>3. \A k \in 1 .. n : rounds[k].turn \in Nat
    <3> SUFFICES ASSUME NEW k \in 1 .. n PROVE rounds[k].turn \in Nat
      OBVIOUS
    <3>1. rounds[k] \in Rounds
      BY <2>1
    <3> QED
      BY <3>1 DEF Rounds, Turns
  <2>4. CASE rounds = <<>>
    <3>1. n = 0 /\ r = Round(0, "Pending", "none", Base)
      BY <1>2, <2>4 DEF Appendable
    <3>2. r.turn = 0 /\ r.branch = "Pending"
      BY <3>1 DEF Round
    <3>3. Ordered' /\ PendingOpens' /\ FinalIsLast'
      BY <2>1, <3>1, <3>2 DEF Ordered, PendingOpens, FinalIsLast, Opens, Final
    <3>4. Opened'
      BY <2>1, <3>1, <3>2 DEF Opened, Opens, HasTurn
    <3>5. Closed'
      BY <2>1, <3>1, <3>2 DEF Closed, Closes, HasTurn
    <3> QED
      BY <2>1, <3>3, <3>4, <3>5 DEF RoundsInv
  <2>5. CASE rounds # <<>>
    <3> HIDE DEF n
    <3>0. n \in 1 .. n
      BY <2>1, <2>5 DEF n
    <3>1. /\ Top = rounds[n].turn /\ LastRound = rounds[n] /\ Top \in Nat
          /\ \A k \in 1 .. n : rounds[k].turn <= Top
      BY <2>1, <2>3, <3>0 DEF RoundsInv, Ordered, Top, LastRound, n
    <3>2. /\ LastRound.branch \notin Final
          /\ \/ r.turn = Top /\ r.branch # "Pending"
             \/ r.turn = Top + 1 /\ r.branch = "Pending"
      BY <1>2, <2>5 DEF Appendable, Round, n
    <3>3. Top <= r.turn
      BY <2>2, <3>1, <3>2
    <3>4. Ordered'
      <4>1. \A j, k \in 1 .. n : j <= k => rounds[j].turn <= rounds[k].turn
        BY DEF RoundsInv, Ordered, n
      <4>2. rounds[1].turn = 0
        BY <2>5 DEF RoundsInv, Ordered
      <4>3. \A k \in 1 .. n : rounds[k].turn <= r.turn
        BY <2>2, <2>3, <3>1, <3>3
      <4>4. \A j, k \in 1 .. n + 1 : j <= k => rounds'[j].turn <= rounds'[k].turn
        BY <2>1, <2>2, <4>1, <4>3
      <4> QED
        BY <2>1, <3>0, <4>2, <4>4 DEF Ordered
    <3>5. Opened'
      <4> SUFFICES ASSUME NEW t \in Turns, HasTurn(t)'
                   PROVE  \E k \in 1 .. n + 1 : Opens(k, t)'
        BY <2>1 DEF Opened
      <4>1. CASE HasTurn(t)
        <5>1. PICK k \in 1 .. n : Opens(k, t)
          BY <4>1 DEF RoundsInv, Opened, n
        <5> QED
          BY <2>1, <5>1 DEF Opens, n
      <4>2. CASE ~HasTurn(t)
        <5>1. r.turn = t /\ \A k \in 1 .. n : rounds[k].turn # t
          BY <2>1, <4>2 DEF HasTurn
        <5> QED
          BY <2>1, <5>1 DEF Opens
      <4> QED
        BY <4>1, <4>2
    <3>6. Closed'
      <4> SUFFICES ASSUME NEW t \in Turns, HasTurn(t)'
                   PROVE  \E k \in 1 .. n + 1 : Closes(k, t)'
        BY <2>1 DEF Closed
      <4>1. CASE r.turn = t
        BY <2>1, <4>1 DEF Closes
      <4>2. CASE r.turn # t
        <5>1. HasTurn(t)
          BY <2>1, <4>2 DEF HasTurn
        <5>2. PICK k \in 1 .. n : Closes(k, t)
          BY <5>1 DEF RoundsInv, Closed, n
        <5> QED
          <6>1. \A j \in 1 .. n + 1 : rounds'[j].turn = t => j \in 1 .. n /\ rounds[j].turn = t
            BY <2>1, <4>2
          <6>2. k \in 1 .. n + 1 /\ rounds'[k].turn = t
            BY <2>1, <5>2 DEF Closes
          <6>3. \A j \in 1 .. n : rounds[j].turn = t => j <= k
            BY <5>2 DEF Closes, n
          <6> QED
            BY <2>1, <6>1, <6>2, <6>3 DEF Closes
      <4> QED
        BY <4>1, <4>2
    <3>7. PendingOpens'
      <4> SUFFICES ASSUME NEW k \in 1 .. n + 1, rounds'[k].branch = "Pending",
                          NEW j \in 1 .. k - 1
                   PROVE  rounds'[j].turn # rounds'[k].turn
        BY <2>1 DEF PendingOpens, Opens
      <4>0. j \in 1 .. n
        BY <2>1
      <4>1. CASE k \in 1 .. n
        <5>1. Opens(k, rounds[k].turn)
          BY <2>1, <4>1 DEF RoundsInv, PendingOpens, n
        <5> QED
          BY <2>1, <4>0, <4>1, <5>1 DEF Opens
      <4>2. CASE k = n + 1
        <5>1. r.turn = Top + 1
          BY <2>1, <3>2, <4>2
        <5>2. rounds[j].turn # r.turn
          BY <2>3, <3>1, <4>0, <5>1
        <5> QED
          BY <2>1, <4>0, <4>2, <5>2
      <4> QED
        BY <2>1, <4>1, <4>2
    <3>8. FinalIsLast'
      <4>1. \A k \in 1 .. n : rounds[k].branch \in Final => k = n
        BY DEF RoundsInv, FinalIsLast, n
      <4>2. \A k \in 1 .. n : rounds[k].branch \notin Final
        BY <3>1, <3>2, <4>1
      <4> QED
        BY <2>1, <4>2 DEF FinalIsLast
    <3> QED
      BY <2>1, <3>4, <3>5, <3>6, <3>7, <3>8 DEF RoundsInv
  <2> QED
    BY <2>4, <2>5
<1> QED
  BY <1>1, <1>2 DEF RoundsGrow

\* The output of a committed Mote does not change.
OutputsStay ==
    /\ committed \subseteq committed'
    /\ \A m \in committed \cap TurnMotes : output'[m] = output[m]

CallsOf(t) == OutputOf(t).calls
CallAt(m) == CallsOf(m.turn)[m.slot]

\* The committed output of turn t proposes calls.
Decided(t) ==
    /\ HasTurn(t) /\ MoteOf(t) \in committed
    /\ ~OutputOf(t).refused /\ CallsOf(t) # <<>>

\* No turn is above the last fact's.
LEMMA TopIsHighest ==
    ASSUME RoundsInv, NEW t, HasTurn(t)
    PROVE  rounds # <<>> /\ t \in Turns /\ t <= Top
<1>1. PICK k \in 1 .. Len(rounds) : rounds[k].turn = t
  BY DEF HasTurn, RoundsInv
<1>2. rounds[k] \in Rounds
  BY DEF RoundsInv
<1> QED
  BY <1>1, <1>2 DEF RoundsInv, Ordered, Top, LastRound, Rounds

\* A fact is a fact of a turn the chain has.
LEMMA FactHasTurn ==
    ASSUME NEW t, NEW b, HasFact(t, b)
    PROVE  HasTurn(t)
  BY DEF HasFact, HasTurn

\* What an appended fact adds.
LEMMA AppendAdds ==
    ASSUME RoundsInv, NEW r \in Rounds, rounds' = Append(rounds, r)
    PROVE  /\ rounds' # <<>> /\ LastRound' = r /\ Top' = r.turn
           /\ \A t : HasTurn(t)' <=> HasTurn(t) \/ t = r.turn
           /\ \A t, b : HasFact(t, b)' <=> HasFact(t, b) \/ (t = r.turn /\ b = r.branch)
<1> DEFINE n == Len(rounds)
<1>1. /\ n \in Nat /\ Len(rounds') = n + 1 /\ rounds'[n + 1] = r
      /\ \A k \in 1 .. n : rounds'[k] = rounds[k]
      /\ DOMAIN rounds = 1 .. n /\ DOMAIN rounds' = 1 .. n + 1
  BY DEF RoundsInv
<1> HIDE DEF n
<1>2. rounds' # <<>> /\ LastRound' = r /\ Top' = r.turn
  BY <1>1 DEF LastRound, Top
<1>3. \A t : HasTurn(t)' <=> HasTurn(t) \/ t = r.turn
  BY <1>1 DEF HasTurn
<1>4. \A t, b : HasFact(t, b)' <=> HasFact(t, b) \/ (t = r.turn /\ b = r.branch)
  BY <1>1 DEF HasFact
<1> QED
  BY <1>2, <1>3, <1>4

\* A turn that the chain has keeps its Mote.
LEMMA MoteStays ==
    ASSUME RoundsInv, RoundsGrow, NEW t \in Turns, HasTurn(t)
    PROVE  HasTurn(t)' /\ MoteOf(t)' = MoteOf(t) /\ MoteOf(t) \in TurnMotes
<1>1. RoundsInv'
  BY GrowKeepsOrder
<1>2. PICK k \in 1 .. Len(rounds) : Opens(k, t)
  BY DEF RoundsInv, Opened
<1>3. rounds[k] \in Rounds
  BY DEF RoundsInv
<1>4. MoteOf(t) = TurnMote(t, rounds[k].text)
  BY <1>2, MoteIsOpened
<1>5. rounds' # rounds => \E r \in Rounds : rounds' = Append(rounds, r)
  BY DEF RoundsGrow
<1>6. /\ \A j \in 1 .. Len(rounds) : rounds'[j] = rounds[j]
      /\ Len(rounds) \in Nat /\ Len(rounds') \in Nat /\ Len(rounds) <= Len(rounds')
  BY <1>5 DEF RoundsInv
<1>7. Opens(k, t)'
  BY <1>2, <1>6 DEF Opens
<1>8. MoteOf(t)' = TurnMote(t, rounds'[k].text)
  BY <1>1, <1>7, MoteIsOpened
<1>9. rounds'[k] = rounds[k]
  BY <1>2, <1>6
<1>10. MoteOf(t) \in TurnMotes
  BY <1>3, <1>4 DEF TurnMotes, Rounds
<1>11. HasTurn(t)'
  BY <1>1, <1>7 DEF HasTurn, Opens, RoundsInv
<1> QED
  BY <1>4, <1>8, <1>9, <1>10, <1>11

\* What a turn's committed output decodes to stays.
LEMMA DecidedStays ==
    ASSUME RoundsInv, RoundsGrow, OutputsStay, NEW t \in Turns, Decided(t)
    PROVE  /\ Decided(t)'
           /\ OutputOf(t)' = OutputOf(t) /\ CallsOf(t)' = CallsOf(t)
<1>1. HasTurn(t)' /\ MoteOf(t)' = MoteOf(t) /\ MoteOf(t) \in TurnMotes
  BY MoteStays DEF Decided
<1>2. MoteOf(t) \in committed /\ MoteOf(t)' \in committed'
  BY <1>1 DEF Decided, OutputsStay
<1>3. OutputOf(t)' = OutputOf(t)
  BY <1>1, <1>2 DEF OutputOf, OutputsStay
<1> QED
  BY <1>1, <1>2, <1>3 DEF Decided, CallsOf

-----------------------------------------------------------------------------
(* The invariant of the facts and the passes *)

\* The passes work on a chain that has begun, and not on a final branch.
PassAtWork ==
    /\ pc.at \in {"calls", "gate", "advance", "final"} => rounds # <<>>
    /\ pc.at \in {"calls", "gate", "advance"} => LastRound.branch \notin Final

\* Calls are worked on only of a turn whose committed output proposes them.
DecidedInv ==
    /\ \A t \in Turns : HasFact(t, "Tool") => Decided(t)
    /\ pc.at \in {"calls", "gate"} => Decided(Top)
    /\ pc.at = "calls" => pc.call <= Len(CallsOf(Top))

ChainInv == TypeOK /\ RoundsInv /\ PassAtWork /\ DecidedInv

\* The calls of a decided turn are calls, and no more than a batch holds.
LEMMA DecidedOutput ==
    ASSUME TypeOK, RoundsInv, NEW t \in Turns, Decided(t)
    PROVE  /\ OutputOf(t) \in Outputs /\ CallsOf(t) \in Seq(Calls)
           /\ Len(CallsOf(t)) \in 1 .. MaxBatch
<1> USE ReactAssumption DEF ReactAssumption
<1>1. MoteOf(t) \in TurnMotes
  <2>2. PICK k \in 1 .. Len(rounds) : Opens(k, t)
    BY DEF RoundsInv, Opened, Decided
  <2>3. rounds[k] \in Rounds
    BY DEF RoundsInv
  <2> QED
    BY <2>2, <2>3, MoteIsOpened DEF TurnMotes, Rounds
<1>2. OutputOf(t) \in Outputs \cup {NoOutput}
  BY <1>1 DEF OutputOf, TypeOK
<1>3. OutputOf(t) # NoOutput
  BY DEF Decided, NoOutput
<1>4. OutputOf(t) \in Outputs
  BY <1>2, <1>3
<1>5. OutputOf(t) \in [calls : Seq(Calls), refused : BOOLEAN]
  BY <1>4
<1>6. CallsOf(t) \in Seq(Calls) /\ CallsOf(t) # <<>>
  BY <1>5 DEF CallsOf, Decided
<1>7. Len(CallsOf(t)) <= MaxBatch
  BY <1>4 DEF CallsOf, Decided
<1> QED
  BY <1>4, <1>6, <1>7

\* A step keeps the invariant of the passes if they stay at work on the same turn.
LEMMA PassKept ==
    ASSUME ChainInv, RoundsGrow, OutputsStay,
           \A t \in Turns : HasFact(t, "Tool")' => HasFact(t, "Tool") \/ Decided(t),
           \/ pc'.at \in {"idle", "launch", "rerank", "drive"}
           \/ pc'.at = "final" /\ rounds # <<>>
           \/ pc'.at = "advance" /\ rounds # <<>> /\ LastRound'.branch \notin Final
           \/ /\ pc'.at \in {"calls", "gate"} /\ rounds # <<>>
              /\ LastRound'.branch \notin Final /\ Top' = Top /\ Decided(Top)
              /\ pc'.at = "calls" => pc'.call <= Len(CallsOf(Top))
    PROVE  RoundsInv' /\ PassAtWork' /\ DecidedInv'
<1> USE DEF ChainInv
<1>1. RoundsInv'
  BY GrowKeepsOrder
<1>2. rounds # <<>> => rounds' # <<>>
  BY AppendAdds DEF RoundsGrow
<1>3. PassAtWork'
  BY <1>2 DEF PassAtWork
<1>4. \A t \in Turns : Decided(t) => Decided(t)' /\ CallsOf(t)' = CallsOf(t)
  BY DecidedStays
<1>5. \A t \in Turns : HasFact(t, "Tool")' => Decided(t)'
  BY <1>4 DEF DecidedInv
<1>6. rounds # <<>> => Top \in Turns
  BY FrontierIsLast
<1>7. pc'.at \in {"calls", "gate"} => Decided(Top)' /\ CallsOf(Top)' = CallsOf(Top)
  <2> SUFFICES ASSUME pc'.at \in {"calls", "gate"}
               PROVE  Decided(Top)' /\ CallsOf(Top)' = CallsOf(Top)
    OBVIOUS
  <2>1. Top' = Top /\ Decided(Top) /\ Top \in Turns
    BY <1>6
  <2> QED
    BY <1>4, <2>1
<1>8. pc'.at = "calls" => pc'.call <= Len(CallsOf(Top))
  OBVIOUS
<1> QED
  BY <1>1, <1>3, <1>5, <1>7, <1>8 DEF DecidedInv

\* Recording a branch of the turn at work, or the next turn, lets the facts grow.
LEMMA BranchGrows ==
    ASSUME RoundsInv, rounds # <<>>, LastRound.branch \notin Final,
           NEW r \in Rounds, NEW ok, append_react_branch(r, ok),
           \/ r.turn = Top /\ r.branch # "Pending"
           \/ r.turn = Top + 1 /\ r.branch = "Pending"
    PROVE  /\ RoundsGrow
           /\ rounds' = rounds \/ (ok /\ rounds' = Append(rounds, r))
           /\ \A t : HasFact(t, "Tool")' =>
                        HasFact(t, "Tool") \/ (r.branch = "Tool" /\ t = r.turn)
           /\ rounds' # rounds => LastRound' = r /\ Top' = r.turn
<1>1. rounds' = rounds \/ (ok /\ rounds' = Append(rounds, r))
  BY DEF append_react_branch
<1>2. RoundsGrow
  BY <1>1 DEF RoundsGrow, Appendable
<1>3. CASE rounds' = rounds
  BY <1>1, <1>2, <1>3 DEF HasFact
<1>4. CASE rounds' = Append(rounds, r)
  BY <1>1, <1>2, <1>4, AppendAdds
<1> QED
  BY <1>1, <1>3, <1>4

Places == {"idle", "launch", "rerank", "drive", "calls", "gate", "advance", "final"}
PcType == [at : Places, call : 0 .. MaxBatch, all : BOOLEAN]
FaultType == [Faults -> 0 .. MaxFaults]

\* A fault is counted within its bound, and an append that fails is one.
LEMMA ChargeKept ==
    ASSUME faults \in FaultType
    PROVE  /\ \A f \in Faults : Fault(f) =>
                 /\ faults' \in FaultType /\ faults'[f] = faults[f] + 1
                 /\ \A g \in Faults \ {f} : faults'[g] = faults[g]
           /\ \A ok \in BOOLEAN : Charge(ok) =>
                 /\ faults' \in FaultType
                 /\ faults'["append"] = IF ok THEN faults["append"] ELSE faults["append"] + 1
<1> USE ReactAssumption DEF ReactAssumption
<1>1. ASSUME NEW f \in Faults, Fault(f)
      PROVE  /\ faults' \in FaultType /\ faults'[f] = faults[f] + 1
             /\ \A g \in Faults \ {f} : faults'[g] = faults[g]
  BY <1>1 DEF Fault, Faults, FaultType
<1> QED
  BY <1>1 DEF Charge, Faults

\* A place in the passes.
LEMMA AtType ==
    ASSUME NEW p \in Places
    PROVE  At(p) \in PcType /\ At(p).at = p /\ At(p).call = 0 /\ At(p).all = TRUE
  BY ReactAssumption DEF ReactAssumption, At, PcType

\* The variables of the passes and the faults, apart from the rest.
LEMMA TypeParts ==
    /\ TypeOK => pc \in PcType /\ faults \in FaultType
    /\ /\ rounds' \in Seq(Rounds)
       /\ committed' \subseteq Motes /\ failed' \subseteq Motes
       /\ crashed' \subseteq Motes /\ staged' \subseteq Motes
       /\ output' \in [TurnMotes -> Outputs \cup {NoOutput}]
       /\ requested' \subseteq Motes /\ granted' \subseteq requested'
       /\ denied' \subseteq requested'
       /\ reranking' \subseteq Turns /\ reranked' \subseteq reranking'
       /\ defs' \subseteq Motes /\ leased' \subseteq Motes /\ slow' \subseteq Motes
       /\ declared' \in BOOLEAN /\ parked' \in BOOLEAN /\ settled' \in BOOLEAN
       /\ pc' \in PcType /\ faults' \in FaultType
       /\ kind' \in {"run", "launch"}
       /\ input' \in {"pending", "committed", "lost", "crashed"}
       /\ registered' \subseteq Calls /\ ran' \subseteq Motes
       => TypeOK'
  BY DEF TypeOK, PcType, Places, FaultType

\* What the client's submit and the launch pass do to the facts.
LEMMA LaunchSteps ==
    ASSUME ChainInv,
           \/ \E ok \in BOOLEAN : SubmitSeed(ok) \/ LaunchUnsatisfiable(ok) \/ AnchorLaunch(ok)
           \/ SubmitLaunch \/ BeginPass \/ LaunchWaits \/ UnparkLaunch
    PROVE  RoundsGrow /\ OutputsStay /\ ChainInv'
<1> USE ReactAssumption DEF ChainInv, ReactAssumption
<1> DEFINE first == Round(0, "Pending", "none", Base)
<1>1. first \in Rounds /\ first.branch = "Pending" /\ first.turn = 0
  BY DEF Round, Rounds, Turns, Texts, Base, Branches, Reasons
<1>2. TurnMote(0, Base) \in Motes /\ Launch \in Motes
  BY DEF TurnMote, Launch, Mote, Motes, Texts, Base, Turns
<1>3. ~Anchored => rounds = <<>>
  BY FrontierIsLast
<1>4. ASSUME rounds' = rounds \/ (rounds = <<>> /\ rounds' = Append(rounds, first))
      PROVE  /\ RoundsGrow
             /\ \A t : HasFact(t, "Tool")' => HasFact(t, "Tool")
  <2>1. RoundsGrow
    BY <1>1, <1>4 DEF RoundsGrow, Appendable
  <2>2. CASE rounds' = rounds
    BY <2>1, <2>2 DEF HasFact
  <2>3. CASE rounds' = Append(rounds, first)
    BY <1>1, <2>1, <2>3, AppendAdds
  <2> QED
    BY <1>4, <2>2, <2>3
<1> HIDE DEF first
<1>0. At("launch") \in PcType /\ At("rerank") \in PcType
  BY AtType DEF Places
<1>00. faults \in FaultType /\ pc \in PcType
  BY TypeParts
<1>5. rounds \in Seq(Rounds) => (rounds' = rounds \/ rounds' = Append(rounds, first)
                                   => rounds' \in Seq(Rounds))
  BY <1>1
<1>6. ASSUME NEW ok \in BOOLEAN, SubmitSeed(ok)
      PROVE  RoundsGrow /\ OutputsStay /\ ChainInv'
  <2>1. rounds' = rounds \/ (rounds = <<>> /\ rounds' = Append(rounds, first))
    BY <1>3, <1>6 DEF SubmitSeed, first
  <2>2. OutputsStay
    BY <1>6 DEF SubmitSeed, OutputsStay
  <2>3. TypeOK'
    BY <1>2, <1>5, <1>6, <1>00, <2>1, ChargeKept, TypeParts DEF SubmitSeed, TypeOK, world
  <2>4. pc'.at = "idle"
    BY <1>6 DEF SubmitSeed, Idle, At
  <2> QED
    BY <1>4, <2>1, <2>2, <2>3, <2>4, PassKept
<1>7. ASSUME NEW ok \in BOOLEAN, LaunchUnsatisfiable(ok)
      PROVE  RoundsGrow /\ OutputsStay /\ ChainInv'
  <2>1. rounds' = rounds
    BY <1>7 DEF LaunchUnsatisfiable
  <2>2. OutputsStay
    BY <1>7 DEF LaunchUnsatisfiable, DeadLetterLaunch, OutputsStay
  <2>3. TypeOK'
    BY <1>0, <1>2, <1>7, <1>00, ChargeKept, TypeParts
       DEF LaunchUnsatisfiable, DeadLetterLaunch, TypeOK, world
  <2>4. pc'.at = "rerank"
    BY <1>7 DEF LaunchUnsatisfiable, At
  <2> QED
    BY <1>4, <2>1, <2>2, <2>3, <2>4, PassKept
<1>8. ASSUME NEW ok \in BOOLEAN, AnchorLaunch(ok)
      PROVE  RoundsGrow /\ OutputsStay /\ ChainInv'
  <2>1. rounds' = rounds \/ (rounds = <<>> /\ rounds' = Append(rounds, first))
    BY <1>3, <1>8 DEF AnchorLaunch, append_react_branch, first
  <2>2. OutputsStay
    BY <1>8 DEF AnchorLaunch, OutputsStay
  <2>3. TypeOK'
    BY <1>0, <1>2, <1>5, <1>8, <1>00, <2>1, ChargeKept, TypeParts DEF AnchorLaunch, TypeOK, world
  <2>4. pc'.at = "rerank"
    BY <1>8 DEF AnchorLaunch, At
  <2> QED
    BY <1>4, <2>1, <2>2, <2>3, <2>4, PassKept
<1>9. ASSUME SubmitLaunch \/ BeginPass \/ LaunchWaits \/ UnparkLaunch
      PROVE  RoundsGrow /\ OutputsStay /\ ChainInv'
  <2> USE DEF SubmitLaunch, BeginPass, LaunchWaits, UnparkLaunch
  <2>1. rounds' = rounds
    BY <1>9 DEF facts
  <2>2. OutputsStay
    BY <1>9 DEF OutputsStay, facts
  <2>3. TypeOK'
    BY <1>0, <1>2, <1>9, <1>00, TypeParts DEF TypeOK, facts, dispatch, world
  <2>4. pc'.at \in {"idle", "launch", "rerank"}
    BY <1>9 DEF Idle, At
  <2> QED
    BY <1>4, <2>1, <2>2, <2>3, <2>4, PassKept
<1> QED
  BY <1>6, <1>7, <1>8, <1>9

\* What StateOf tells apart.
LEMMA StateIs ==
    ASSUME NEW m
    PROVE  /\ StateOf(m) = "Committed" <=> m \in committed
           /\ StateOf(m) = "Failed" <=> m \notin committed /\ m \in failed
           /\ StateOf(m) = "Crashed" <=> m \notin committed \cup failed /\ m \in crashed \ staged
           /\ StateOf(m) = "Pending" <=> m \notin committed \cup failed \cup (crashed \ staged)
           /\ StateOf(m) \in {"Committed", "Failed", "Crashed", "Pending"}
  BY DEF StateOf

\* The tools of turn t.
ToolsOf(t) == {CallsOf(t)[i] : i \in DOMAIN CallsOf(t)}

\* What a committed output is frozen to, and why.
LEMMA DecisionIs ==
    ASSUME TypeOK, RoundsInv, NEW t \in Turns, HasTurn(t)
    PROVE  /\ Decision(t) \in Rounds /\ Decision(t).turn = t
           /\ Decision(t).branch \in {"Rejected", "Answer", "Tool"}
           /\ Decision(t).branch = "Tool" =>
                 /\ ~OutputOf(t).refused /\ CallsOf(t) # <<>>
                 /\ ToolsOf(t) \subseteq registered
                 /\ ~(Len(CallsOf(t)) = 1 /\ ToolsOf(t) \subseteq PriorFired(t))
           /\ Decision(t).branch = "Rejected" =>
                 \/ OutputOf(t).refused
                 \/ Len(CallsOf(t)) = 1 /\ ToolsOf(t) \subseteq PriorFired(t)
                 \/ ~(ToolsOf(t) \subseteq registered)
           /\ Decision(t).branch = "Answer" => CallsOf(t) = <<>>
<1> USE ReactAssumption DEF ReactAssumption
<1>1. MoteOf(t) \in TurnMotes
  <2>1. PICK k \in 1 .. Len(rounds) : Opens(k, t)
    BY DEF RoundsInv, Opened
  <2>2. rounds[k] \in Rounds
    BY DEF RoundsInv
  <2> QED
    BY <2>1, <2>2, MoteIsOpened DEF TurnMotes, Rounds
<1>2. OutputOf(t).refused \in BOOLEAN
  <2>1. OutputOf(t) \in Outputs \cup {NoOutput}
    BY <1>1 DEF OutputOf, TypeOK
  <2>2. NoOutput.refused = TRUE
    BY DEF NoOutput
  <2> QED
    BY <2>1, <2>2
<1> DEFINE refused == OutputOf(t).refused
           dup == Len(CallsOf(t)) = 1 /\ ToolsOf(t) \subseteq PriorFired(t)
           r1 == Round(t, "Rejected", "refused", Base)
           r2 == Round(t, "Answer", "none", Base)
           r3 == Round(t, "Rejected", "duplicate", Base)
           r4 == Round(t, "Tool", "none", Base)
<1>3. Decision(t) = CASE refused -> r1
                      [] ~refused /\ CallsOf(t) = <<>> -> r2
                      [] ~refused /\ dup -> r3
                      [] ~refused /\ CallsOf(t) # <<>> /\ ~dup
                            -> IF ToolsOf(t) \subseteq registered THEN r4 ELSE r1
  BY DEF Decision, CallsOf, ToolsOf
<1>4. /\ r1 \in Rounds /\ r2 \in Rounds /\ r3 \in Rounds /\ r4 \in Rounds
      /\ r1.turn = t /\ r2.turn = t /\ r3.turn = t /\ r4.turn = t
      /\ r1.branch = "Rejected" /\ r2.branch = "Answer" /\ r3.branch = "Rejected"
      /\ r4.branch = "Tool"
  BY DEF Round, Rounds, Branches, Reasons, Texts, Base
<1>5. refused \in BOOLEAN /\ dup \in BOOLEAN
  BY <1>2
<1>6. dup => CallsOf(t) # <<>>
  OBVIOUS
<1> HIDE DEF r1, r2, r3, r4, dup, refused
<1>7. \/ refused /\ Decision(t) = r1
      \/ ~refused /\ CallsOf(t) = <<>> /\ Decision(t) = r2
      \/ ~refused /\ dup /\ Decision(t) = r3
      \/ /\ ~refused /\ CallsOf(t) # <<>> /\ ~dup
         /\ \/ ToolsOf(t) \subseteq registered /\ Decision(t) = r4
            \/ ~(ToolsOf(t) \subseteq registered) /\ Decision(t) = r1
  BY <1>3, <1>5, <1>6
<1> QED
  BY <1>4, <1>7 DEF dup, refused

\* A step that keeps the facts of the chain, and the passes out of the calls.
LEMMA FactsKept ==
    ASSUME ChainInv, rounds' = rounds, OutputsStay,
           \/ pc'.at \in {"idle", "launch", "rerank", "drive"}
           \/ pc'.at \in {"advance", "final"} /\ rounds # <<>> /\ LastRound.branch \notin Final
           \/ pc'.at = "final" /\ rounds # <<>>
           \/ /\ pc'.at \in {"calls", "gate"} /\ rounds # <<>>
              /\ LastRound.branch \notin Final /\ Decided(Top)
              /\ pc'.at = "calls" => pc'.call <= Len(CallsOf(Top))
    PROVE  RoundsGrow /\ RoundsInv' /\ PassAtWork' /\ DecidedInv'
<1>1. RoundsGrow
  BY DEF RoundsGrow
<1>2. LastRound' = LastRound /\ Top' = Top
  BY DEF LastRound, Top
<1>3. \A t : HasFact(t, "Tool")' <=> HasFact(t, "Tool")
  BY DEF HasFact
<1> QED
  BY <1>1, <1>2, <1>3, PassKept

\* The rerank pass, and the drive of a chain.
LEMMA DriveSteps ==
    ASSUME ChainInv,
           \/ \E ok \in BOOLEAN : SettleReranks(ok) \/ Freeze(ok)
           \/ LeaveChain \/ Drive
    PROVE  RoundsGrow /\ OutputsStay /\ ChainInv'
<1> USE ReactAssumption DEF ChainInv, ReactAssumption
<1>1. faults \in FaultType /\ pc \in PcType
  BY TypeParts
<1>2. At("drive") \in PcType /\ At("drive").at = "drive" /\ Idle \in PcType /\ Idle.at = "idle"
  BY AtType DEF Places, Idle
<1>3. ASSUME NEW ok \in BOOLEAN, SettleReranks(ok)
      PROVE  RoundsGrow /\ OutputsStay /\ ChainInv'
  <2>1. rounds' = rounds /\ OutputsStay /\ pc'.at = "drive"
    BY <1>2, <1>3 DEF SettleReranks, OutputsStay
  <2>2. TypeOK'
    BY <1>1, <1>2, <1>3, ChargeKept, TypeParts
       DEF SettleReranks, OpenReranks, TypeOK, dispatch, world
  <2> QED
    BY <2>1, <2>2, FactsKept
<1>4. CASE LeaveChain
  <2>1. rounds' = rounds /\ OutputsStay /\ pc'.at = "idle"
    BY <1>2, <1>4 DEF LeaveChain, OutputsStay, facts
  <2>2. TypeOK'
    BY <1>1, <1>2, <1>4, TypeParts DEF LeaveChain, TypeOK, facts, dispatch, world
  <2> QED
    BY <2>1, <2>2, FactsKept
<1>5. CASE Drive
  <2>1. rounds' = rounds /\ OutputsStay /\ rounds # <<>>
    BY <1>5 DEF Drive, OutputsStay, facts, Quiescent, Anchored
  <2>2. /\ Frontier = LastRound /\ LastRound \in Rounds /\ Top \in Turns
        /\ LastRound.branch \in Branches \ {"Pending"}
    BY <1>5, <2>1, FrontierIsLast DEF Drive, Rounds
  <2>3. LastRound.branch = "Tool" => Decided(Top)
    <3>1. LastRound.branch = "Tool" => HasFact(Top, "Tool")
      BY <2>1 DEF HasFact, Top, LastRound, RoundsInv
    <3> QED
      BY <2>2, <3>1 DEF DecidedInv
  <2>4. \/ LastRound.branch = "Tool" /\ pc' = At("calls")
        \/ LastRound.branch = "Rejected" /\ pc' = At("advance")
        \/ LastRound.branch \in Final /\ pc' = At("final")
    BY <1>5, <2>2 DEF Drive, DriveTo, Branches, Final
  <2>5. /\ pc' \in PcType /\ pc'.call = 0
        /\ \/ LastRound.branch = "Tool" /\ pc'.at = "calls"
           \/ LastRound.branch = "Rejected" /\ pc'.at = "advance"
           \/ LastRound.branch \in Final /\ pc'.at = "final"
    BY <2>4, AtType DEF Places
  <2>6. TypeOK'
    BY <1>1, <1>5, <2>5, TypeParts DEF Drive, TypeOK, facts, dispatch, world
  <2>7. LastRound.branch = "Tool" => 0 <= Len(CallsOf(Top))
    BY <2>2, <2>3, DecidedOutput
  <2> QED
    BY <2>1, <2>3, <2>5, <2>6, <2>7, FactsKept DEF Final
<1>6. ASSUME NEW ok \in BOOLEAN, Freeze(ok)
      PROVE  RoundsGrow /\ OutputsStay /\ ChainInv'
  <2>1. OutputsStay /\ rounds # <<>>
    BY <1>6 DEF Freeze, OutputsStay, Quiescent, Anchored
  <2>2. /\ Frontier = LastRound /\ LastRound \in Rounds /\ Top \in Turns
        /\ FrontierTurn = Top /\ LastRound.branch = "Pending" /\ HasTurn(Top) /\ Anchored
    BY <1>6, <2>1, FrontierIsLast DEF Freeze
  <2> DEFINE r == IF StateOf(MoteOf(Top)) = "Failed" THEN DeadLettered(Top) ELSE Decision(Top)
  <2>3. append_react_branch(r, ok) /\ pc' = At(DriveTo(r.branch))
    BY <1>6, <2>2 DEF Freeze
  <2>4. StateOf(MoteOf(Top)) # "Failed" => MoteOf(Top) \in committed
    BY <1>6, <2>2, StateIs DEF Freeze, Quiescent
  <2>5. /\ r \in Rounds /\ r.turn = Top
        /\ r.branch \in {"Rejected", "Answer", "Tool", "DeadLettered"}
        /\ r.branch = "Tool" => Decided(Top)
    <3>1. CASE StateOf(MoteOf(Top)) = "Failed"
      BY <2>2, <3>1 DEF DeadLettered, Round, Rounds, Branches, Texts, Base
    <3>2. CASE StateOf(MoteOf(Top)) # "Failed"
      BY <2>2, <2>4, <3>2, DecisionIs DEF Decided
    <3> QED
      BY <3>1, <3>2
  <2> HIDE DEF r
  <2>6. /\ RoundsGrow
        /\ \A t : HasFact(t, "Tool")' => HasFact(t, "Tool") \/ (r.branch = "Tool" /\ t = r.turn)
        /\ rounds' # rounds => LastRound' = r /\ Top' = r.turn
    BY <2>1, <2>2, <2>3, <2>5, BranchGrows DEF Final
  <2>7. /\ pc' \in PcType /\ pc'.call = 0
        /\ \/ r.branch = "Tool" /\ pc'.at = "calls"
           \/ r.branch = "Rejected" /\ pc'.at = "advance"
           \/ r.branch \in Final /\ pc'.at = "final"
    BY <2>3, <2>5, AtType DEF Places, DriveTo, Final
  <2>8. /\ rounds' = rounds => LastRound' = LastRound /\ Top' = Top
    BY DEF LastRound, Top
  <2>9. rounds' \in Seq(Rounds)
    BY <2>6, GrowKeepsOrder DEF RoundsInv
  <2>10. TypeOK'
    BY <1>1, <1>6, <2>7, <2>9, ChargeKept, TypeParts DEF Freeze, TypeOK, dispatch, world
  <2>11. LastRound'.branch \in {LastRound.branch, r.branch} /\ Top' = Top
    BY <2>5, <2>6, <2>8
  <2>12. r.branch = "Tool" => 0 <= Len(CallsOf(Top))
    BY <2>2, <2>5, DecidedOutput
  <2> QED
    BY <2>1, <2>2, <2>5, <2>6, <2>7, <2>10, <2>11, <2>12, PassKept DEF Final
<1> QED
  BY <1>3, <1>4, <1>5, <1>6

\* Where the passes stand while they work on calls.
LEMMA AtWork ==
    ASSUME ChainInv, pc.at \in {"calls", "gate", "advance", "final"}
    PROVE  /\ rounds # <<>> /\ FrontierTurn = Top /\ Frontier = LastRound
           /\ Top \in Turns /\ LastRound \in Rounds /\ HasTurn(Top) /\ Anchored
           /\ pc.at # "final" => LastRound.branch \notin Final
           /\ pc.at \in {"calls", "gate"} =>
                 /\ Decided(Top) /\ Len(CallsOf(Top)) \in 1 .. MaxBatch
                 /\ Proposed = CallsOf(Top)
           /\ pc.at = "calls" => /\ pc.call \in 0 .. Len(CallsOf(Top))
                                 /\ Obs = ObsMote(Top, pc.call) /\ Call = CallsOf(Top)[pc.call]
<1> USE DEF ChainInv
<1>1. /\ rounds # <<>> /\ FrontierTurn = Top /\ Frontier = LastRound
      /\ Top \in Turns /\ LastRound \in Rounds /\ HasTurn(Top) /\ Anchored
  BY FrontierIsLast DEF PassAtWork
<1>2. pc.at # "final" => LastRound.branch \notin Final
  BY DEF PassAtWork
<1>3. pc.at \in {"calls", "gate"} => Decided(Top) /\ Len(CallsOf(Top)) \in 1 .. MaxBatch
  BY <1>1, DecidedOutput DEF DecidedInv
<1>4. Proposed = CallsOf(Top)
  BY <1>1 DEF Proposed, CallsOf
<1>5. pc.call \in 0 .. MaxBatch
  BY TypeParts DEF PcType
<1>6. pc.at = "calls" => pc.call \in 0 .. Len(CallsOf(Top))
  BY <1>3, <1>5, ReactAssumption DEF DecidedInv, ReactAssumption
<1> QED
  BY <1>1, <1>2, <1>3, <1>4, <1>6 DEF Obs, Call

\* On to the next call, past the last one, or away from the chain.
LEMMA NextCallIs ==
    ASSUME ChainInv, pc.at = "calls", NEW all \in BOOLEAN, NextCall(all)
    PROVE  /\ pc' \in PcType
           /\ \/ /\ pc'.at = "calls" /\ pc'.call = pc.call + 1 /\ pc'.all = all
                 /\ pc.call < Len(CallsOf(Top)) /\ pc'.call <= Len(CallsOf(Top))
              \/ pc'.at = "gate" /\ all /\ pc.call = Len(CallsOf(Top))
              \/ pc'.at = "idle" /\ pc' = Idle
<1>1. /\ pc.call \in 0 .. Len(CallsOf(Top)) /\ Len(CallsOf(Top)) \in 1 .. MaxBatch
      /\ Proposed = CallsOf(Top)
  BY AtWork
<1>2. MaxBatch \in Nat
  BY ReactAssumption DEF ReactAssumption
<1>3. /\ At("gate") \in PcType /\ At("gate").at = "gate"
      /\ Idle \in PcType /\ Idle.at = "idle"
  BY AtType DEF Places, Idle
<1>4. CASE pc.call < Len(CallsOf(Top))
  <2>1. pc' = [at |-> "calls", call |-> pc.call + 1, all |-> all]
    BY <1>1, <1>4 DEF NextCall
  <2> QED
    BY <1>1, <1>2, <1>4, <2>1 DEF PcType, Places
<1>5. CASE ~(pc.call < Len(CallsOf(Top)))
  BY <1>1, <1>3, <1>5 DEF NextCall
<1> QED
  BY <1>4, <1>5

\* A chain that is killed gets its dead letter.
LEMMA KillIs ==
    ASSUME ChainInv, pc.at = "calls", NEW ok \in BOOLEAN, KillChain(ok)
    PROVE  /\ RoundsGrow /\ OutputsStay /\ RoundsInv' /\ PassAtWork' /\ DecidedInv'
           /\ rounds' = rounds \/ (ok /\ rounds' = Append(rounds, DeadLettered(Top)))
           /\ pc' = At("final") /\ pc' \in PcType /\ faults' \in FaultType
<1> USE DEF ChainInv
<1>1. /\ rounds # <<>> /\ FrontierTurn = Top /\ Top \in Turns /\ LastRound.branch \notin Final
  BY AtWork
<1>2. /\ DeadLettered(Top) \in Rounds /\ DeadLettered(Top).turn = Top
      /\ DeadLettered(Top).branch = "DeadLettered"
  BY <1>1 DEF DeadLettered, Round, Rounds, Branches, Texts, Base
<1>3. append_react_branch(DeadLettered(Top), ok) /\ pc' = At("final")
  BY <1>1 DEF KillChain
<1>4. /\ RoundsGrow
      /\ rounds' = rounds \/ (ok /\ rounds' = Append(rounds, DeadLettered(Top)))
      /\ \A t : HasFact(t, "Tool")' => HasFact(t, "Tool")
  BY <1>1, <1>2, <1>3, BranchGrows
<1>5. At("final") \in PcType /\ At("final").at = "final"
  BY AtType DEF Places
<1>6. faults' \in FaultType
  BY ChargeKept, TypeParts DEF KillChain
<1>7. OutputsStay
  BY DEF KillChain, OutputsStay
<1> QED
  BY <1>1, <1>3, <1>4, <1>5, <1>6, <1>7, PassKept

\* The calls of a batch.
LEMMA CallSteps ==
    ASSUME ChainInv,
           \/ WithinCeiling \/ CallObserved \/ CallCrashed \/ materialize_react_tool
           \/ \E ok \in BOOLEAN : \/ OverCeiling(ok) \/ CallFailed(ok) \/ CallPermanent(ok)
                                  \/ Withhold(ok) \/ CallDenied(ok)
    PROVE  RoundsGrow /\ OutputsStay /\ ChainInv'
<1> USE ReactAssumption DEF ChainInv, ReactAssumption
<1>1. pc.at = "calls"
  BY DEF WithinCeiling, CallObserved, CallCrashed, materialize_react_tool, OverCeiling,
         CallFailed, CallPermanent, Withhold, CallDenied, AtCall, Dispatchable
<1>2. /\ rounds # <<>> /\ FrontierTurn = Top /\ Top \in Turns /\ LastRound.branch \notin Final
      /\ Decided(Top) /\ Obs = ObsMote(Top, pc.call)
      /\ Len(CallsOf(Top)) \in 1 .. MaxBatch /\ pc.call \in 0 .. Len(CallsOf(Top))
  BY <1>1, AtWork
<1>3. faults \in FaultType /\ pc \in PcType /\ pc.all \in BOOLEAN
  BY TypeParts DEF PcType
<1>4. Obs \in Motes
  BY <1>2 DEF ObsMote, Mote, Motes, Texts, Base
<1>5. Idle \in PcType /\ Idle.at = "idle"
  BY AtType DEF Places, Idle
<1>6. ASSUME NEW all \in BOOLEAN, NextCall(all), UNCHANGED <<rounds, committed, output>>
      PROVE  /\ pc' \in PcType /\ OutputsStay
             /\ RoundsGrow /\ RoundsInv' /\ PassAtWork' /\ DecidedInv'
  <2>1. OutputsStay
    BY <1>6 DEF OutputsStay
  <2>2. /\ pc' \in PcType
        /\ \/ pc'.at = "calls" /\ pc'.call <= Len(CallsOf(Top))
           \/ pc'.at = "gate" \/ pc'.at = "idle"
    BY <1>1, <1>6, NextCallIs
  <2>3. RoundsGrow /\ RoundsInv' /\ PassAtWork' /\ DecidedInv'
    BY <1>2, <1>6, <2>1, <2>2, FactsKept
  <2> QED
    BY <2>1, <2>2, <2>3
<1>7. CASE WithinCeiling \/ CallObserved
  <2>1. PICK all \in BOOLEAN : NextCall(all)
    BY <1>3, <1>7 DEF WithinCeiling, CallObserved
  <2>2. UNCHANGED <<facts, dispatch, world, faults>>
    BY <1>7 DEF WithinCeiling, CallObserved
  <2>3. UNCHANGED <<rounds, committed, output>>
    BY <2>2 DEF facts
  <2>4. TypeOK'
    BY <1>3, <1>6, <2>1, <2>2, <2>3, TypeParts DEF TypeOK, facts, dispatch, world
  <2> QED
    BY <1>6, <2>1, <2>3, <2>4
<1>8. CASE CallCrashed
  <2>1. rounds' = rounds /\ OutputsStay /\ pc' = Idle
    BY <1>8 DEF CallCrashed, OutputsStay, facts
  <2>2. TypeOK'
    BY <1>3, <1>5, <1>8, TypeParts DEF CallCrashed, TypeOK, facts, dispatch, world
  <2> QED
    BY <1>5, <2>1, <2>2, FactsKept
<1>9. CASE materialize_react_tool
  <2>1. NextCall(FALSE) /\ UNCHANGED <<rounds, committed, output>>
    BY <1>9 DEF materialize_react_tool, facts
  <2>2. TypeOK'
    BY <1>3, <1>4, <1>6, <1>9, <2>1, TypeParts DEF materialize_react_tool, TypeOK, facts, world
  <2> QED
    BY <1>6, <2>1, <2>2
<1>10. ASSUME NEW ok \in BOOLEAN, Withhold(ok)
       PROVE  RoundsGrow /\ OutputsStay /\ ChainInv'
  <2>1. NextCall(FALSE) /\ UNCHANGED <<rounds, committed, output>>
    BY <1>10 DEF Withhold
  <2>2. TypeOK'
    BY <1>3, <1>4, <1>6, <1>10, <2>1, TypeParts, ChargeKept
       DEF Withhold, TypeOK, dispatch, world
  <2> QED
    BY <1>6, <2>1, <2>2
<1>11. ASSUME NEW ok \in BOOLEAN, OverCeiling(ok) \/ CallPermanent(ok) \/ CallDenied(ok)
       PROVE  RoundsGrow /\ OutputsStay /\ ChainInv'
  <2>1. KillChain(ok) /\ defs' \subseteq defs
    BY <1>11 DEF OverCeiling, CallPermanent, CallDenied
  <2>2. /\ RoundsGrow /\ OutputsStay /\ RoundsInv' /\ PassAtWork' /\ DecidedInv'
        /\ pc' \in PcType /\ faults' \in FaultType
    BY <1>1, <2>1, KillIs
  <2>3. rounds' \in Seq(Rounds)
    BY <2>2 DEF RoundsInv
  <2>4. TypeOK'
    BY <2>1, <2>2, <2>3, TypeParts DEF KillChain, TypeOK, world
  <2> QED
    BY <2>2, <2>4
<1>12. ASSUME NEW ok \in BOOLEAN, CallFailed(ok)
       PROVE  RoundsGrow /\ OutputsStay /\ ChainInv'
  <2> DEFINE r == Round(Top, "Rejected", "failed", Base)
  <2>1. r \in Rounds /\ r.turn = Top /\ r.branch = "Rejected"
    BY <1>2 DEF Round, Rounds, Branches, Reasons, Texts, Base
  <2>2. append_react_branch(r, ok) /\ pc' = Idle /\ OutputsStay
    BY <1>2, <1>12 DEF CallFailed, OutputsStay
  <2> HIDE DEF r
  <2>3. RoundsGrow /\ \A t : HasFact(t, "Tool")' => HasFact(t, "Tool")
    BY <1>2, <2>1, <2>2, BranchGrows
  <2>4. rounds' \in Seq(Rounds)
    BY <2>3, GrowKeepsOrder DEF RoundsInv
  <2>5. TypeOK'
    BY <1>3, <1>5, <1>12, <2>4, ChargeKept, TypeParts DEF CallFailed, TypeOK, dispatch, world
  <2> QED
    BY <1>5, <2>2, <2>3, <2>5, PassKept
<1> QED
  BY <1>7, <1>8, <1>9, <1>10, <1>11, <1>12

\* The text of the next turn is a text.
LEMMA NextTextType ==
    ASSUME ChainInv, rounds # <<>>
    PROVE  NextText(Top) \in Texts
<1>1. HasTurn(Top) /\ Top \in Turns
  BY FrontierIsLast DEF ChainInv
<1>2. PICK k \in 1 .. Len(rounds) : Closes(k, Top)
  BY <1>1 DEF ChainInv, RoundsInv, Closed
<1>3. LatestOf(Top) = k /\ rounds[k] \in Rounds
  BY <1>2, LatestIsClosed DEF ChainInv, RoundsInv
<1>4. RejectOf(Top) \in Reasons \cup {"none"}
  BY <1>3 DEF RejectOf, Rounds
<1>5. NearBudget(Spent, Top + 1) \in BOOLEAN
  BY DEF NearBudget
<1> QED
  BY <1>4, <1>5 DEF NextText, Texts

\* The rerank gate, the advance to the next turn and the end of a chain.
LEMMA AdvanceSteps ==
    ASSUME ChainInv,
           \/ PassRerank \/ FinishChain
           \/ \E ok \in BOOLEAN : \/ StartRerank(ok) \/ AdvanceExhausted(ok) \/ AdvanceNext(ok)
                                  \/ FinalizeLaunch(ok)
    PROVE  RoundsGrow /\ OutputsStay /\ ChainInv'
<1> USE ReactAssumption DEF ChainInv, ReactAssumption
<1>1. pc.at \in {"gate", "advance", "final"}
  BY DEF PassRerank, FinishChain, StartRerank, AdvanceExhausted, AdvanceNext, FinalizeLaunch
<1>2. /\ rounds # <<>> /\ FrontierTurn = Top /\ Frontier = LastRound
      /\ Top \in Turns /\ (pc.at # "final" => LastRound.branch \notin Final)
  BY <1>1, AtWork
<1>3. faults \in FaultType /\ pc \in PcType
  BY TypeParts
<1>4. /\ Idle \in PcType /\ Idle.at = "idle"
      /\ At("advance") \in PcType /\ At("advance").at = "advance"
      /\ At("final") \in PcType /\ At("final").at = "final"
  BY AtType DEF Places, Idle
<1>5. Launch \in Motes /\ RerankMote(Top) \in Motes
  BY <1>2 DEF Launch, RerankMote, Mote, Motes, Texts, Base, Turns
<1>6. CASE PassRerank
  <2>1. rounds' = rounds /\ OutputsStay /\ pc' \in {Idle, At("advance")} /\ pc.at = "gate"
    BY <1>6 DEF PassRerank, OutputsStay, facts
  <2>2. TypeOK'
    BY <1>3, <1>4, <1>6, <2>1, TypeParts DEF PassRerank, TypeOK, facts, dispatch, world
  <2> QED
    BY <1>2, <1>4, <2>1, <2>2, FactsKept
<1>7. ASSUME NEW ok \in BOOLEAN, StartRerank(ok)
      PROVE  RoundsGrow /\ OutputsStay /\ ChainInv'
  <2>1. rounds' = rounds /\ OutputsStay /\ pc' \in {Idle, At("advance")} /\ pc.at = "gate"
    BY <1>7 DEF StartRerank, OutputsStay
  <2>2. TypeOK'
    BY <1>2, <1>3, <1>4, <1>5, <1>7, <2>1, ChargeKept, TypeParts DEF StartRerank, TypeOK, world
  <2> QED
    BY <1>2, <1>4, <2>1, <2>2, FactsKept
<1>8. CASE FinishChain
  <2>1. rounds' = rounds /\ OutputsStay /\ pc' = Idle
    BY <1>8 DEF FinishChain, OutputsStay, facts
  <2>2. TypeOK'
    BY <1>3, <1>4, <1>8, TypeParts DEF FinishChain, TypeOK, facts, world
  <2> QED
    BY <1>4, <2>1, <2>2, FactsKept
<1>9. ASSUME NEW ok \in BOOLEAN, FinalizeLaunch(ok)
      PROVE  RoundsGrow /\ OutputsStay /\ ChainInv'
  <2>1. /\ rounds' = rounds /\ pc' = Idle
        /\ committed' \subseteq committed \cup {Launch} /\ committed \subseteq committed'
        /\ failed' \subseteq failed \cup {Launch} /\ defs' \subseteq defs
    BY <1>9 DEF FinalizeLaunch, CommitLaunch, DeadLetterLaunch
  <2>2. OutputsStay
    BY <1>9, <2>1 DEF FinalizeLaunch, OutputsStay
  <2>3. faults' \in FaultType
    BY <1>3, <1>9, ChargeKept DEF FinalizeLaunch
  <2>4. TypeOK'
    BY <1>4, <1>5, <1>9, <2>1, <2>3, TypeParts DEF FinalizeLaunch, TypeOK, world
  <2> QED
    BY <1>4, <2>1, <2>2, <2>4, FactsKept
<1>10. ASSUME NEW ok \in BOOLEAN, AdvanceExhausted(ok)
       PROVE  RoundsGrow /\ OutputsStay /\ ChainInv'
  <2>1. /\ DeadLettered(Top) \in Rounds /\ DeadLettered(Top).turn = Top
        /\ DeadLettered(Top).branch = "DeadLettered"
    BY <1>2 DEF DeadLettered, Round, Rounds, Branches, Texts, Base
  <2>2. /\ append_react_branch(DeadLettered(Top), ok /\ Frontier.branch # "Pending")
        /\ pc' = At("final") /\ OutputsStay /\ pc.at = "advance"
    BY <1>2, <1>10 DEF AdvanceExhausted, OutputsStay
  <2>3. RoundsGrow /\ \A t : HasFact(t, "Tool")' => HasFact(t, "Tool")
    BY <1>2, <2>1, <2>2, BranchGrows
  <2>4. rounds' \in Seq(Rounds)
    BY <2>3, GrowKeepsOrder DEF RoundsInv
  <2>5. TypeOK'
    BY <1>3, <1>4, <1>10, <2>4, ChargeKept, TypeParts
       DEF AdvanceExhausted, TypeOK, dispatch, world
  <2> QED
    BY <1>2, <1>4, <2>2, <2>3, <2>5, PassKept
<1>11. ASSUME NEW ok \in BOOLEAN, AdvanceNext(ok)
       PROVE  RoundsGrow /\ OutputsStay /\ ChainInv'
  <2> DEFINE r == Round(Top + 1, "Pending", "none", NextText(Top))
  <2>1. Top + 1 \in Turns /\ NextText(Top) \in Texts
    BY <1>2, <1>11, NextTextType DEF AdvanceNext, Exhausted, Turns
  <2>2. r \in Rounds /\ r.turn = Top + 1 /\ r.branch = "Pending"
    BY <2>1 DEF Round, Rounds, Branches, Reasons
  <2>3. TurnMote(Top + 1, NextText(Top)) \in Motes
    BY <2>1 DEF TurnMote, Mote, Motes
  <2>4. /\ append_react_branch(r, ok) /\ pc' = Idle /\ OutputsStay /\ pc.at = "advance"
        /\ defs' = defs \cup {TurnMote(Top + 1, NextText(Top))}
    BY <1>2, <1>11 DEF AdvanceNext, OutputsStay
  <2> HIDE DEF r
  <2>5. RoundsGrow /\ \A t : HasFact(t, "Tool")' => HasFact(t, "Tool")
    BY <1>2, <2>2, <2>4, BranchGrows
  <2>6. rounds' \in Seq(Rounds)
    BY <2>5, GrowKeepsOrder DEF RoundsInv
  <2>7. TypeOK'
    BY <1>3, <1>4, <1>11, <2>3, <2>4, <2>6, ChargeKept, TypeParts
       DEF AdvanceNext, TypeOK, world
  <2> QED
    BY <1>4, <2>4, <2>5, <2>7, PassKept
<1> QED
  BY <1>6, <1>7, <1>8, <1>9, <1>10, <1>11

\* What the workers, the operator and the environment do.
CommandStep ==
    \/ WorkerStep \/ LateStep \/ InputStep
    \/ \E m \in leased : CrashMote(m)
    \/ \E m \in requested, grant \in BOOLEAN, ok \in BOOLEAN : DecideApproval(m, grant, ok)
    \/ \E c \in Removable : Deregister(c)

\* A Mote that is recovered after a restart is a Mote.
LEMMA RecoveredType ==
    ASSUME ChainInv
    PROVE  RecoveredTurn \subseteq Motes /\ RecoveredReranks \subseteq Motes
<1> USE ReactAssumption DEF ChainInv, ReactAssumption
<1>1. \A t \in reranking : RerankMote(t) \in Motes
  BY DEF RerankMote, Mote, Motes, Texts, Base, TypeOK
<1>2. ASSUME NEW m \in RecoveredTurn PROVE m \in Motes
  <2>1. PICK t \in Turns : HasTurn(t) /\ m = TurnMote(t, Rebuilt(t)) /\ m = MoteOf(m.turn)
    BY <1>2 DEF RecoveredTurn
  <2>2. m.turn = t
    BY <2>1 DEF TurnMote, Mote
  <2>3. MoteOf(t) \in TurnMotes
    <3>2. PICK k \in 1 .. Len(rounds) : Opens(k, t)
      BY <2>1 DEF RoundsInv, Opened
    <3>3. rounds[k] \in Rounds
      BY DEF RoundsInv
    <3> QED
      BY <3>2, <3>3, MoteIsOpened DEF TurnMotes, Rounds
  <2> QED
    BY <2>1, <2>2, <2>3 DEF TurnMotes, TurnMote, Mote, Motes
<1> QED
  BY <1>1, <1>2 DEF RecoveredReranks

\* Commands and restarts.
LEMMA CommandSteps ==
    ASSUME ChainInv, CommandStep \/ Restart \/ UNCHANGED vars
    PROVE  RoundsGrow /\ OutputsStay /\ ChainInv'
<1> USE ReactAssumption DEF ChainInv, ReactAssumption
<1>1. faults \in FaultType /\ pc \in PcType
  BY TypeParts
<1>2. ASSUME rounds' = rounds, OutputsStay, pc' = pc, TypeOK'
      PROVE  RoundsGrow /\ OutputsStay /\ ChainInv'
  <2>1. RoundsGrow /\ \A t : HasFact(t, "Tool")' <=> HasFact(t, "Tool")
    BY <1>2 DEF RoundsGrow, HasFact
  <2>2. LastRound' = LastRound /\ Top' = Top
    BY <1>2 DEF LastRound, Top
  <2>3. pc.at \in Places /\ (pc.at \in {"calls", "gate"} => Decided(Top))
    BY <1>1 DEF PcType, DecidedInv
  <2> QED
    BY <1>2, <2>1, <2>2, <2>3, PassKept DEF PassAtWork, DecidedInv, Places
<1>3. ASSUME NEW m \in defs, Lease(m) PROVE RoundsGrow /\ OutputsStay /\ ChainInv'
  <2>1. TypeOK'
    BY <1>1, <1>3, TypeParts DEF Lease, TypeOK, facts
  <2> QED
    BY <1>2, <1>3, <2>1 DEF Lease, facts, OutputsStay
<1>4. ASSUME NEW m \in leased \cup slow, FailMote(m)
      PROVE  RoundsGrow /\ OutputsStay /\ ChainInv'
  <2>1. TypeOK'
    BY <1>1, <1>4, TypeParts DEF FailMote, Reported, TypeOK, world
  <2> QED
    BY <1>2, <1>4, <2>1 DEF FailMote, Reported, OutputsStay
<1>5. ASSUME NEW m \in leased \cup slow,
             NEW o \in (IF m.kind = "turn" THEN Outputs ELSE {NoOutput}), CommitMote(m, o)
      PROVE  RoundsGrow /\ OutputsStay /\ ChainInv'
  <2>1. output' \in [TurnMotes -> Outputs \cup {NoOutput}]
    BY <1>5 DEF CommitMote, TypeOK
  <2>2. TypeOK'
    BY <1>1, <1>5, <2>1, TypeParts DEF CommitMote, Reported, TypeOK, world
  <2>3. OutputsStay
    BY <1>5 DEF CommitMote, OutputsStay, TypeOK
  <2> QED
    BY <1>2, <1>5, <2>2, <2>3 DEF CommitMote, Reported
<1>6. ASSUME NEW m \in leased, CrashMote(m)
      PROVE  RoundsGrow /\ OutputsStay /\ ChainInv'
  <2>1. faults' \in FaultType
    BY <1>1, <1>6, ChargeKept DEF CrashMote, Faults
  <2>2. TypeOK'
    BY <1>1, <1>6, <2>1, TypeParts DEF CrashMote, TypeOK, world
  <2> QED
    BY <1>2, <1>6, <2>2 DEF CrashMote, OutputsStay
<1>7. ASSUME NEW m \in requested, NEW grant \in BOOLEAN, NEW ok \in BOOLEAN,
             DecideApproval(m, grant, ok)
      PROVE  RoundsGrow /\ OutputsStay /\ ChainInv'
  <2>1. TypeOK'
    BY <1>1, <1>7, ChargeKept, TypeParts DEF DecideApproval, TypeOK, dispatch, world
  <2> QED
    BY <1>2, <1>7, <2>1 DEF DecideApproval, OutputsStay
<1>8. ASSUME NEW c \in Removable, Deregister(c)
      PROVE  RoundsGrow /\ OutputsStay /\ ChainInv'
  <2>1. faults' \in FaultType
    BY <1>1, <1>8, ChargeKept DEF Deregister, Faults
  <2>2. TypeOK'
    BY <1>1, <1>8, <2>1, TypeParts DEF Deregister, TypeOK, facts, dispatch
  <2> QED
    BY <1>2, <1>8, <2>2 DEF Deregister, facts, OutputsStay
<1>9. CASE InputStep
  <2>1. TypeOK'
    BY <1>1, <1>9, TypeParts DEF InputStep, InputEnds, TypeOK, facts, dispatch
  <2> QED
    BY <1>2, <1>9, <2>1 DEF InputStep, InputEnds, facts, OutputsStay
<1>10. CASE Restart
  <2>1. faults' \in FaultType
    BY <1>1, <1>10, ChargeKept DEF Restart, Faults
  <2>2. At("rerank") \in PcType /\ At("rerank").at = "rerank"
    BY AtType DEF Places
  <2>3. TypeOK'
    BY <1>10, <2>1, <2>2, RecoveredType, TypeParts DEF Restart, TypeOK, facts, world
  <2>4. rounds' = rounds /\ OutputsStay /\ pc'.at = "rerank"
    BY <1>10, <2>2 DEF Restart, facts, OutputsStay
  <2> QED
    BY <2>3, <2>4, FactsKept
<1>11. CASE UNCHANGED vars
  <2>1. TypeOK'
    BY <1>1, <1>11, TypeParts DEF vars, TypeOK, facts, dispatch, world
  <2> QED
    BY <1>2, <1>11, <2>1 DEF vars, facts, OutputsStay
<1>12. ASSUME NEW m \in leased \cup slow, StageMote(m)
       PROVE  RoundsGrow /\ OutputsStay /\ ChainInv'
  <2>1. TypeOK'
    BY <1>1, <1>12, TypeParts DEF StageMote, TypeOK, dispatch, world
  <2> QED
    BY <1>2, <1>12, <2>1 DEF StageMote, OutputsStay
<1> QED
  BY <1>3, <1>4, <1>5, <1>6, <1>7, <1>8, <1>9, <1>10, <1>11, <1>12
     DEF CommandStep, WorkerStep, LateStep, WorkOn

\* Every step keeps the invariant; the facts grow, and outputs stay.
LEMMA ChainStep ==
    ASSUME ChainInv, [Next]_vars
    PROVE  RoundsGrow /\ OutputsStay /\ ChainInv'
  BY LaunchSteps, DriveSteps, CallSteps, AdvanceSteps, CommandSteps
     DEF Next, PassStep, ClientStep, CommandStep

\* The chain's invariant holds of a coordinator that has seen no round.
LEMMA ChainInit ==
    ASSUME Init
    PROVE  ChainInv
<1> USE ReactAssumption DEF ReactAssumption
<1>1. Idle \in PcType /\ Idle.at = "idle"
  BY AtType DEF Places, Idle
<1>2. TypeOK
  <2>1. faults \in FaultType
    BY DEF Init, FaultType
  <2>2. kind \in {"run", "launch"} /\ input \in {"pending", "committed"}
    BY DEF Init
  <2>3. output \in [TurnMotes -> Outputs \cup {NoOutput}]
    BY DEF Init
  <2>4. rounds \in Seq(Rounds) /\ pc \in PcType
    BY <1>1 DEF Init
  <2>5. /\ committed \subseteq Motes /\ failed \subseteq Motes
        /\ crashed \subseteq Motes /\ staged \subseteq Motes
        /\ requested \subseteq Motes /\ granted \subseteq requested
        /\ denied \subseteq requested
        /\ reranking \subseteq Turns /\ reranked \subseteq reranking
        /\ defs \subseteq Motes /\ leased \subseteq Motes /\ slow \subseteq Motes
        /\ declared \in BOOLEAN /\ parked \in BOOLEAN /\ settled \in BOOLEAN
        /\ registered \subseteq Calls /\ ran \subseteq Motes
    BY DEF Init
  <2> QED
    BY <2>1, <2>2, <2>3, <2>4, <2>5 DEF TypeOK, PcType, Places, FaultType
<1>3. RoundsInv
  BY DEF Init, RoundsInv, Ordered, Opened, Closed, PendingOpens, FinalIsLast, HasTurn
<1>4. PassAtWork /\ DecidedInv
  BY <1>1 DEF Init, PassAtWork, DecidedInv, HasFact
<1> QED
  BY <1>2, <1>3, <1>4 DEF ChainInv

\* Every variable has its type: the passes never stand at a call the turn does not
\* have, and no turn is opened beyond the budget (progress_tool_batch,
\* advance_react_chain).
THEOREM ReactTypeCorrect == Spec => []TypeOK
<1>1. Init => ChainInv
  BY ChainInit
<1>2. ChainInv /\ [Next]_vars => ChainInv'
  BY ChainStep
<1>3. ChainInv => TypeOK
  BY DEF ChainInv
<1> QED
  BY <1>1, <1>2, <1>3, PTL DEF Spec

-----------------------------------------------------------------------------
(* The observations that were ever offered *)

Touched == {m \in defs \cup leased \cup slow \cup ran \cup committed \cup failed :
               m.kind = "obs"}

\* An observation is offered only for a call that the turn's committed output
\* proposes; a batch only once its fact is recorded.
TouchedInv ==
    /\ ran \subseteq Touched
    /\ \A m \in Touched :
          /\ m = ObsMote(m.turn, m.slot) /\ m.turn \in Turns
          /\ Decided(m.turn) /\ m.slot \in 1 .. Len(CallsOf(m.turn))
          /\ HasFact(m.turn, "Tool") \/ Len(CallsOf(m.turn)) = 1

\* The kinds of the other Motes.
LEMMA OtherKinds ==
    /\ \A t, x : TurnMote(t, x).kind = "turn" /\ TurnMote(t, x).turn = t
    /\ \A t : RerankMote(t).kind = "rerank"
    /\ Launch.kind = "launch"
    /\ \A t, i : ObsMote(t, i).kind = "obs" /\ ObsMote(t, i).turn = t /\ ObsMote(t, i).slot = i
  BY DEF TurnMote, RerankMote, Launch, ObsMote, Mote

\* Only materialize_react_tool offers an observation, and only an offered one runs.
LEMMA OnlyMaterializeOffers ==
    ASSUME ChainInv, [Next]_vars
    PROVE  /\ \/ Touched' \subseteq Touched
              \/ materialize_react_tool /\ Touched' \subseteq Touched \cup {Obs}
           /\ ran' \subseteq ran \cup Touched
           /\ ran \subseteq ran'
<1> DEFINE all == defs \cup leased \cup slow \cup ran \cup committed \cup failed
           Goal == /\ \/ Touched' \subseteq Touched
                      \/ materialize_react_tool /\ Touched' \subseteq Touched \cup {Obs}
                   /\ ran' \subseteq ran \cup Touched
                   /\ ran \subseteq ran'
<1>1. ASSUME NEW m, m.kind # "obs", ran' = ran,
             defs' \cup leased' \cup slow' \cup ran' \cup committed' \cup failed'
                \subseteq all \cup {m}
      PROVE  Goal
  BY <1>1 DEF Touched
<1>2. ASSUME ran' = ran,
             defs' \cup leased' \cup slow' \cup ran' \cup committed' \cup failed' \subseteq all
      PROVE  Goal
  BY <1>2 DEF Touched
<1> HIDE DEF Goal
<1> USE OtherKinds
<1>3. ASSUME NEW ok \in BOOLEAN, SubmitSeed(ok) \/ AnchorLaunch(ok) PROVE Goal
  BY <1>1, <1>3 DEF SubmitSeed, AnchorLaunch, world
<1>4. ASSUME NEW ok \in BOOLEAN, LaunchUnsatisfiable(ok) PROVE Goal
  BY <1>1, <1>4 DEF LaunchUnsatisfiable, DeadLetterLaunch, world
<1>5. ASSUME SubmitLaunch PROVE Goal
  <2>1. UNCHANGED <<leased, slow, ran, committed, failed>> /\ defs' = defs \cup {Launch}
    BY <1>5 DEF SubmitLaunch, world, facts
  <2> QED
    BY <1>1, <2>1
<1>6. ASSUME \/ BeginPass \/ LaunchWaits \/ UnparkLaunch \/ LeaveChain \/ Drive
             \/ WithinCeiling \/ CallObserved \/ CallCrashed \/ PassRerank \/ FinishChain
             \/ UNCHANGED vars
      PROVE  Goal
  <2>1. UNCHANGED <<defs, leased, slow, ran, committed, failed>>
    BY <1>6 DEF BeginPass, LaunchWaits, UnparkLaunch, LeaveChain, Drive, WithinCeiling,
        CallObserved, CallCrashed, PassRerank, FinishChain, vars, facts, dispatch, world
  <2> QED
    BY <1>2, <2>1
<1>7. ASSUME NEW ok \in BOOLEAN,
             SettleReranks(ok) \/ Freeze(ok) \/ CallFailed(ok) \/ Withhold(ok)
             \/ AdvanceExhausted(ok)
      PROVE  Goal
  BY <1>2, <1>7 DEF SettleReranks, Freeze, CallFailed, Withhold, AdvanceExhausted, dispatch, world
<1>8. ASSUME NEW ok \in BOOLEAN, OverCeiling(ok) \/ CallPermanent(ok) \/ CallDenied(ok)
      PROVE  Goal
  BY <1>2, <1>8 DEF OverCeiling, CallPermanent, CallDenied, KillChain, world
<1>9. ASSUME materialize_react_tool PROVE Goal
  BY <1>9 DEF Goal, materialize_react_tool, Touched, facts, world
<1>10. ASSUME NEW ok \in BOOLEAN, StartRerank(ok) PROVE Goal
  BY <1>1, <1>10 DEF StartRerank, world
<1>11. ASSUME NEW ok \in BOOLEAN, AdvanceNext(ok) PROVE Goal
  BY <1>1, <1>11 DEF AdvanceNext, world
<1>12. ASSUME NEW ok \in BOOLEAN, FinalizeLaunch(ok) PROVE Goal
  BY <1>1, <1>12 DEF FinalizeLaunch, CommitLaunch, DeadLetterLaunch, world
<1>13. ASSUME NEW m \in defs, Lease(m) PROVE Goal
  <2>1. UNCHANGED <<committed, failed, defs, slow>> /\ leased' = leased \cup {m}
    BY <1>13 DEF Lease, facts
  <2>2. CASE m.kind = "obs"
    BY <1>13, <2>1, <2>2 DEF Lease, Goal, Touched
  <2>3. CASE m.kind # "obs"
    BY <1>2, <1>13, <2>1, <2>3 DEF Lease
  <2> QED
    BY <2>2, <2>3
<1>14. ASSUME NEW m \in leased \cup slow, FailMote(m) PROVE Goal
  BY <1>2, <1>14 DEF FailMote, Reported, world
<1>15. ASSUME NEW m \in leased \cup slow, NEW o, CommitMote(m, o) PROVE Goal
  BY <1>2, <1>15 DEF CommitMote, Reported, world
<1>16. ASSUME NEW m \in leased, CrashMote(m) PROVE Goal
  BY <1>2, <1>16 DEF CrashMote, world
<1>17. ASSUME NEW m \in requested, NEW grant \in BOOLEAN, NEW ok \in BOOLEAN,
              DecideApproval(m, grant, ok)
       PROVE  Goal
  BY <1>2, <1>17 DEF DecideApproval, dispatch, world
<1>18. ASSUME NEW c \in Removable, Deregister(c) PROVE Goal
  BY <1>2, <1>18 DEF Deregister, facts, dispatch
<1>19. ASSUME InputStep PROVE Goal
  <2>1. UNCHANGED <<defs, leased, slow, ran, committed, failed>>
    BY <1>19 DEF InputStep, InputEnds, facts, dispatch
  <2> QED
    BY <1>2, <2>1
<1>20. ASSUME Restart PROVE Goal
  <2>1. \A m \in RecoveredTurn \cup RecoveredReranks : m.kind # "obs"
    BY DEF RecoveredTurn, RecoveredReranks
  <2> QED
    BY <1>20, <2>1 DEF Restart, Goal, Touched, facts, world
<1>21. ASSUME NEW m \in leased \cup slow, StageMote(m) PROVE Goal
  BY <1>2, <1>21 DEF StageMote, dispatch, world
<1> QED
  BY <1>3, <1>4, <1>5, <1>6, <1>7, <1>8, <1>9, <1>10, <1>11, <1>12, <1>13, <1>14, <1>15,
     <1>16, <1>17, <1>18, <1>19, <1>20, <1>21
     DEF Next, PassStep, ClientStep, WorkerStep, LateStep, WorkOn, Goal

\* A fact that is recorded stays.
LEMMA FactsPersist ==
    ASSUME RoundsInv, RoundsGrow
    PROVE  \A t, b : HasFact(t, b) => HasFact(t, b)'
<1>1. CASE rounds' = rounds
  BY <1>1 DEF HasFact
<1>2. CASE \E r \in Rounds : rounds' = Append(rounds, r)
  BY <1>2, AppendAdds
<1> QED
  BY <1>1, <1>2 DEF RoundsGrow

\* What is offered stays the call it was.
LEMMA CallStays ==
    ASSUME ChainInv, RoundsGrow, OutputsStay, TouchedInv, NEW m \in Touched
    PROVE  /\ Decided(m.turn)' /\ CallsOf(m.turn)' = CallsOf(m.turn)
           /\ CallAt(m)' = CallAt(m)
<1>1. Decided(m.turn)' /\ CallsOf(m.turn)' = CallsOf(m.turn)
  BY DecidedStays DEF ChainInv, TouchedInv
<1> QED
  BY <1>1 DEF CallAt

\* The call that is materialized satisfies what an offered one must.
LEMMA MaterializedIs ==
    ASSUME ChainInv, TouchedInv, materialize_react_tool
    PROVE  /\ pc.at = "calls" /\ Obs.turn = Top /\ Obs.slot = pc.call /\ Obs.kind = "obs"
           /\ Top \in Turns /\ Decided(Top) /\ pc.call \in 1 .. Len(CallsOf(Top))
           /\ Obs = ObsMote(Top, pc.call) /\ CallAt(Obs) = CallsOf(Top)[pc.call]
           /\ HasFact(Top, "Tool") \/ Len(CallsOf(Top)) = 1
           /\ Obs \notin leased => CallAt(Obs) \in registered
           /\ Obs \notin committed \cup failed
           /\ UNCHANGED <<facts, leased, slow, ran, faults, registered>>
           /\ pc'.at \in {"calls", "idle"} /\ defs' = defs \cup {Obs}
<1>1. /\ pc.at = "calls" /\ pc.call > 0 /\ StateOf(Obs) = "Pending"
      /\ Obs \in leased \/ ~Unresolvable(FrontierTurn, pc.call)
  BY DEF materialize_react_tool, Dispatchable, AtCall
<1>2. /\ Top \in Turns /\ Decided(Top) /\ pc.call \in 0 .. Len(CallsOf(Top))
      /\ Obs = ObsMote(Top, pc.call) /\ FrontierTurn = Top
      /\ Len(CallsOf(Top)) \in 1 .. MaxBatch
  BY <1>1, AtWork
<1>3. Obs.turn = Top /\ Obs.slot = pc.call /\ Obs.kind = "obs"
  BY <1>2, OtherKinds
<1>4. CallAt(Obs) = CallsOf(Top)[pc.call]
  BY <1>3 DEF CallAt
<1>5. Obs \in leased => Obs \in Touched
  BY <1>3 DEF Touched
<1>6. Obs \in leased => HasFact(Top, "Tool") \/ Len(CallsOf(Top)) = 1
  BY <1>3, <1>5 DEF TouchedInv
<1>7. ~Unresolvable(Top, pc.call) =>
         /\ HasFact(Top, "Tool") \/ Len(CallsOf(Top)) = 1
         /\ CallsOf(Top)[pc.call] \in registered
  <2>1. Len(CallsOf(Top)) \in Nat \ {0}
    BY <1>2, ReactAssumption DEF ReactAssumption
  <2>2. /\ ~Unresolvable(Top, pc.call) => CallsOf(Top)[pc.call] \in registered
        /\ ~Unresolvable(Top, pc.call) => HasFact(Top, "Tool") \/ ~(Len(CallsOf(Top)) > 1)
    BY DEF Unresolvable, CallsOf
  <2>3. ~(Len(CallsOf(Top)) > 1) => Len(CallsOf(Top)) = 1
    BY <2>1
  <2> QED
    BY <2>2, <2>3
<1>8. Obs \notin committed \cup failed
  BY <1>1, StateIs
<1>9. UNCHANGED <<facts, leased, slow, ran, faults, registered>> /\ defs' = defs \cup {Obs}
  BY DEF materialize_react_tool, world
<1>10. pc'.at \in {"calls", "idle"}
  BY <1>1, NextCallIs DEF materialize_react_tool
<1>11. pc.call \in 1 .. Len(CallsOf(Top))
  BY <1>1, <1>2
<1> QED
  BY <1>1, <1>2, <1>3, <1>4, <1>6, <1>7, <1>8, <1>9, <1>10, <1>11

\* Every step offers an observation only for a call of a decided turn.
LEMMA TouchedStep ==
    ASSUME ChainInv, TouchedInv, [Next]_vars
    PROVE  TouchedInv'
<1>1. RoundsGrow /\ OutputsStay /\ ChainInv'
  BY ChainStep
<1>2. RoundsInv
  BY DEF ChainInv
<1>3. \A m \in Touched : /\ Decided(m.turn)' /\ CallsOf(m.turn)' = CallsOf(m.turn)
                         /\ HasFact(m.turn, "Tool") => HasFact(m.turn, "Tool")'
  BY <1>1, <1>2, CallStays, FactsPersist
<1>4. ran' \subseteq Touched'
  BY OnlyMaterializeOffers DEF TouchedInv, Touched
<1>5. ASSUME NEW m \in Touched'
      PROVE  /\ m = ObsMote(m.turn, m.slot) /\ m.turn \in Turns
             /\ Decided(m.turn)' /\ m.slot \in 1 .. Len(CallsOf(m.turn)')
             /\ HasFact(m.turn, "Tool")' \/ Len(CallsOf(m.turn)') = 1
  <2>1. CASE m \in Touched
    BY <1>3, <2>1 DEF TouchedInv
  <2>2. CASE m \notin Touched
    <3>1. materialize_react_tool /\ m = Obs
      BY <1>5, <2>2, OnlyMaterializeOffers
    <3>2. /\ m.turn = Top /\ m.slot = pc.call /\ m = ObsMote(Top, pc.call)
          /\ Top \in Turns /\ Decided(Top) /\ pc.call \in 1 .. Len(CallsOf(Top))
          /\ HasFact(Top, "Tool") \/ Len(CallsOf(Top)) = 1
      BY <3>1, MaterializedIs
    <3> DEFINE t == m.turn
    <3>3. t \in Turns /\ Decided(t) /\ (HasFact(t, "Tool") \/ Len(CallsOf(t)) = 1)
          /\ m.slot \in 1 .. Len(CallsOf(t))
      BY <3>2
    <3> HIDE DEF t
    <3>4. Decided(t)' /\ CallsOf(t)' = CallsOf(t) /\ (HasFact(t, "Tool") => HasFact(t, "Tool")')
      BY <1>1, <1>2, <3>3, DecidedStays, FactsPersist
    <3> QED
      BY <3>2, <3>3, <3>4 DEF t
  <2> QED
    BY <2>1, <2>2
<1> QED
  BY <1>4, <1>5 DEF TouchedInv

-----------------------------------------------------------------------------
(* The approval gate *)

\* A gated call that was ever offered was granted, and no call is both granted
\* and denied.
GrantInv ==
    /\ granted \cap denied = {}
    /\ \A m \in Touched : CallAt(m) \in Gated => m \in granted

\* Only the operator decides, and only what nobody has decided.
LEMMA OnlyOperatorGrants ==
    ASSUME [Next]_vars
    PROVE  /\ granted \subseteq granted'
           /\ granted \cap denied = {} => granted' \cap denied' = {}
<1>1. ASSUME UNCHANGED <<granted, denied>>
      PROVE  /\ granted \subseteq granted'
             /\ granted \cap denied = {} => granted' \cap denied' = {}
  BY <1>1
<1>2. CASE ClientStep \/ BeginPass \/ LaunchWaits \/ UnparkLaunch \/ LeaveChain \/ Drive
           \/ (\E ok \in BOOLEAN : LaunchUnsatisfiable(ok) \/ AnchorLaunch(ok))
  BY <1>1, <1>2 DEF ClientStep, SubmitSeed, SubmitLaunch, BeginPass, LaunchWaits, UnparkLaunch,
        LeaveChain, Drive, LaunchUnsatisfiable, AnchorLaunch, facts
<1>3. CASE WithinCeiling \/ CallObserved \/ CallCrashed \/ materialize_react_tool \/ PassRerank
           \/ FinishChain \/ InputStep \/ Restart \/ UNCHANGED vars
  BY <1>1, <1>3 DEF WithinCeiling, CallObserved, CallCrashed, materialize_react_tool, PassRerank,
        FinishChain, InputStep, InputEnds, Restart, vars, facts
<1>4. CASE \E ok \in BOOLEAN :
              \/ SettleReranks(ok) \/ Freeze(ok) \/ OverCeiling(ok) \/ CallFailed(ok)
              \/ CallPermanent(ok) \/ Withhold(ok) \/ CallDenied(ok) \/ StartRerank(ok)
              \/ AdvanceExhausted(ok) \/ AdvanceNext(ok) \/ FinalizeLaunch(ok)
  BY <1>1, <1>4 DEF SettleReranks, Freeze, OverCeiling, CallFailed, CallPermanent, Withhold,
        CallDenied, KillChain, StartRerank, AdvanceExhausted, AdvanceNext, FinalizeLaunch
<1>5. CASE WorkerStep \/ LateStep \/ (\E m \in leased : CrashMote(m))
           \/ (\E c \in Removable : Deregister(c))
  BY <1>1, <1>5 DEF WorkerStep, LateStep, WorkOn, StageMote, Lease, FailMote, CommitMote, Reported, CrashMote, Deregister,
        facts
<1>6. ASSUME NEW m \in requested, NEW grant \in BOOLEAN, NEW ok \in BOOLEAN,
             DecideApproval(m, grant, ok)
      PROVE  /\ granted \subseteq granted'
             /\ granted \cap denied = {} => granted' \cap denied' = {}
  BY <1>6 DEF DecideApproval
<1> QED
  BY <1>2, <1>3, <1>4, <1>5, <1>6 DEF Next, PassStep

\* Every step keeps that a gated call that was offered was granted.
LEMMA GrantStep ==
    ASSUME ChainInv, TouchedInv, GrantInv, [Next]_vars
    PROVE  GrantInv'
<1>1. RoundsGrow /\ OutputsStay
  BY ChainStep
<1>2. /\ granted \subseteq granted'
      /\ granted' \cap denied' = {}
  BY OnlyOperatorGrants DEF GrantInv
<1>3. ASSUME NEW m \in Touched', CallAt(m)' \in Gated
      PROVE  m \in granted'
  <2>1. CASE m \in Touched
    BY <1>1, <1>2, <1>3, <2>1, CallStays DEF GrantInv
  <2>2. CASE m \notin Touched
    <3>1. materialize_react_tool /\ m = Obs
      BY <1>3, <2>2, OnlyMaterializeOffers
    <3>2. /\ Decided(Top) /\ Top \in Turns /\ m.turn = Top /\ m.kind = "obs"
          /\ m \notin leased => CallAt(m) \in registered
          /\ CallAt(m) = Call
      BY <3>1, MaterializedIs, AtWork
    <3>3. m \notin leased
      BY <2>2, <3>2 DEF Touched
    <3> DEFINE t == m.turn
    <3>4. t \in Turns /\ Decided(t)
      BY <3>2
    <3> HIDE DEF t
    <3>5. CallsOf(t)' = CallsOf(t)
      BY <1>1, <3>4, DecidedStays DEF ChainInv
    <3>6. CallAt(m)' = CallAt(m)
      BY <3>5 DEF CallAt, t
    <3>7. NeedsApproval(Call)
      BY <1>3, <3>2, <3>3, <3>6 DEF NeedsApproval
    <3> QED
      BY <1>2, <3>1, <3>7 DEF materialize_react_tool
  <2> QED
    BY <2>1, <2>2
<1> QED
  BY <1>2, <1>3 DEF GrantInv

\* Initially no observation was offered.
LEMMA TouchedInit ==
    ASSUME Init
    PROVE  TouchedInv /\ GrantInv
<1>1. Touched = {}
  BY DEF Init, Touched
<1> QED
  BY <1>1 DEF Init, TouchedInv, GrantInv

\* A gated call reaches a worker only after the operator granted this very call, in
\* whatever batch, after whatever append failed and wherever a restart fell
\* (approval_gate_decision, progress_tool_batch).
THEOREM GatedCallsAreGranted == Spec => []GateHeld
<1> DEFINE Inv == ChainInv /\ TouchedInv /\ GrantInv
<1>1. Init => Inv
  BY ChainInit, TouchedInit
<1>2. Inv /\ [Next]_vars => Inv'
  BY ChainStep, TouchedStep, GrantStep
<1>3. Inv => GateHeld
  BY DEF GateHeld, GrantInv, TouchedInv, CallAt, CallsOf
<1> QED
  BY <1>1, <1>2, <1>3, PTL DEF Spec

-----------------------------------------------------------------------------
(* The launch tells the truth *)

\* How many appends have failed.
LostAppends == faults["append"]

\* The launch is never given to a worker; it is committed with an answer only; a
\* chain of its own has no launch; the chain of a launch begins after its input.
\* As long as no append has failed the passes know what they stand at, and a
\* launch that is dead-lettered has no chain or a dead one.
AnswerInv ==
    /\ Launch \notin leased \cup slow
    /\ Launch \in committed => HasAnswer
    /\ kind = "run" => Launch \notin failed /\ ~parked
    /\ kind = "launch" /\ rounds # <<>> => input = "committed"
    /\ pc.at \in {"calls", "gate", "advance"} /\ LostAppends = 0 => LastRound.branch # "Pending"
    /\ pc.at = "final" /\ LostAppends = 0 => LastRound.branch \in Final
    /\ Launch \in failed /\ LostAppends = 0 =>
          /\ ~HasAnswer
          /\ rounds = <<>> \/ LastRound.branch = "DeadLettered"

\* What a step may do to the launch.
LEMMA AnswerKept ==
    ASSUME ChainInv, AnswerInv, RoundsGrow,
           Launch \notin leased' \cup slow',
           Launch \in committed' => Launch \in committed \/ HasAnswer,
           kind' = kind, parked' => parked \/ kind = "launch",
           input' = input \/ input # "committed",
           rounds = <<>> /\ rounds' # <<>> =>
               kind = "run" \/ (input' = "committed" /\ Launch \notin failed'),
           LostAppends' = 0 => LostAppends = 0,
           Launch \in failed' =>
               \/ Launch \in failed
               \/ /\ kind = "launch" /\ rounds' = rounds
                  /\ rounds = <<>> \/ (pc.at = "final" /\ ~HasAnswer),
           pc'.at \in {"calls", "gate", "advance"} /\ LostAppends' = 0
               => LastRound'.branch # "Pending",
           pc'.at = "final" /\ LostAppends' = 0 => LastRound'.branch \in Final
    PROVE  AnswerInv'
<1>1. HasAnswer => HasAnswer'
  BY FactsPersist DEF ChainInv, HasAnswer
<1>2. kind \in {"run", "launch"} /\ (kind = "launch" => kind # "run")
  BY DEF ChainInv, TypeOK
<1>3. rounds # <<>> => rounds' # <<>>
  BY AppendAdds DEF RoundsGrow, ChainInv
<1>4. kind' = "run" => Launch \notin failed' /\ ~parked'
  BY <1>2 DEF AnswerInv
<1>5. kind' = "launch" /\ rounds' # <<>> => input' = "committed"
  BY <1>2 DEF AnswerInv
<1>6. rounds' = rounds => (HasAnswer' <=> HasAnswer) /\ LastRound' = LastRound
  BY DEF HasAnswer, HasFact, LastRound
<1>7. ASSUME Launch \in failed', LostAppends' = 0
      PROVE  ~HasAnswer' /\ (rounds' = <<>> \/ LastRound'.branch = "DeadLettered")
  <2>1. CASE Launch \in failed
    <3>1. ~HasAnswer /\ (rounds = <<>> \/ LastRound.branch = "DeadLettered")
      BY <1>7, <2>1 DEF AnswerInv
    <3>2. rounds' = rounds
      BY <1>2, <1>7, <2>1, <3>1, AppendAdds DEF AnswerInv, RoundsGrow, Appendable, Final, ChainInv
    <3> QED
      BY <1>6, <3>1, <3>2
  <2>2. CASE Launch \notin failed /\ rounds = <<>>
    <3>1. rounds' = rounds /\ ~HasAnswer
      BY <1>7, <2>2 DEF HasAnswer, HasFact
    <3> QED
      BY <1>6, <2>2, <3>1
  <2>3. CASE Launch \notin failed /\ rounds # <<>>
    <3>1. rounds' = rounds /\ ~HasAnswer /\ pc.at = "final"
      BY <1>7, <2>3
    <3>2. LastRound.branch \in Final
      BY <1>7, <3>1 DEF AnswerInv
    <3>3. Top \in Turns /\ (LastRound.branch = "Answer" => HasFact(Top, "Answer"))
      BY <2>3, FrontierIsLast DEF ChainInv, HasFact, Top, LastRound, RoundsInv
    <3>4. LastRound.branch = "DeadLettered"
      BY <3>1, <3>2, <3>3 DEF HasAnswer, Final
    <3> QED
      BY <1>6, <3>1, <3>4
  <2> QED
    BY <2>1, <2>2, <2>3
<1> QED
  BY <1>1, <1>4, <1>5, <1>7 DEF AnswerInv

\* Most steps leave the launch alone.
LEMMA CalmKept ==
    ASSUME ChainInv, AnswerInv, RoundsGrow, rounds # <<>> \/ rounds' = rounds,
           UNCHANGED <<kind, input>>, parked' => parked,
           Launch \notin leased' \cup slow',
           Launch \in committed' => Launch \in committed,
           Launch \in failed' => Launch \in failed,
           LostAppends' = 0 => LostAppends = 0,
           pc'.at \in {"calls", "gate", "advance"} /\ LostAppends' = 0
               => LastRound'.branch # "Pending",
           pc'.at = "final" /\ LostAppends' = 0 => LastRound'.branch \in Final
    PROVE  AnswerInv'
  BY AnswerKept

\* An append that goes through records a branch the turn does not have yet.
LEMMA BranchIsRecorded ==
    ASSUME RoundsInv, rounds # <<>>, LastRound.branch \notin Final,
           NEW r \in Rounds, r.turn = Top,
           r.branch \in Final \/ (LastRound.branch = "Pending" /\ r.branch # "Pending"),
           append_react_branch(r, TRUE)
    PROVE  rounds' = Append(rounds, r) /\ LastRound' = r
<1>1. DOMAIN rounds = 1 .. Len(rounds) /\ Len(rounds) \in 1 .. Len(rounds)
  BY DEF RoundsInv
<1>2. CASE r.branch \in Final
  <2>1. \A k \in 1 .. Len(rounds) : rounds[k].branch # r.branch
    BY <1>1, <1>2 DEF RoundsInv, FinalIsLast, LastRound
  <2> QED
    BY <1>1, <2>1, AppendAdds DEF append_react_branch
<1>3. CASE LastRound.branch = "Pending" /\ r.branch # "Pending"
  <2>1. Opens(Len(rounds), Top)
    BY <1>1, <1>3 DEF RoundsInv, PendingOpens, LastRound, Top
  <2>2. \A k \in 1 .. Len(rounds) : rounds[k].turn = Top => k = Len(rounds)
    <3>1. SUFFICES ASSUME NEW k \in 1 .. Len(rounds), rounds[k].turn = Top, k # Len(rounds)
                   PROVE  FALSE
      OBVIOUS
    <3>2. Len(rounds) \in Nat
      BY DEF RoundsInv
    <3>3. k \in 1 .. Len(rounds) - 1
      BY <3>1, <3>2
    <3> QED
      BY <2>1, <3>1, <3>3 DEF Opens
  <2>3. \A k \in 1 .. Len(rounds) : rounds[k].turn = r.turn => rounds[k].branch # r.branch
    BY <1>1, <1>3, <2>2 DEF LastRound
  <2> QED
    BY <1>1, <2>3, AppendAdds DEF append_react_branch
<1> QED
  BY <1>2, <1>3

\* Without a failed append the fact went in.
LEMMA ChargeTells ==
    ASSUME ChainInv
    PROVE  /\ LostAppends \in Nat
           /\ \A ok \in BOOLEAN : Charge(ok) => (LostAppends' = 0 => ok /\ LostAppends = 0)
           /\ \A ok \in BOOLEAN : Charge(ok) => LostAppends' \in Nat /\ LostAppends <= LostAppends'
           /\ \A ok \in BOOLEAN : Charge(ok) =>
                 LostAppends' = IF ok THEN LostAppends ELSE LostAppends + 1
           /\ \A f \in Faults \ {"append"} : Fault(f) => LostAppends' = LostAppends
<1>1. faults \in FaultType
  BY TypeParts DEF ChainInv
<1>2. LostAppends \in Nat
  BY <1>1, ReactAssumption DEF ReactAssumption, FaultType, Faults, LostAppends
<1>3. \A ok \in BOOLEAN : Charge(ok) =>
         LostAppends' = IF ok THEN LostAppends ELSE LostAppends + 1
  BY <1>1, ChargeKept DEF LostAppends
<1>4. \A f \in Faults \ {"append"} : Fault(f) => LostAppends' = LostAppends
  BY <1>1, ChargeKept DEF LostAppends, Faults
<1> QED
  BY <1>2, <1>3, <1>4

\* Every step keeps the truth of the launch's result.
LEMMA AnswerStep ==
    ASSUME ChainInv, AnswerInv, [Next]_vars
    PROVE  AnswerInv'
<1>1. RoundsGrow
  BY ChainStep
<1>2. RoundsInv
  BY DEF ChainInv
<1>3. /\ Idle.at = "idle" /\ At("launch").at = "launch" /\ At("rerank").at = "rerank"
      /\ At("drive").at = "drive" /\ At("advance").at = "advance" /\ At("final").at = "final"
      /\ At("calls").at = "calls"
  BY AtType DEF Places, Idle
<1>4. LostAppends \in Nat
  BY ChargeTells
<1>5. rounds' = rounds => LastRound' = LastRound
  BY DEF LastRound
<1>6. ~Anchored => rounds = <<>>
  BY <1>2, FrontierIsLast
<1>7. ASSUME NEW ok \in BOOLEAN, SubmitSeed(ok)
      PROVE  AnswerInv'
  <2>1. /\ kind = "run" /\ UNCHANGED <<committed, failed, leased, slow, parked, kind, input>>
        /\ pc' = Idle /\ (LostAppends' = 0 => LostAppends = 0)
    BY <1>7, ChargeTells DEF SubmitSeed, world
  <2> QED
    BY <1>1, <1>3, <2>1, AnswerKept DEF AnswerInv
<1>8. CASE SubmitLaunch
  <2>1. /\ kind = "launch" /\ UNCHANGED <<rounds, committed, failed, leased, slow, kind, input, faults>>
        /\ pc' = Idle
    BY <1>8 DEF SubmitLaunch, facts, world
  <2> QED
    BY <1>1, <1>3, <2>1, AnswerKept DEF AnswerInv, LostAppends
<1>9. ASSUME UNCHANGED <<rounds, committed, failed, leased, slow, kind, input>>,
             parked' => parked,
             LostAppends' = 0 => LostAppends = 0,
             \/ pc'.at \in {"idle", "launch", "rerank", "drive"}
             \/ /\ pc.at \in {"calls", "gate", "advance"}
                /\ pc'.at \in {"calls", "gate", "advance"}
             \/ pc' = pc
             \/ pc'.at \in {"calls", "advance"} /\ LastRound.branch # "Pending"
             \/ pc'.at = "final" /\ LastRound.branch \in Final
      PROVE  AnswerInv'
  BY <1>1, <1>5, <1>9, CalmKept DEF AnswerInv
<1>10. CASE BeginPass \/ LaunchWaits \/ UnparkLaunch \/ LeaveChain \/ CallCrashed \/ FinishChain
            \/ UNCHANGED vars
  <2>1. /\ UNCHANGED <<rounds, committed, failed, leased, slow, kind, input, faults>>
        /\ pc' \in {Idle, At("launch"), At("rerank"), pc} /\ (parked' => parked)
    BY <1>10 DEF BeginPass, LaunchWaits, UnparkLaunch, LeaveChain, CallCrashed, FinishChain, vars,
          facts, dispatch, world
  <2> QED
    BY <1>3, <1>9, <2>1 DEF LostAppends
<1>11. CASE Drive
  <2>1. /\ UNCHANGED <<rounds, committed, failed, leased, slow, kind, input, faults, parked>>
        /\ rounds # <<>>
    BY <1>11 DEF Drive, facts, dispatch, world, Quiescent, Anchored
  <2>2. Frontier = LastRound /\ LastRound.branch \in Branches \ {"Pending"}
    BY <1>2, <1>11, <2>1, FrontierIsLast DEF Drive, Rounds
  <2>3. \/ pc'.at \in {"calls", "advance"} /\ LastRound.branch # "Pending"
        \/ pc'.at = "final" /\ LastRound.branch \in Final
    BY <1>3, <1>11, <2>2 DEF Drive, DriveTo, Branches, Final
  <2> QED
    BY <1>9, <2>1, <2>3 DEF LostAppends
<1>12. CASE WithinCeiling \/ CallObserved \/ PassRerank
  <2>1. /\ UNCHANGED <<rounds, committed, failed, leased, slow, kind, input, faults, parked>>
        /\ pc.at \in {"calls", "gate"}
    BY <1>12 DEF WithinCeiling, CallObserved, AtCall, PassRerank, facts, dispatch, world
  <2>2. pc.all \in BOOLEAN
    BY TypeParts DEF ChainInv, PcType
  <2>3. pc'.at \in {"calls", "gate", "idle", "advance"}
    BY <1>3, <1>12, <2>2, NextCallIs DEF WithinCeiling, CallObserved, AtCall, PassRerank
  <2> QED
    BY <1>9, <2>1, <2>3 DEF LostAppends
<1>13. CASE materialize_react_tool
  <2>1. /\ UNCHANGED <<rounds, committed, failed, leased, slow, kind, input, faults, parked>>
        /\ pc.at = "calls"
    BY <1>13 DEF materialize_react_tool, facts, world, Dispatchable, AtCall
  <2>2. pc'.at \in {"calls", "gate", "idle"}
    BY <1>13, <2>1, NextCallIs DEF materialize_react_tool
  <2> QED
    BY <1>9, <2>1, <2>2 DEF LostAppends
<1>14. ASSUME NEW ok \in BOOLEAN, Withhold(ok)
       PROVE  AnswerInv'
  <2>1. /\ UNCHANGED <<rounds, committed, failed, leased, slow, kind, input, parked>>
        /\ pc.at = "calls" /\ (LostAppends' = 0 => LostAppends = 0)
    BY <1>14, ChargeTells DEF Withhold, dispatch, world, Dispatchable, AtCall
  <2>2. pc'.at \in {"calls", "gate", "idle"}
    BY <1>14, <2>1, NextCallIs DEF Withhold
  <2> QED
    BY <1>9, <2>1, <2>2
<1>15. ASSUME NEW ok \in BOOLEAN, SettleReranks(ok) \/ StartRerank(ok)
       PROVE  AnswerInv'
  <2>1. /\ UNCHANGED <<rounds, committed, failed, leased, slow, kind, input, parked>>
        /\ (LostAppends' = 0 => LostAppends = 0)
        /\ \/ pc' \in {Idle, At("drive")}
           \/ pc.at = "gate" /\ pc' = At("advance")
    BY <1>15, ChargeTells DEF SettleReranks, StartRerank, dispatch, world
  <2> QED
    BY <1>3, <1>9, <2>1
<1>16. ASSUME NEW ok \in BOOLEAN, LaunchUnsatisfiable(ok)
       PROVE  AnswerInv'
  <2>1. /\ UNCHANGED <<rounds, committed, leased, slow, kind, input>>
        /\ parked /\ ~parked' /\ input # "committed" /\ pc' = At("rerank")
        /\ (LostAppends' = 0 => LostAppends = 0)
    BY <1>16, ChargeTells DEF LaunchUnsatisfiable, LaunchReady, DeadLetterLaunch, world
  <2>2. kind = "launch" /\ rounds = <<>>
    BY <2>1 DEF AnswerInv, ChainInv, TypeOK
  <2> QED
    BY <1>1, <1>3, <2>1, <2>2, AnswerKept DEF AnswerInv
<1>17. ASSUME NEW ok \in BOOLEAN, AnchorLaunch(ok)
       PROVE  AnswerInv'
  <2>1. /\ UNCHANGED <<committed, failed, leased, slow, kind, input>>
        /\ input = "committed" /\ pc' = At("rerank") /\ parked
        /\ (LostAppends' = 0 => LostAppends = 0) /\ Launch \notin failed
    BY <1>17, ChargeTells, StateIs DEF AnchorLaunch, LaunchReady, world
  <2> QED
    BY <1>1, <1>3, <2>1, AnswerKept DEF AnswerInv
<1>18. ASSUME NEW ok \in BOOLEAN, Freeze(ok)
       PROVE  AnswerInv'
  <2>1. /\ UNCHANGED <<committed, failed, leased, slow, kind, input, parked>>
        /\ rounds # <<>> /\ (LostAppends' = 0 => ok /\ LostAppends = 0)
    BY <1>18, ChargeTells DEF Freeze, dispatch, world, Quiescent, Anchored
  <2>2. /\ Frontier = LastRound /\ LastRound \in Rounds /\ Top \in Turns
        /\ FrontierTurn = Top /\ LastRound.branch = "Pending" /\ HasTurn(Top)
    BY <1>2, <1>18, <2>1, FrontierIsLast DEF Freeze
  <2> DEFINE r == IF StateOf(MoteOf(Top)) = "Failed" THEN DeadLettered(Top) ELSE Decision(Top)
  <2>3. append_react_branch(r, ok) /\ pc' = At(DriveTo(r.branch))
    BY <1>18, <2>2 DEF Freeze
  <2>4. /\ r \in Rounds /\ r.turn = Top
        /\ r.branch \in {"Rejected", "Answer", "Tool", "DeadLettered"}
    <3>1. DeadLettered(Top) \in Rounds /\ DeadLettered(Top).turn = Top
          /\ DeadLettered(Top).branch = "DeadLettered"
      BY <2>2 DEF DeadLettered, Round, Rounds, Branches, Texts, Base
    <3>2. /\ Decision(Top) \in Rounds /\ Decision(Top).turn = Top
          /\ Decision(Top).branch \in {"Rejected", "Answer", "Tool"}
      BY <2>2, DecisionIs DEF ChainInv
    <3> QED
      BY <3>1, <3>2
  <2> HIDE DEF r
  <2>5. LostAppends' = 0 => LastRound' = r
    BY <1>2, <2>1, <2>2, <2>3, <2>4, BranchIsRecorded DEF Final
  <2>6. \/ pc'.at \in {"calls", "advance"} /\ r.branch # "Pending"
        \/ pc'.at = "final" /\ r.branch \in Final
    BY <1>3, <2>3, <2>4 DEF DriveTo, Final
  <2> QED
    BY <1>1, <2>1, <2>5, <2>6, CalmKept DEF AnswerInv
<1>19. ASSUME NEW ok \in BOOLEAN, OverCeiling(ok) \/ CallPermanent(ok) \/ CallDenied(ok)
       PROVE  AnswerInv'
  <2>1. KillChain(ok) /\ pc.at = "calls"
    BY <1>19 DEF OverCeiling, CallPermanent, CallDenied, Dispatchable, AtCall
  <2>2. /\ UNCHANGED <<committed, failed, leased, slow, kind, input, parked>>
        /\ pc' = At("final") /\ (LostAppends' = 0 => ok /\ LostAppends = 0)
    BY <2>1, ChargeTells DEF KillChain, world
  <2>3. /\ rounds # <<>> /\ FrontierTurn = Top /\ Top \in Turns /\ LastRound.branch \notin Final
    BY <2>1, AtWork
  <2>4. /\ DeadLettered(Top) \in Rounds /\ DeadLettered(Top).turn = Top
        /\ DeadLettered(Top).branch \in Final
    BY <2>3 DEF DeadLettered, Round, Rounds, Branches, Texts, Base, Final
  <2>5. LostAppends' = 0 => LastRound' = DeadLettered(Top)
    BY <1>2, <2>1, <2>2, <2>3, <2>4, BranchIsRecorded DEF KillChain
  <2> QED
    BY <1>1, <1>3, <2>2, <2>3, <2>4, <2>5, CalmKept DEF AnswerInv
<1>20. ASSUME NEW ok \in BOOLEAN, CallFailed(ok)
       PROVE  AnswerInv'
  <2>1. /\ UNCHANGED <<committed, failed, leased, slow, kind, input, parked>>
        /\ pc' = Idle /\ (LostAppends' = 0 => LostAppends = 0) /\ pc.at = "calls"
    BY <1>20, ChargeTells DEF CallFailed, dispatch, world, AtCall
  <2>2. rounds # <<>>
    BY <2>1, AtWork
  <2> QED
    BY <1>1, <1>3, <2>1, <2>2, CalmKept DEF AnswerInv
<1>21. ASSUME NEW ok \in BOOLEAN, AdvanceExhausted(ok)
       PROVE  AnswerInv'
  <2>1. /\ UNCHANGED <<committed, failed, leased, slow, kind, input, parked>>
        /\ pc' = At("final") /\ (LostAppends' = 0 => ok /\ LostAppends = 0) /\ pc.at = "advance"
    BY <1>21, ChargeTells DEF AdvanceExhausted, dispatch, world
  <2>2. /\ rounds # <<>> /\ FrontierTurn = Top /\ Frontier = LastRound /\ Top \in Turns
        /\ LastRound.branch \notin Final
    BY <2>1, AtWork
  <2>3. /\ DeadLettered(Top) \in Rounds /\ DeadLettered(Top).turn = Top
        /\ DeadLettered(Top).branch \in Final
    BY <2>2 DEF DeadLettered, Round, Rounds, Branches, Texts, Base, Final
  <2>4. LostAppends' = 0 => append_react_branch(DeadLettered(Top), TRUE)
    BY <1>21, <2>1, <2>2 DEF AdvanceExhausted, AnswerInv, append_react_branch
  <2>5. LostAppends' = 0 => LastRound' = DeadLettered(Top)
    BY <1>2, <2>2, <2>3, <2>4, BranchIsRecorded
  <2> QED
    BY <1>1, <1>3, <2>1, <2>2, <2>3, <2>5, CalmKept DEF AnswerInv
<1>22. ASSUME NEW ok \in BOOLEAN, AdvanceNext(ok)
       PROVE  AnswerInv'
  <2>1. /\ UNCHANGED <<committed, failed, leased, slow, kind, input, parked>>
        /\ pc' = Idle /\ (LostAppends' = 0 => LostAppends = 0) /\ pc.at = "advance"
    BY <1>22, ChargeTells DEF AdvanceNext, world
  <2>2. rounds # <<>>
    BY <2>1, AtWork
  <2> QED
    BY <1>1, <1>3, <2>1, <2>2, CalmKept DEF AnswerInv
<1>23. ASSUME NEW ok \in BOOLEAN, FinalizeLaunch(ok)
       PROVE  AnswerInv'
  <2>1. /\ UNCHANGED <<rounds, leased, slow, kind, input>> /\ (parked' => parked)
        /\ kind = "launch" /\ pc.at = "final" /\ pc' = Idle
        /\ (LostAppends' = 0 => LostAppends = 0)
        /\ committed' # committed => HasAnswer
        /\ failed' # failed => ~HasAnswer
    BY <1>23, ChargeTells DEF FinalizeLaunch, CommitLaunch, DeadLetterLaunch, world
  <2> QED
    BY <1>1, <1>3, <2>1, AnswerKept DEF AnswerInv
<1>24. ASSUME NEW m \in defs, Lease(m)
       PROVE  AnswerInv'
  <2>1. /\ UNCHANGED <<rounds, committed, failed, slow, kind, input, parked, faults, pc>>
        /\ leased' = leased \cup {m} /\ m # Launch
    BY <1>24 DEF Lease, facts
  <2> QED
    BY <1>1, <1>5, <2>1, CalmKept DEF AnswerInv, LostAppends
<1>25. ASSUME NEW m \in leased \cup slow, Reported(m), UNCHANGED failed \/ failed' = failed \cup {m},
              UNCHANGED committed \/ committed' = committed \cup {m}
       PROVE  AnswerInv'
  <2>1. /\ UNCHANGED <<rounds, kind, input, parked, faults, pc>> /\ m # Launch
        /\ leased' \subseteq leased /\ slow' \subseteq slow
    BY <1>25 DEF Reported, world, AnswerInv
  <2> QED
    BY <1>1, <1>5, <1>25, <2>1, CalmKept DEF AnswerInv, LostAppends
<1>26. CASE WorkerStep \/ LateStep
  <2>1. ASSUME NEW m \in leased \cup slow, StageMote(m) PROVE AnswerInv'
    <3>1. /\ UNCHANGED <<rounds, committed, failed, leased, slow, kind, input, parked, pc>>
          /\ LostAppends' = LostAppends
      BY <2>1 DEF StageMote, dispatch, world, LostAppends
    <3> QED
      BY <1>9, <3>1
  <2> QED
    BY <1>24, <1>25, <1>26, <2>1 DEF WorkerStep, LateStep, WorkOn, FailMote, CommitMote
<1>27. ASSUME NEW m \in leased, CrashMote(m)
       PROVE  AnswerInv'
  <2>1. /\ UNCHANGED <<rounds, committed, failed, kind, input, parked, pc>> /\ m # Launch
        /\ leased' \subseteq leased /\ slow' = slow \cup {m} /\ LostAppends' = LostAppends
    BY <1>27, ChargeTells DEF CrashMote, world, AnswerInv, Faults
  <2> QED
    BY <1>1, <1>5, <2>1, CalmKept DEF AnswerInv
<1>28. ASSUME NEW m \in requested, NEW grant \in BOOLEAN, NEW ok \in BOOLEAN,
              DecideApproval(m, grant, ok)
       PROVE  AnswerInv'
  <2>1. /\ UNCHANGED <<rounds, committed, failed, leased, slow, kind, input, parked, pc>>
        /\ (LostAppends' = 0 => LostAppends = 0)
    BY <1>28, ChargeTells DEF DecideApproval, dispatch, world
  <2> QED
    BY <1>9, <2>1
<1>29. ASSUME NEW c \in Removable, Deregister(c)
       PROVE  AnswerInv'
  <2>1. /\ UNCHANGED <<rounds, committed, failed, leased, slow, kind, input, parked, pc>>
        /\ LostAppends' = LostAppends
    BY <1>29, ChargeTells DEF Deregister, facts, dispatch, Faults
  <2> QED
    BY <1>9, <2>1
<1>30. CASE InputStep
  <2>1. /\ UNCHANGED <<rounds, committed, failed, leased, slow, kind, parked, pc, faults>>
        /\ input # "committed"
    BY <1>30 DEF InputStep, InputEnds, facts, dispatch
  <2> QED
    BY <1>1, <1>5, <2>1, AnswerKept DEF AnswerInv, LostAppends
<1>31. CASE Restart
  <2>1. /\ UNCHANGED <<rounds, committed, failed, kind, input>> /\ LostAppends' = LostAppends
        /\ leased' = {} /\ slow' = {} /\ ~parked' /\ pc' = At("rerank")
    BY <1>31, ChargeTells DEF Restart, facts, world, Faults
  <2> QED
    BY <1>1, <1>3, <2>1, CalmKept DEF AnswerInv
<1> QED
  BY <1>7, <1>8, <1>10, <1>11, <1>12, <1>13, <1>14, <1>15, <1>16, <1>17, <1>18, <1>19, <1>20,
     <1>21, <1>22, <1>23, <1>26, <1>27, <1>28, <1>29, <1>30, <1>31
     DEF Next, PassStep, ClientStep

\* The launch step is committed only with an answer of its chain, and dead-lettered
\* only if the chain has none and gets none later, provided no append failed
\* (finalize_agentic_launch).
THEOREM LaunchesTellTheTruth == Spec => []AnswerTruth
<1> DEFINE Inv == ChainInv /\ AnswerInv
<1>1. Init => Inv
  <2>1. ASSUME Init PROVE AnswerInv
    <3>1. Idle.at = "idle"
      BY AtType DEF Places, Idle
    <3> QED
      BY <2>1, <3>1 DEF Init, AnswerInv
  <2> QED
    BY <2>1, ChainInit
<1>2. Inv /\ [Next]_vars => Inv'
  BY ChainStep, AnswerStep
<1>3. Inv => AnswerTruth
  BY DEF AnswerInv, AnswerTruth, HasAnswer, LostAppends
<1> QED
  BY <1>1, <1>2, <1>3, PTL DEF Spec

-----------------------------------------------------------------------------
(* Where the passes move, and where facts come from *)

\* Only these steps take the passes to the calls of a turn, or beyond them.
WorkMoves ==
    \/ Drive \/ \E ok \in BOOLEAN : Freeze(ok) \/ Withhold(ok)
    \/ WithinCeiling \/ CallObserved \/ materialize_react_tool
    \/ PassRerank \/ StartRerank(FALSE)

\* Every step either is one of them, leaves the passes and the facts alone, or ends
\* where no work on the turn is under way.
LEMMA PassMoves ==
    ASSUME ChainInv, [Next]_vars
    PROVE  \/ WorkMoves
           \/ UNCHANGED <<facts, dispatch, pc>>
           \/ pc'.at \in {"idle", "launch", "rerank", "drive", "final"}
<1> DEFINE Goal == \/ WorkMoves
                   \/ UNCHANGED <<facts, dispatch, pc>>
                   \/ pc'.at \in {"idle", "launch", "rerank", "drive", "final"}
<1> USE AtType DEF Places, Idle
<1>1. ASSUME \/ BeginPass \/ LaunchWaits \/ UnparkLaunch \/ LeaveChain \/ CallCrashed
             \/ FinishChain \/ ClientStep \/ Restart
      PROVE  Goal
  BY <1>1 DEF BeginPass, LaunchWaits, UnparkLaunch, LeaveChain, CallCrashed, FinishChain,
              ClientStep, SubmitLaunch, SubmitSeed, Restart
<1>2. ASSUME NEW ok \in BOOLEAN,
             \/ LaunchUnsatisfiable(ok) \/ AnchorLaunch(ok) \/ SettleReranks(ok)
             \/ OverCeiling(ok) \/ CallFailed(ok) \/ CallPermanent(ok) \/ CallDenied(ok)
             \/ AdvanceExhausted(ok) \/ AdvanceNext(ok) \/ FinalizeLaunch(ok)
      PROVE  Goal
  BY <1>2 DEF LaunchUnsatisfiable, AnchorLaunch, SettleReranks, OverCeiling, CallFailed,
              CallPermanent, CallDenied, KillChain, AdvanceExhausted, AdvanceNext, FinalizeLaunch
<1>3. ASSUME NEW ok \in BOOLEAN, StartRerank(ok)
      PROVE  Goal
  BY <1>3 DEF StartRerank, WorkMoves
<1>4. ASSUME \/ Drive \/ \E ok \in BOOLEAN : Freeze(ok) \/ Withhold(ok)
             \/ WithinCeiling \/ CallObserved \/ materialize_react_tool \/ PassRerank
      PROVE  Goal
  BY <1>4 DEF WorkMoves
<1>5. ASSUME WorkerStep \/ LateStep \/ InputStep
      PROVE  Goal
  BY <1>5 DEF WorkerStep, LateStep, WorkOn, StageMote, Lease, FailMote, CommitMote, Reported, InputStep, InputEnds
<1>6. ASSUME NEW m \in leased, CrashMote(m)
      PROVE  Goal
  BY <1>6 DEF CrashMote
<1>7. ASSUME NEW m \in requested, NEW grant \in BOOLEAN, NEW ok \in BOOLEAN,
             DecideApproval(m, grant, ok)
      PROVE  Goal
  BY <1>7 DEF DecideApproval
<1>8. ASSUME NEW c \in Removable, Deregister(c)
      PROVE  Goal
  BY <1>8 DEF Deregister
<1>9. ASSUME UNCHANGED vars
      PROVE  Goal
  BY <1>9 DEF vars
<1> QED
  BY <1>1, <1>2, <1>3, <1>4, <1>5, <1>6, <1>7, <1>8, <1>9 DEF Next, PassStep

\* Only the start of a rerank anchors one.
LEMMA OnlyStartReranks ==
    ASSUME ChainInv, [Next]_vars
    PROVE  /\ reranked \subseteq reranked'
           /\ reranking' = reranking \/ StartRerank(TRUE)
<1> DEFINE Goal == reranked \subseteq reranked' /\ (reranking' = reranking \/ StartRerank(TRUE))
<1>1. ASSUME UNCHANGED facts PROVE Goal
  BY <1>1 DEF facts
<1>2. ASSUME \/ BeginPass \/ LaunchWaits \/ UnparkLaunch \/ LeaveChain \/ CallCrashed \/ Drive
             \/ WithinCeiling \/ CallObserved \/ materialize_react_tool \/ PassRerank
             \/ FinishChain \/ SubmitLaunch \/ Restart \/ InputStep \/ UNCHANGED vars
      PROVE  Goal
  BY <1>1, <1>2 DEF BeginPass, LaunchWaits, UnparkLaunch, LeaveChain, CallCrashed, Drive,
     WithinCeiling, CallObserved, materialize_react_tool, PassRerank, FinishChain, SubmitLaunch,
     Restart, InputStep, InputEnds, vars
<1>3. ASSUME NEW ok \in BOOLEAN,
             \/ SubmitSeed(ok) \/ LaunchUnsatisfiable(ok) \/ AnchorLaunch(ok) \/ SettleReranks(ok)
             \/ Freeze(ok) \/ Withhold(ok) \/ OverCeiling(ok) \/ CallFailed(ok)
             \/ CallPermanent(ok) \/ CallDenied(ok) \/ AdvanceExhausted(ok) \/ AdvanceNext(ok)
             \/ FinalizeLaunch(ok)
      PROVE  Goal
  BY <1>3 DEF SubmitSeed, LaunchUnsatisfiable, AnchorLaunch, SettleReranks, Freeze, Withhold,
     OverCeiling, CallFailed, CallPermanent, CallDenied, KillChain, AdvanceExhausted,
     AdvanceNext, FinalizeLaunch
<1>4. ASSUME NEW ok \in BOOLEAN, StartRerank(ok) PROVE Goal
  BY <1>4 DEF StartRerank
<1>5. ASSUME WorkerStep \/ LateStep PROVE Goal
  BY <1>1, <1>5 DEF WorkerStep, LateStep, WorkOn, StageMote, Lease, FailMote, CommitMote, Reported
<1>6. ASSUME NEW m \in leased, CrashMote(m) PROVE Goal
  BY <1>6 DEF CrashMote
<1>7. ASSUME NEW m \in requested, NEW grant \in BOOLEAN, NEW ok \in BOOLEAN,
             DecideApproval(m, grant, ok)
      PROVE  Goal
  BY <1>7 DEF DecideApproval
<1>8. ASSUME NEW c \in Removable, Deregister(c) PROVE Goal
  BY <1>1, <1>8 DEF Deregister
<1> QED
  BY <1>2, <1>3, <1>4, <1>5, <1>6, <1>7, <1>8 DEF Next, PassStep, ClientStep

\* Where a fact comes from.
Anchor == Round(0, "Pending", "none", Base)
Origin(r) ==
    \/ rounds = <<>> /\ r = Anchor /\ defs' = defs \cup {TurnMote(0, Base)}
    \/ Freeze(TRUE) /\ LastRound.branch = "Pending" /\ r.turn = Top /\ r.branch # "Pending"
    \/ /\ pc.at \in {"calls", "advance"} /\ r = DeadLettered(Top) /\ pc'.at = "final"
       /\ defs \subseteq defs' \cup {Obs}
    \/ CallFailed(TRUE) /\ r = Round(Top, "Rejected", "failed", Base)
    \/ AdvanceNext(TRUE) /\ r = Round(Top + 1, "Pending", "none", NextText(Top))

\* A step appends no fact, or one that is an anchor, a frozen branch, a dead letter, a
\* failed call or the next turn.
LEMMA FactsComeFrom ==
    ASSUME ChainInv, [Next]_vars
    PROVE  \/ rounds' = rounds
           \/ \E r \in Rounds : Origin(r) /\ rounds' = Append(rounds, r)
<1> DEFINE Goal == \/ rounds' = rounds
                   \/ \E r \in Rounds : Origin(r) /\ rounds' = Append(rounds, r)
<1>0. RoundsInv /\ TypeOK
  BY DEF ChainInv
<1>1. ASSUME NEW r \in Rounds, rounds' = rounds \/ rounds' = Append(rounds, r), Origin(r)
      PROVE  Goal
  BY <1>1
<1>2. ASSUME UNCHANGED rounds PROVE Goal
  BY <1>2
<1> HIDE DEF Goal
<1>3. Anchor \in Rounds
  BY ReactAssumption DEF ReactAssumption, Anchor, Round, Rounds, Branches, Texts, Base, Turns
<1>4. ASSUME NEW ok \in BOOLEAN, SubmitSeed(ok) \/ AnchorLaunch(ok) PROVE Goal
  <2>1. CASE rounds' = rounds
    BY <1>2, <2>1
  <2>2. CASE rounds' # rounds
    <3>1. ~Anchored /\ rounds' = Append(rounds, Anchor) /\ defs' = defs \cup {TurnMote(0, Base)}
      BY <1>4, <2>2 DEF SubmitSeed, AnchorLaunch, append_react_branch, Anchor
    <3>2. rounds = <<>>
      BY <1>0, <3>1, FrontierIsLast
    <3> QED
      BY <1>1, <1>3, <3>1, <3>2 DEF Origin
  <2> QED
    BY <2>1, <2>2
<1>5. ASSUME \/ BeginPass \/ LaunchWaits \/ UnparkLaunch \/ LeaveChain \/ CallCrashed \/ Drive
             \/ WithinCeiling \/ CallObserved \/ materialize_react_tool \/ PassRerank
             \/ FinishChain \/ SubmitLaunch \/ Restart \/ InputStep \/ UNCHANGED vars
      PROVE  Goal
  BY <1>2, <1>5 DEF BeginPass, LaunchWaits, UnparkLaunch, LeaveChain, CallCrashed, Drive,
     WithinCeiling, CallObserved, materialize_react_tool, PassRerank, FinishChain, SubmitLaunch,
     Restart, InputStep, InputEnds, vars, facts
<1>6. ASSUME NEW ok \in BOOLEAN,
             \/ LaunchUnsatisfiable(ok) \/ SettleReranks(ok) \/ Withhold(ok) \/ StartRerank(ok)
             \/ FinalizeLaunch(ok)
      PROVE  Goal
  BY <1>2, <1>6 DEF LaunchUnsatisfiable, SettleReranks, Withhold, StartRerank, FinalizeLaunch
<1>7. ASSUME WorkerStep \/ LateStep PROVE Goal
  BY <1>2, <1>7 DEF WorkerStep, LateStep, WorkOn, StageMote, Lease, FailMote, CommitMote, Reported, facts
<1>8. ASSUME NEW m \in leased, CrashMote(m) PROVE Goal
  BY <1>2, <1>8 DEF CrashMote
<1>9. ASSUME NEW m \in requested, NEW grant \in BOOLEAN, NEW ok \in BOOLEAN,
             DecideApproval(m, grant, ok)
      PROVE  Goal
  BY <1>2, <1>9 DEF DecideApproval
<1>10. ASSUME NEW c \in Removable, Deregister(c) PROVE Goal
  BY <1>2, <1>10 DEF Deregister, facts
<1>11. ASSUME NEW ok \in BOOLEAN, Freeze(ok) PROVE Goal
  <2>1. ~Quiescent /\ Frontier.branch = "Pending" /\ Anchored
    BY <1>11 DEF Freeze, Quiescent
  <2>2. rounds # <<>>
    BY <1>0, <2>1 DEF Anchored
  <2>3. FrontierTurn = Top /\ LastRound.branch = "Pending" /\ Top \in Turns /\ HasTurn(Top)
    BY <1>0, <2>1, <2>2, FrontierIsLast
  <2> DEFINE r == IF StateOf(MoteOf(Top)) = "Failed" THEN DeadLettered(Top) ELSE Decision(Top)
  <2>4. DeadLettered(Top) \in Rounds /\ DeadLettered(Top).turn = Top
        /\ DeadLettered(Top).branch = "DeadLettered"
    BY <2>3 DEF DeadLettered, Round, Rounds, Branches, Texts, Base
  <2>5. r \in Rounds /\ r.turn = Top /\ r.branch # "Pending"
    BY <1>0, <2>3, <2>4, DecisionIs
  <2>6. append_react_branch(r, ok)
    BY <1>11, <2>3 DEF Freeze
  <2> HIDE DEF r
  <2>7. rounds' = rounds \/ (ok /\ rounds' = Append(rounds, r))
    BY <2>6 DEF append_react_branch
  <2>8. ok => Origin(r)
    BY <1>11, <2>3, <2>5 DEF Origin
  <2> QED
    BY <1>1, <1>2, <2>5, <2>7, <2>8
<1>12. ASSUME NEW ok \in BOOLEAN, OverCeiling(ok) \/ CallPermanent(ok) \/ CallDenied(ok)
       PROVE  Goal
  <2>1. KillChain(ok) /\ pc.at = "calls"
    BY <1>12 DEF OverCeiling, CallPermanent, CallDenied, AtCall, Dispatchable
  <2>2. /\ rounds' = rounds \/ (ok /\ rounds' = Append(rounds, DeadLettered(Top)))
        /\ pc' = At("final")
    BY <2>1, KillIs
  <2>3. pc'.at = "final"
    BY <2>2, AtType DEF Places
  <2>4. defs \subseteq defs' \cup {Obs}
    BY <1>12 DEF OverCeiling, CallPermanent, CallDenied
  <2>5. DeadLettered(Top) \in Rounds
    BY <2>1, AtWork DEF DeadLettered, Round, Rounds, Branches, Texts, Base
  <2>6. Origin(DeadLettered(Top))
    BY <2>1, <2>3, <2>4 DEF Origin
  <2> QED
    BY <1>1, <2>2, <2>5, <2>6
<1>13. ASSUME NEW ok \in BOOLEAN, CallFailed(ok) PROVE Goal
  <2>1. pc.at = "calls"
    BY <1>13 DEF CallFailed, AtCall
  <2>2. FrontierTurn = Top /\ Top \in Turns
    BY <2>1, AtWork
  <2> DEFINE r == Round(Top, "Rejected", "failed", Base)
  <2>3. r \in Rounds
    BY <2>2 DEF Round, Rounds, Branches, Reasons, Texts, Base
  <2>4. append_react_branch(r, ok)
    BY <1>13, <2>2 DEF CallFailed
  <2>5. ok => Origin(r)
    BY <1>13 DEF Origin
  <2> HIDE DEF r
  <2>6. rounds' = rounds \/ (ok /\ rounds' = Append(rounds, r))
    BY <2>4 DEF append_react_branch
  <2> QED
    BY <1>1, <1>2, <2>3, <2>5, <2>6
<1>14. ASSUME NEW ok \in BOOLEAN, AdvanceExhausted(ok) PROVE Goal
  <2>1. pc.at = "advance" /\ pc' = At("final") /\ defs' = defs
    BY <1>14 DEF AdvanceExhausted, dispatch
  <2>2. FrontierTurn = Top /\ Top \in Turns
    BY <2>1, AtWork
  <2>3. pc'.at = "final"
    BY <2>1, AtType DEF Places
  <2>4. rounds' = rounds \/ rounds' = Append(rounds, DeadLettered(Top))
    BY <1>14, <2>2 DEF AdvanceExhausted, append_react_branch
  <2>5. DeadLettered(Top) \in Rounds
    BY <2>2 DEF DeadLettered, Round, Rounds, Branches, Texts, Base
  <2>6. Origin(DeadLettered(Top))
    BY <2>1, <2>3 DEF Origin
  <2> QED
    BY <1>1, <2>4, <2>5, <2>6
<1>15. ASSUME NEW ok \in BOOLEAN, AdvanceNext(ok) PROVE Goal
  <2>1. pc.at = "advance" /\ ~Exhausted(FrontierTurn)
    BY <1>15 DEF AdvanceNext
  <2>2. FrontierTurn = Top /\ Top \in Turns /\ rounds # <<>>
    BY <2>1, AtWork
  <2> DEFINE r == Round(Top + 1, "Pending", "none", NextText(Top))
  <2>3. Top + 1 \in Turns
    BY <2>1, <2>2, ReactAssumption DEF Exhausted, Turns, ReactAssumption
  <2>4. r \in Rounds
    BY <2>2, <2>3, NextTextType DEF Round, Rounds, Branches
  <2>5. append_react_branch(r, ok)
    BY <1>15, <2>2 DEF AdvanceNext
  <2>6. ok => Origin(r)
    BY <1>15 DEF Origin
  <2> HIDE DEF r
  <2>7. rounds' = rounds \/ (ok /\ rounds' = Append(rounds, r))
    BY <2>5 DEF append_react_branch
  <2> QED
    BY <1>1, <1>2, <2>4, <2>6, <2>7
<1> QED
  BY <1>4, <1>5, <1>6, <1>7, <1>8, <1>9, <1>10, <1>11, <1>12, <1>13, <1>14, <1>15
     DEF Next, PassStep, ClientStep, Goal

-----------------------------------------------------------------------------
(* Back pressure *)

AllObserved(t) == \A i \in 1 .. Len(CallsOf(t)) : ObsMote(t, i) \in committed

\* The calls of the turn at work are done up to where the passes stand.
ObservedSoFar ==
    /\ pc.at = "calls" /\ pc.all =>
          \A i \in 1 .. pc.call - 1 : ObsMote(Top, i) \in committed
    /\ pc.at = "gate" => AllObserved(Top)
    /\ pc.at = "advance" /\ HasFact(Top, "Tool") /\ ~HasFact(Top, "Rejected") =>
          AllObserved(Top) /\ Top \notin reranking \ reranked

\* A rerank is anchored for a turn that retrieved passages.
Reranks == \A t \in reranking : t \in Turns /\ Decided(t) /\ HasRetrieval(t)

Pressed(t) ==
    HasFact(t, "Tool") /\ ~HasFact(t, "Rejected") /\ HasTurn(t + 1) =>
        AllObserved(t) /\ t \notin reranking \ reranked

PressureInv == ObservedSoFar /\ Reranks /\ \A t \in Turns : Pressed(t)

\* A turn whose last fact is Pending has no other fact.
LEMMA PendingIsAlone ==
    ASSUME RoundsInv, rounds # <<>>, LastRound.branch = "Pending", NEW b, HasFact(Top, b)
    PROVE  b = "Pending"
<1>1. Len(rounds) \in Nat /\ Len(rounds) \in 1 .. Len(rounds) /\ DOMAIN rounds = 1 .. Len(rounds)
  BY DEF RoundsInv
<1>2. Opens(Len(rounds), Top)
  BY <1>1 DEF RoundsInv, PendingOpens, LastRound, Top
<1>3. PICK k \in 1 .. Len(rounds) : rounds[k].turn = Top /\ rounds[k].branch = b
  BY <1>1 DEF HasFact
<1>4. Len(rounds) \in Nat
  BY <1>1
<1>5. k \in 1 .. Len(rounds) - 1 \/ k = Len(rounds)
  BY <1>4
<1> QED
  BY <1>2, <1>3, <1>5 DEF Opens, LastRound

\* The last fact is a fact of the turn at work.
LEMMA LastIsFact ==
    ASSUME RoundsInv, rounds # <<>>
    PROVE  HasFact(Top, LastRound.branch)
<1>1. Len(rounds) \in DOMAIN rounds
  BY DEF RoundsInv
<1> QED
  BY <1>1 DEF HasFact, Top, LastRound

\* What is observed stays observed.
LEMMA ObservedStays ==
    ASSUME ChainInv, RoundsGrow, OutputsStay, NEW t \in Turns, Decided(t), AllObserved(t)
    PROVE  AllObserved(t)'
<1>1. CallsOf(t)' = CallsOf(t) /\ committed \subseteq committed'
  BY DecidedStays DEF ChainInv, OutputsStay
<1> QED
  BY <1>1 DEF AllObserved

\* Where the passes end up, the calls so far are observed.
LEMMA ObservedStep ==
    ASSUME ChainInv, PressureInv, [Next]_vars
    PROVE  ObservedSoFar'
<1>1. RoundsGrow /\ OutputsStay /\ ChainInv' /\ RoundsInv /\ DecidedInv
  BY ChainStep DEF ChainInv
<1>2. CASE pc'.at \in {"idle", "launch", "rerank", "drive", "final"}
  BY <1>2 DEF ObservedSoFar
<1>3. ASSUME UNCHANGED facts
      PROVE  /\ \A t : CallsOf(t)' = CallsOf(t) /\ (AllObserved(t)' <=> AllObserved(t))
             /\ Top' = Top /\ LastRound' = LastRound
             /\ \A t, b : HasFact(t, b)' <=> HasFact(t, b)
             /\ UNCHANGED <<committed, reranking, reranked, rounds>>
  <2>1. UNCHANGED <<rounds, committed, output, reranking, reranked>>
    BY <1>3 DEF facts
  <2>2. \A t : CallsOf(t)' = CallsOf(t)
    BY <2>1 DEF CallsOf, OutputOf, MoteOf
  <2> QED
    BY <2>1, <2>2 DEF AllObserved, Top, LastRound, HasFact
<1>4. CASE UNCHANGED <<facts, dispatch, pc>>
  <2>1. UNCHANGED facts /\ pc' = pc
    BY <1>4
  <2> QED
    BY <1>3, <2>1 DEF ObservedSoFar, PressureInv
<1>5. CASE Drive
  <2>1. /\ UNCHANGED facts /\ pc' = At(DriveTo(Frontier.branch)) /\ Anchored
        /\ Frontier.branch # "Pending"
    BY <1>5 DEF Drive, Quiescent
  <2>2. rounds # <<>>
    BY <1>1, <2>1 DEF Anchored
  <2>3. Frontier = LastRound /\ LastRound \in Rounds
    BY <1>1, <2>2, FrontierIsLast
  <2>4. LastRound.branch \in Branches
    BY <2>3 DEF Rounds
  <2>5. \/ pc' = At("calls") \/ pc' = At("final")
        \/ pc' = At("advance") /\ LastRound.branch = "Rejected"
    BY <2>1, <2>3, <2>4 DEF DriveTo, Branches
  <2>6. \/ pc'.at = "calls" /\ pc'.call = 0
        \/ pc'.at = "final"
        \/ pc'.at = "advance" /\ HasFact(Top, "Rejected")
    BY <1>1, <2>2, <2>5, LastIsFact, AtType DEF Places
  <2> QED
    BY <1>3, <2>1, <2>6 DEF ObservedSoFar
<1>6. ASSUME NEW ok \in BOOLEAN, Freeze(ok)
      PROVE  ObservedSoFar'
  <2>1. ~Quiescent /\ Frontier.branch = "Pending" /\ Anchored
    BY <1>6 DEF Freeze, Quiescent
  <2>2. rounds # <<>>
    BY <1>1, <2>1 DEF Anchored
  <2>3. FrontierTurn = Top /\ LastRound.branch = "Pending" /\ Top \in Turns /\ HasTurn(Top)
    BY <1>1, <2>1, <2>2, FrontierIsLast
  <2>4. DeadLettered(Top) \in Rounds /\ DeadLettered(Top).turn = Top
        /\ DeadLettered(Top).branch = "DeadLettered"
    BY <2>3 DEF DeadLettered, Round, Rounds, Branches, Texts, Base
  <2>5. Decision(Top) \in Rounds /\ Decision(Top).turn = Top
        /\ Decision(Top).branch \in {"Rejected", "Answer", "Tool"}
    BY <1>1, <2>3, DecisionIs DEF ChainInv
  <2>6. PICK r \in Rounds : /\ r.turn = Top /\ r.branch \in Branches \ {"Pending"}
                           /\ append_react_branch(r, ok) /\ pc' = At(DriveTo(r.branch))
    BY <1>6, <2>3, <2>4, <2>5 DEF Freeze, Branches
  <2>7. \/ pc' = At("calls") \/ pc' = At("final")
        \/ pc' = At("advance") /\ r.branch = "Rejected"
    BY <2>6 DEF DriveTo, Branches
  <2>8. \/ pc'.at = "calls" /\ pc'.call = 0
        \/ pc'.at = "final"
        \/ pc'.at = "advance" /\ r.branch = "Rejected"
    BY <2>7, AtType DEF Places
  <2>9. CASE ok
    <3>1. rounds' = Append(rounds, r)
      BY <1>1, <2>2, <2>3, <2>6, <2>9, BranchIsRecorded DEF Final
    <3>2. Top' = Top /\ HasFact(Top, r.branch)'
      BY <1>1, <2>6, <3>1, AppendAdds
    <3> QED
      BY <2>8, <3>2 DEF ObservedSoFar
  <2>10. CASE ~ok
    <3>1. rounds' = rounds
      BY <2>6, <2>10 DEF append_react_branch
    <3>2. ~HasFact(Top, "Tool")
      BY <1>1, <2>2, <2>3, PendingIsAlone
    <3>3. Top' = Top /\ ~HasFact(Top, "Tool")'
      BY <3>1, <3>2 DEF Top, LastRound, HasFact
    <3> QED
      BY <2>8, <3>3 DEF ObservedSoFar
  <2> QED
    BY <2>9, <2>10
<1>7. ASSUME pc.at = "calls", NEW all \in BOOLEAN, NextCall(all),
             UNCHANGED <<rounds, committed, output>>,
             all => \A i \in 1 .. pc.call : ObsMote(Top, i) \in committed
      PROVE  ObservedSoFar'
  <2>1. \/ /\ pc'.at = "calls" /\ pc'.call = pc.call + 1 /\ pc'.all = all
        \/ pc'.at = "gate" /\ all /\ pc.call = Len(CallsOf(Top))
        \/ pc'.at = "idle"
    BY <1>7, NextCallIs
  <2>2. pc.call \in 0 .. Len(CallsOf(Top)) /\ Len(CallsOf(Top)) \in Nat
    BY <1>7, AtWork, ReactAssumption DEF ReactAssumption
  <2>3. Top' = Top /\ committed' = committed /\ CallsOf(Top)' = CallsOf(Top)
    BY <1>7 DEF Top, LastRound, CallsOf, OutputOf, MoteOf
  <2>4. CASE pc'.at = "calls" /\ pc'.call = pc.call + 1 /\ pc'.all = all
    <3>1. pc'.call - 1 = pc.call
      BY <2>2, <2>4
    <3> QED
      BY <1>7, <2>3, <2>4, <3>1 DEF ObservedSoFar
  <2>5. CASE pc'.at = "gate" /\ all /\ pc.call = Len(CallsOf(Top))
    BY <1>7, <2>3, <2>5 DEF ObservedSoFar, AllObserved
  <2> QED
    BY <2>1, <2>4, <2>5 DEF ObservedSoFar
<1>8. CASE WithinCeiling
  <2>1. pc.at = "calls" /\ pc.call = 0 /\ NextCall(TRUE) /\ UNCHANGED facts
    BY <1>8 DEF WithinCeiling
  <2>2. \A i \in 1 .. pc.call : FALSE
    BY <2>1
  <2>3. UNCHANGED <<rounds, committed, output>>
    BY <2>1 DEF facts
  <2> QED
    BY <1>7, <2>1, <2>2, <2>3
<1>9. CASE CallObserved
  <2>1. pc.at = "calls" /\ StateOf(Obs) = "Committed" /\ NextCall(pc.all) /\ UNCHANGED facts
    BY <1>9 DEF CallObserved, AtCall
  <2>2. Obs = ObsMote(Top, pc.call) /\ Obs \in committed /\ pc.call \in Nat
    BY <2>1, AtWork, StateIs
  <2>3. pc.all => \A i \in 1 .. pc.call : ObsMote(Top, i) \in committed
    <3> SUFFICES ASSUME pc.all, NEW i \in 1 .. pc.call PROVE ObsMote(Top, i) \in committed
      OBVIOUS
    <3>1. i = pc.call \/ i \in 1 .. pc.call - 1
      BY <2>2
    <3> QED
      BY <2>1, <2>2, <3>1 DEF PressureInv, ObservedSoFar
  <2>4. pc.all \in BOOLEAN
    BY TypeParts DEF ChainInv, PcType
  <2> QED
    BY <1>7, <2>1, <2>3, <2>4 DEF facts
<1>10. CASE materialize_react_tool \/ \E ok \in BOOLEAN : Withhold(ok)
  <2>1. pc.at = "calls" /\ NextCall(FALSE) /\ UNCHANGED <<rounds, committed, output>>
    BY <1>10 DEF materialize_react_tool, Withhold, Dispatchable, AtCall, facts
  <2> QED
    BY <1>7, <2>1
<1>11. CASE PassRerank
  <2>1. /\ pc.at = "gate" /\ UNCHANGED facts
        /\ ~HasRetrieval(FrontierTurn) \/ FrontierTurn \in reranked \/ FrontierTurn \in reranking
        /\ pc' = IF HasRetrieval(FrontierTurn) /\ FrontierTurn \in reranking \ reranked
                 THEN Idle ELSE At("advance")
    BY <1>11 DEF PassRerank
  <2>2. FrontierTurn = Top
    BY <2>1, AtWork
  <2>3. Idle.at = "idle" /\ At("advance").at = "advance"
    BY AtType DEF Idle, Places
  <2>4. AllObserved(Top) /\ (Top \in reranking => HasRetrieval(Top))
    BY <2>1 DEF PressureInv, ObservedSoFar, Reranks
  <2>5. pc'.at = "idle" \/ (pc'.at = "advance" /\ Top \notin reranking \ reranked)
    BY <2>1, <2>2, <2>3, <2>4
  <2> QED
    BY <1>3, <2>1, <2>4, <2>5 DEF ObservedSoFar
<1>12. CASE StartRerank(FALSE)
  <2>1. /\ pc.at = "gate" /\ FrontierTurn \notin reranking /\ pc' = At("advance")
        /\ UNCHANGED <<rounds, committed, output, reranking, reranked>>
    BY <1>12 DEF StartRerank
  <2>2. FrontierTurn = Top /\ AllObserved(Top)
    BY <2>1, AtWork DEF PressureInv, ObservedSoFar
  <2>3. pc'.at = "advance"
    BY <2>1, AtType DEF Places
  <2>4. Top' = Top /\ CallsOf(Top)' = CallsOf(Top)
    BY <2>1 DEF Top, LastRound, CallsOf, OutputOf, MoteOf
  <2>5. AllObserved(Top)'
    BY <2>1, <2>2, <2>4 DEF AllObserved
  <2> QED
    BY <2>1, <2>2, <2>3, <2>4, <2>5 DEF ObservedSoFar
<1> QED
  BY <1>2, <1>4, <1>5, <1>6, <1>8, <1>9, <1>10, <1>11, <1>12, PassMoves DEF WorkMoves

\* Retrieval stays what the decided turn proposed.
LEMMA RerankStep ==
    ASSUME ChainInv, PressureInv, [Next]_vars
    PROVE  Reranks'
<1>1. RoundsGrow /\ OutputsStay /\ RoundsInv
  BY ChainStep DEF ChainInv
<1>2. ASSUME NEW t \in Turns, Decided(t), HasRetrieval(t)
      PROVE  t \in Turns /\ Decided(t)' /\ HasRetrieval(t)'
  <2>1. Decided(t)' /\ OutputOf(t)' = OutputOf(t)
    BY <1>1, <1>2, DecidedStays
  <2> QED
    BY <1>2, <2>1 DEF HasRetrieval
<1>3. CASE reranking' = reranking
  BY <1>2, <1>3 DEF PressureInv, Reranks
<1>4. CASE StartRerank(TRUE)
  <2>1. pc.at = "gate" /\ HasRetrieval(FrontierTurn) /\ reranking' = reranking \cup {FrontierTurn}
    BY <1>4 DEF StartRerank
  <2>2. FrontierTurn = Top /\ Top \in Turns /\ Decided(Top)
    BY <2>1, AtWork
  <2>3. \A t \in reranking' : t \in Turns /\ Decided(t) /\ HasRetrieval(t)
    BY <2>1, <2>2 DEF PressureInv, Reranks
  <2> QED
    BY <1>2, <2>3 DEF Reranks
<1> QED
  BY <1>3, <1>4, OnlyStartReranks

\* No turn is opened over calls that are not observed.
LEMMA PressedStep ==
    ASSUME ChainInv, PressureInv, [Next]_vars, NEW t \in Turns
    PROVE  Pressed(t)'
<1> SUFFICES ASSUME HasFact(t, "Tool")', ~HasFact(t, "Rejected")', HasTurn(t + 1)'
             PROVE  AllObserved(t)' /\ t \notin reranking' \ reranked'
  BY DEF Pressed
<1>1. RoundsGrow /\ OutputsStay /\ RoundsInv /\ DecidedInv
  BY ChainStep DEF ChainInv
<1>2. t \in Nat
  BY DEF Turns
<1>3. ~HasFact(t, "Rejected")
  BY <1>1, FactsPersist
<1>4. CASE HasTurn(t + 1)
  <2>1. rounds # <<>> /\ t + 1 <= Top /\ Top \in Turns
    BY <1>1, <1>4, TopIsHighest, FrontierIsLast
  <2>2. HasFact(t, "Tool")
    <3>1. CASE rounds' = rounds
      BY <3>1 DEF HasFact
    <3>2. ASSUME NEW r \in Rounds, Appendable(r), rounds' = Append(rounds, r)
          PROVE  HasFact(t, "Tool")
      <4>1. r.turn = Top \/ r.turn = Top + 1
        BY <2>1, <3>2 DEF Appendable
      <4>2. t # r.turn
        BY <1>2, <2>1, <4>1 DEF Turns
      <4> QED
        BY <1>1, <3>2, <4>2, AppendAdds
    <3> QED
      BY <1>1, <3>1, <3>2 DEF RoundsGrow
  <2>3. AllObserved(t) /\ t \notin reranking \ reranked /\ Decided(t)
    BY <1>1, <1>3, <1>4, <2>2 DEF PressureInv, Pressed, DecidedInv
  <2>4. t \notin reranking' \ reranked'
    <3>1. StartRerank(TRUE) => reranking' = reranking \cup {Top}
      <4> SUFFICES ASSUME StartRerank(TRUE) PROVE reranking' = reranking \cup {Top}
        OBVIOUS
      <4>1. pc.at = "gate" /\ reranking' = reranking \cup {FrontierTurn}
        BY DEF StartRerank
      <4> QED
        BY <4>1, AtWork
    <3>2. t # Top
      BY <1>2, <2>1 DEF Turns
    <3> QED
      BY <2>3, <3>1, <3>2, OnlyStartReranks
  <2> QED
    BY <1>1, <2>3, <2>4, ObservedStays
<1>5. CASE ~HasTurn(t + 1)
  <2>1. rounds' # rounds
    BY <1>5 DEF HasTurn
  <2>2. PICK r \in Rounds : Origin(r) /\ rounds' = Append(rounds, r)
    BY <2>1, FactsComeFrom
  <2>3. r.turn = t + 1
    BY <1>1, <1>5, <2>2, AppendAdds
  <2>4. rounds # <<>> => HasTurn(Top) /\ Top \in Turns
    BY <1>1, FrontierIsLast
  <2>5. r # Anchor
    BY <1>2, <2>3 DEF Anchor, Round
  <2>6. r.turn # Top \/ rounds = <<>>
    BY <1>5, <2>3, <2>4
  <2>7. DeadLettered(Top).turn = Top /\ Round(Top, "Rejected", "failed", Base).turn = Top
    BY DEF DeadLettered, Round
  <2>8. pc.at \in {"calls", "advance"} \/ CallFailed(TRUE) \/ Freeze(TRUE) => rounds # <<>>
    <3>1. CallFailed(TRUE) => pc.at = "calls"
      BY DEF CallFailed, AtCall
    <3>2. Freeze(TRUE) => Anchored
      BY DEF Freeze, Quiescent
    <3>3. Anchored => rounds # <<>>
      BY DEF Anchored
    <3> QED
      BY <3>1, <3>2, <3>3, AtWork
  <2>9. AdvanceNext(TRUE) /\ r = Round(Top + 1, "Pending", "none", NextText(Top))
    BY <2>2, <2>5, <2>6, <2>7, <2>8 DEF Origin
  <2>10. pc.at = "advance" /\ UNCHANGED <<reranking, reranked>>
    BY <2>9 DEF AdvanceNext
  <2>11. r.turn = Top + 1 /\ r.branch = "Pending"
    BY <2>9 DEF Round
  <2>12. t = Top /\ Top \in Turns
    BY <1>2, <2>3, <2>4, <2>8, <2>10, <2>11 DEF Turns
  <2>13. HasFact(t, "Tool")
    BY <1>1, <2>2, <2>11, AppendAdds
  <2>14. AllObserved(t) /\ t \notin reranking \ reranked /\ Decided(t)
    BY <1>1, <1>3, <2>10, <2>12, <2>13 DEF PressureInv, ObservedSoFar, DecidedInv
  <2> QED
    BY <1>1, <2>10, <2>14, ObservedStays
<1> QED
  BY <1>4, <1>5

\* No turn follows a recorded tool turn before all of its calls are observed and its
\* passages reranked, unless the turn was rejected, whatever the batch, the
\* interleaving with the workers, the restarts and the failed appends
\* (progress_tool_batch, maybe_gate_on_rerank).
THEOREM TurnsWaitForTheirCalls == Spec => []BackPressure
<1>1. Init => ChainInv /\ PressureInv
  <2> SUFFICES ASSUME Init PROVE ChainInv /\ PressureInv
    OBVIOUS
  <2>1. Idle.at = "idle"
    BY AtType DEF Idle, Places
  <2>2. rounds = <<>> /\ reranking = {} /\ pc.at = "idle"
    BY <2>1 DEF Init
  <2>3. \A t : ~HasTurn(t)
    BY <2>2 DEF HasTurn
  <2>4. PressureInv
    BY <2>2, <2>3 DEF PressureInv, ObservedSoFar, Reranks, Pressed
  <2> QED
    BY <2>4, ChainInit
<1>2. ChainInv /\ PressureInv /\ [Next]_vars => (ChainInv /\ PressureInv)'
  BY ChainStep, ObservedStep, RerankStep, PressedStep DEF PressureInv
<1>3. ChainInv /\ PressureInv => BackPressure
  <2> SUFFICES ASSUME ChainInv, PressureInv, NEW t \in Turns,
                      HasFact(t, "Tool"), ~HasFact(t, "Rejected"), HasTurn(t + 1)
               PROVE  /\ \A i \in DOMAIN OutputOf(t).calls : ObsMote(t, i) \in committed
                      /\ t \notin reranking \ reranked
    BY DEF BackPressure
  <2>1. AllObserved(t) /\ t \notin reranking \ reranked /\ Decided(t)
    BY DEF PressureInv, Pressed, ChainInv, DecidedInv
  <2>2. CallsOf(t) \in Seq(Calls)
    BY <2>1, DecidedOutput DEF ChainInv
  <2>3. DOMAIN OutputOf(t).calls = 1 .. Len(CallsOf(t))
    BY <2>2 DEF CallsOf
  <2> QED
    BY <2>1, <2>3 DEF AllObserved
<1> QED
  BY <1>1, <1>2, <1>3, PTL DEF Spec

-----------------------------------------------------------------------------
(* The turn in flight *)

\* What was spent, as pairs of a fact and one of the calls it stands for.
SpentPairs(S) == {kj \in (DOMAIN rounds) \X Slots :
                    /\ rounds[kj[1]].turn \in S
                    /\ kj[2] <= Width(rounds[kj[1]])}

\* A fact that is recorded is worth the same for ever.
LEMMA WidthStays ==
    ASSUME ChainInv, RoundsGrow, OutputsStay, NEW k \in 1 .. Len(rounds)
    PROVE  /\ rounds'[k] = rounds[k] /\ k \in 1 .. Len(rounds')
           /\ Width(rounds[k])' = Width(rounds[k])
<1>1. RoundsInv /\ DecidedInv
  BY DEF ChainInv
<1>2. rounds[k] \in Rounds
  BY <1>1 DEF RoundsInv
<1>3. rounds'[k] = rounds[k] /\ k \in 1 .. Len(rounds')
  <2>1. CASE rounds' = rounds
    BY <2>1
  <2>2. ASSUME NEW r \in Rounds, rounds' = Append(rounds, r)
        PROVE  rounds'[k] = rounds[k] /\ k \in 1 .. Len(rounds')
    BY <1>1, <2>2 DEF RoundsInv
  <2> QED
    BY <2>1, <2>2 DEF RoundsGrow
<1>4. PICK t \in Turns : t = rounds[k].turn
  BY <1>2 DEF Rounds
<1>5. CASE rounds[k].branch = "Tool"
  <2>1. HasFact(t, "Tool")
    BY <1>1, <1>4, <1>5 DEF HasFact, RoundsInv
  <2>2. OutputOf(t)' = OutputOf(t)
    BY <1>1, <2>1, DecidedStays DEF DecidedInv
  <2>3. Width(rounds[k]) = Len(OutputOf(t).calls)
    BY <1>4, <1>5 DEF Width
  <2>4. Width(rounds[k])' = Len(OutputOf(t)'.calls)
    BY <1>3, <1>4, <1>5 DEF Width
  <2> QED
    BY <1>3, <2>2, <2>3, <2>4
<1>6. CASE rounds[k].branch # "Tool"
  BY <1>3, <1>6 DEF Width
<1> QED
  BY <1>3, <1>5, <1>6

\* A fact of another turn does not change what the turns in S have spent.
LEMMA SpentStays ==
    ASSUME ChainInv, RoundsGrow, OutputsStay, NEW S,
           \A r \in Rounds : rounds' = Append(rounds, r) => r.turn \notin S
    PROVE  SpentPairs(S)' = SpentPairs(S) /\ SpentIn(S)' = SpentIn(S)
<1>1. RoundsInv
  BY DEF ChainInv
<1>2. \A k \in 1 .. Len(rounds) : /\ rounds'[k] = rounds[k] /\ k \in 1 .. Len(rounds')
                                  /\ Width(rounds[k])' = Width(rounds[k])
  BY WidthStays
<1>3. DOMAIN rounds = 1 .. Len(rounds) /\ DOMAIN rounds' = 1 .. Len(rounds')
  BY <1>1, GrowKeepsOrder DEF RoundsInv
<1>4. \A k \in 1 .. Len(rounds') : k \in 1 .. Len(rounds) \/ rounds'[k].turn \notin S
  <2>1. CASE rounds' = rounds
    BY <2>1
  <2>2. ASSUME NEW r \in Rounds, rounds' = Append(rounds, r), NEW k \in 1 .. Len(rounds')
        PROVE  k \in 1 .. Len(rounds) \/ rounds'[k].turn \notin S
    <3>1. Len(rounds) \in Nat /\ Len(rounds') = Len(rounds) + 1 /\ rounds'[Len(rounds) + 1] = r
      BY <1>1, <2>2 DEF RoundsInv
    <3>2. k \in 1 .. Len(rounds) \/ k = Len(rounds) + 1
      BY <3>1
    <3> QED
      BY <2>2, <3>1, <3>2
  <2> QED
    BY <2>1, <2>2 DEF RoundsGrow
<1>5. SpentPairs(S)' = SpentPairs(S)
  BY <1>2, <1>3, <1>4 DEF SpentPairs
<1> QED
  BY <1>5 DEF SpentIn, SpentPairs

\* A turn below the last keeps its refusal.
LEMMA RejectStays ==
    ASSUME RoundsInv, RoundsGrow, NEW t \in Turns, rounds # <<>>, t < Top
    PROVE  RejectOf(t)' = RejectOf(t)
<1>1. CASE rounds' = rounds
  BY <1>1 DEF RejectOf, HasTurn, LatestOf
<1>2. ASSUME NEW r \in Rounds, Appendable(r), rounds' = Append(rounds, r)
      PROVE  RejectOf(t)' = RejectOf(t)
  <2>1. RoundsInv' /\ Top \in Turns
    BY GrowKeepsOrder, FrontierIsLast
  <2>2. r.turn # t
    BY <1>2, <2>1 DEF Appendable, Turns
  <2>3. HasTurn(t)' <=> HasTurn(t)
    BY <1>2, <2>2, AppendAdds
  <2>4. CASE HasTurn(t)
    <3>1. PICK k \in 1 .. Len(rounds) : Closes(k, t)
      BY <2>4 DEF RoundsInv, Closed
    <3>2. /\ Len(rounds) \in Nat /\ Len(rounds') = Len(rounds) + 1
          /\ rounds'[Len(rounds) + 1] = r
          /\ \A j \in 1 .. Len(rounds) : rounds'[j] = rounds[j]
      BY <1>2 DEF RoundsInv
    <3>3. Closes(k, t)'
      <4>1. \A j \in 1 .. Len(rounds') : j \in 1 .. Len(rounds) \/ j = Len(rounds) + 1
        BY <3>2
      <4>2. k \in 1 .. Len(rounds') /\ rounds'[k].turn = t
        BY <3>1, <3>2 DEF Closes
      <4>3. \A j \in 1 .. Len(rounds') : rounds'[j].turn = t => j <= k
        BY <2>2, <3>1, <3>2, <4>1 DEF Closes
      <4> QED
        BY <4>2, <4>3 DEF Closes
    <3>4. LatestOf(t) = k /\ LatestOf(t)' = k
      BY <2>1, <3>1, <3>3, LatestIsClosed
    <3> QED
      BY <2>3, <3>2, <3>4 DEF RejectOf
  <2>5. CASE ~HasTurn(t)
    BY <2>3, <2>5 DEF RejectOf
  <2> QED
    BY <2>4, <2>5
<1> QED
  BY <1>1, <1>2 DEF RoundsGrow

\* What was spent before a turn of the chain stays.
LEMMA SpentBeforeStays ==
    ASSUME ChainInv, RoundsGrow, OutputsStay, NEW t \in Turns, HasTurn(t)
    PROVE  SpentBefore(t)' = SpentBefore(t)
<1>1. RoundsInv
  BY DEF ChainInv
<1>2. rounds # <<>> /\ t <= Top /\ Top \in Turns /\ t \in Nat
  BY <1>1, TopIsHighest, FrontierIsLast DEF Turns
<1>3. \A r \in Rounds : rounds' = Append(rounds, r) => Top <= r.turn
  <2> SUFFICES ASSUME NEW r \in Rounds, rounds' = Append(rounds, r) PROVE Top <= r.turn
    OBVIOUS
  <2>1. RoundsInv'
    BY <1>1, GrowKeepsOrder
  <2>2. HasTurn(Top) /\ Top' = r.turn
    BY <1>1, <1>2, FrontierIsLast, AppendAdds
  <2>3. /\ Len(rounds) \in Nat \ {0} /\ Len(rounds') = Len(rounds) + 1
        /\ rounds'[Len(rounds) + 1] = r /\ rounds'[Len(rounds)] = rounds[Len(rounds)]
    BY <1>1, <1>2 DEF RoundsInv
  <2>4. /\ Len(rounds) \in 1 .. Len(rounds') /\ Len(rounds) + 1 \in 1 .. Len(rounds')
        /\ Len(rounds) <= Len(rounds) + 1
    BY <2>3
  <2> QED
    BY <2>1, <2>3, <2>4 DEF RoundsInv, Ordered, Top, LastRound
<1> DEFINE S == {u \in Turns : u < t}
<1>4. \A r \in Rounds : rounds' = Append(rounds, r) => r.turn \notin S
  <2> SUFFICES ASSUME NEW r \in Rounds, rounds' = Append(rounds, r), r.turn \in S PROVE FALSE
    OBVIOUS
  <2> QED
    BY <1>2, <1>3 DEF Turns
<1> HIDE DEF S
<1>5. SpentIn(S)' = SpentIn(S)
  BY <1>4, SpentStays
<1> QED
  BY <1>5 DEF SpentBefore, S

\* A turn of the chain is rebuilt the same for ever.
LEMMA RebuiltStays ==
    ASSUME ChainInv, RoundsGrow, OutputsStay, NEW t \in Turns, HasTurn(t)
    PROVE  Rebuilt(t)' = Rebuilt(t)
<1>1. RoundsInv
  BY DEF ChainInv
<1>2. rounds # <<>> /\ t <= Top /\ Top \in Turns /\ t \in Nat
  BY <1>1, TopIsHighest, FrontierIsLast DEF Turns
<1>3. SpentBefore(t)' = SpentBefore(t)
  BY SpentBeforeStays
<1>4. t # 0 => RejectOf(t - 1)' = RejectOf(t - 1)
  <2> SUFFICES ASSUME t # 0 PROVE RejectOf(t - 1)' = RejectOf(t - 1)
    OBVIOUS
  <2>1. t - 1 \in Turns /\ t - 1 < Top
    BY <1>2, ReactAssumption DEF Turns, ReactAssumption
  <2> QED
    BY <1>1, <1>2, <2>1, RejectStays
<1> QED
  BY <1>3, <1>4 DEF Rebuilt, NearBudget

\* No fact is above the last turn, so everything was spent before the next.
LEMMA AllSpentBefore ==
    ASSUME ChainInv, rounds # <<>>
    PROVE  SpentBefore(Top + 1) = Spent
<1>1. RoundsInv /\ Top \in Turns
  BY FrontierIsLast DEF ChainInv
<1>2. \A k \in DOMAIN rounds : rounds[k].turn \in Turns /\ rounds[k].turn < Top + 1
  <2> SUFFICES ASSUME NEW k \in DOMAIN rounds
               PROVE  rounds[k].turn \in Turns /\ rounds[k].turn < Top + 1
    OBVIOUS
  <2>1. HasTurn(rounds[k].turn)
    BY DEF HasTurn
  <2>2. rounds[k].turn \in Turns /\ rounds[k].turn <= Top
    BY <1>1, <2>1, TopIsHighest
  <2> QED
    BY <1>1, <2>2 DEF Turns
<1>3. SpentPairs({u \in Turns : u < Top + 1}) = SpentPairs(Turns)
  BY <1>2 DEF SpentPairs
<1> QED
  BY <1>3 DEF SpentBefore, Spent, SpentIn, SpentPairs

\* Every turn is recorded as a restart would rebuild it, and the turn in flight is
\* on offer.
Rendered ==
    \A k \in 1 .. Len(rounds) :
        rounds[k].branch = "Pending" => rounds[k].text = Rebuilt(rounds[k].turn)
OnOffer ==
    rounds # <<>> /\ LastRound.branch = "Pending" /\ StateOf(MoteOf(Top)) = "Pending"
        => MoteOf(Top) \in defs
OfferedInv == Rendered /\ OnOffer

\* The first turn is not nudged.
Roomy == MaxToolCalls > 1 /\ MaxTurns > 1

\* Nothing is spent before turn 0.
LEMMA FirstIsRebuilt ==
    ASSUME Roomy
    PROVE  Rebuilt(0) = Base /\ Rebuilt(0)' = Base
<1>1. {u \in Turns : u < 0} = {}
  BY DEF Turns
<1>2. SpentBefore(0) = 0 /\ SpentBefore(0)' = 0
  <2>1. SpentPairs({u \in Turns : u < 0}) = {} /\ SpentPairs({u \in Turns : u < 0})' = {}
    BY <1>1 DEF SpentPairs
  <2> QED
    BY <2>1, FS_EmptySet DEF SpentBefore, SpentIn, SpentPairs
<1>3. /\ NearBudget(SpentBefore(0), 0) = FALSE
      /\ NearBudget(SpentBefore(0), 0)' = FALSE
  BY <1>2, ReactAssumption DEF NearBudget, Roomy, ReactAssumption
<1> QED
  BY <1>3 DEF Rebuilt, Base

\* The next turn is recorded as it would be rebuilt.
LEMMA NextIsRebuilt ==
    ASSUME ChainInv, AdvanceNext(TRUE), RoundsGrow, OutputsStay,
           rounds' = Append(rounds, Round(Top + 1, "Pending", "none", NextText(Top)))
    PROVE  \A t : t = Top + 1 =>
              /\ Rebuilt(t)' = NextText(Top)
              /\ SpentBefore(t)' = Spent /\ ~(Spent >= MaxToolCalls)
<1> SUFFICES ASSUME NEW t, t = Top + 1
             PROVE  /\ Rebuilt(t)' = NextText(Top)
                    /\ SpentBefore(t)' = Spent /\ ~(Spent >= MaxToolCalls)
  OBVIOUS
<1>1. pc.at = "advance" /\ ~Exhausted(FrontierTurn)
  BY DEF AdvanceNext
<1>2. rounds # <<>> /\ FrontierTurn = Top /\ Top \in Turns /\ RoundsInv /\ HasTurn(Top)
  BY <1>1, AtWork DEF ChainInv
<1>3. t \in Turns /\ t # 0 /\ t - 1 = Top
  BY <1>1, <1>2, ReactAssumption DEF Exhausted, Turns, ReactAssumption
<1> DEFINE r == Round(t, "Pending", "none", NextText(Top))
<1>4. r \in Rounds /\ r.turn = t
  BY <1>2, <1>3, NextTextType DEF Round, Rounds, Branches, Reasons
<1>5. rounds' = Append(rounds, r)
  OBVIOUS
<1> HIDE DEF r
<1>6. /\ Len(rounds) \in Nat \ {0} /\ Len(rounds') = Len(rounds) + 1
      /\ rounds'[Len(rounds) + 1] = r
      /\ \A j \in 1 .. Len(rounds) : rounds'[j] = rounds[j]
  BY <1>2, <1>5 DEF RoundsInv
<1>7. SpentBefore(t)' = Spent
  <2> DEFINE S == {u \in Turns : u < t}
  <2>1. \A q \in Rounds : rounds' = Append(rounds, q) => q.turn \notin S
    <3> SUFFICES ASSUME NEW q \in Rounds, rounds' = Append(rounds, q) PROVE q.turn = t
      BY <1>3 DEF Turns
    <3>1. rounds'[Len(rounds) + 1] = q
      BY <1>2 DEF RoundsInv
    <3> QED
      BY <1>4, <1>6, <3>1
  <2> HIDE DEF S
  <2>2. SpentIn(S)' = SpentIn(S)
    BY <2>1, SpentStays
  <2> QED
    BY <1>2, <2>2, AllSpentBefore DEF SpentBefore, S
<1>8. RejectOf(t - 1)' = RejectOf(Top)
  <2>1. PICK k \in 1 .. Len(rounds) : Closes(k, Top)
    BY <1>2 DEF RoundsInv, Closed
  <2>2. PICK u \in Turns : u = Top
    BY <1>2
  <2>3. LatestOf(u) = k
    BY <1>2, <2>1, <2>2, LatestIsClosed
  <2>4. Closes(k, u)'
    <3>1. \A j \in 1 .. Len(rounds') : j \in 1 .. Len(rounds) \/ j = Len(rounds) + 1
      BY <1>6
    <3>2. r.turn # u
      BY <1>2, <1>4, <2>2 DEF Turns
    <3>3. k \in 1 .. Len(rounds') /\ rounds'[k].turn = u
      BY <1>6, <2>1, <2>2 DEF Closes
    <3>4. \A j \in 1 .. Len(rounds') : rounds'[j].turn = u => j <= k
      BY <1>6, <2>1, <2>2, <3>1, <3>2 DEF Closes
    <3> QED
      BY <3>3, <3>4 DEF Closes
  <2>5. LatestOf(u)' = k
    BY <1>2, <2>4, GrowKeepsOrder, LatestIsClosed
  <2>6. HasTurn(u)'
    BY <1>2, <1>4, <1>5, <2>2, AppendAdds
  <2>7. RejectOf(u)' = RejectOf(u)
    BY <1>2, <1>6, <2>1, <2>2, <2>3, <2>5, <2>6 DEF RejectOf
  <2> QED
    BY <1>3, <2>2, <2>7
<1> QED
  BY <1>1, <1>3, <1>7, <1>8 DEF Rebuilt, NextText, Exhausted

\* A turn that is on offer stays so until it ends or the coordinator restarts.
LEMMA OfferStays ==
    ASSUME ChainInv, [Next]_vars, NEW m \in defs, m.kind = "turn"
    PROVE  m \in defs' \cup committed' \cup failed' \/ Restart
<1> DEFINE Goal == m \in defs' \cup committed' \cup failed' \/ Restart
<1>0. m # Launch /\ \A t, i : m # ObsMote(t, i)
  BY OtherKinds
<1>1. ASSUME \/ BeginPass \/ LaunchWaits \/ UnparkLaunch \/ LeaveChain \/ CallCrashed \/ Drive
             \/ WithinCeiling \/ CallObserved \/ PassRerank
             \/ FinishChain \/ InputStep \/ UNCHANGED vars
      PROVE  Goal
  BY <1>1 DEF BeginPass, LaunchWaits, UnparkLaunch, LeaveChain, CallCrashed, Drive,
     WithinCeiling, CallObserved, PassRerank, FinishChain, InputStep, InputEnds, vars, dispatch
<1>2. ASSUME NEW ok \in BOOLEAN,
             \/ SubmitSeed(ok) \/ SubmitLaunch \/ AnchorLaunch(ok) \/ materialize_react_tool
             \/ StartRerank(ok) \/ AdvanceNext(ok) \/ OverCeiling(ok) \/ CallDenied(ok)
      PROVE  Goal
  BY <1>2 DEF SubmitSeed, SubmitLaunch, AnchorLaunch, materialize_react_tool, StartRerank,
     AdvanceNext, OverCeiling, CallDenied
<1>3. ASSUME NEW ok \in BOOLEAN,
             \/ SettleReranks(ok) \/ Freeze(ok) \/ CallFailed(ok) \/ Withhold(ok)
             \/ AdvanceExhausted(ok)
      PROVE  Goal
  BY <1>3 DEF SettleReranks, Freeze, CallFailed, Withhold, AdvanceExhausted, dispatch
<1>4. ASSUME NEW ok \in BOOLEAN, LaunchUnsatisfiable(ok) \/ FinalizeLaunch(ok) \/ CallPermanent(ok)
      PROVE  Goal
  BY <1>0, <1>4 DEF LaunchUnsatisfiable, FinalizeLaunch, DeadLetterLaunch, CommitLaunch,
     CallPermanent, Obs
<1>5. ASSUME WorkerStep \/ LateStep PROVE Goal
  <2>1. ASSUME NEW n \in leased \cup slow, FailMote(n) PROVE Goal
    BY <2>1 DEF FailMote, Reported
  <2>2. ASSUME NEW n \in leased \cup slow, NEW o, CommitMote(n, o) PROVE Goal
    BY <2>2 DEF CommitMote, Reported
  <2>3. ASSUME NEW n \in defs, Lease(n) PROVE Goal
    BY <2>3 DEF Lease
  <2>4. ASSUME NEW n, StageMote(n) PROVE Goal
    BY <2>4 DEF StageMote, dispatch
  <2> QED
    BY <1>5, <2>1, <2>2, <2>3, <2>4 DEF WorkerStep, LateStep, WorkOn
<1>6. ASSUME NEW n \in leased, CrashMote(n) PROVE Goal
  BY <1>6 DEF CrashMote
<1>7. ASSUME NEW n \in requested, NEW grant \in BOOLEAN, NEW ok \in BOOLEAN,
             DecideApproval(n, grant, ok)
      PROVE  Goal
  BY <1>7 DEF DecideApproval, dispatch
<1>8. ASSUME NEW c \in Removable, Deregister(c) PROVE Goal
  BY <1>8 DEF Deregister, dispatch
<1> QED
  BY <1>1, <1>2, <1>3, <1>4, <1>5, <1>6, <1>7, <1>8 DEF Next, PassStep, ClientStep

\* A Mote that has ended has ended for good, and a turn is never staged.
LEMMA EndsStay ==
    ASSUME ChainInv, [Next]_vars
    PROVE  /\ failed \subseteq failed' /\ crashed \subseteq crashed'
           /\ \A m \in staged' : m.kind = "turn" => m \in staged
<1> DEFINE Goal == /\ failed \subseteq failed' /\ crashed \subseteq crashed'
                   /\ \A m \in staged' : m.kind = "turn" => m \in staged
<1>1. ASSUME \/ BeginPass \/ LaunchWaits \/ UnparkLaunch \/ LeaveChain \/ CallCrashed \/ Drive
             \/ WithinCeiling \/ CallObserved \/ materialize_react_tool \/ PassRerank
             \/ FinishChain \/ SubmitLaunch \/ Restart \/ InputStep \/ UNCHANGED vars
      PROVE  Goal
  BY <1>1 DEF BeginPass, LaunchWaits, UnparkLaunch, LeaveChain, CallCrashed, Drive,
     WithinCeiling, CallObserved, materialize_react_tool, PassRerank, FinishChain, SubmitLaunch,
     Restart, InputStep, InputEnds, vars, facts
<1>2. ASSUME NEW ok \in BOOLEAN,
             \/ SubmitSeed(ok) \/ AnchorLaunch(ok) \/ SettleReranks(ok)
             \/ Freeze(ok) \/ Withhold(ok) \/ OverCeiling(ok) \/ CallFailed(ok)
             \/ CallPermanent(ok) \/ CallDenied(ok) \/ AdvanceExhausted(ok) \/ AdvanceNext(ok)
             \/ StartRerank(ok)
      PROVE  Goal
  BY <1>2 DEF SubmitSeed, AnchorLaunch, SettleReranks, Freeze, Withhold,
     OverCeiling, CallFailed, CallPermanent, CallDenied, KillChain, AdvanceExhausted,
     AdvanceNext, StartRerank
<1>3. ASSUME NEW ok \in BOOLEAN, LaunchUnsatisfiable(ok) \/ FinalizeLaunch(ok) PROVE Goal
  BY <1>3 DEF LaunchUnsatisfiable, FinalizeLaunch, CommitLaunch, DeadLetterLaunch
<1>4. ASSUME WorkerStep \/ LateStep PROVE Goal
  BY <1>4 DEF WorkerStep, LateStep, WorkOn, StageMote, Lease, FailMote, CommitMote, Reported, facts
<1>5. ASSUME NEW m \in leased, CrashMote(m) PROVE Goal
  BY <1>5 DEF CrashMote
<1>6. ASSUME NEW m \in requested, NEW grant \in BOOLEAN, NEW ok \in BOOLEAN,
             DecideApproval(m, grant, ok)
      PROVE  Goal
  BY <1>6 DEF DecideApproval
<1>7. ASSUME NEW c \in Removable, Deregister(c) PROVE Goal
  BY <1>7 DEF Deregister, facts
<1> QED
  BY <1>1, <1>2, <1>3, <1>4, <1>5, <1>6, <1>7 DEF Next, PassStep, ClientStep

\* The Mote of a turn in flight is the one its Pending fact names.
LEMMA InFlightIs ==
    /\ RoundsInv /\ rounds # <<>> /\ LastRound.branch = "Pending"
          => MoteOf(Top) = TurnMote(Top, LastRound.text)
    /\ RoundsInv' /\ rounds' # <<>> /\ LastRound'.branch = "Pending"
          => \A t : t = Top' => MoteOf(t)' = TurnMote(t, LastRound'.text)
<1>1. ASSUME RoundsInv, rounds # <<>>, LastRound.branch = "Pending"
      PROVE  MoteOf(Top) = TurnMote(Top, LastRound.text)
  <2>1. Len(rounds) \in 1 .. Len(rounds)
    BY <1>1 DEF RoundsInv
  <2>2. Opens(Len(rounds), Top)
    BY <1>1, <2>1 DEF RoundsInv, PendingOpens, LastRound, Top
  <2> QED
    BY <1>1, <2>2, MoteIsOpened DEF LastRound
<1>2. ASSUME RoundsInv', rounds' # <<>>, LastRound'.branch = "Pending", NEW t, t = Top'
      PROVE  MoteOf(t)' = TurnMote(t, LastRound'.text)
  <2>1. Len(rounds') \in 1 .. Len(rounds')
    BY <1>2 DEF RoundsInv
  <2>2. PICK k : k = Len(rounds')
    OBVIOUS
  <2>3. Opens(k, t)'
    BY <1>2, <2>1, <2>2 DEF RoundsInv, PendingOpens, LastRound, Top
  <2> QED
    BY <1>2, <2>2, <2>3, MoteIsOpened DEF LastRound
<1> QED
  BY <1>1, <1>2

\* Every step keeps that each turn is recorded as a restart would rebuild it.
LEMMA RenderedStep ==
    ASSUME Roomy, ChainInv, Rendered, [Next]_vars
    PROVE  Rendered'
<1>1. RoundsGrow /\ OutputsStay /\ RoundsInv
  BY ChainStep DEF ChainInv
<1>2. ASSUME NEW k \in 1 .. Len(rounds), rounds'[k] = rounds[k], rounds'[k].branch = "Pending"
      PROVE  rounds'[k].text = Rebuilt(rounds[k].turn)'
  <2>1. PICK t \in Turns : t = rounds[k].turn
    <3>1. rounds[k] \in Rounds
      BY <1>1 DEF RoundsInv
    <3> QED
      BY <3>1 DEF Rounds
  <2>2. HasTurn(t)
    BY <1>1, <2>1 DEF HasTurn, RoundsInv
  <2>3. Rebuilt(t)' = Rebuilt(t)
    BY <1>1, <2>2, RebuiltStays
  <2> QED
    BY <1>2, <2>1, <2>3 DEF Rendered
<1>3. CASE rounds' = rounds
  BY <1>2, <1>3 DEF Rendered
<1>4. ASSUME NEW r \in Rounds, Origin(r), rounds' = Append(rounds, r)
      PROVE  Rendered'
  <2>1. /\ Len(rounds) \in Nat /\ Len(rounds') = Len(rounds) + 1
        /\ rounds'[Len(rounds) + 1] = r
        /\ \A j \in 1 .. Len(rounds) : rounds'[j] = rounds[j]
    BY <1>1, <1>4 DEF RoundsInv
  <2>2. r.branch = "Pending" => \A t : t = r.turn => r.text = Rebuilt(t)'
    <3>1. CASE r = Anchor
      <4>1. r.turn = 0 /\ r.text = Base
        BY <3>1 DEF Anchor, Round
      <4> QED
        BY <4>1, FirstIsRebuilt
    <3>2. CASE AdvanceNext(TRUE) /\ r = Round(Top + 1, "Pending", "none", NextText(Top))
      <4>1. r.turn = Top + 1 /\ r.text = NextText(Top)
        BY <3>2 DEF Round
      <4> QED
        BY <1>1, <1>4, <3>2, <4>1, NextIsRebuilt
    <3>3. DeadLettered(Top).branch # "Pending"
          /\ Round(Top, "Rejected", "failed", Base).branch # "Pending"
      BY DEF DeadLettered, Round
    <3> QED
      BY <1>4, <3>1, <3>2, <3>3 DEF Origin
  <2>3. ASSUME NEW k \in 1 .. Len(rounds'), rounds'[k].branch = "Pending"
        PROVE  rounds'[k].text = Rebuilt(rounds[k].turn)'
    <3>1. k \in 1 .. Len(rounds) \/ k = Len(rounds) + 1
      BY <2>1
    <3>2. CASE k \in 1 .. Len(rounds)
      BY <1>2, <2>1, <2>3, <3>2
    <3>3. CASE k = Len(rounds) + 1
      BY <2>1, <2>2, <2>3, <3>3
    <3> QED
      BY <3>1, <3>2, <3>3
  <2> QED
    BY <2>3 DEF Rendered
<1> QED
  BY <1>3, <1>4, FactsComeFrom

\* Every step keeps the turn in flight on offer, restarts included.
LEMMA OfferedStep ==
    ASSUME Roomy, ChainInv, OfferedInv, [Next]_vars
    PROVE  OfferedInv'
<1>1. RoundsGrow /\ OutputsStay /\ RoundsInv /\ RoundsInv'
  BY ChainStep DEF ChainInv
<1>2. Rendered'
  BY RenderedStep DEF OfferedInv
<1>3. ASSUME rounds' # <<>>, LastRound'.branch = "Pending", (StateOf(MoteOf(Top)) = "Pending")'
      PROVE  (MoteOf(Top) \in defs)'
  <2>1. CASE rounds' = rounds
    <3>1. Top' = Top /\ LastRound' = LastRound /\ MoteOf(Top)' = MoteOf(Top)
      BY <2>1 DEF Top, LastRound, MoteOf
    <3>2. PICK m : m = MoteOf(Top)
      OBVIOUS
    <3>3. m = TurnMote(Top, LastRound.text) /\ m.kind = "turn"
      BY <1>1, <1>3, <2>1, <3>1, <3>2, InFlightIs, OtherKinds
    <3>4. StateOf(m)' = "Pending"
      BY <1>3, <3>1, <3>2
    <3>5. m \notin committed' \cup failed' \cup (crashed' \ staged')
      BY <3>4 DEF StateOf
    <3>6. StateOf(m) = "Pending"
      BY <1>1, <3>3, <3>5, EndsStay, StateIs DEF OutputsStay
    <3>7. m \in defs
      BY <1>3, <2>1, <3>1, <3>2, <3>6 DEF OfferedInv, OnOffer
    <3>8. m \in defs' \/ Restart
      BY <3>3, <3>5, <3>7, OfferStays
    <3>9. ASSUME Restart PROVE m \in defs'
      <4>1. RecoveredTurn \subseteq defs'
        BY <3>9 DEF Restart
      <4>2. /\ FrontierTurn = Top /\ Frontier.branch = "Pending"
            /\ Top \in Turns /\ HasTurn(Top)
        BY <1>1, <1>3, <2>1, <3>1, FrontierIsLast
      <4>3. LastRound.text = Rebuilt(Top)
        <5>1. Len(rounds) \in 1 .. Len(rounds)
          BY <1>1, <1>3, <2>1 DEF RoundsInv
        <5> QED
          BY <1>3, <3>1, <5>1 DEF OfferedInv, Rendered, LastRound, Top
      <4>4. m = TurnMote(Top, Rebuilt(Top)) /\ m.turn = Top
        BY <3>3, <4>3, OtherKinds
      <4>5. m \in RecoveredTurn
        BY <3>2, <3>6, <4>2, <4>4 DEF RecoveredTurn
      <4> QED
        BY <4>1, <4>5
    <3> QED
      BY <3>1, <3>2, <3>8, <3>9
  <2>2. ASSUME NEW r \in Rounds, Origin(r), rounds' = Append(rounds, r)
        PROVE  (MoteOf(Top) \in defs)'
    <3>1. LastRound' = r /\ Top' = r.turn /\ r.branch = "Pending"
      BY <1>1, <1>3, <2>2, AppendAdds
    <3>2. MoteOf(Top)' = TurnMote(r.turn, r.text)
      BY <1>1, <1>3, <3>1, InFlightIs
    <3>3. CASE rounds = <<>> /\ r = Anchor /\ defs' = defs \cup {TurnMote(0, Base)}
      <4>1. r.turn = 0 /\ r.text = Base
        BY <3>3 DEF Anchor, Round
      <4> QED
        BY <3>2, <3>3, <4>1
    <3>4. CASE AdvanceNext(TRUE) /\ r = Round(Top + 1, "Pending", "none", NextText(Top))
      <4>1. r.turn = Top + 1 /\ r.text = NextText(Top)
        BY <3>4 DEF Round
      <4>2. defs' = defs \cup {TurnMote(FrontierTurn + 1, NextText(FrontierTurn))}
            /\ pc.at = "advance"
        BY <3>4 DEF AdvanceNext
      <4>3. FrontierTurn = Top
        BY <4>2, AtWork
      <4> QED
        BY <3>2, <4>1, <4>2, <4>3
    <3>5. DeadLettered(Top).branch # "Pending"
          /\ Round(Top, "Rejected", "failed", Base).branch # "Pending"
      BY DEF DeadLettered, Round
    <3> QED
      BY <2>2, <3>1, <3>3, <3>4, <3>5 DEF Origin
  <2> QED
    BY <2>1, <2>2, FactsComeFrom
<1> QED
  BY <1>2, <1>3 DEF OfferedInv, OnOffer

\* Between two passes the turn a chain waits for is on offer to the workers, whatever
\* was re-prompted or nudged, whichever appends failed and wherever the restarts
\* fell, provided the budget allows a second turn (recover_react_chain: the rebuilt
\* turn has the recorded id).
THEOREM TurnsInFlightAreOffered ==
    ASSUME Roomy
    PROVE  Spec => []InFlightIsOffered
<1>1. Init => ChainInv /\ OfferedInv
  <2> SUFFICES ASSUME Init PROVE ChainInv /\ OfferedInv
    OBVIOUS
  <2>1. rounds = <<>>
    BY DEF Init
  <2>2. OfferedInv
    BY <2>1 DEF OfferedInv, Rendered, OnOffer
  <2> QED
    BY <2>2, ChainInit
<1>2. ChainInv /\ OfferedInv /\ [Next]_vars => (ChainInv /\ OfferedInv)'
  BY ChainStep, OfferedStep
<1>3. ChainInv /\ OfferedInv => InFlightIsOffered
  <2> SUFFICES ASSUME ChainInv, OfferedInv, Anchored, Frontier.branch = "Pending",
                      StateOf(MoteOf(FrontierTurn)) = "Pending"
               PROVE  MoteOf(FrontierTurn) \in defs
    BY DEF InFlightIsOffered
  <2>1. rounds # <<>>
    BY DEF Anchored
  <2>2. FrontierTurn = Top /\ Frontier = LastRound
    BY <2>1, FrontierIsLast DEF ChainInv
  <2> QED
    BY <2>1, <2>2 DEF OfferedInv, OnOffer
<1> QED
  BY <1>1, <1>2, <1>3, PTL DEF Spec

-----------------------------------------------------------------------------
(* Lost appends, and the registry *)

\* Failed appends are only counted up, and a tool is only ever taken away.
LEMMA LossGrows ==
    ASSUME ChainInv, [Next]_vars
    PROVE  /\ LostAppends \in Nat /\ LostAppends' \in Nat /\ LostAppends <= LostAppends'
           /\ registered' \subseteq registered
<1> DEFINE Goal == /\ LostAppends' \in Nat /\ LostAppends <= LostAppends'
                   /\ registered' \subseteq registered
<1>0. LostAppends \in Nat
  BY ChargeTells
<1>1. ASSUME UNCHANGED <<faults, registered>> PROVE Goal
  BY <1>0, <1>1 DEF LostAppends
<1>2. ASSUME NEW ok \in BOOLEAN, Charge(ok), UNCHANGED registered PROVE Goal
  BY <1>2, ChargeTells
<1>3. ASSUME NEW f \in Faults \ {"append"}, Fault(f), registered' \subseteq registered PROVE Goal
  BY <1>0, <1>3, ChargeTells
<1> HIDE DEF Goal
<1>4. ASSUME \/ BeginPass \/ LaunchWaits \/ UnparkLaunch \/ LeaveChain \/ CallCrashed \/ Drive
             \/ WithinCeiling \/ CallObserved \/ materialize_react_tool \/ PassRerank
             \/ FinishChain \/ SubmitLaunch \/ InputStep \/ UNCHANGED vars
      PROVE  Goal
  BY <1>1, <1>4 DEF BeginPass, LaunchWaits, UnparkLaunch, LeaveChain, CallCrashed, Drive,
     WithinCeiling, CallObserved, materialize_react_tool, PassRerank, FinishChain, SubmitLaunch,
     InputStep, InputEnds, vars, world
<1>5. ASSUME NEW ok \in BOOLEAN,
             \/ SubmitSeed(ok) \/ AnchorLaunch(ok) \/ SettleReranks(ok) \/ LaunchUnsatisfiable(ok)
             \/ Freeze(ok) \/ Withhold(ok) \/ OverCeiling(ok) \/ CallFailed(ok)
             \/ CallPermanent(ok) \/ CallDenied(ok) \/ AdvanceExhausted(ok) \/ AdvanceNext(ok)
             \/ StartRerank(ok) \/ FinalizeLaunch(ok)
      PROVE  Goal
  BY <1>2, <1>5 DEF SubmitSeed, AnchorLaunch, SettleReranks, LaunchUnsatisfiable, Freeze,
     Withhold, OverCeiling, CallFailed, CallPermanent, CallDenied, KillChain, AdvanceExhausted,
     AdvanceNext, StartRerank, FinalizeLaunch, world
<1>6. ASSUME WorkerStep \/ LateStep PROVE Goal
  BY <1>1, <1>6 DEF WorkerStep, LateStep, WorkOn, StageMote, Lease, FailMote, CommitMote, Reported, world
<1>7. ASSUME NEW m \in leased, CrashMote(m) PROVE Goal
  BY <1>3, <1>7 DEF CrashMote, Faults, world
<1>8. ASSUME NEW m \in requested, NEW grant \in BOOLEAN, NEW ok \in BOOLEAN,
             DecideApproval(m, grant, ok)
      PROVE  Goal
  BY <1>2, <1>8 DEF DecideApproval, world
<1>9. ASSUME NEW c \in Removable, Deregister(c) PROVE Goal
  BY <1>3, <1>9 DEF Deregister, Faults
<1>10. ASSUME Restart PROVE Goal
  BY <1>3, <1>10 DEF Restart, Faults, world
<1> QED
  BY <1>0, <1>4, <1>5, <1>6, <1>7, <1>8, <1>9, <1>10 DEF Next, PassStep, ClientStep, Goal

-----------------------------------------------------------------------------
(* Fresh proposals *)

\* The decision did not find the lone call of turn t among the calls fired before.
Fresh(t) == ~(Len(CallsOf(t)) = 1 /\ ToolsOf(t) \subseteq PriorFired(t))

\* What is offered, recorded or worked on was fresh.
FreshInv ==
    /\ \A m \in Touched : Fresh(m.turn)
    /\ \A t \in Turns : HasFact(t, "Tool") => Fresh(t)
    /\ pc.at = "calls" =>
          Fresh(Top) /\ (HasFact(Top, "Tool") \/ LastRound.branch = "Pending")

\* What the freeze of a turn does.
LEMMA FreezeIs ==
    ASSUME ChainInv, NEW ok \in BOOLEAN, Freeze(ok)
    PROVE  /\ rounds # <<>> /\ Top \in Turns /\ LastRound.branch = "Pending" /\ Top' = Top
           /\ UNCHANGED <<committed, failed, output, defs, leased, slow, ran, registered>>
           /\ LostAppends' = IF ok THEN LostAppends ELSE LostAppends + 1
           /\ \E r \in Rounds :
                 /\ r.turn = Top /\ r.branch # "Pending"
                 /\ rounds' = IF ok THEN Append(rounds, r) ELSE rounds
                 /\ \/ r.branch = "Tool" /\ pc' = At("calls")
                    \/ r.branch = "Rejected" /\ pc' = At("advance")
                    \/ r.branch \in Final /\ pc' = At("final")
                 /\ r.branch = "Tool" =>
                       Decided(Top) /\ Fresh(Top) /\ ToolsOf(Top) \subseteq registered
                 /\ r.branch = "Rejected" =>
                       OutputOf(Top).refused \/ ~Fresh(Top) \/ ~(ToolsOf(Top) \subseteq registered)
<1>1. ~Quiescent /\ Frontier.branch = "Pending" /\ Anchored
  BY DEF Freeze, Quiescent
<1>2. rounds # <<>> /\ RoundsInv /\ TypeOK
  BY <1>1 DEF Anchored, ChainInv
<1>3. FrontierTurn = Top /\ LastRound.branch = "Pending" /\ Top \in Turns /\ HasTurn(Top)
  BY <1>1, <1>2, FrontierIsLast
<1>4. DeadLettered(Top) \in Rounds /\ DeadLettered(Top).turn = Top
      /\ DeadLettered(Top).branch = "DeadLettered"
  BY <1>3 DEF DeadLettered, Round, Rounds, Branches, Texts, Base
<1> DEFINE Told(r) ==
             /\ r.turn = Top /\ r.branch # "Pending"
             /\ \/ r.branch = "Tool" /\ pc' = At("calls")
                \/ r.branch = "Rejected" /\ pc' = At("advance")
                \/ r.branch \in Final /\ pc' = At("final")
             /\ r.branch = "Tool" =>
                   Decided(Top) /\ Fresh(Top) /\ ToolsOf(Top) \subseteq registered
             /\ r.branch = "Rejected" =>
                   OutputOf(Top).refused \/ ~Fresh(Top) \/ ~(ToolsOf(Top) \subseteq registered)
<1>5. \E r \in Rounds : append_react_branch(r, ok) /\ Told(r)
  <2>1. CASE StateOf(MoteOf(Top)) = "Failed"
    <3>1. append_react_branch(DeadLettered(Top), ok) /\ pc' = At(DriveTo("DeadLettered"))
      BY <1>3, <1>4, <2>1 DEF Freeze
    <3>2. DriveTo("DeadLettered") = "final"
      BY DEF DriveTo
    <3> QED
      BY <1>4, <3>1, <3>2 DEF Final
  <2>2. CASE StateOf(MoteOf(Top)) # "Failed"
    <3>1. append_react_branch(Decision(Top), ok) /\ pc' = At(DriveTo(Decision(Top).branch))
      BY <1>3, <2>2 DEF Freeze
    <3>2. DriveTo("Answer") = "final" /\ DriveTo("Tool") = "calls" /\ DriveTo("Rejected") = "advance"
      BY DEF DriveTo
    <3>3. MoteOf(Top) \in committed
      BY <1>1, <1>3, <2>2, StateIs DEF Quiescent
    <3>4. /\ Decision(Top) \in Rounds /\ Decision(Top).turn = Top
          /\ Decision(Top).branch \in {"Rejected", "Answer", "Tool"}
          /\ Decision(Top).branch = "Tool" =>
                 /\ ~OutputOf(Top).refused /\ CallsOf(Top) # <<>>
                 /\ ToolsOf(Top) \subseteq registered /\ Fresh(Top)
          /\ Decision(Top).branch = "Rejected" =>
                 OutputOf(Top).refused \/ ~Fresh(Top) \/ ~(ToolsOf(Top) \subseteq registered)
      BY <1>2, <1>3, DecisionIs DEF Fresh
    <3>5. Decision(Top).branch = "Tool" => Decided(Top)
      BY <1>3, <3>3, <3>4 DEF Decided
    <3>6. Told(Decision(Top))
      BY <3>1, <3>2, <3>4, <3>5 DEF Final
    <3> QED
      BY <3>1, <3>4, <3>6
  <2> QED
    BY <2>1, <2>2
<1>6. PICK r \in Rounds : append_react_branch(r, ok) /\ Told(r)
  BY <1>5
<1>7. rounds' = IF ok THEN Append(rounds, r) ELSE rounds
  BY <1>2, <1>3, <1>6, BranchIsRecorded DEF append_react_branch, Final
<1>8. Top' = Top
  <2>1. ok => Top' = r.turn
    BY <1>2, <1>7, AppendAdds
  <2>2. ~ok => Top' = Top
    BY <1>7 DEF Top, LastRound
  <2> QED
    BY <1>6, <2>1, <2>2
<1>9. UNCHANGED <<committed, failed, output, defs, leased, slow, ran, registered>>
  BY DEF Freeze, dispatch, world
<1>10. LostAppends' = IF ok THEN LostAppends ELSE LostAppends + 1
  BY ChargeTells DEF Freeze
<1> QED
  BY <1>2, <1>3, <1>6, <1>7, <1>8, <1>9, <1>10

\* The turns below the last have no more facts to come.
LEMMA FactsBelow ==
    ASSUME RoundsInv, RoundsGrow, rounds # <<>>, NEW t \in Turns, t < Top, NEW b
    PROVE  HasFact(t, b)' <=> HasFact(t, b)
<1>1. CASE rounds' = rounds
  BY <1>1 DEF HasFact
<1>2. ASSUME NEW r \in Rounds, Appendable(r), rounds' = Append(rounds, r)
      PROVE  HasFact(t, b)' <=> HasFact(t, b)
  <2>1. Top \in Turns
    BY FrontierIsLast
  <2>2. r.turn # t
    BY <1>2, <2>1 DEF Appendable, Turns
  <2> QED
    BY <1>2, <2>2, AppendAdds
<1> QED
  BY <1>1, <1>2 DEF RoundsGrow

\* What was fired before a turn that the chain has stays the same.
LEMMA FreshStays ==
    ASSUME ChainInv, RoundsGrow, OutputsStay, NEW t \in Turns, Decided(t)
    PROVE  Fresh(t)' <=> Fresh(t)
<1>1. RoundsInv /\ DecidedInv
  BY DEF ChainInv
<1>2. rounds # <<>> /\ t <= Top /\ Top \in Turns
  BY <1>1, TopIsHighest, FrontierIsLast DEF Decided
<1> DEFINE Before == {v \in Turns : v < t /\ HasFact(v, "Tool")}
           Fired(u) == {OutputOf(u).calls[i] : i \in DOMAIN OutputOf(u).calls}
<1>3. ASSUME NEW v \in Turns, v < t
      PROVE  /\ HasFact(v, "Tool")' <=> HasFact(v, "Tool")
             /\ HasFact(v, "Tool") => OutputOf(v)' = OutputOf(v)
  <2>1. v < Top
    BY <1>2, <1>3 DEF Turns
  <2> QED
    BY <1>1, <1>2, <2>1, FactsBelow, DecidedStays DEF DecidedInv
<1>4. Before' = Before /\ \A u \in Before : Fired(u)' = Fired(u)
  BY <1>3
<1>5. PriorFired(t) = UNION {Fired(u) : u \in Before}
  BY DEF PriorFired
<1>6. PriorFired(t)' = UNION {Fired(u)' : u \in Before'}
  BY DEF PriorFired
<1> HIDE DEF Before, Fired
<1>7. PriorFired(t)' = PriorFired(t)
  BY <1>4, <1>5, <1>6
<1>8. CallsOf(t)' = CallsOf(t)
  BY <1>1, DecidedStays
<1> QED
  BY <1>7, <1>8 DEF Fresh, ToolsOf

\* What a step on the calls, or at the rerank gate, leaves alone.
LEMMA WorkIs ==
    ASSUME ChainInv
    PROVE  /\ \/ WithinCeiling \/ CallObserved \/ materialize_react_tool
              \/ \E ok \in BOOLEAN : Withhold(ok)
              => /\ pc.at = "calls" /\ pc'.at \in {"calls", "gate", "idle"}
                 /\ UNCHANGED <<rounds, committed, failed, output, registered>>
           /\ PassRerank \/ StartRerank(FALSE) =>
                 /\ pc.at = "gate" /\ pc'.at \in {"idle", "advance"}
                 /\ UNCHANGED <<rounds, committed, failed, output, registered>>
<1>1. ASSUME \/ WithinCeiling \/ CallObserved \/ materialize_react_tool
             \/ \E ok \in BOOLEAN : Withhold(ok)
      PROVE  /\ pc.at = "calls" /\ pc'.at \in {"calls", "gate", "idle"}
             /\ UNCHANGED <<rounds, committed, failed, output, registered>>
  <2>1. pc.at = "calls" /\ UNCHANGED <<rounds, committed, failed, output, registered>>
    BY <1>1 DEF WithinCeiling, CallObserved, materialize_react_tool, Withhold, AtCall,
       Dispatchable, facts, world
  <2>2. pc.all \in BOOLEAN
    BY TypeParts DEF ChainInv, PcType
  <2>3. \E all \in BOOLEAN : NextCall(all)
    BY <1>1, <2>2 DEF WithinCeiling, CallObserved, materialize_react_tool, Withhold
  <2> QED
    BY <2>1, <2>3, NextCallIs
<1>2. ASSUME PassRerank \/ StartRerank(FALSE)
      PROVE  /\ pc.at = "gate" /\ pc'.at \in {"idle", "advance"}
             /\ UNCHANGED <<rounds, committed, failed, output, registered>>
  BY <1>2, AtType DEF PassRerank, StartRerank, Idle, Places, facts, world
<1> QED
  BY <1>1, <1>2

\* A frontier that is driven on was recorded.
LEMMA DriveIs ==
    ASSUME ChainInv, Drive
    PROVE  /\ UNCHANGED facts /\ UNCHANGED dispatch /\ UNCHANGED world /\ UNCHANGED faults
           /\ rounds # <<>>
           /\ \/ pc'.at = "calls" /\ HasFact(Top, "Tool")
              \/ pc'.at = "advance" /\ HasFact(Top, "Rejected")
              \/ pc'.at = "final"
<1>1. /\ UNCHANGED <<facts, dispatch, world, faults>> /\ pc' = At(DriveTo(Frontier.branch))
      /\ Anchored /\ Frontier.branch # "Pending"
  BY DEF Drive, Quiescent
<1>2. rounds # <<>> /\ RoundsInv
  BY <1>1 DEF Anchored, ChainInv
<1>3. Frontier = LastRound /\ LastRound \in Rounds
  BY <1>2, FrontierIsLast
<1>4. LastRound.branch \in Branches
  BY <1>3 DEF Rounds
<1>5. \/ pc' = At("calls") /\ LastRound.branch = "Tool"
      \/ pc' = At("final")
      \/ pc' = At("advance") /\ LastRound.branch = "Rejected"
  BY <1>1, <1>3, <1>4 DEF DriveTo, Branches
<1>6. \/ pc'.at = "calls" /\ LastRound.branch = "Tool"
      \/ pc'.at = "final"
      \/ pc'.at = "advance" /\ LastRound.branch = "Rejected"
  BY <1>5, AtType DEF Places
<1> QED
  BY <1>1, <1>2, <1>6, LastIsFact

\* A new tool fact is what a freeze recorded.
LEMMA OnlyFreezeRecords ==
    ASSUME ChainInv, [Next]_vars, NEW t \in Turns, HasFact(t, "Tool")', ~HasFact(t, "Tool")
    PROVE  t = Top /\ Freeze(TRUE) /\ Fresh(Top) /\ Decided(Top) /\ ToolsOf(Top) \subseteq registered
<1>1. RoundsInv
  BY DEF ChainInv
<1>2. rounds' # rounds
  BY DEF HasFact
<1>3. PICK r \in Rounds : Origin(r) /\ rounds' = Append(rounds, r)
  BY <1>2, FactsComeFrom
<1>4. r.turn = t /\ r.branch = "Tool"
  BY <1>1, <1>3, AppendAdds
<1>5. /\ Anchor.branch = "Pending" /\ DeadLettered(Top).branch = "DeadLettered"
      /\ Round(Top, "Rejected", "failed", Base).branch = "Rejected"
      /\ Round(Top + 1, "Pending", "none", NextText(Top)).branch = "Pending"
  BY DEF Anchor, DeadLettered, Round
<1>6. Freeze(TRUE) /\ t = Top
  BY <1>3, <1>4, <1>5 DEF Origin
<1>7. PICK q \in Rounds : /\ rounds' = Append(rounds, q)
                          /\ q.branch = "Tool" => Decided(Top) /\ Fresh(Top)
                                                  /\ ToolsOf(Top) \subseteq registered
  BY <1>6, FreezeIs
<1>8. q = r
  <2>1. LastRound' = q /\ LastRound' = r
    BY <1>1, <1>3, <1>7, AppendAdds
  <2> QED
    BY <2>1
<1> QED
  BY <1>4, <1>6, <1>7, <1>8

\* Every step keeps that what is offered, recorded or worked on was fresh.
LEMMA FreshStep ==
    ASSUME ChainInv, TouchedInv, FreshInv, [Next]_vars
    PROVE  FreshInv'
<1>1. RoundsGrow /\ OutputsStay /\ RoundsInv /\ DecidedInv /\ ChainInv'
  BY ChainStep DEF ChainInv
<1>2. ASSUME NEW t \in Turns, Decided(t), Fresh(t)
      PROVE  Fresh(t)'
  BY <1>1, <1>2, FreshStays
<1>3. ASSUME NEW m \in Touched' PROVE Fresh(m.turn)'
  <2>1. CASE m \in Touched
    BY <1>2, <2>1 DEF TouchedInv, FreshInv
  <2>2. CASE m \notin Touched
    <3>1. materialize_react_tool /\ m = Obs
      BY <1>3, <2>2, OnlyMaterializeOffers
    <3>2. m.turn = Top /\ Top \in Turns /\ Decided(Top) /\ pc.at = "calls"
      BY <3>1, MaterializedIs
    <3>3. PICK t \in Turns : t = m.turn
      BY <3>2
    <3> QED
      BY <1>2, <3>2, <3>3 DEF FreshInv
  <2> QED
    BY <2>1, <2>2
<1>4. ASSUME NEW t \in Turns, HasFact(t, "Tool")' PROVE Fresh(t)'
  <2>1. CASE HasFact(t, "Tool")
    BY <1>1, <1>2, <2>1 DEF FreshInv, DecidedInv
  <2>2. CASE ~HasFact(t, "Tool")
    <3>1. t = Top /\ Fresh(Top) /\ Decided(Top)
      BY <1>4, <2>2, OnlyFreezeRecords
    <3> QED
      BY <1>2, <3>1
  <2> QED
    BY <2>1, <2>2
<1>5. ASSUME pc'.at = "calls"
      PROVE  Fresh(Top)' /\ (HasFact(Top, "Tool")' \/ LastRound'.branch = "Pending")
  <2>1. ASSUME rounds' = rounds, rounds # <<>>, Decided(Top), Fresh(Top),
               HasFact(Top, "Tool") \/ LastRound.branch = "Pending"
        PROVE  Fresh(Top)' /\ (HasFact(Top, "Tool")' \/ LastRound'.branch = "Pending")
    <3>1. Top' = Top /\ LastRound' = LastRound /\ Top \in Turns
      BY <1>1, <2>1, FrontierIsLast DEF Top, LastRound
    <3>2. PICK t \in Turns : t = Top
      BY <3>1
    <3>3. Fresh(t)' /\ (HasFact(t, "Tool") => HasFact(t, "Tool")')
      BY <1>1, <1>2, <2>1, <3>2, FactsPersist
    <3> QED
      BY <2>1, <3>1, <3>2, <3>3
  <2>2. ASSUME pc.at = "calls", rounds' = rounds
        PROVE  Fresh(Top)' /\ (HasFact(Top, "Tool")' \/ LastRound'.branch = "Pending")
    BY <2>1, <2>2, AtWork DEF FreshInv
  <2>3. CASE UNCHANGED <<facts, dispatch, pc>>
    BY <1>5, <2>2, <2>3 DEF facts
  <2>4. CASE Drive
    <3>1. HasFact(Top, "Tool") /\ rounds # <<>> /\ rounds' = rounds
      BY <1>5, <2>4, DriveIs DEF facts
    <3>2. Top \in Turns
      BY <1>1, <3>1, FrontierIsLast
    <3> QED
      BY <1>1, <2>1, <3>1, <3>2 DEF FreshInv, DecidedInv
  <2>5. ASSUME NEW ok \in BOOLEAN, Freeze(ok)
        PROVE  Fresh(Top)' /\ (HasFact(Top, "Tool")' \/ LastRound'.branch = "Pending")
    <3>1. PICK r \in Rounds :
             /\ r.turn = Top /\ rounds' = IF ok THEN Append(rounds, r) ELSE rounds
             /\ \/ r.branch = "Tool" /\ pc' = At("calls")
                \/ r.branch = "Rejected" /\ pc' = At("advance")
                \/ r.branch \in Final /\ pc' = At("final")
             /\ r.branch = "Tool" => Decided(Top) /\ Fresh(Top)
      BY <2>5, FreezeIs
    <3>2. At("advance").at = "advance" /\ At("final").at = "final"
      BY AtType DEF Places
    <3>3. r.branch = "Tool" /\ Decided(Top) /\ Fresh(Top)
      BY <1>5, <3>1, <3>2
    <3>4. rounds # <<>> /\ LastRound.branch = "Pending" /\ Top' = Top /\ Top \in Turns
      BY <2>5, FreezeIs
    <3>5. CASE ok
      <4>1. PICK t \in Turns : t = Top
        BY <3>4
      <4>2. HasFact(t, "Tool")' /\ Fresh(t)'
        BY <1>1, <1>2, <3>1, <3>3, <3>5, <4>1, AppendAdds
      <4> QED
        BY <3>4, <4>1, <4>2
    <3>6. CASE ~ok
      BY <2>1, <3>1, <3>3, <3>4, <3>6
    <3> QED
      BY <3>5, <3>6
  <2> QED
    BY <1>5, <2>2, <2>3, <2>4, <2>5, PassMoves, WorkIs DEF WorkMoves
<1> QED
  BY <1>3, <1>4, <1>5 DEF FreshInv

-----------------------------------------------------------------------------
(* What one lost append can hide *)

\* A tool turn is worked on without its fact only in the pass whose append was lost;
\* what was offered in it can be seen ended only after a second append was lost.
RecordInv ==
    /\ \A m \in Touched : HasFact(m.turn, "Tool") \/ LostAppends >= 1
    /\ pc.at = "calls" =>
          \/ HasFact(Top, "Tool")
          \/ /\ LostAppends >= 1
             /\ ObsMote(Top, 1) \in committed \cup failed => LostAppends >= 2
    /\ pc.at = "gate" => HasFact(Top, "Tool") \/ LostAppends >= 2

\* Every step keeps that a tool turn is worked on without its fact only after an append
\* was lost.
LEMMA RecordStep ==
    ASSUME ChainInv, TouchedInv, PressureInv, RecordInv, [Next]_vars
    PROVE  RecordInv'
<1>1. RoundsGrow /\ OutputsStay /\ RoundsInv /\ DecidedInv /\ ChainInv'
  BY ChainStep DEF ChainInv
<1>2. LostAppends \in Nat /\ LostAppends' \in Nat /\ LostAppends <= LostAppends'
  BY LossGrows
<1>3. \A t : HasFact(t, "Tool") => HasFact(t, "Tool")'
  BY <1>1, FactsPersist
<1>4. ASSUME NEW m \in Touched' PROVE HasFact(m.turn, "Tool")' \/ LostAppends' >= 1
  <2>1. CASE m \in Touched
    BY <1>2, <1>3, <2>1 DEF RecordInv
  <2>2. CASE m \notin Touched
    <3>1. materialize_react_tool /\ m = Obs
      BY <1>4, <2>2, OnlyMaterializeOffers
    <3>2. m.turn = Top /\ pc.at = "calls"
      BY <3>1, MaterializedIs
    <3>3. HasFact(m.turn, "Tool") \/ LostAppends >= 1
      BY <3>2 DEF RecordInv
    <3> QED
      BY <1>2, <1>3, <3>3
  <2> QED
    BY <2>1, <2>2
<1>5. ASSUME pc.at = "calls", UNCHANGED <<rounds, committed, failed>>
      PROVE  /\ Top' = Top
             /\ \/ HasFact(Top, "Tool")'
                \/ /\ LostAppends' >= 1
                   /\ (ObsMote(Top, 1) \in committed \cup failed)' => LostAppends' >= 2
  <2>1. Top' = Top /\ (HasFact(Top, "Tool") <=> HasFact(Top, "Tool")')
    BY <1>5 DEF Top, LastRound, HasFact
  <2>2. CASE HasFact(Top, "Tool")
    BY <2>1, <2>2
  <2>3. CASE ~HasFact(Top, "Tool")
    BY <1>2, <1>5, <2>1, <2>3 DEF RecordInv
  <2> QED
    BY <2>1, <2>2, <2>3
<1>6. ASSUME pc'.at = "calls"
      PROVE  \/ HasFact(Top, "Tool")'
             \/ /\ LostAppends' >= 1
                /\ (ObsMote(Top, 1) \in committed \cup failed)' => LostAppends' >= 2
  <2>1. CASE UNCHANGED <<facts, dispatch, pc>>
    BY <1>5, <1>6, <2>1 DEF facts
  <2>2. CASE Drive
    <3>1. HasFact(Top, "Tool") /\ rounds' = rounds
      BY <1>6, <2>2, DriveIs DEF facts
    <3> QED
      BY <3>1 DEF HasFact, Top, LastRound
  <2>3. ASSUME NEW ok \in BOOLEAN, Freeze(ok)
        PROVE  \/ HasFact(Top, "Tool")'
               \/ /\ LostAppends' >= 1
                  /\ (ObsMote(Top, 1) \in committed \cup failed)' => LostAppends' >= 2
    <3>1. PICK r \in Rounds :
             /\ r.turn = Top /\ rounds' = IF ok THEN Append(rounds, r) ELSE rounds
             /\ \/ r.branch = "Tool" /\ pc' = At("calls")
                \/ r.branch = "Rejected" /\ pc' = At("advance")
                \/ r.branch \in Final /\ pc' = At("final")
      BY <2>3, FreezeIs
    <3>2. r.branch = "Tool"
      BY <1>6, <3>1, AtType DEF Places
    <3>3. /\ rounds # <<>> /\ LastRound.branch = "Pending" /\ Top' = Top /\ Top \in Turns
          /\ LostAppends' = IF ok THEN LostAppends ELSE LostAppends + 1
          /\ UNCHANGED <<committed, failed>>
      BY <2>3, FreezeIs
    <3>4. CASE ok
      <4>1. PICK t \in Turns : t = Top
        BY <3>3
      <4>2. HasFact(t, "Tool")'
        BY <1>1, <3>1, <3>2, <3>4, <4>1, AppendAdds
      <4> QED
        BY <3>3, <4>1, <4>2
    <3>5. CASE ~ok
      <4>1. LostAppends' = LostAppends + 1
        BY <3>3, <3>5
      <4>2. ~HasFact(Top, "Tool")
        BY <1>1, <3>3, PendingIsAlone
      <4>3. ObsMote(Top, 1) \in committed \cup failed => ObsMote(Top, 1) \in Touched
        BY OtherKinds DEF Touched
      <4>4. ObsMote(Top, 1) \in committed \cup failed => LostAppends >= 1
        BY <4>2, <4>3, OtherKinds DEF RecordInv
      <4> QED
        BY <1>2, <3>3, <4>1, <4>4
    <3> QED
      BY <3>4, <3>5
  <2>4. CASE \/ WithinCeiling \/ CallObserved \/ materialize_react_tool
             \/ \E ok \in BOOLEAN : Withhold(ok)
    BY <1>5, <2>4, WorkIs
  <2> QED
    BY <1>6, <2>1, <2>2, <2>3, <2>4, PassMoves, WorkIs DEF WorkMoves
<1>7. ASSUME pc'.at = "gate"
      PROVE  HasFact(Top, "Tool")' \/ LostAppends' >= 2
  <2>1. CASE UNCHANGED <<facts, dispatch, pc>>
    <3>1. rounds' = rounds /\ pc.at = "gate"
      BY <1>7, <2>1 DEF facts
    <3>2. Top' = Top /\ (HasFact(Top, "Tool")' <=> HasFact(Top, "Tool"))
      BY <3>1 DEF Top, LastRound, HasFact
    <3> QED
      BY <1>2, <3>1, <3>2 DEF RecordInv
  <2>2. CASE \/ WithinCeiling \/ CallObserved \/ materialize_react_tool
             \/ \E ok \in BOOLEAN : Withhold(ok)
    <3>1. pc.at = "calls" /\ UNCHANGED <<rounds, committed, failed>>
      BY <2>2, WorkIs
    <3>2. AllObserved(Top)'
      BY <1>7, ObservedStep DEF ObservedSoFar
    <3>3. Decided(Top) /\ Top' = Top /\ 1 \in 1 .. Len(CallsOf(Top)) /\ Top \in Turns
      BY <1>5, <3>1, AtWork, ReactAssumption DEF ReactAssumption
    <3>4. CallsOf(Top)' = CallsOf(Top)
      <4>1. PICK t \in Turns : t = Top
        BY <3>3
      <4>2. CallsOf(t)' = CallsOf(t)
        BY <1>1, <3>3, <4>1, DecidedStays
      <4> QED
        BY <3>3, <4>1, <4>2
    <3>5. (ObsMote(Top, 1) \in committed \cup failed)'
      BY <3>2, <3>3, <3>4 DEF AllObserved
    <3> QED
      BY <1>5, <3>1, <3>5
  <2>3. CASE Drive
    BY <1>7, <2>3, DriveIs
  <2>4. ASSUME NEW ok \in BOOLEAN, Freeze(ok) PROVE FALSE
    <3>1. pc' = At("calls") \/ pc' = At("advance") \/ pc' = At("final")
      BY <2>4, FreezeIs
    <3> QED
      BY <1>7, <3>1, AtType DEF Places
  <2> QED
    BY <1>7, <2>1, <2>2, <2>3, <2>4, PassMoves, WorkIs DEF WorkMoves
<1> QED
  BY <1>4, <1>6, <1>7 DEF RecordInv

-----------------------------------------------------------------------------
(* No call is given out twice *)

\* The chain is past turn t; the tool of call m is gone.
Passed(t) == t < Top \/ (t = Top /\ pc.at = "advance")
Gone(m) == CallAt(m) \notin registered

\* A lone call of turn t was not offered in an earlier turn.
Novel(t) ==
    Len(CallsOf(t)) = 1 =>
        \A m \in Touched : m.turn < t => CallAt(m) # CallsOf(t)[1]

\* A chain that goes on from a turn has recorded what it offered, unless the tool is
\* gone; either way it was counted.
PassedInv ==
    LostAppends <= 1 =>
        \A m \in Touched :
            /\ Passed(m.turn) \/ HasFact(m.turn, "Rejected") =>
                  HasFact(m.turn, "Tool") \/ Gone(m)
            /\ Passed(m.turn) => HasFact(m.turn, "Tool") \/ HasFact(m.turn, "Rejected")
NovelInv ==
    LostAppends <= 1 =>
        /\ \A m \in Touched : Novel(m.turn)
        /\ \A t \in Turns : HasFact(t, "Tool") => Novel(t)
        /\ pc.at = "calls" => Novel(Top)

\* A turn that is rejected after it was worked on has a Tool fact, or its tool is gone.
LEMMA RejectedIs ==
    ASSUME ChainInv, TouchedInv, FreshInv, RecordInv, [Next]_vars, LostAppends' <= 1,
           NEW m \in Touched, m.turn = Top, pc.at # "advance",
           \/ \E ok \in BOOLEAN : Freeze(ok) /\ pc'.at = "advance"
           \/ Freeze(TRUE) /\ HasFact(Top, "Rejected")'
           \/ CallFailed(TRUE)
           \/ pc.at = "gate"
    PROVE  /\ HasFact(Top, "Tool") \/ Gone(m)
           /\ HasFact(Top, "Tool") \/ CallFailed(TRUE) \/ Freeze(TRUE)
<1>1. /\ LostAppends \in Nat /\ LostAppends' \in Nat /\ LostAppends <= LostAppends'
      /\ RoundsInv /\ DecidedInv
  BY LossGrows DEF ChainInv
<1>2. /\ Decided(Top) /\ m.slot \in 1 .. Len(CallsOf(Top)) /\ Top \in Turns
      /\ m = ObsMote(Top, m.slot)
      /\ HasFact(Top, "Tool") \/ Len(CallsOf(Top)) = 1
  BY DEF TouchedInv
<1>3. CASE pc.at = "gate"
  <2>1. ~(LostAppends >= 2)
    BY <1>1
  <2>2. HasFact(Top, "Tool")
    BY <1>3, <2>1 DEF RecordInv
  <2> QED
    BY <2>2
<1>4. CASE CallFailed(TRUE)
  <2>1. pc.at = "calls" /\ pc.call > 0 /\ Obs \in failed
    BY <1>4, StateIs DEF CallFailed, AtCall
  <2>2. Obs = ObsMote(Top, pc.call) /\ pc.call \in 0 .. Len(CallsOf(Top))
    BY <2>1, AtWork
  <2>3. CASE ~HasFact(Top, "Tool")
    <3>1. Len(CallsOf(Top)) = 1
      BY <1>2, <2>3
    <3>2. pc.call = 1
      BY <2>1, <2>2, <3>1
    <3> QED
      BY <1>1, <2>1, <2>2, <2>3, <3>2 DEF RecordInv
  <2> QED
    BY <1>4, <2>3
<1>5. ASSUME NEW ok \in BOOLEAN, Freeze(ok), pc'.at = "advance" \/ (ok /\ HasFact(Top, "Rejected")')
      PROVE  Gone(m) /\ ok
  <2>1. PICK r \in Rounds :
           /\ r.turn = Top /\ rounds' = IF ok THEN Append(rounds, r) ELSE rounds
           /\ \/ r.branch = "Tool" /\ pc' = At("calls")
              \/ r.branch = "Rejected" /\ pc' = At("advance")
              \/ r.branch \in Final /\ pc' = At("final")
           /\ r.branch = "Rejected" =>
                 OutputOf(Top).refused \/ ~Fresh(Top) \/ ~(ToolsOf(Top) \subseteq registered)
    BY <1>5, FreezeIs
  <2>2. /\ rounds # <<>> /\ LastRound.branch = "Pending" /\ Top' = Top
        /\ LostAppends' = IF ok THEN LostAppends ELSE LostAppends + 1
    BY <1>5, FreezeIs
  <2>3. ~HasFact(Top, "Tool") /\ ~HasFact(Top, "Rejected")
    BY <1>1, <2>2, PendingIsAlone
  <2>4. r.branch = "Rejected"
    <3>1. CASE pc'.at = "advance"
      BY <2>1, <3>1, AtType DEF Places
    <3>2. CASE ok /\ HasFact(Top, "Rejected")'
      <4>1. PICK t \in Turns : t = Top
        BY <1>2
      <4>2. HasFact(t, "Rejected")' /\ ~HasFact(t, "Rejected")
        BY <2>2, <2>3, <3>2, <4>1
      <4> QED
        BY <1>1, <2>1, <3>2, <4>2, AppendAdds
    <3> QED
      BY <1>5, <3>1, <3>2
  <2>5. ~OutputOf(Top).refused /\ Fresh(Top)
    BY <1>2 DEF Decided, FreshInv
  <2>6. Len(CallsOf(Top)) = 1 /\ m.slot = 1
    <3>1. Len(CallsOf(Top)) = 1
      BY <1>2, <2>3
    <3>2. m.slot \in 1 .. 1
      BY <1>2, <3>1
    <3> QED
      BY <3>1, <3>2
  <2>7. CallsOf(Top) \in Seq(Calls)
    BY <1>1, <1>2, DecidedOutput DEF ChainInv
  <2>8. ToolsOf(Top) = {CallAt(m)}
    BY <2>6, <2>7 DEF ToolsOf, CallAt
  <2>9. Gone(m)
    BY <2>1, <2>4, <2>5, <2>8 DEF Gone
  <2>10. LostAppends >= 1
    BY <2>3 DEF RecordInv
  <2> QED
    BY <1>1, <2>2, <2>9, <2>10
<1> QED
  BY <1>3, <1>4, <1>5

\* Every step keeps that a chain that goes on from a turn has recorded what it offered.
LEMMA PassedStep ==
    ASSUME ChainInv, TouchedInv, FreshInv, RecordInv, PassedInv, [Next]_vars
    PROVE  PassedInv'
<1> SUFFICES ASSUME LostAppends' <= 1, NEW m \in Touched'
             PROVE  /\ Passed(m.turn)' \/ HasFact(m.turn, "Rejected")' =>
                          HasFact(m.turn, "Tool")' \/ Gone(m)'
                    /\ Passed(m.turn)' => HasFact(m.turn, "Tool")' \/ HasFact(m.turn, "Rejected")'
  BY DEF PassedInv
<1>1. RoundsGrow /\ OutputsStay /\ RoundsInv /\ DecidedInv
  BY ChainStep DEF ChainInv
<1>2. LostAppends <= 1 /\ registered' \subseteq registered
  BY LossGrows
<1>3. \A t, b : HasFact(t, b) => HasFact(t, b)'
  BY <1>1, FactsPersist
<1>4. CASE m \notin Touched
  <2>1. materialize_react_tool /\ m = Obs
    BY <1>4, OnlyMaterializeOffers
  <2>2. /\ m.turn = Top /\ pc.at = "calls" /\ pc'.at \in {"calls", "idle"} /\ Top \in Turns
        /\ UNCHANGED facts
    BY <2>1, MaterializedIs
  <2>3. rounds' = rounds /\ rounds # <<>>
    BY <2>2, AtWork DEF facts
  <2>4. Top' = Top /\ (HasFact(Top, "Rejected") <=> HasFact(Top, "Rejected")')
    BY <2>3 DEF Top, LastRound, HasFact
  <2>5. ~Passed(m.turn)'
    BY <2>2, <2>4 DEF Passed, Turns
  <2>6. HasFact(Top, "Rejected") => HasFact(Top, "Tool")
    BY <1>1, <2>2, <2>3, PendingIsAlone DEF FreshInv
  <2> QED
    BY <1>3, <2>2, <2>4, <2>5, <2>6
<1>5. CASE m \in Touched
  <2>1. CallAt(m)' = CallAt(m) /\ (Gone(m) => Gone(m)')
    BY <1>1, <1>2, <1>5, CallStays DEF Gone
  <2>2. m.turn \in Turns /\ HasTurn(m.turn)
    BY <1>5 DEF TouchedInv, Decided
  <2>3. rounds # <<>> /\ m.turn <= Top /\ Top \in Turns
    BY <1>1, <2>2, TopIsHighest, FrontierIsLast
  <2>4. CASE Passed(m.turn)
    BY <1>2, <1>3, <1>5, <2>1, <2>4 DEF PassedInv
  <2>5. CASE ~Passed(m.turn)
    <3>1. m.turn = Top /\ pc.at # "advance"
      BY <2>2, <2>3, <2>5 DEF Passed, Turns
    <3>2. Top' = Top
      <4>1. CASE rounds' = rounds
        BY <4>1 DEF Top, LastRound
      <4>2. ASSUME NEW r \in Rounds, Origin(r), rounds' = Append(rounds, r)
            PROVE  Top' = Top
        <5>1. ~AdvanceNext(TRUE)
          BY <3>1 DEF AdvanceNext
        <5>2. DeadLettered(Top).turn = Top /\ Round(Top, "Rejected", "failed", Base).turn = Top
          BY DEF DeadLettered, Round
        <5>3. r.turn = Top
          BY <2>3, <4>2, <5>1, <5>2 DEF Origin
        <5> QED
          BY <1>1, <4>2, <5>3, AppendAdds
      <4> QED
        BY <4>1, <4>2, FactsComeFrom
    <3>3. Passed(m.turn)' => pc'.at = "advance"
      BY <3>1, <3>2, <2>3 DEF Passed, Turns
    <3>4. ASSUME HasFact(m.turn, "Rejected")', ~HasFact(m.turn, "Rejected")
          PROVE  HasFact(m.turn, "Tool")' \/ Gone(m)'
      <4>1. rounds' # rounds
        BY <3>4 DEF HasFact
      <4>2. PICK r \in Rounds : Origin(r) /\ rounds' = Append(rounds, r)
        BY <4>1, FactsComeFrom
      <4>3. r.branch = "Rejected"
        BY <1>1, <3>4, <4>2, AppendAdds
      <4>4. /\ Anchor.branch = "Pending" /\ DeadLettered(Top).branch = "DeadLettered"
            /\ Round(Top + 1, "Pending", "none", NextText(Top)).branch = "Pending"
        BY DEF Anchor, DeadLettered, Round
      <4>5. Freeze(TRUE) \/ CallFailed(TRUE)
        BY <4>2, <4>3, <4>4 DEF Origin
      <4>6. HasFact(Top, "Rejected")'
        BY <3>1, <3>2, <3>4
      <4>7. HasFact(Top, "Tool") \/ Gone(m)
        BY <1>5, <3>1, <4>5, <4>6, RejectedIs
      <4> QED
        BY <1>3, <2>1, <3>1, <4>7
    <3>5. ASSUME HasFact(m.turn, "Rejected")
          PROVE  HasFact(m.turn, "Tool")' \/ Gone(m)'
      BY <1>2, <1>3, <1>5, <2>1, <3>5 DEF PassedInv
    <3>6. ASSUME pc'.at = "advance"
          PROVE  /\ HasFact(m.turn, "Tool")' \/ Gone(m)'
                 /\ HasFact(m.turn, "Tool")' \/ HasFact(m.turn, "Rejected")'
      <4>1. CASE HasFact(Top, "Rejected")
        BY <1>3, <3>1, <3>5, <4>1
      <4>2. CASE PassRerank \/ StartRerank(FALSE)
        <5>1. pc.at = "gate"
          BY <4>2, WorkIs
        <5>2. ~CallFailed(TRUE) /\ ~Freeze(TRUE)
          BY <5>1 DEF CallFailed, AtCall, Freeze
        <5>3. HasFact(Top, "Tool")
          BY <1>5, <3>1, <5>1, <5>2, RejectedIs
        <5> QED
          BY <1>3, <3>1, <5>3
      <4>3. ASSUME NEW ok \in BOOLEAN, Freeze(ok)
            PROVE  /\ HasFact(m.turn, "Tool")' \/ Gone(m)'
                   /\ HasFact(m.turn, "Tool")' \/ HasFact(m.turn, "Rejected")'
        <5>1. ~CallFailed(TRUE)
          BY <4>3 DEF Freeze, CallFailed, AtCall
        <5>2. /\ HasFact(Top, "Tool") \/ Gone(m)
              /\ HasFact(Top, "Tool") \/ Freeze(TRUE)
          BY <1>5, <3>1, <3>6, <4>3, <5>1, RejectedIs
        <5>3. Freeze(TRUE) => HasFact(m.turn, "Rejected")'
          <6> SUFFICES ASSUME Freeze(TRUE) PROVE HasFact(m.turn, "Rejected")'
            OBVIOUS
          <6>1. PICK r \in Rounds :
                   /\ r.turn = Top /\ rounds' = Append(rounds, r)
                   /\ \/ r.branch = "Tool" /\ pc' = At("calls")
                      \/ r.branch = "Rejected" /\ pc' = At("advance")
                      \/ r.branch \in Final /\ pc' = At("final")
            BY FreezeIs
          <6>2. r.branch = "Rejected"
            BY <3>6, <6>1, AtType DEF Places
          <6> QED
            BY <1>1, <3>1, <6>1, <6>2, AppendAdds
        <5> QED
          BY <1>3, <2>1, <3>1, <5>2, <5>3
      <4>4. Drive => HasFact(Top, "Rejected")
        BY <3>6, DriveIs
      <4>5. ~UNCHANGED <<facts, dispatch, pc>>
        BY <3>1, <3>6
      <4> QED
        BY <3>6, <4>1, <4>2, <4>3, <4>4, <4>5, PassMoves, WorkIs DEF WorkMoves
    <3> QED
      BY <3>3, <3>4, <3>5, <3>6
  <2> QED
    BY <2>4, <2>5
<1> QED
  BY <1>4, <1>5

\* The lone call of a decided turn that is frozen as a tool turn is a new one.
LEMMA FrozenIsNovel ==
    ASSUME ChainInv, TouchedInv, PassedInv, LostAppends <= 1, rounds # <<>>,
           Decided(Top), Fresh(Top), ToolsOf(Top) \subseteq registered
    PROVE  Novel(Top)
<1> SUFFICES ASSUME Len(CallsOf(Top)) = 1, NEW m \in Touched, m.turn < Top,
                    CallAt(m) = CallsOf(Top)[1]
             PROVE  FALSE
  BY DEF Novel
<1>1. Top \in Turns /\ CallsOf(Top) \in Seq(Calls)
  BY FrontierIsLast, DecidedOutput DEF ChainInv
<1>2. ToolsOf(Top) = {CallAt(m)}
  BY <1>1 DEF ToolsOf
<1>3. ~Gone(m)
  BY <1>2 DEF Gone
<1>4. Passed(m.turn)
  BY DEF Passed
<1>5. HasFact(m.turn, "Tool")
  BY <1>3, <1>4 DEF PassedInv
<1>6. m.turn \in Turns /\ Decided(m.turn) /\ m.slot \in 1 .. Len(CallsOf(m.turn))
  BY DEF TouchedInv
<1>7. CallsOf(m.turn) \in Seq(Calls)
  BY <1>6, DecidedOutput DEF ChainInv
<1>8. m.slot \in DOMAIN CallsOf(m.turn)
  BY <1>6, <1>7
<1>9. CallAt(m) \in {OutputOf(m.turn).calls[i] : i \in DOMAIN OutputOf(m.turn).calls}
  BY <1>8 DEF CallAt, CallsOf
<1>10. CallAt(m) \in PriorFired(Top)
  BY <1>5, <1>6, <1>9 DEF PriorFired
<1> QED
  BY <1>2, <1>10 DEF Fresh

\* What was new when it was decided stays new: later offers are of later turns.
LEMMA NovelStays ==
    ASSUME ChainInv, TouchedInv, [Next]_vars, NEW t \in Turns, Decided(t), Novel(t)
    PROVE  Novel(t)'
<1>1. RoundsGrow /\ OutputsStay /\ RoundsInv
  BY ChainStep DEF ChainInv
<1>2. CallsOf(t)' = CallsOf(t)
  BY <1>1, DecidedStays
<1>3. t <= Top
  BY <1>1, TopIsHighest DEF Decided
<1> SUFFICES ASSUME Len(CallsOf(t)) = 1, NEW m \in Touched', m.turn < t
             PROVE  CallAt(m)' # CallsOf(t)[1]
  BY <1>2 DEF Novel
<1>4. CASE m \in Touched
  BY <1>1, <1>4, CallStays DEF Novel
<1>5. CASE m \notin Touched
  <2>1. materialize_react_tool /\ m = Obs
    BY <1>5, OnlyMaterializeOffers
  <2>2. m.turn = Top /\ Top \in Turns
    BY <2>1, MaterializedIs
  <2> QED
    BY <1>3, <2>2 DEF Turns
<1> QED
  BY <1>4, <1>5

\* Every step keeps that a lone call given out is none of an earlier turn's.
LEMMA NovelStep ==
    ASSUME ChainInv, TouchedInv, PassedInv, NovelInv, [Next]_vars
    PROVE  NovelInv'
<1> SUFFICES ASSUME LostAppends' <= 1
             PROVE  /\ \A m \in Touched' : Novel(m.turn)'
                    /\ \A t \in Turns : HasFact(t, "Tool")' => Novel(t)'
                    /\ pc'.at = "calls" => Novel(Top)'
  BY DEF NovelInv
<1>1. RoundsGrow /\ OutputsStay /\ RoundsInv /\ DecidedInv
  BY ChainStep DEF ChainInv
<1>2. LostAppends <= 1
  BY LossGrows
<1>3. ASSUME NEW m \in Touched' PROVE Novel(m.turn)'
  <2>1. CASE m \in Touched
    BY <1>2, <2>1, NovelStays DEF TouchedInv, NovelInv
  <2>2. CASE m \notin Touched
    <3>1. materialize_react_tool /\ m = Obs
      BY <1>3, <2>2, OnlyMaterializeOffers
    <3>2. m.turn = Top /\ Top \in Turns /\ Decided(Top) /\ pc.at = "calls"
      BY <3>1, MaterializedIs
    <3>3. PICK t \in Turns : t = m.turn
      BY <3>2
    <3> QED
      BY <1>2, <3>2, <3>3, NovelStays DEF NovelInv
  <2> QED
    BY <2>1, <2>2
<1>4. ASSUME NEW t \in Turns, HasFact(t, "Tool")' PROVE Novel(t)'
  <2>1. CASE HasFact(t, "Tool")
    BY <1>1, <1>2, <2>1, NovelStays DEF NovelInv, DecidedInv
  <2>2. CASE ~HasFact(t, "Tool")
    <3>1. t = Top /\ Freeze(TRUE) /\ Fresh(Top) /\ Decided(Top) /\ ToolsOf(Top) \subseteq registered
      BY <1>4, <2>2, OnlyFreezeRecords
    <3>2. rounds # <<>>
      BY <3>1, FreezeIs
    <3> QED
      BY <1>2, <3>1, <3>2, FrozenIsNovel, NovelStays
  <2> QED
    BY <2>1, <2>2
<1>5. ASSUME pc'.at = "calls" PROVE Novel(Top)'
  <2>1. ASSUME Decided(Top), Novel(Top), rounds # <<>>, Top' = Top
        PROVE  Novel(Top)'
    <3>1. PICK t \in Turns : t = Top
      BY <1>1, <2>1, FrontierIsLast
    <3>2. Novel(t)'
      BY <2>1, <3>1, NovelStays
    <3> QED
      BY <2>1, <3>1, <3>2
  <2>2. ASSUME pc.at = "calls", rounds' = rounds PROVE Novel(Top)'
    <3>1. Top' = Top
      BY <2>2 DEF Top, LastRound
    <3> QED
      BY <1>2, <2>1, <2>2, <3>1, AtWork DEF NovelInv
  <2>3. CASE UNCHANGED <<facts, dispatch, pc>>
    BY <1>5, <2>2, <2>3 DEF facts
  <2>4. CASE Drive
    <3>1. HasFact(Top, "Tool") /\ rounds # <<>> /\ rounds' = rounds
      BY <1>5, <2>4, DriveIs DEF facts
    <3>2. Top \in Turns /\ Top' = Top
      BY <1>1, <3>1, FrontierIsLast DEF Top, LastRound
    <3> QED
      BY <1>1, <1>2, <2>1, <3>1, <3>2 DEF NovelInv, DecidedInv
  <2>5. ASSUME NEW ok \in BOOLEAN, Freeze(ok) PROVE Novel(Top)'
    <3>1. PICK r \in Rounds :
             /\ \/ r.branch = "Tool" /\ pc' = At("calls")
                \/ r.branch = "Rejected" /\ pc' = At("advance")
                \/ r.branch \in Final /\ pc' = At("final")
             /\ r.branch = "Tool" =>
                   Decided(Top) /\ Fresh(Top) /\ ToolsOf(Top) \subseteq registered
      BY <2>5, FreezeIs
    <3>2. r.branch = "Tool"
      BY <1>5, <3>1, AtType DEF Places
    <3>3. rounds # <<>> /\ Top' = Top
      BY <2>5, FreezeIs
    <3> QED
      BY <1>2, <2>1, <3>1, <3>2, <3>3, FrozenIsNovel
  <2> QED
    BY <1>5, <2>2, <2>3, <2>4, <2>5, PassMoves, WorkIs DEF WorkMoves
<1> QED
  BY <1>3, <1>4, <1>5

FireInv == /\ ChainInv /\ TouchedInv /\ PressureInv
           /\ FreshInv /\ RecordInv /\ PassedInv /\ NovelInv

\* Initially nothing was fired.
LEMMA FireInit ==
    ASSUME Init
    PROVE  FireInv
<1>1. ChainInv /\ TouchedInv
  BY ChainInit, TouchedInit
<1>2. Idle.at = "idle"
  BY AtType DEF Idle, Places
<1>3. /\ rounds = <<>> /\ reranking = {} /\ pc.at = "idle" /\ defs = {} /\ leased = {}
      /\ slow = {} /\ ran = {} /\ committed = {} /\ failed = {}
  BY <1>2 DEF Init
<1>4. Touched = {} /\ (\A t : ~HasTurn(t)) /\ \A t, b : ~HasFact(t, b)
  BY <1>3 DEF Touched, HasTurn, HasFact
<1>5. PressureInv
  BY <1>3, <1>4 DEF PressureInv, ObservedSoFar, Reranks, Pressed
<1>6. FreshInv /\ RecordInv /\ PassedInv /\ NovelInv
  BY <1>3, <1>4 DEF FreshInv, RecordInv, PassedInv, NovelInv
<1> QED
  BY <1>1, <1>5, <1>6 DEF FireInv

\* The four parts of the firing invariant are kept together.
LEMMA FireStep ==
    ASSUME FireInv, [Next]_vars
    PROVE  FireInv'
  BY ChainStep, TouchedStep, ObservedStep, RerankStep, PressedStep, FreshStep, RecordStep,
     PassedStep, NovelStep
     DEF FireInv, PressureInv

\* A lone call that an earlier turn of the chain gave out is never given out again, not
\* even after it failed, its tool was removed or the coordinator restarted, as long
\* as no more than one append was lost (collect_prior_fired_calls).
THEOREM CallsAreNotRefired == Spec => [](faults["append"] <= 1 => NoRefire)
<1>1. Init => FireInv
  BY FireInit
<1>2. FireInv /\ [Next]_vars => FireInv'
  BY FireStep
<1>3. FireInv => (faults["append"] <= 1 => NoRefire)
  <2> SUFFICES ASSUME FireInv, LostAppends <= 1, NEW m \in ran, NEW n \in ran,
                      m.turn < n.turn, Len(CallsOf(n.turn)) = 1
               PROVE  CallAt(m) # CallAt(n)
    BY DEF NoRefire, LostAppends, CallAt, CallsOf
  <2>1. m \in Touched /\ n \in Touched
    BY DEF FireInv, TouchedInv
  <2>2. n.slot \in 1 .. 1
    BY <2>1 DEF FireInv, TouchedInv
  <2>3. CallAt(n) = CallsOf(n.turn)[1]
    BY <2>2 DEF CallAt
  <2> QED
    BY <2>1, <2>3 DEF FireInv, NovelInv, Novel
<1> QED
  BY <1>1, <1>2, <1>3, PTL DEF Spec

-----------------------------------------------------------------------------
(* The budget *)

\* A turn is opened only while the facts before it leave something of the budget.
BudgetInv == \A t \in Turns : t > 0 /\ HasTurn(t) => SpentBefore(t) < MaxToolCalls

\* What is spent is a number.
LEMMA SpentFinite ==
    ASSUME ChainInv, NEW S
    PROVE  IsFiniteSet(SpentPairs(S)) /\ SpentIn(S) \in Nat /\ SpentIn(S) = Cardinality(SpentPairs(S))
<1>1. Len(rounds) \in Nat /\ DOMAIN rounds = 1 .. Len(rounds) /\ MaxBatch \in Nat
  BY ReactAssumption DEF ChainInv, RoundsInv, ReactAssumption
<1>2. IsFiniteSet(DOMAIN rounds) /\ IsFiniteSet(Slots)
  BY <1>1, FS_Interval DEF Slots
<1>3. IsFiniteSet((DOMAIN rounds) \X Slots)
  BY <1>2, FS_Product
<1>4. SpentPairs(S) \subseteq (DOMAIN rounds) \X Slots
  BY DEF SpentPairs
<1>5. IsFiniteSet(SpentPairs(S))
  BY <1>3, <1>4, FS_Subset
<1>6. SpentIn(S) = Cardinality(SpentPairs(S))
  BY DEF SpentIn, SpentPairs
<1> QED
  BY <1>5, <1>6, FS_CardinalityType

\* A turn is opened only by an advance, which looks at the budget; later facts are of
\* later turns.
LEMMA BudgetStep ==
    ASSUME ChainInv, BudgetInv, [Next]_vars
    PROVE  BudgetInv'
<1> SUFFICES ASSUME NEW t \in Turns, t > 0, HasTurn(t)'
             PROVE  SpentBefore(t)' < MaxToolCalls
  BY DEF BudgetInv
<1>1. RoundsGrow /\ OutputsStay /\ RoundsInv
  BY ChainStep DEF ChainInv
<1>2. CASE HasTurn(t)
  BY <1>1, <1>2, SpentBeforeStays DEF BudgetInv
<1>3. CASE ~HasTurn(t)
  <2>1. rounds' # rounds
    BY <1>3 DEF HasTurn
  <2>2. PICK r \in Rounds : Origin(r) /\ rounds' = Append(rounds, r)
    BY <2>1, FactsComeFrom
  <2>3. r.turn = t
    BY <1>1, <1>3, <2>2, AppendAdds
  <2>4. Anchor.turn = 0 /\ DeadLettered(Top).turn = Top
        /\ Round(Top, "Rejected", "failed", Base).turn = Top
    BY DEF Anchor, DeadLettered, Round
  <2>5. r # Anchor
    BY <2>3, <2>4
  <2>6. pc.at \in {"calls", "advance"} \/ CallFailed(TRUE) \/ Freeze(TRUE) => rounds # <<>>
    <3>1. CallFailed(TRUE) => pc.at = "calls"
      BY DEF CallFailed, AtCall
    <3> QED
      BY <3>1, AtWork, FreezeIs
  <2>7. rounds # <<>> => HasTurn(Top)
    BY <1>1, FrontierIsLast
  <2>8. AdvanceNext(TRUE) /\ r = Round(Top + 1, "Pending", "none", NextText(Top))
    BY <1>3, <2>2, <2>3, <2>4, <2>5, <2>6, <2>7 DEF Origin
  <2>9. t = Top + 1
    BY <2>3, <2>8 DEF Round
  <2>10. SpentBefore(t)' = Spent /\ ~(Spent >= MaxToolCalls)
    BY <1>1, <2>2, <2>8, <2>9, NextIsRebuilt
  <2>11. Spent \in Nat /\ MaxToolCalls \in Nat
    BY SpentFinite, ReactAssumption DEF Spent, ReactAssumption
  <2> QED
    BY <2>10, <2>11
<1> QED
  BY <1>2, <1>3

\* Every call that a worker was given in a turn the chain has left stands for a unit
\* that the facts count.
LEMMA RanIsSpent ==
    ASSUME FireInv, LostAppends <= 1, NEW t \in Turns, HasTurn(t)
    PROVE  /\ Cardinality({m \in ran : m.turn < t}) \in Nat
           /\ Cardinality({m \in ran : m.turn < t}) <= SpentBefore(t)
<1> DEFINE M == {m \in ran : m.turn < t}
           S == {u \in Turns : u < t}
           P == SpentPairs(S)
           Stands(m, k) == rounds[k].turn = m.turn /\ <<k, m.slot>> \in P
           Fact(m) == CHOOSE k \in DOMAIN rounds : Stands(m, k)
           f == [m \in M |-> <<Fact(m), m.slot>>]
<1>1. ChainInv /\ RoundsInv /\ t <= Top /\ Top \in Turns
  BY TopIsHighest, FrontierIsLast DEF FireInv, ChainInv
<1>2. ASSUME NEW m \in M
      PROVE  (\E k \in DOMAIN rounds : Stands(m, k)) /\ m = ObsMote(m.turn, m.slot)
  <2>1. m \in Touched
    BY DEF FireInv, TouchedInv
  <2>2. /\ m = ObsMote(m.turn, m.slot) /\ m.turn \in Turns
        /\ Decided(m.turn) /\ m.slot \in 1 .. Len(CallsOf(m.turn))
        /\ HasFact(m.turn, "Tool") \/ Len(CallsOf(m.turn)) = 1
    BY <2>1 DEF FireInv, TouchedInv
  <2>3. Passed(m.turn)
    BY <1>1, <2>2 DEF Passed, Turns
  <2>4. HasFact(m.turn, "Tool") \/ HasFact(m.turn, "Rejected")
    BY <2>1, <2>3 DEF FireInv, PassedInv
  <2>5. Len(CallsOf(m.turn)) \in 1 .. MaxBatch
    BY <1>1, <2>2, DecidedOutput DEF ChainInv
  <2>6. m.slot \in Slots
    BY <2>2, <2>5, ReactAssumption DEF Slots, ReactAssumption
  <2>7. m.turn \in S
    BY <2>2
  <2>8. CASE HasFact(m.turn, "Tool")
    <3>1. PICK k \in DOMAIN rounds : rounds[k].turn = m.turn /\ rounds[k].branch = "Tool"
      BY <2>8 DEF HasFact
    <3>2. Width(rounds[k]) = Len(CallsOf(m.turn))
      BY <3>1 DEF Width, CallsOf
    <3>3. m.slot <= Width(rounds[k])
      BY <2>2, <3>2
    <3>4. <<k, m.slot>> \in P
      BY <2>6, <2>7, <3>1, <3>3 DEF SpentPairs
    <3> QED
      BY <2>2, <3>1, <3>4
  <2>9. CASE ~HasFact(m.turn, "Tool")
    <3>1. PICK k \in DOMAIN rounds : rounds[k].turn = m.turn /\ rounds[k].branch = "Rejected"
      BY <2>4, <2>9 DEF HasFact
    <3>2. Width(rounds[k]) = 1
      BY <3>1 DEF Width
    <3>3. Len(CallsOf(m.turn)) = 1
      BY <2>2, <2>9
    <3>4. m.slot <= Width(rounds[k])
      BY <2>2, <3>2, <3>3
    <3>5. <<k, m.slot>> \in P
      BY <2>6, <2>7, <3>1, <3>4 DEF SpentPairs
    <3> QED
      BY <2>2, <3>1, <3>5
  <2> QED
    BY <2>8, <2>9
<1>3. IsFiniteSet(P) /\ SpentBefore(t) = Cardinality(P)
  BY <1>1, SpentFinite DEF SpentBefore
<1>4. \A m \in M : Stands(m, Fact(m)) /\ m = ObsMote(m.turn, m.slot)
  BY <1>2
<1> HIDE DEF P, M, Fact
<1>5. f \in [M -> P]
  BY <1>4
<1>6. ASSUME NEW m \in M, NEW n \in M, f[m] = f[n]
      PROVE  m = n
  <2>1. <<Fact(m), m.slot>> = <<Fact(n), n.slot>>
    BY <1>6
  <2>2. Fact(m) = Fact(n) /\ m.slot = n.slot
    BY <2>1
  <2>3. m.turn = n.turn
    BY <1>4, <2>2
  <2> QED
    BY <1>4, <2>2, <2>3
<1> HIDE DEF f
<1>7. f \in Injection(M, P)
  BY <1>5, <1>6, Fun_IsInj
<1>8. IsFiniteSet(M) /\ Cardinality(M) <= Cardinality(P)
  BY <1>3, <1>7, FS_Injection
<1> QED
  BY <1>3, <1>8, FS_CardinalityType DEF M

\* A chain opens another turn only while it has really given out fewer tool calls than
\* its budget, batches, failed calls and re-prompts included, as long as no more than
\* one append was lost (advance_react_chain counts facts, the workers count calls).
THEOREM BudgetsAreKept == Spec => [](faults["append"] <= 1 => BudgetKept)
<1>1. Init => FireInv /\ BudgetInv
  <2> SUFFICES ASSUME Init PROVE FireInv /\ BudgetInv
    OBVIOUS
  <2>1. \A t : ~HasTurn(t)
    BY DEF Init, HasTurn
  <2> QED
    BY <2>1, FireInit DEF BudgetInv
<1>2. FireInv /\ BudgetInv /\ [Next]_vars => (FireInv /\ BudgetInv)'
  BY FireStep, BudgetStep DEF FireInv
<1>3. FireInv /\ BudgetInv => (faults["append"] <= 1 => BudgetKept)
  <2> SUFFICES ASSUME FireInv, BudgetInv, LostAppends <= 1, NEW t \in Turns, t > 0, HasTurn(t)
               PROVE  Cardinality({m \in ran : m.turn < t}) < MaxToolCalls
    BY DEF BudgetKept, LostAppends
  <2>1. /\ Cardinality({m \in ran : m.turn < t}) \in Nat
        /\ Cardinality({m \in ran : m.turn < t}) <= SpentBefore(t)
        /\ SpentBefore(t) < MaxToolCalls
    BY RanIsSpent DEF BudgetInv
  <2>2. SpentBefore(t) \in Nat /\ MaxToolCalls \in Nat
    BY SpentFinite, ReactAssumption DEF SpentBefore, FireInv, ReactAssumption
  <2> QED
    BY <2>1, <2>2
<1> QED
  BY <1>1, <1>2, <1>3, PTL DEF Spec

=============================================================================
