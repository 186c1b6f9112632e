---------------------------- MODULE ParkedProofs ----------------------------
(***************************************************************************)
(* Theorems about ParkedSteps: a durable wait is waited out, a timer is    *)
(* journaled once, a ladder's result is true and one arm runs, for every   *)
(* workflow, delay, ladder, failure and number of restarts.                *)
(*                                                                         *)
(* What the coordinator commits for a wait rests on the in-memory timer;   *)
(* so the invariant says that every armed timer is in the journal, that a  *)
(* wait's timer was journaled after its parents committed, and that no     *)
(* worker ever holds a wait.                                               *)
(*                                                                         *)
(* A policied step is committed by its ladder alone, and the n-th attempt  *)
(* exists only because the one before it is lost and its backoff is over:  *)
(* where no attempt is cut off by a crash, what the step commits is the    *)
(* truth about its attempts.  A step of the arm the conditional did not    *)
(* take is never handed out: the lease gate asks for the verdict, and a    *)
(* wait, which no lease gate guards, has no timer while it is parked.      *)
(***************************************************************************)
EXTENDS ParkedSteps, TLAPS

\* The state the argument is about.
Shapes ==
    /\ proj \in [Motes -> SUBSET Flags]
    /\ result \in [Motes -> Results]
    /\ \A m \in Motes : result[m] # "none" <=> "committed" \in proj[m]
    /\ timers \in Seq(TimerRecord)
    /\ now \in Nat
    /\ leased \subseteq Motes \ Waits
    /\ parked_waits \subseteq Waits
    /\ parked_guards \subseteq Guards
    /\ parked_policied \subseteq Policied

\* What is armed is in the journal.
ArmedIsJournaled ==
    \A t \in armed_timers : \E i \in 1 .. Len(timers) : timers[i] = t

\* The timer of a wait was journaled after the wait's parents committed.
ArmedAfterParents ==
    \A i \in 1 .. Len(timers) :
        timers[i].purpose = 0 =>
            \A p \in Parents[timers[i].subject] : result[p] # "none"

ParkedInv ==
    /\ Shapes
    /\ ArmedIsJournaled
    /\ ArmedAfterParents
    /\ WaitedOut
    /\ OneTimer

\* The fields of a journaled timer have their types.
LEMMA TimerFields ==
    ASSUME Shapes, NEW i \in 1 .. Len(timers)
    PROVE  /\ timers[i].subject \in Motes
           /\ timers[i].purpose \in {0, 1}
           /\ timers[i].attempt \in Nat
           /\ timers[i].fire_at \in Nat
<1>1. timers[i] \in TimerRecord
  BY DEF Shapes
<1> QED
  BY <1>1 DEF TimerRecord

-----------------------------------------------------------------------------
(* Three kinds of step *)

\* A step that commits nothing and journals no timer keeps the invariant.
LEMMA QuietStep ==
    ASSUME ParkedInv,
           UNCHANGED <<result, timers>>,
           proj' \in [Motes -> SUBSET Flags],
           \A m \in Motes : "committed" \in proj'[m] <=> "committed" \in proj[m],
           now' \in Nat, now <= now',
           leased' \subseteq Motes \ Waits,
           parked_waits' \subseteq Waits,
           parked_guards' \subseteq Guards,
           parked_policied' \subseteq Policied,
           \A t \in armed_timers' : \E i \in 1 .. Len(timers) : timers[i] = t
    PROVE  ParkedInv'
<1> USE DEF ParkedInv
<1>1. Shapes'
  BY DEF Shapes
<1>2. ArmedIsJournaled' /\ ArmedAfterParents' /\ OneTimer'
  BY DEF ArmedIsJournaled, ArmedAfterParents, OneTimer
<1>3. WaitedOut'
  <2> SUFFICES ASSUME NEW m \in Waits, result[m] \notin {"none", "skip"}
               PROVE  /\ \E i \in FoldedTimers(m, 0, 0) : timers[i].fire_at <= now'
                      /\ \A p \in Parents[m] : result[p] # "none"
    BY DEF WaitedOut, FoldedTimers
  <2>1. PICK i \in FoldedTimers(m, 0, 0) : timers[i].fire_at <= now
    BY DEF WaitedOut
  <2>2. timers[i].fire_at \in Nat
    BY <2>1, TimerFields DEF FoldedTimers
  <2>3. timers[i].fire_at <= now'
    BY <2>1, <2>2 DEF Shapes
  <2> QED
    BY <2>1, <2>3 DEF WaitedOut
<1> QED
  BY <1>1, <1>2, <1>3

\* A step that commits m keeps the invariant when a wait is committed, other
\* than by a skip, only with a due timer and committed parents.
LEMMA CommitStep ==
    ASSUME ParkedInv,
           NEW m \in Motes, NEW r \in Results \ {"none"},
           proj' = [proj EXCEPT ![m] = FoldCommitted(@)],
           result' = [result EXCEPT ![m] = r],
           UNCHANGED <<timers, now>>,
           leased' \subseteq leased,
           parked_waits' \subseteq parked_waits,
           parked_guards' \subseteq parked_guards,
           parked_policied' \subseteq parked_policied,
           armed_timers' \subseteq armed_timers,
           m \in Waits /\ r # "skip" =>
               /\ \E i \in FoldedTimers(m, 0, 0) : timers[i].fire_at <= now
               /\ \A p \in Parents[m] : result[p] # "none"
    PROVE  ParkedInv'
<1> USE GraphAssumption, ParkedAssumption DEF ParkedInv
<1>1. Shapes'
  BY DEF Shapes, FoldCommitted, Flags
<1>2. \A p \in Motes : result[p] # "none" => result'[p] # "none"
  BY DEF Shapes
<1>3. \A i \in 1 .. Len(timers) : timers[i].subject \in Motes
  BY TimerFields
<1>4. \A p \in Motes : Parents[p] \subseteq Motes
  BY DEF GraphAssumption
<1>5. ArmedIsJournaled' /\ OneTimer'
  BY DEF ArmedIsJournaled, OneTimer
<1>6. ArmedAfterParents'
  BY <1>2, <1>3, <1>4 DEF ArmedAfterParents
<1>7. WaitedOut'
  <2> SUFFICES ASSUME NEW w \in Waits, result'[w] \notin {"none", "skip"}
               PROVE  /\ \E i \in FoldedTimers(w, 0, 0) : timers[i].fire_at <= now
                      /\ \A p \in Parents[w] : result'[p] # "none"
    BY DEF WaitedOut, FoldedTimers
  <2>1. w \in Motes
    BY DEF ParkedAssumption
  <2>2. CASE w = m
    BY <1>2, <1>4, <2>1, <2>2 DEF Shapes
  <2>3. CASE w # m
    BY <1>2, <1>4, <2>1, <2>3 DEF WaitedOut, Shapes
  <2> QED
    BY <2>2, <2>3
<1> QED
  BY <1>1, <1>5, <1>6, <1>7

\* A step that journals and arms a timer keeps the invariant when there was
\* none for its subject, purpose and attempt.
LEMMA ArmStep ==
    ASSUME ParkedInv,
           NEW t \in TimerRecord,
           timers' = Append(timers, t),
           UNCHANGED <<proj, result, now, leased>>,
           parked_waits' \subseteq parked_waits,
           parked_guards' \subseteq parked_guards,
           parked_policied' \subseteq parked_policied,
           armed_timers' \subseteq armed_timers \cup {t},
           \A i \in 1 .. Len(timers) : \/ timers[i].subject # t.subject
                                       \/ timers[i].purpose # t.purpose
                                       \/ timers[i].attempt # t.attempt,
           t.purpose = 0 => \A p \in Parents[t.subject] : result[p] # "none"
    PROVE  ParkedInv'
<1> USE DEF ParkedInv
<1>1. /\ Len(timers) \in Nat
      /\ Len(timers') = Len(timers) + 1
      /\ \A i \in 1 .. Len(timers) : timers'[i] = timers[i]
      /\ timers'[Len(timers) + 1] = t
      /\ timers' \in Seq(TimerRecord)
  BY DEF Shapes
<1>2. \A i \in 1 .. Len(timers') : i \in 1 .. Len(timers) \/ i = Len(timers) + 1
  BY <1>1
<1>3. 1 .. Len(timers) \subseteq 1 .. Len(timers')
  BY <1>1
<1>4. Shapes'
  BY <1>1 DEF Shapes
<1>5. ArmedIsJournaled'
  BY <1>1, <1>3 DEF ArmedIsJournaled
<1>6. ArmedAfterParents'
  BY <1>1, <1>2 DEF ArmedAfterParents
<1>7. OneTimer'
  <2> SUFFICES ASSUME NEW i \in 1 .. Len(timers'), NEW j \in 1 .. Len(timers'),
                      timers'[i].subject = timers'[j].subject,
                      timers'[i].purpose = timers'[j].purpose,
                      timers'[i].attempt = timers'[j].attempt
               PROVE  i = j
    BY DEF OneTimer
  <2>1. CASE i \in 1 .. Len(timers) /\ j \in 1 .. Len(timers)
    BY <1>1, <2>1 DEF OneTimer
  <2>2. CASE i \in 1 .. Len(timers) /\ j = Len(timers) + 1
    BY <1>1, <2>2
  <2>3. CASE i = Len(timers) + 1 /\ j \in 1 .. Len(timers)
    BY <1>1, <2>3
  <2> QED
    BY <1>2, <2>1, <2>2, <2>3
<1>8. WaitedOut'
  <2> SUFFICES ASSUME NEW m \in Waits, result[m] \notin {"none", "skip"}
               PROVE  \E i \in FoldedTimers(m, 0, 0)' : timers'[i].fire_at <= now
    BY DEF WaitedOut
  <2>1. PICK i \in FoldedTimers(m, 0, 0) : timers[i].fire_at <= now
    BY DEF WaitedOut
  <2>2. i \in FoldedTimers(m, 0, 0)'
    BY <1>1, <1>3, <2>1 DEF FoldedTimers
  <2> QED
    BY <1>1, <2>1, <2>2 DEF FoldedTimers
<1> QED
  BY <1>4, <1>5, <1>6, <1>7, <1>8

-----------------------------------------------------------------------------
(* The pieces of the passes *)

\* A Mote the projection calls Committed has a result.
LEMMA CommittedHasResult ==
    ASSUME Shapes, NEW m \in Motes, StateOfMote(m) = "Committed"
    PROVE  result[m] # "none"
BY DEF Shapes, StateOfMote, StateOf

\* A failure entry changes no commit.
LEMMA FailureKeepsCommits ==
    ASSUME Shapes, NEW m \in Motes, NEW reason \in FailureReason,
           proj' = [proj EXCEPT ![m] = FoldFailed(@, reason)]
    PROVE  /\ proj' \in [Motes -> SUBSET Flags]
           /\ \A p \in Motes : "committed" \in proj'[p] <=> "committed" \in proj[p]
BY DEF Shapes, FoldFailed, Flags, is_pre_commit_crash

\* Dead-lettering a parked step (dead_letter_parked_wait) keeps the invariant.
LEMMA DeadLetterKeeps ==
    ASSUME ParkedInv, NEW m \in Motes, DeadLetterParked(m), now' = now,
           parked_guards' \subseteq parked_guards,
           parked_policied' \subseteq parked_policied
    PROVE  ParkedInv'
<1>1. Shapes /\ ArmedIsJournaled
  BY DEF ParkedInv
<1>2. /\ proj' \in [Motes -> SUBSET Flags]
      /\ \A p \in Motes : "committed" \in proj'[p] <=> "committed" \in proj[p]
  BY <1>1, FailureKeepsCommits DEF DeadLetterParked, FailureReason
<1>3. /\ UNCHANGED <<result, timers>>
      /\ leased' \subseteq leased /\ parked_waits' \subseteq parked_waits
      /\ armed_timers' \subseteq armed_timers
  BY DEF DeadLetterParked, Resolve
<1>4. /\ now' \in Nat /\ now <= now'
      /\ leased' \subseteq Motes \ Waits
      /\ parked_waits' \subseteq Waits
      /\ parked_guards' \subseteq Guards
      /\ parked_policied' \subseteq Policied
  BY <1>1, <1>3 DEF Shapes
<1>5. \A t \in armed_timers' : \E i \in 1 .. Len(timers) : timers[i] = t
  BY <1>1, <1>3 DEF ArmedIsJournaled
<1> QED
  BY <1>2, <1>3, <1>4, <1>5, QuietStep

\* A synthesized commit (synth_commit_subject) keeps it, too.
LEMMA SynthKeeps ==
    ASSUME ParkedInv, NEW m \in Motes, NEW r \in Results \ {"none"},
           SynthCommit(m, r), now' = now,
           parked_waits' \subseteq parked_waits,
           parked_guards' \subseteq parked_guards,
           parked_policied' \subseteq parked_policied,
           m \in Waits /\ r # "skip" =>
               /\ \E i \in FoldedTimers(m, 0, 0) : timers[i].fire_at <= now
               /\ \A p \in Parents[m] : result[p] # "none"
    PROVE  ParkedInv'
<1>1. /\ proj' = [proj EXCEPT ![m] = FoldCommitted(@)]
      /\ result' = [result EXCEPT ![m] = r]
      /\ UNCHANGED <<timers, now>>
      /\ leased' \subseteq leased
      /\ armed_timers' \subseteq armed_timers
  BY DEF SynthCommit, Resolve
<1> QED
  BY <1>1, CommitStep

\* A step that touches neither journal nor clock, and arms at most what is
\* journaled.
LEMMA MemoryStep ==
    ASSUME ParkedInv, UNCHANGED <<journal, now>>,
           leased' \subseteq Motes \ Waits,
           parked_waits' \subseteq Waits,
           parked_guards' \subseteq Guards,
           parked_policied' \subseteq Policied,
           \A t \in armed_timers' : \E i \in 1 .. Len(timers) : timers[i] = t
    PROVE  ParkedInv'
<1>1. /\ UNCHANGED <<result, timers, proj>> /\ now' \in Nat /\ now <= now'
      /\ proj' \in [Motes -> SUBSET Flags]
  BY DEF journal, ParkedInv, Shapes
<1> QED
  BY <1>1, QuietStep

-----------------------------------------------------------------------------
(* The passes *)

\* settle_wait_steps arms a wait once, after its parents committed.
LEMMA SettleWaitKeeps ==
    ASSUME ParkedInv, NEW m \in parked_waits, SettleWait(m), now' = now
    PROVE  ParkedInv'
<1> USE DEF ParkedInv
<1>1. m \in Waits /\ m \in Motes
  BY ParkedAssumption DEF Shapes, ParkedAssumption
<1>2. CASE UNCHANGED <<journal, dispatch>> /\ parked_waits' \subseteq parked_waits
           /\ (armed_timers' \subseteq armed_timers
                \/ \E i \in First(WaitTimer(m)) : ArmInMemory(timers[i]))
  <2>1. \A t \in armed_timers' : \E i \in 1 .. Len(timers) : timers[i] = t
    BY <1>2 DEF ArmInMemory, First, WaitTimer, FoldedTimers, ArmedIsJournaled
  <2> QED
    BY <1>2, <2>1, MemoryStep DEF Shapes, dispatch, SettleWait
<1>3. CASE DeadLetterParked(m)
  BY <1>1, <1>3, DeadLetterKeeps DEF SettleWait
<1>4. CASE /\ WaitTimer(m) = {} /\ ParentsCommitted(m)
           /\ ArmTimer(Timer(m, 0, 0, now + Delay))
           /\ parked_waits' \subseteq parked_waits
           /\ UNCHANGED <<proj, result, dispatch>>
  <2> DEFINE t == Timer(m, 0, 0, now + Delay)
  <2>1. now + Delay \in Nat
    BY ParkedAssumption DEF ParkedAssumption, Shapes
  <2>2. t \in TimerRecord /\ t.subject = m /\ t.purpose = 0 /\ t.attempt = 0
    BY <1>1, <2>1 DEF Timer, TimerRecord
  <2>3. \A i \in 1 .. Len(timers) : timers[i].subject # m
    BY <1>4 DEF WaitTimer, FoldedTimers
  <2>4. \A p \in Parents[m] : result[p] # "none"
    BY <1>1, <1>4, CommittedHasResult, GraphAssumption
       DEF ParentsCommitted, GraphAssumption
  <2>5. timers' = Append(timers, t) /\ armed_timers' \subseteq armed_timers \cup {t}
    BY <1>4 DEF ArmTimer, ArmInMemory
  <2>6. UNCHANGED <<proj, result, now, leased, parked_guards, parked_policied>>
    BY <1>4 DEF dispatch, SettleWait
  <2> HIDE DEF t
  <2> QED
    BY <1>4, <2>2, <2>3, <2>4, <2>5, <2>6, ArmStep
<1> QED
  BY <1>2, <1>3, <1>4 DEF SettleWait, journal

\* settle_skip_guards commits nothing but skips.
LEMMA SettleGuardKeeps ==
    ASSUME ParkedInv, NEW m \in parked_guards, SettleGuard(m), now' = now
    PROVE  ParkedInv'
<1> USE DEF ParkedInv
<1>1. m \in Motes
  BY ParkedAssumption DEF Shapes, ParkedAssumption
<1>2. /\ parked_guards' \subseteq parked_guards
      /\ parked_policied' = parked_policied
  BY DEF SettleGuard
<1>3. CASE UNCHANGED <<journal, dispatch, parked_waits, armed_timers>>
  BY <1>2, <1>3, MemoryStep DEF Shapes, dispatch, ArmedIsJournaled
<1>4. CASE DeadLetterParked(m)
  BY <1>1, <1>2, <1>4, DeadLetterKeeps
<1>5. CASE SynthCommit(m, "skip") /\ UNCHANGED parked_waits
  BY <1>1, <1>2, <1>5, SynthKeeps DEF Results, Arms
<1> QED
  BY <1>3, <1>4, <1>5 DEF SettleGuard

\* settle_policied_steps commits launches, which are no waits, and journals the
\* backoff of an attempt once.
LEMMA SettlePoliciedKeeps ==
    ASSUME ParkedInv, NEW l \in parked_policied, SettlePolicied(l), now' = now
    PROVE  ParkedInv'
<1> USE DEF ParkedInv
<1>1. l \in Policied /\ l \in Motes /\ l \notin Waits
  BY ParkedAssumption DEF Shapes, ParkedAssumption
<1>2. /\ parked_policied' \subseteq parked_policied
      /\ parked_guards' = parked_guards
  BY DEF SettlePolicied
<1>3. CASE UNCHANGED <<journal, dispatch, parked_waits, armed_timers>>
  BY <1>2, <1>3, MemoryStep DEF Shapes, dispatch, ArmedIsJournaled
<1>4. CASE DeadLetterParked(l)
  BY <1>1, <1>2, <1>4, DeadLetterKeeps
<1>5. CASE SynthCommit(l, "failed") /\ UNCHANGED parked_waits
  BY <1>1, <1>2, <1>5, SynthKeeps DEF Results, Arms
<1>6. CASE /\ UNCHANGED parked_waits
           /\ \E n \in First(Rungs(l)) :
                /\ AttemptState(l, n) = "Committed"
                /\ SynthCommit(l, result[AttemptOf[l][n]])
  <2>1. PICK n \in First(Rungs(l)) :
             /\ AttemptState(l, n) = "Committed"
             /\ SynthCommit(l, result[AttemptOf[l][n]])
    BY <1>6
  <2>2. n \in 1 .. MaxAttempts
    BY <2>1 DEF First, Rungs
  <2>3. AttemptOf[l][n] \in Motes
    BY <1>1, <2>2, ParkedAssumption DEF ParkedAssumption
  <2>4. result[AttemptOf[l][n]] \in Results \ {"none"}
    BY <2>1, <2>3, CommittedHasResult DEF AttemptState, Shapes
  <2> QED
    BY <1>1, <1>2, <1>6, <2>1, <2>4, SynthKeeps
<1>7. CASE /\ \E n \in First(Rungs(l)) : ClimbLadder(l, n)
           /\ UNCHANGED <<proj, result, parked_waits>>
  <2>1. PICK n \in First(Rungs(l)) : ClimbLadder(l, n)
    BY <1>7
  <2>2. n \in 1 .. MaxAttempts
    BY <2>1 DEF First, Rungs
  <2>3. leased' = leased
    BY <2>1 DEF ClimbLadder, MintAttempt, dispatch
  <2>4. CASE /\ UNCHANGED timers
             /\ \/ UNCHANGED armed_timers
                \/ \E i \in First(FoldedTimers(l, 1, n)) : ArmInMemory(timers[i])
    <3>1. \A t \in armed_timers' : \E i \in 1 .. Len(timers) : timers[i] = t
      BY <2>4 DEF ArmInMemory, First, FoldedTimers, ArmedIsJournaled
    <3> QED
      BY <1>2, <1>7, <2>3, <2>4, <3>1, MemoryStep DEF Shapes, journal
  <2>5. CASE /\ n # 1 /\ FoldedTimers(l, 1, n) = {}
             /\ ArmTimer(BackoffTimer(l, n))
    <3> DEFINE t == BackoffTimer(l, n)
    <3>1. MaxAttempts \in Nat
      BY ParkedAssumption DEF ParkedAssumption
    <3>2. n \in 2 .. MaxAttempts /\ n \in Nat
      BY <2>2, <2>5, <3>1
    <3>3. now + BackoffDelay(n) \in Nat
      BY <3>2, BackoffAssumption DEF Shapes
    <3>4. t \in TimerRecord /\ t.subject = l /\ t.purpose = 1 /\ t.attempt = n
      BY <1>1, <3>2, <3>3 DEF BackoffTimer, Timer, TimerRecord
    <3>5. \A i \in 1 .. Len(timers) : \/ timers[i].subject # l
                                      \/ timers[i].purpose # 1
                                      \/ timers[i].attempt # n
      BY <2>5 DEF FoldedTimers
    <3>6. timers' = Append(timers, t) /\ armed_timers' \subseteq armed_timers \cup {t}
      BY <2>5 DEF ArmTimer, ArmInMemory
    <3> HIDE DEF t
    <3> QED
      BY <1>2, <1>7, <2>3, <3>4, <3>5, <3>6, ArmStep
  <2> QED
    BY <2>1, <2>4, <2>5 DEF ClimbLadder
<1> QED
  BY <1>3, <1>4, <1>5, <1>6, <1>7 DEF SettlePolicied

\* fire_due_timers mints attempts without committing anything.
LEMMA FireMintKeeps ==
    ASSUME ParkedInv, NEW t \in armed_timers, FireMint(t), now' = now
    PROVE  ParkedInv'
<1> USE DEF ParkedInv
<1>1. leased' = leased /\ armed_timers' \subseteq armed_timers
  BY DEF FireMint, MintAttempt, dispatch
<1> QED
  BY <1>1, MemoryStep DEF Shapes, ArmedIsJournaled, FireMint, parked

\* fire_due_timers commits a wait whose journaled instant has come.
LEMMA FireWaitKeeps ==
    ASSUME ParkedInv, NEW m, NEW t \in DueAt(m, 0), FireWait(t), now' = now
    PROVE  ParkedInv'
<1> USE DEF ParkedInv
<1>1. t \in armed_timers /\ t.purpose = 0 /\ t.fire_at <= now
  BY DEF DueAt, Due
<1>2. PICK i \in 1 .. Len(timers) : timers[i] = t
  BY <1>1 DEF ArmedIsJournaled
<1>3. t.subject \in Motes
  BY <1>2, TimerFields
<1>4. \A p \in Parents[t.subject] : result[p] # "none"
  BY <1>1, <1>2 DEF ArmedAfterParents
<1>5. CASE UNCHANGED <<journal, dispatch>> /\ armed_timers' \subseteq armed_timers
  BY <1>5, MemoryStep DEF Shapes, dispatch, ArmedIsJournaled, FireWait, parked
<1>6. CASE \E r \in IF Cardinality(DataParents[t.subject]) = 1
                    THEN {result[p] : p \in DataParents[t.subject]} ELSE {"value"} :
               SynthCommit(t.subject, r)
  <2>1. PICK r \in IF Cardinality(DataParents[t.subject]) = 1
                   THEN {result[p] : p \in DataParents[t.subject]} ELSE {"value"} :
               SynthCommit(t.subject, r)
    BY <1>6
  <2>2. \A p \in DataParents[t.subject] : p \in Motes /\ p \in Parents[t.subject]
    BY <1>3, ParkedAssumption DEF ParkedAssumption
  <2>3. r \in Results \ {"none"}
    BY <1>4, <2>1, <2>2 DEF Shapes, Results, Arms
  <2>4. i \in FoldedTimers(t.subject, 0, 0) /\ timers[i].fire_at <= now
    BY <1>1, <1>2 DEF FoldedTimers
  <2> QED
    BY <1>3, <1>4, <2>1, <2>3, <2>4, SynthKeeps DEF FireWait, parked
<1> QED
  BY <1>5, <1>6 DEF FireWait

-----------------------------------------------------------------------------
(* The theorems *)

\* The invariant holds at first.
LEMMA ParkedInit == Init => ParkedInv
<1> SUFFICES ASSUME Init PROVE ParkedInv
  OBVIOUS
<1>1. timers \in Seq(TimerRecord) /\ Len(timers) = 0
  BY DEF Init
<1>2. 1 .. Len(timers) = {}
  BY <1>1
<1>3. Shapes
  BY <1>1 DEF Init, Shapes, Results
<1>4. WaitedOut
  BY ParkedAssumption DEF Init, WaitedOut, ParkedAssumption
<1> QED
  BY <1>2, <1>3, <1>4 DEF Init, ParkedInv, ArmedIsJournaled, ArmedAfterParents, OneTimer

\* Every step of the coordinator, its workers and its client keeps it.
LEMMA ParkedStep == ParkedInv /\ [Next]_vars => ParkedInv'
<1> SUFFICES ASSUME ParkedInv, [Next]_vars PROVE ParkedInv'
  OBVIOUS
<1>0. Shapes /\ ArmedIsJournaled
  BY DEF ParkedInv
<1>1. ASSUME NEW m \in Steps, Submit(m) PROVE ParkedInv'
  <2>1. /\ parked_waits' \subseteq Waits
        /\ parked_guards' \subseteq Guards
        /\ parked_policied' \subseteq Policied
    BY <1>0, <1>1 DEF Submit, Shapes
  <2> QED
    BY <1>0, <1>1, <2>1, MemoryStep DEF Submit, Shapes, ArmedIsJournaled
<1>2. ASSUME NEW m \in Motes, Lease(m) PROVE ParkedInv'
  <2>1. leased' \subseteq Motes \ Waits
    BY <1>0, <1>2 DEF Lease, Leasable, Shapes
  <2> QED
    BY <1>0, <1>2, <2>1, MemoryStep DEF Lease, Shapes, ArmedIsJournaled, parked
<1>3. ASSUME NEW m \in Motes, NEW r \in Results, ReportCommit(m, r) PROVE ParkedInv'
  <2>1. m \notin Waits
    BY <1>0, <1>3 DEF ReportCommit, Shapes
  <2>2. r \in Results \ {"none"}
    BY <1>3 DEF ReportCommit, Arms, Results
  <2> QED
    BY <1>3, <2>1, <2>2, CommitStep DEF ReportCommit, Resolve, parked
<1>4. ASSUME NEW m \in Motes, ReportFailure(m) PROVE ParkedInv'
  <2>1. /\ proj' \in [Motes -> SUBSET Flags]
        /\ \A p \in Motes : "committed" \in proj'[p] <=> "committed" \in proj[p]
    <3>1. \/ proj' = proj
          \/ proj' = [proj EXCEPT ![m] = FoldFailed(@, "DeadLettered")]
      BY <1>4 DEF ReportFailure
    <3> QED
      BY <1>0, <3>1, FailureKeepsCommits DEF FailureReason, Shapes
  <2> QED
    BY <1>0, <1>4, <2>1, QuietStep
       DEF ReportFailure, Resolve, Shapes, ArmedIsJournaled, parked
<1>5. ASSUME NEW m \in Motes, Reap(m) PROVE ParkedInv'
  <2>1. /\ proj' \in [Motes -> SUBSET Flags]
        /\ \A p \in Motes : "committed" \in proj'[p] <=> "committed" \in proj[p]
    BY <1>0, <1>5, FailureKeepsCommits DEF Reap, FailureReason
  <2> QED
    BY <1>0, <1>5, <2>1, QuietStep DEF Reap, Shapes, ArmedIsJournaled, parked
<1>6. ASSUME Poll \/ BeginSettle \/ EndSettle PROVE ParkedInv'
  BY <1>0, <1>6, MemoryStep
     DEF Poll, BeginSettle, EndSettle, dispatch, parked, Shapes, ArmedIsJournaled
<1>7. ASSUME SettleStep PROVE ParkedInv'
  <2>1. PICK i \in First(Todo) :
             \/ AppendError(i)
             \/ PassAt(i) = "wait" /\ SettleWait(MoteAt(i))
             \/ PassAt(i) = "guard" /\ SettleGuard(MoteAt(i))
             \/ PassAt(i) = "policied" /\ SettlePolicied(MoteAt(i))
             \/ PassAt(i) = "mint" /\ \E t \in DueAt(MoteAt(i), 1) : FireMint(t)
             \/ PassAt(i) = "fire" /\ \E t \in DueAt(MoteAt(i), 0) : FireWait(t)
    BY <1>7 DEF SettleStep
  <2>2. now' = now
    BY <1>7 DEF SettleStep
  <2>3. HasWork(i)
    BY DEF First, Todo
  <2>4. CASE AppendError(i)
    <3>1. /\ parked_waits' \subseteq parked_waits
          /\ parked_guards' \subseteq parked_guards
          /\ parked_policied' \subseteq parked_policied
          /\ UNCHANGED <<journal, dispatch, armed_timers>>
      BY <2>4 DEF AppendError
    <3> QED
      BY <1>0, <2>2, <3>1, MemoryStep DEF dispatch, Shapes, ArmedIsJournaled
  <2>5. CASE PassAt(i) = "wait" /\ SettleWait(MoteAt(i))
    BY <2>2, <2>3, <2>5, SettleWaitKeeps DEF HasWork
  <2>6. CASE PassAt(i) = "guard" /\ SettleGuard(MoteAt(i))
    BY <2>2, <2>3, <2>6, SettleGuardKeeps DEF HasWork
  <2>7. CASE PassAt(i) = "policied" /\ SettlePolicied(MoteAt(i))
    BY <2>2, <2>3, <2>7, SettlePoliciedKeeps DEF HasWork
  <2>8. CASE \E t \in DueAt(MoteAt(i), 1) : FireMint(t)
    BY <2>2, <2>8, FireMintKeeps DEF DueAt
  <2>9. CASE \E t \in DueAt(MoteAt(i), 0) : FireWait(t)
    BY <2>2, <2>9, FireWaitKeeps
  <2> QED
    BY <2>1, <2>4, <2>5, <2>6, <2>7, <2>8, <2>9
<1>8. ASSUME Tick PROVE ParkedInv'
  BY <1>0, <1>8, QuietStep
     DEF Tick, journal, dispatch, parked, Shapes, ArmedIsJournaled
<1>9. ASSUME Restart PROVE ParkedInv'
  <2>1. \A t \in armed_timers' : \E i \in 1 .. Len(timers) : timers[i] = t
    BY <1>9 DEF Restart, RecoveredTimers
  <2> QED
    BY <1>0, <1>9, <2>1, MemoryStep DEF Restart
<1>10. CASE UNCHANGED vars
  BY <1>0, <1>10, MemoryStep DEF vars, dispatch, parked, Shapes, ArmedIsJournaled
<1>11. ASSUME NEW m \in Motes, StageEffect(m) PROVE ParkedInv'
  <2>1. /\ proj' \in [Motes -> SUBSET Flags]
        /\ \A p \in Motes : "committed" \in proj'[p] <=> "committed" \in proj[p]
    BY <1>0, <1>11 DEF StageEffect, FoldEffectStaged, Flags, Shapes
  <2> QED
    BY <1>0, <1>11, <2>1, QuietStep DEF StageEffect, Shapes, ArmedIsJournaled, dispatch, parked
<1> QED
  BY <1>1, <1>2, <1>3, <1>4, <1>5, <1>6, <1>7, <1>8, <1>9, <1>10, <1>11 DEF Next

\* A durable wait is never committed, other than skipped, before the instant
\* journaled after its parents committed, whatever crashes, restarts, re-submits
\* and failed appends happen (settle_wait_steps, fire_due_timers, core_loop).
THEOREM WaitsAreWaitedOut == Spec => []WaitedOut
<1>1. ParkedInv => WaitedOut
  BY DEF ParkedInv
<1> QED
  BY ParkedInit, ParkedStep, <1>1, PTL DEF Spec

\* However often a step is parked again, the journal, which does not dedupe
\* TimerArmed entries, holds one for each subject, purpose and attempt
\* (settle_wait_steps, settle_policied_steps).
THEOREM TimersAreJournaledOnce == Spec => []OneTimer
<1>1. ParkedInv => OneTimer
  BY DEF ParkedInv
<1> QED
  BY ParkedInit, ParkedStep, <1>1, PTL DEF Spec

-----------------------------------------------------------------------------
(* What a step may do to the fate of a Mote *)

\* Nothing here repudiates or proposes, and a wait is not staged.
Plain ==
    \A m \in Motes :
        /\ proj[m] \subseteq {"committed", "reattempt", "terminal", "staged"}
        /\ m \in Waits => "staged" \notin proj[m]

\* A Mote in a worker's hands is no parked step and has no result yet; only what
\* a client submits is parked.
Handed ==
    /\ leased \subseteq Motes \ (Waits \cup Policied)
    /\ \A m \in leased : result[m] = "none"
    /\ parked_guards \subseteq Steps

\* A timer is a wait's, or the backoff of an attempt after the first.
TimersKnown ==
    \A i \in 1 .. Len(timers) :
        \/ timers[i].purpose = 0 /\ timers[i].subject \in Waits
        \/ /\ timers[i].purpose = 1 /\ timers[i].subject \in Policied
           /\ timers[i].attempt \in 2 .. MaxAttempts

OnceInv == ParkedInv /\ Plain /\ Handed /\ TimersKnown

\* The four ways a Mote comes to a result: its worker reports it, a guard skips
\* it, its ladder ends, its timer fires.
ByWorker(m) ==
    m \in leased /\ result'[m] \in IF m \in Conditionals THEN Arms ELSE {"value"}
BySkip(m) == m \in parked_guards /\ result'[m] = "skip"
ByLadder(m) ==
    /\ m \in parked_policied
    /\ \/ Rungs(m) = {} /\ m \in Continue /\ result'[m] = "failed"
       \/ \E n \in Rungs(m) :
             AttemptState(m, n) = "Committed" /\ result'[m] = result[AttemptOf[m][n]]
ByTimer(m) ==
    /\ m \in Waits /\ m \in defs /\ StateOfMote(m) = "Pending" /\ WaitTimer(m) # {}
    /\ pc \in 1 .. LastStep
    /\ \E i \in First(Todo) : PassAt(i) = "fire" /\ MoteAt(i) = m

Unassigned(m) == leased' = leased \ {m} /\ crash_failed' = crash_failed \ {m}

CommitsNow(m) ==
    /\ result[m] = "none" /\ result' = [result EXCEPT ![m] = result'[m]]
    /\ result'[m] \in Results \ {"none"}
    /\ proj' = [proj EXCEPT ![m] = FoldCommitted(@)]
    /\ Unassigned(m)
    /\ ByWorker(m) \/ BySkip(m) \/ ByLadder(m) \/ ByTimer(m)
FailsNow(m) ==
    /\ m \in leased \cup Steps
    /\ result' = result
    /\ proj' = [proj EXCEPT ![m] = FoldFailed(@, "DeadLettered")]
    /\ Unassigned(m)
CrashesNow(m) ==
    /\ m \in leased \cap Crashing
    /\ result' = result
    /\ proj' = [proj EXCEPT ![m] = FoldFailed(@, "WorkerCrashed")]
    /\ leased' = leased \ {m} /\ crash_failed' = crash_failed \cup {m}
StagesNow(m) ==
    /\ m \in leased
    /\ UNCHANGED <<result, leased, crash_failed>>
    /\ proj' = [proj EXCEPT ![m] = FoldEffectStaged(@)]
NoFate ==
    /\ UNCHANGED <<proj, result>>
    /\ leased' \subseteq leased \cup {m \in Motes : Leasable(m)}
    /\ crash_failed' \subseteq crash_failed

Fates ==
    NoFate \/ \E m \in Motes : CommitsNow(m) \/ FailsNow(m) \/ CrashesNow(m) \/ StagesNow(m)

\* A step that touches neither journal nor leases decides nothing.
LEMMA QuietIsNoFate ==
    ASSUME UNCHANGED <<journal, leased, crash_failed>>
    PROVE  Fates
BY DEF Fates, NoFate, journal

\* A Mote that is not committed has no result.
LEMMA OpenHasNoResult ==
    ASSUME OnceInv, NEW m \in Motes, StateOfMote(m) # "Committed"
    PROVE  result[m] = "none"
BY DEF OnceInv, ParkedInv, Shapes, Plain, StateOfMote, StateOf

\* A synthesized commit is of an open Mote.
LEMMA SynthIsCommit ==
    ASSUME OnceInv, NEW m \in Motes, NEW r \in Results \ {"none"}, SynthCommit(m, r),
           StateOfMote(m) # "Committed",
           result'[m] = r => BySkip(m) \/ ByLadder(m) \/ ByTimer(m)
    PROVE  Fates
<1>1. result[m] = "none" /\ result \in [Motes -> Results]
  BY OpenHasNoResult DEF OnceInv, ParkedInv, Shapes
<1>2. result' = [result EXCEPT ![m] = r] /\ proj' = [proj EXCEPT ![m] = FoldCommitted(@)]
      /\ Unassigned(m)
  BY DEF SynthCommit, Resolve, Unassigned
<1>3. result'[m] = r /\ result' = [result EXCEPT ![m] = result'[m]]
  BY <1>1, <1>2
<1>4. CommitsNow(m)
  BY <1>1, <1>2, <1>3 DEF CommitsNow
<1> QED
  BY <1>4 DEF Fates

\* A parked step that is dead-lettered was submitted.
LEMMA DeadLetterIsFailure ==
    ASSUME NEW m \in Steps, DeadLetterParked(m)
    PROVE  Fates
<1>1. m \in Motes
  BY ParkedAssumption DEF ParkedAssumption
<1>2. FailsNow(m)
  BY DEF FailsNow, DeadLetterParked, Resolve, Unassigned
<1> QED
  BY <1>1, <1>2 DEF Fates

\* The passes decide for their Mote only, and only when it is open.
LEMMA PassFates ==
    ASSUME OnceInv, SettleStep
    PROVE  Fates
<1> USE DEF OnceInv, ParkedInv
<1>1. PICK i \in First(Todo) :
           \/ AppendError(i)
           \/ PassAt(i) = "wait" /\ SettleWait(MoteAt(i))
           \/ PassAt(i) = "guard" /\ SettleGuard(MoteAt(i))
           \/ PassAt(i) = "policied" /\ SettlePolicied(MoteAt(i))
           \/ PassAt(i) = "mint" /\ \E t \in DueAt(MoteAt(i), 1) : FireMint(t)
           \/ PassAt(i) = "fire" /\ \E t \in DueAt(MoteAt(i), 0) : FireWait(t)
  BY DEF SettleStep
<1>2. HasWork(i) /\ pc \in 1 .. LastStep
  BY DEF First, Todo, SettleStep
<1> DEFINE m == MoteAt(i)
<1>3. Waits \subseteq Steps /\ Policied \subseteq Steps /\ Steps \subseteq Motes
  BY ParkedAssumption DEF ParkedAssumption
<1>4. CASE AppendError(i)
  BY <1>4, QuietIsNoFate DEF AppendError, dispatch
<1>5. CASE PassAt(i) = "wait" /\ SettleWait(m)
  <2>1. m \in Steps
    BY <1>2, <1>3, <1>5 DEF HasWork, Shapes
  <2>2. DeadLetterParked(m) \/ UNCHANGED <<proj, result, dispatch>>
    BY <1>5 DEF SettleWait, journal
  <2>3. ASSUME UNCHANGED <<proj, result, dispatch>> PROVE Fates
    BY <2>3 DEF Fates, NoFate, dispatch
  <2> QED
    BY <2>1, <2>2, <2>3, DeadLetterIsFailure
<1>6. CASE PassAt(i) = "guard" /\ SettleGuard(m)
  <2>1. m \in parked_guards /\ m \in Steps /\ m \in Motes
    BY <1>2, <1>3, <1>6 DEF HasWork, Handed
  <2>2. \/ UNCHANGED <<journal, dispatch>>
        \/ DeadLetterParked(m)
        \/ ~Stale(m) /\ SynthCommit(m, "skip")
    BY <1>6 DEF SettleGuard
  <2>3. ASSUME ~Stale(m), SynthCommit(m, "skip") PROVE Fates
    <3>1. StateOfMote(m) # "Committed"
      BY <2>3 DEF Stale
    <3>2. result'[m] = "skip" => BySkip(m)
      BY <2>1 DEF BySkip
    <3>3. "skip" \in Results \ {"none"}
      BY DEF Results
    <3> HIDE DEF m
    <3> QED
      BY <2>1, <2>3, <3>1, <3>2, <3>3, SynthIsCommit
  <2> QED
    BY <2>1, <2>2, <2>3, QuietIsNoFate, DeadLetterIsFailure DEF dispatch
<1>7. CASE PassAt(i) = "policied" /\ SettlePolicied(m)
  <2>1. m \in parked_policied /\ m \in Policied /\ m \in Steps /\ m \in Motes
    BY <1>2, <1>3, <1>7 DEF HasWork, Shapes
  <2>2. \/ UNCHANGED <<journal, dispatch>>
        \/ DeadLetterParked(m)
        \/ ~Stale(m) /\ Rungs(m) = {} /\ m \in Continue /\ SynthCommit(m, "failed")
        \/ ~Stale(m) /\ \E n \in First(Rungs(m)) :
                           /\ AttemptState(m, n) = "Committed"
                           /\ SynthCommit(m, result[AttemptOf[m][n]])
        \/ UNCHANGED <<proj, result>> /\ \E n \in First(Rungs(m)) : ClimbLadder(m, n)
    BY <1>7 DEF SettlePolicied
  <2>3. ASSUME ~Stale(m), Rungs(m) = {}, m \in Continue, SynthCommit(m, "failed") PROVE Fates
    <3>1. StateOfMote(m) # "Committed" /\ "failed" \in Results \ {"none"}
      BY <2>3 DEF Stale, Results
    <3>2. result'[m] = "failed" => ByLadder(m)
      BY <2>1, <2>3 DEF ByLadder
    <3> HIDE DEF m
    <3> QED
      BY <2>1, <2>3, <3>1, <3>2, SynthIsCommit
  <2>4. ASSUME ~Stale(m), NEW n \in First(Rungs(m)), AttemptState(m, n) = "Committed",
               SynthCommit(m, result[AttemptOf[m][n]])
        PROVE  Fates
    <3>1. StateOfMote(m) # "Committed" /\ n \in Rungs(m) /\ n \in 1 .. MaxAttempts
      BY <2>4 DEF Stale, First, Rungs
    <3>2. AttemptOf[m][n] \in Motes
      BY <2>1, <3>1, ParkedAssumption DEF ParkedAssumption
    <3>3. result[AttemptOf[m][n]] \in Results \ {"none"}
      BY <2>4, <3>2, CommittedHasResult DEF AttemptState, Shapes
    <3>4. result'[m] = result[AttemptOf[m][n]] => ByLadder(m)
      BY <2>1, <2>4, <3>1 DEF ByLadder
    <3> HIDE DEF m
    <3> QED
      BY <2>1, <2>4, <3>1, <3>3, <3>4, SynthIsCommit
  <2>5. ASSUME UNCHANGED <<proj, result>>, NEW n \in First(Rungs(m)), ClimbLadder(m, n) PROVE Fates
    <3>1. leased' = leased /\ crash_failed' = crash_failed
      BY <2>5 DEF ClimbLadder, MintAttempt, dispatch
    <3> QED
      BY <2>5, <3>1 DEF Fates, NoFate
  <2> QED
    BY <2>1, <2>2, <2>3, <2>4, <2>5, QuietIsNoFate, DeadLetterIsFailure DEF dispatch
<1>8. CASE \E t \in DueAt(m, 1) : FireMint(t)
  <2>1. UNCHANGED <<journal, leased, crash_failed>>
    BY <1>8 DEF FireMint, MintAttempt, dispatch
  <2> QED
    BY <2>1, QuietIsNoFate
<1>9. ASSUME PassAt(i) = "fire", NEW t \in DueAt(m, 0), FireWait(t) PROVE Fates
  <2>1. t \in armed_timers /\ t.purpose = 0 /\ t.subject = m
    BY <1>9 DEF DueAt
  <2>2. PICK k \in 1 .. Len(timers) : timers[k] = t
    BY <2>1 DEF ArmedIsJournaled
  <2>3. m \in Waits /\ m \in Motes /\ WaitTimer(m) # {}
    BY <1>3, <2>1, <2>2 DEF TimersKnown, WaitTimer, FoldedTimers
  <2>4. \/ UNCHANGED <<journal, dispatch>>
        \/ /\ StateOfMote(m) = "Pending" /\ m \in defs
           /\ \E r \in IF Cardinality(DataParents[m]) = 1
                       THEN {result[p] : p \in DataParents[m]} ELSE {"value"} : SynthCommit(m, r)
    BY <1>9, <2>1 DEF FireWait
  <2>5. ASSUME StateOfMote(m) = "Pending", m \in defs,
               NEW r \in IF Cardinality(DataParents[m]) = 1
                         THEN {result[p] : p \in DataParents[m]} ELSE {"value"},
               SynthCommit(m, r)
        PROVE  Fates
    <3>1. \A p \in DataParents[m] : p \in Motes /\ p \in Parents[m]
      BY <2>3, ParkedAssumption DEF ParkedAssumption
    <3>2. \A p \in Parents[m] : result[p] # "none"
      BY <2>1, <2>2 DEF ArmedAfterParents
    <3>3. r \in Results \ {"none"}
      BY <3>1, <3>2 DEF Shapes, Results, Arms
    <3>4. ByTimer(m)
      BY <1>2, <1>9, <2>3, <2>5 DEF ByTimer
    <3> HIDE DEF m
    <3> QED
      BY <2>3, <2>5, <3>3, <3>4, SynthIsCommit
  <2> QED
    BY <2>4, <2>5, QuietIsNoFate DEF dispatch
<1> QED
  BY <1>1, <1>4, <1>5, <1>6, <1>7, <1>8, <1>9

\* Every step decides the fate of one Mote at most.
LEMMA StepFates ==
    ASSUME OnceInv, [Next]_vars
    PROVE  Fates
<1> USE DEF OnceInv, ParkedInv
<1>1. ASSUME NEW m \in Motes, Lease(m) PROVE Fates
  BY <1>1 DEF Lease, journal, Fates, NoFate
<1>2. ASSUME NEW m \in Motes, NEW r \in Results, ReportCommit(m, r) PROVE Fates
  <2>1. /\ m \in leased /\ result[m] = "none" /\ result \in [Motes -> Results]
        /\ result' = [result EXCEPT ![m] = r] /\ proj' = [proj EXCEPT ![m] = FoldCommitted(@)]
        /\ r \in IF m \in Conditionals THEN Arms ELSE {"value"}
        /\ Unassigned(m)
    BY <1>2 DEF ReportCommit, Handed, Shapes, Resolve, Unassigned
  <2>2. result'[m] = r /\ r \in Results \ {"none"}
    BY <2>1 DEF Results, Arms
  <2>3. ByWorker(m)
    BY <2>1, <2>2 DEF ByWorker
  <2>4. CommitsNow(m)
    BY <2>1, <2>2, <2>3 DEF CommitsNow
  <2> QED
    BY <2>4 DEF Fates
<1>3. ASSUME NEW m \in Motes, ReportFailure(m) PROVE Fates
  <2>1. m \in leased /\ result' = result /\ Unassigned(m)
    BY <1>3 DEF ReportFailure, Resolve, Unassigned
  <2>2. proj' = proj \/ proj' = [proj EXCEPT ![m] = FoldFailed(@, "DeadLettered")]
    BY <1>3 DEF ReportFailure
  <2>3. NoFate \/ FailsNow(m)
    BY <2>1, <2>2 DEF NoFate, FailsNow, Unassigned
  <2> QED
    BY <2>3 DEF Fates
<1>4. ASSUME NEW m \in Motes, Reap(m) PROVE Fates
  <2>1. CrashesNow(m)
    BY <1>4 DEF Reap, CrashesNow
  <2> QED
    BY <2>1 DEF Fates
<1>5. ASSUME Restart PROVE Fates
  BY <1>5 DEF Restart, journal, Fates, NoFate
<1>7. ASSUME NEW m \in Motes, StageEffect(m) PROVE Fates
  <2>1. StagesNow(m)
    BY <1>7 DEF StageEffect, StagesNow, dispatch
  <2> QED
    BY <2>1 DEF Fates
<1>6. ASSUME (\E m \in Steps : Submit(m)) \/ Poll \/ BeginSettle \/ EndSettle \/ Tick \/ UNCHANGED vars
      PROVE  Fates
  <2>1. UNCHANGED <<journal, leased, crash_failed>>
    BY <1>6 DEF Submit, Poll, BeginSettle, EndSettle, Tick, vars, dispatch
  <2> QED
    BY <2>1, QuietIsNoFate
<1> QED
  BY <1>1, <1>2, <1>3, <1>4, <1>5, <1>6, <1>7, PassFates DEF Next

\* A new timer is the one of a parked wait, in the wait pass, or the backoff before
\* the first attempt that is not spent.
NewTimer(t) ==
    \/ /\ t.purpose = 0 /\ t.subject \in Waits /\ pc \in 1 .. LastStep
       /\ \E i \in First(Todo) : PassAt(i) = "wait" /\ MoteAt(i) = t.subject
    \/ /\ t.purpose = 1 /\ t.subject \in Policied
       /\ t.attempt \in First(Rungs(t.subject)) /\ t.attempt # 1

TimersSame == timers' = timers
TimersGrow ==
    \/ TimersSame
    \/ /\ UNCHANGED <<proj, result, now>>
       /\ \E t \in TimerRecord : timers' = Append(timers, t) /\ NewTimer(t)

\* Only the passes journal a timer, and they commit nothing in that step.
LEMMA TimerMoves ==
    ASSUME OnceInv, [Next]_vars
    PROVE  TimersGrow
<1> USE DEF OnceInv, ParkedInv
<1>1. ASSUME SettleStep PROVE TimersGrow
  <2>1. PICK i \in First(Todo) :
           \/ AppendError(i)
           \/ PassAt(i) = "wait" /\ SettleWait(MoteAt(i))
           \/ PassAt(i) = "guard" /\ SettleGuard(MoteAt(i))
           \/ PassAt(i) = "policied" /\ SettlePolicied(MoteAt(i))
           \/ PassAt(i) = "mint" /\ \E t \in DueAt(MoteAt(i), 1) : FireMint(t)
           \/ PassAt(i) = "fire" /\ \E t \in DueAt(MoteAt(i), 0) : FireWait(t)
    BY <1>1 DEF SettleStep
  <2>2. HasWork(i) /\ pc \in 1 .. LastStep /\ now' = now
    BY <1>1 DEF First, Todo, SettleStep
  <2> DEFINE m == MoteAt(i)
  <2>3. CASE AppendError(i)
    BY <2>3 DEF AppendError, journal, TimersGrow, TimersSame
  <2>4. CASE PassAt(i) = "wait" /\ SettleWait(m)
    <3>1. m \in Waits /\ m \in Motes
      BY <2>2, <2>4, ParkedAssumption DEF HasWork, Shapes, ParkedAssumption
    <3>2. \/ UNCHANGED timers
          \/ UNCHANGED <<proj, result>> /\ timers' = Append(timers, Timer(m, 0, 0, now + Delay))
      BY <2>4 DEF SettleWait, journal, DeadLetterParked, ArmTimer
    <3>3. now + Delay \in Nat
      BY ParkedAssumption DEF ParkedAssumption, Shapes
    <3> DEFINE t == Timer(m, 0, 0, now + Delay)
    <3>4. t \in TimerRecord /\ t.subject = m /\ t.purpose = 0
      BY <3>1, <3>3 DEF Timer, TimerRecord
    <3>5. NewTimer(t)
      BY <2>2, <2>4, <3>1, <3>4 DEF NewTimer
    <3> HIDE DEF t
    <3> QED
      BY <2>2, <3>2, <3>4, <3>5 DEF TimersGrow, TimersSame, t
  <2>5. CASE PassAt(i) = "guard" /\ SettleGuard(m)
    BY <2>5 DEF SettleGuard, journal, DeadLetterParked, SynthCommit, TimersGrow, TimersSame
  <2>6. CASE PassAt(i) = "policied" /\ SettlePolicied(m)
    <3>1. m \in Policied /\ m \in Motes
      BY <2>2, <2>6, ParkedAssumption DEF HasWork, Shapes, ParkedAssumption
    <3>2. \/ UNCHANGED timers
          \/ UNCHANGED <<proj, result>> /\ \E n \in First(Rungs(m)) : ClimbLadder(m, n)
      BY <2>6 DEF SettlePolicied, journal, DeadLetterParked, SynthCommit
    <3>3. ASSUME UNCHANGED <<proj, result>>, NEW n \in First(Rungs(m)), ClimbLadder(m, n)
          PROVE  TimersGrow
      <4>1. UNCHANGED timers \/ (n # 1 /\ timers' = Append(timers, BackoffTimer(m, n)))
        BY <3>3 DEF ClimbLadder, ArmTimer
      <4>2. n \in 1 .. MaxAttempts /\ MaxAttempts \in Nat
        BY ParkedAssumption DEF First, Rungs, ParkedAssumption
      <4>3. ASSUME n # 1, timers' = Append(timers, BackoffTimer(m, n)) PROVE TimersGrow
        <5>1. n \in 2 .. MaxAttempts /\ n \in Nat
          BY <4>2, <4>3
        <5>2. now + BackoffDelay(n) \in Nat
          BY <5>1, BackoffAssumption DEF Shapes
        <5> DEFINE t == BackoffTimer(m, n)
        <5>3. t \in TimerRecord /\ t.subject = m /\ t.purpose = 1 /\ t.attempt = n
          BY <3>1, <5>1, <5>2 DEF BackoffTimer, Timer, TimerRecord
        <5>4. NewTimer(t)
          BY <3>1, <3>3, <4>3, <5>3 DEF NewTimer
        <5> HIDE DEF t
        <5> QED
          BY <2>2, <3>3, <4>3, <5>3, <5>4 DEF TimersGrow, t
      <4> QED
        BY <4>1, <4>3 DEF TimersGrow, TimersSame
    <3> QED
      BY <3>2, <3>3 DEF TimersGrow, TimersSame
  <2>7. CASE \E t \in DueAt(m, 1) : FireMint(t)
    BY <2>7 DEF FireMint, journal, TimersGrow, TimersSame
  <2>8. CASE \E t \in DueAt(m, 0) : FireWait(t)
    BY <2>8 DEF FireWait, journal, SynthCommit, TimersGrow, TimersSame
  <2> QED
    BY <2>1, <2>3, <2>4, <2>5, <2>6, <2>7, <2>8
<1>2. CASE ~SettleStep
  <2>1. timers' = timers
    BY <1>2 DEF Next, Submit, Lease, StageEffect, ReportFailure, Reap, ReportCommit, Poll, BeginSettle, EndSettle,
                Tick, Restart, journal, vars
  <2> QED
    BY <2>1 DEF TimersGrow, TimersSame
<1> QED
  BY <1>1, <1>2

\* Only a submit parks a guard.
LEMMA GuardsParked ==
    ASSUME OnceInv, [Next]_vars
    PROVE  /\ parked_guards' \subseteq parked_guards \cup Steps
           /\ (\A m \in Steps : ~Submit(m)) => parked_guards' \subseteq parked_guards
<1>1. ASSUME NEW m \in Steps, Submit(m) PROVE parked_guards' \subseteq parked_guards \cup Steps
  BY <1>1 DEF Submit
<1>2. ASSUME SettleStep PROVE parked_guards' \subseteq parked_guards
  BY <1>2 DEF SettleStep, AppendError, SettleWait, SettleGuard, SettlePolicied, FireMint, FireWait, parked
<1>3. ASSUME \/ \E m \in Motes : \/ Lease(m) \/ StageEffect(m) \/ ReportFailure(m) \/ Reap(m)
                                 \/ \E r \in Results : ReportCommit(m, r)
             \/ Poll \/ BeginSettle \/ EndSettle \/ Tick \/ Restart \/ UNCHANGED vars
      PROVE  parked_guards' \subseteq parked_guards
  BY <1>3 DEF Lease, StageEffect, ReportFailure, Reap, ReportCommit, Poll, BeginSettle, EndSettle,
              Tick, Restart, vars, parked
<1> QED
  BY <1>1, <1>2, <1>3 DEF Next

\* Initially nothing is handed out and nothing is folded.
LEMMA OnceInit == Init => OnceInv
<1> SUFFICES ASSUME Init PROVE OnceInv
  OBVIOUS
<1>1. ParkedInv
  BY ParkedInit
<1>2. 1 .. Len(timers) = {}
  BY DEF Init
<1> QED
  BY <1>1, <1>2 DEF Init, OnceInv, Plain, Handed, TimersKnown

\* Every step keeps it.
LEMMA OnceStep == OnceInv /\ [Next]_vars => OnceInv'
<1> SUFFICES ASSUME OnceInv, [Next]_vars PROVE OnceInv'
  OBVIOUS
<1>1. ParkedInv'
  BY ParkedStep DEF OnceInv
<1>2. Fates /\ TimersGrow /\ parked_guards' \subseteq parked_guards \cup Steps
  BY StepFates, TimerMoves, GuardsParked
<1>3. Shapes /\ Plain /\ Handed /\ TimersKnown
  BY DEF OnceInv, ParkedInv
<1>4. Plain'
  <2>1. ASSUME NEW m \in Motes, CommitsNow(m) PROVE Plain'
    BY <1>3, <2>1 DEF CommitsNow, FoldCommitted, Plain, Shapes
  <2>2. ASSUME NEW m \in Motes, FailsNow(m) \/ CrashesNow(m) PROVE Plain'
    BY <1>3, <2>2 DEF FailsNow, CrashesNow, FoldFailed, is_pre_commit_crash, Plain, Shapes
  <2>3. ASSUME NEW m \in Motes, StagesNow(m) PROVE Plain'
    BY <1>3, <2>3 DEF StagesNow, FoldEffectStaged, Plain, Shapes, Handed
  <2> QED
    BY <1>2, <1>3, <2>1, <2>2, <2>3 DEF Fates, NoFate, Plain
<1>5. Handed'
  <2>1. parked_guards' \subseteq Steps
    BY <1>2, <1>3 DEF Handed
  <2>2. ASSUME NEW m \in Motes, CommitsNow(m)
        PROVE  /\ leased' \subseteq Motes \ (Waits \cup Policied)
               /\ \A n \in leased' : result'[n] = "none"
    BY <1>3, <2>2 DEF CommitsNow, Unassigned, Handed, Shapes
  <2>3. ASSUME NEW m \in Motes, FailsNow(m) \/ CrashesNow(m) \/ StagesNow(m)
        PROVE  /\ leased' \subseteq Motes \ (Waits \cup Policied)
               /\ \A n \in leased' : result'[n] = "none"
    BY <1>3, <2>3 DEF FailsNow, CrashesNow, StagesNow, Unassigned, Handed
  <2>4. ASSUME NoFate
        PROVE  /\ leased' \subseteq Motes \ (Waits \cup Policied)
               /\ \A n \in leased' : result'[n] = "none"
    <3>1. \A n \in Motes : Leasable(n) => n \notin Waits \cup Policied /\ result[n] = "none"
      BY OpenHasNoResult DEF Leasable
    <3> QED
      BY <1>3, <2>4, <3>1 DEF NoFate, Handed
  <2> QED
    BY <1>2, <2>1, <2>2, <2>3, <2>4 DEF Fates, Handed
<1>6. TimersKnown'
  <2>1. CASE TimersSame
    BY <1>3, <2>1 DEF TimersSame, TimersKnown
  <2>2. ASSUME NEW t \in TimerRecord, timers' = Append(timers, t), NewTimer(t) PROVE TimersKnown'
    <3>1. /\ Len(timers) \in Nat /\ Len(timers') = Len(timers) + 1
          /\ \A i \in 1 .. Len(timers) : timers'[i] = timers[i]
          /\ timers'[Len(timers) + 1] = t
      BY <1>3, <2>2 DEF Shapes
    <3>2. MaxAttempts \in Nat /\ \A n : n \in First(Rungs(t.subject)) => n \in 1 .. MaxAttempts
      BY ParkedAssumption DEF First, Rungs, ParkedAssumption
    <3>3. \/ t.purpose = 0 /\ t.subject \in Waits
          \/ t.purpose = 1 /\ t.subject \in Policied /\ t.attempt \in 2 .. MaxAttempts
      BY <2>2, <3>2 DEF NewTimer
    <3>4. \A i \in 1 .. Len(timers') : i \in 1 .. Len(timers) \/ i = Len(timers) + 1
      BY <3>1
    <3> QED
      BY <1>3, <3>1, <3>3, <3>4 DEF TimersKnown
  <2> QED
    BY <1>2, <2>1, <2>2 DEF TimersGrow
<1> QED
  BY <1>1, <1>4, <1>5, <1>6 DEF OnceInv

\* A result is written once.
LEMMA ResultsStay ==
    ASSUME OnceInv, [Next]_vars
    PROVE  \A m \in Motes : result[m] # "none" => result'[m] = result[m]
BY StepFates DEF Fates, NoFate, CommitsNow, FailsNow, CrashesNow, StagesNow, OnceInv, ParkedInv, Shapes

-----------------------------------------------------------------------------
(* The ladder of attempts *)

Attempts == {AttemptOf[l][n] : l \in Policied, n \in 1 .. MaxAttempts}

\* The coordinator has heard of attempt a.
Tried(a) ==
    \/ a \in declared \cup submitted \cup defs \cup leased \cup crash_failed
    \/ proj[a] # {}

\* A failed attempt is failed for good and in nobody's hands.
SpentForGood ==
    \A a \in Attempts :
        /\ a \notin crash_failed
        /\ proj[a] \cap {"reattempt", "terminal"} # {} => "terminal" \in proj[a] /\ a \notin leased

\* An attempt is heard of only after the one before is spent and its backoff over.
ClimbedInOrder ==
    \A l \in Policied, n \in 2 .. MaxAttempts :
        Tried(AttemptOf[l][n]) =>
            /\ AttemptState(l, n - 1) \in Lost
            /\ \E i \in FoldedTimers(l, 1, n) : timers[i].fire_at <= now

\* A backoff is journaled only after the attempt before it is spent.
BackedOff ==
    \A i \in 1 .. Len(timers) :
        timers[i].purpose = 1 => AttemptState(timers[i].subject, timers[i].attempt - 1) \in Lost

LadderInv == OnceInv /\ SpentForGood /\ ClimbedInOrder /\ BackedOff /\ LaunchTruth

\* No attempt crashes its worker.  A crashed attempt would count as spent until it is
\* offered again (settle_policied_steps).
AttemptsDoNotCrash == Attempts \cap Crashing = {}

\* Attempts are no steps, and each is of one launch and one rung.
LEMMA AttemptShapes ==
    /\ \A l \in Policied, n \in 1 .. MaxAttempts :
          AttemptOf[l][n] \in Motes \ Steps /\ AttemptOf[l][n] \in Attempts
    /\ Attempts \subseteq Motes \ Steps
    /\ \A l, k \in Policied, n, i \in 1 .. MaxAttempts :
          AttemptOf[l][n] = AttemptOf[k][i] => l = k /\ n = i
    /\ MaxAttempts \in Nat /\ 1 \in 1 .. MaxAttempts
    /\ \A n \in 2 .. MaxAttempts :
          n \in 1 .. MaxAttempts /\ n - 1 \in 1 .. MaxAttempts /\ n # 1 /\ n \in Nat
<1>1. MaxAttempts \in Nat /\ 1 \in 1 .. MaxAttempts
  BY ParkedAssumption DEF ParkedAssumption
<1>2. \A n \in 2 .. MaxAttempts :
         n \in 1 .. MaxAttempts /\ n - 1 \in 1 .. MaxAttempts /\ n # 1 /\ n \in Nat
  BY <1>1
<1>3. \A l \in Policied, n \in 1 .. MaxAttempts : AttemptOf[l][n] \in Motes \ Steps
  BY ParkedAssumption DEF ParkedAssumption
<1>4. \A l, k \in Policied, n, i \in 1 .. MaxAttempts :
         AttemptOf[l][n] = AttemptOf[k][i] => l = k /\ n = i
  BY ParkedAssumption DEF ParkedAssumption
<1> QED
  BY <1>1, <1>2, <1>3, <1>4 DEF Attempts

\* An attempt is minted as the first one, or when a backoff is over.
MintedNow(a) ==
    \E l \in Policied, n \in 1 .. MaxAttempts :
        /\ a = AttemptOf[l][n]
        /\ \/ n = 1
           \/ \E i \in FoldedTimers(l, 1, n) : timers[i].purpose = 1 /\ timers[i].fire_at <= now

\* Nothing but a mint admits what no client submits.
LEMMA AdmittedFrom ==
    ASSUME OnceInv, [Next]_vars, NEW a \in Motes \ Steps,
           a \in declared' \cup submitted' \cup defs'
    PROVE  a \in declared \cup submitted \cup defs \/ proj[a] # {} \/ MintedNow(a)
<1> USE DEF OnceInv, ParkedInv
<1>1. ASSUME SettleStep PROVE a \in declared \cup submitted \cup defs \/ MintedNow(a)
  <2> DEFINE Goal == a \in declared \cup submitted \cup defs \/ MintedNow(a)
  <2>1. PICK i \in First(Todo) :
           \/ AppendError(i)
           \/ PassAt(i) = "wait" /\ SettleWait(MoteAt(i))
           \/ PassAt(i) = "guard" /\ SettleGuard(MoteAt(i))
           \/ PassAt(i) = "policied" /\ SettlePolicied(MoteAt(i))
           \/ PassAt(i) = "mint" /\ \E t \in DueAt(MoteAt(i), 1) : FireMint(t)
           \/ PassAt(i) = "fire" /\ \E t \in DueAt(MoteAt(i), 0) : FireWait(t)
    BY <1>1 DEF SettleStep
  <2>2. HasWork(i)
    BY DEF First, Todo
  <2> DEFINE m == MoteAt(i)
  <2>3. CASE AppendError(i) \/ SettleWait(m) \/ SettleGuard(m)
             \/ \E t \in DueAt(m, 0) : FireWait(t)
    BY <2>3 DEF AppendError, SettleWait, SettleGuard, FireWait, dispatch, DeadLetterParked, SynthCommit
  <2>4. ASSUME PassAt(i) = "policied", SettlePolicied(m) PROVE Goal
    <3>1. m \in Policied
      BY <2>2, <2>4 DEF HasWork, Shapes
    <3>2. CASE declared' \cup submitted' \cup defs' \subseteq declared \cup submitted \cup defs
      BY <3>2
    <3>3. ASSUME MintAttempt(m, 1) PROVE Goal
      <4>1. a = AttemptOf[m][1] \/ a \in declared \cup submitted \cup defs
        BY <3>3 DEF MintAttempt
      <4> QED
        BY <3>1, <4>1, AttemptShapes DEF MintedNow
    <3>4. \/ MintAttempt(m, 1)
          \/ declared' \cup submitted' \cup defs' \subseteq declared \cup submitted \cup defs
      BY <2>4 DEF SettlePolicied, ClimbLadder, dispatch, DeadLetterParked, SynthCommit
    <3> QED
      BY <3>2, <3>3, <3>4
  <2>5. ASSUME NEW t \in DueAt(m, 1), FireMint(t) PROVE Goal
    <3>1. t \in armed_timers /\ t.purpose = 1 /\ t.fire_at <= now
      BY <2>5 DEF DueAt, Due
    <3>2. PICK k \in 1 .. Len(timers) : timers[k] = t
      BY <3>1 DEF ArmedIsJournaled
    <3>3. t.subject \in Policied /\ t.attempt \in 2 .. MaxAttempts
      BY <3>1, <3>2 DEF TimersKnown
    <3>4. \/ a = AttemptOf[t.subject][t.attempt]
          \/ a \in declared \cup submitted \cup defs
      BY <2>5 DEF FireMint, MintAttempt, dispatch
    <3>5. k \in FoldedTimers(t.subject, 1, t.attempt)
      BY <3>1, <3>2 DEF FoldedTimers
    <3>6. t.attempt \in 1 .. MaxAttempts
      BY <3>3, AttemptShapes
    <3> QED
      BY <3>1, <3>2, <3>3, <3>4, <3>5, <3>6 DEF MintedNow
  <2> QED
    BY <2>1, <2>3, <2>4, <2>5
<1>2. ASSUME NEW m \in Steps, Submit(m) PROVE a \in declared \cup submitted \cup defs
  BY <1>2 DEF Submit
<1>3. ASSUME Restart PROVE proj[a] # {}
  BY <1>3 DEF Restart
<1>4. ASSUME \/ \E m \in Motes : \/ Lease(m) \/ StageEffect(m) \/ ReportFailure(m) \/ Reap(m)
                                 \/ \E r \in Results : ReportCommit(m, r)
             \/ Poll \/ BeginSettle \/ EndSettle \/ Tick \/ UNCHANGED vars
      PROVE  a \in declared \cup submitted \cup defs
  BY <1>4 DEF Lease, StageEffect, ReportFailure, Reap, ReportCommit, Poll, BeginSettle, EndSettle,
              Tick, vars, dispatch
<1> QED
  BY <1>1, <1>2, <1>3, <1>4 DEF Next

\* What is no step has its fate from a worker.
LEMMA FateOfAttempt ==
    ASSUME OnceInv, [Next]_vars, NEW a \in Motes \ Steps
    PROVE  /\ proj'[a] # proj[a] =>
                 a \in leased /\ (a \notin leased' \/ proj'[a] = FoldEffectStaged(proj[a]))
           /\ a \in leased' => a \in leased \/ Leasable(a)
           /\ a \in crash_failed' => a \in crash_failed \/ (a \in leased \cap Crashing)
           /\ proj'[a] # proj[a] /\ a \notin Crashing =>
                 \/ proj'[a] = FoldCommitted(proj[a])
                 \/ proj'[a] = FoldFailed(proj[a], "DeadLettered")
                 \/ proj'[a] = FoldEffectStaged(proj[a])
<1>1. Fates /\ Shapes /\ Handed
  BY StepFates DEF OnceInv, ParkedInv
<1>2. Waits \subseteq Steps /\ Policied \subseteq Steps
  BY ParkedAssumption DEF ParkedAssumption
<1>3. CASE NoFate
  BY <1>3 DEF NoFate
<1>4. ASSUME NEW m \in Motes, CommitsNow(m) PROVE m = a => m \in leased
  BY <1>1, <1>2, <1>4 DEF CommitsNow, ByWorker, BySkip, ByLadder, ByTimer, Handed, Shapes
<1>5. ASSUME NEW m \in Motes, CommitsNow(m)
      PROVE  /\ proj' = [proj EXCEPT ![m] = FoldCommitted(@)] /\ leased' = leased \ {m}
             /\ crash_failed' = crash_failed \ {m}
  BY <1>5 DEF CommitsNow, Unassigned
<1>6. ASSUME NEW m \in Motes, FailsNow(m)
      PROVE  /\ proj' = [proj EXCEPT ![m] = FoldFailed(@, "DeadLettered")] /\ leased' = leased \ {m}
             /\ crash_failed' = crash_failed \ {m}
             /\ m = a => m \in leased
  BY <1>6 DEF FailsNow, Unassigned
<1>7. ASSUME NEW m \in Motes, CrashesNow(m)
      PROVE  /\ proj' = [proj EXCEPT ![m] = FoldFailed(@, "WorkerCrashed")] /\ leased' = leased \ {m}
             /\ crash_failed' = crash_failed \cup {m} /\ m \in leased \cap Crashing
  BY <1>7 DEF CrashesNow
<1>8. ASSUME NEW m \in Motes, CommitsNow(m) \/ FailsNow(m) \/ CrashesNow(m)
      PROVE  /\ a # m => proj'[a] = proj[a]
             /\ CommitsNow(m) /\ a = m => proj'[a] = FoldCommitted(proj[a])
             /\ FailsNow(m) /\ a = m => proj'[a] = FoldFailed(proj[a], "DeadLettered")
  BY <1>1, <1>5, <1>6, <1>7, <1>8 DEF Shapes
<1>9. ASSUME NEW m \in Motes, CommitsNow(m) \/ FailsNow(m) \/ CrashesNow(m)
      PROVE  /\ proj'[a] # proj[a] => a \in leased /\ a \notin leased'
             /\ a \in leased' => a \in leased
             /\ a \in crash_failed' => a \in crash_failed \/ (a \in leased \cap Crashing)
             /\ proj'[a] # proj[a] /\ a \notin Crashing =>
                   \/ proj'[a] = FoldCommitted(proj[a])
                   \/ proj'[a] = FoldFailed(proj[a], "DeadLettered")
  BY <1>4, <1>5, <1>6, <1>7, <1>8, <1>9
<1>10. ASSUME NEW m \in Motes, StagesNow(m)
       PROVE  /\ proj'[a] # proj[a] => a \in leased /\ proj'[a] = FoldEffectStaged(proj[a])
              /\ UNCHANGED <<leased, crash_failed>>
  BY <1>1, <1>10 DEF StagesNow, Shapes
<1> QED
  BY <1>1, <1>3, <1>9, <1>10 DEF Fates

\* The journal keeps its timers, and the clock goes on.
LEMMA TimersKept ==
    ASSUME OnceInv, [Next]_vars
    PROVE  /\ now' \in Nat /\ now <= now' /\ now \in Nat
           /\ \A i \in 1 .. Len(timers) : i \in 1 .. Len(timers') /\ timers'[i] = timers[i]
           /\ \A m, p, n : FoldedTimers(m, p, n) \subseteq FoldedTimers(m, p, n)'
           /\ \A m, p, n : \A i \in FoldedTimers(m, p, n) :
                 timers[i].fire_at <= now => timers'[i].fire_at <= now'
<1>1. Shapes
  BY DEF OnceInv, ParkedInv
<1>2. TimersGrow
  BY TimerMoves
<1>3. now' \in Nat /\ now <= now' /\ now \in Nat
  <2>1. now' = now \/ now' = now + 1
    BY DEF Next, Submit, Lease, StageEffect, ReportFailure, Reap, ReportCommit, Poll, BeginSettle, SettleStep, EndSettle,
           Tick, Restart, vars
  <2> QED
    BY <1>1, <2>1 DEF Shapes
<1>4. \A i \in 1 .. Len(timers) : i \in 1 .. Len(timers') /\ timers'[i] = timers[i]
  BY <1>1, <1>2 DEF TimersGrow, TimersSame, Shapes
<1>5. \A m, p, n : FoldedTimers(m, p, n) \subseteq FoldedTimers(m, p, n)'
  BY <1>4 DEF FoldedTimers
<1>6. ASSUME NEW i \in 1 .. Len(timers), timers[i].fire_at <= now
      PROVE  timers'[i].fire_at <= now'
  BY <1>1, <1>3, <1>4, <1>6, TimerFields
<1>7. \A m, p, n : \A i \in FoldedTimers(m, p, n) :
          timers[i].fire_at <= now => timers'[i].fire_at <= now'
  BY <1>6 DEF FoldedTimers
<1> QED
  BY <1>3, <1>4, <1>5, <1>7

\* A spent attempt stays spent.
LEMMA SpentStays ==
    ASSUME LadderInv, [Next]_vars, NEW a \in Attempts, StateOfMote(a) \in Lost
    PROVE  StateOfMote(a)' \in Lost
<1>1. a \in Motes \ Steps
  BY AttemptShapes
<1>2. proj[a] \cap {"reattempt", "terminal"} # {}
  BY <1>1 DEF LadderInv, OnceInv, Plain, StateOfMote, StateOf, Lost
<1>3. a \notin leased
  BY <1>2 DEF LadderInv, SpentForGood
<1>4. proj'[a] = proj[a]
  BY <1>1, <1>3, FateOfAttempt DEF LadderInv
<1> QED
  BY <1>4 DEF StateOfMote

\* An attempt is heard of from a mint on.
LEMMA TriedFrom ==
    ASSUME OnceInv, [Next]_vars, NEW a \in Motes \ Steps, Tried(a)'
    PROVE  Tried(a) \/ MintedNow(a)
<1>1. CASE a \in declared' \cup submitted' \cup defs'
  BY <1>1, AdmittedFrom DEF Tried
<1>2. CASE a \in leased'
  BY <1>2, FateOfAttempt DEF Tried, Leasable
<1>3. CASE a \in crash_failed'
  BY <1>3, FateOfAttempt DEF Tried
<1>4. CASE proj'[a] # {}
  BY <1>4, FateOfAttempt DEF Tried
<1> QED
  BY <1>1, <1>2, <1>3, <1>4 DEF Tried

\* Initially no attempt exists.
LEMMA LadderInit == Init => LadderInv
<1> SUFFICES ASSUME Init PROVE LadderInv
  OBVIOUS
<1>1. OnceInv
  BY OnceInit
<1>2. 1 .. Len(timers) = {}
  BY DEF Init
<1>3. Attempts \subseteq Motes /\ \A l \in Policied, n \in 2 .. MaxAttempts : AttemptOf[l][n] \in Motes
  BY AttemptShapes
<1>4. Policied \subseteq Motes
  BY ParkedAssumption DEF ParkedAssumption
<1>5. SpentForGood /\ ClimbedInOrder
  BY <1>3 DEF Init, SpentForGood, ClimbedInOrder, Tried
<1>6. BackedOff /\ LaunchTruth
  BY <1>2, <1>4 DEF Init, BackedOff, LaunchTruth
<1> QED
  BY <1>1, <1>5, <1>6 DEF LadderInv

\* Every step climbs one rung at most, and only from a spent one.
LEMMA LadderStep ==
    ASSUME AttemptsDoNotCrash, LadderInv, [Next]_vars
    PROVE  LadderInv'
<1>1. OnceInv /\ SpentForGood /\ ClimbedInOrder /\ BackedOff /\ LaunchTruth
  BY DEF LadderInv
<1>2. OnceInv' /\ Plain /\ Shapes /\ TimersKnown
  BY <1>1, OnceStep DEF OnceInv, ParkedInv
<1>3. SpentForGood'
  <2> SUFFICES ASSUME NEW a \in Attempts
               PROVE  /\ a \notin crash_failed'
                      /\ proj'[a] \cap {"reattempt", "terminal"} # {} =>
                            "terminal" \in proj'[a] /\ a \notin leased'
    BY DEF SpentForGood, Attempts
  <2>1. a \in Motes \ Steps /\ a \notin Crashing
    BY AttemptShapes DEF AttemptsDoNotCrash
  <2>2. a \notin crash_failed
    BY <1>1 DEF SpentForGood
  <2>3. a \notin crash_failed'
    BY <1>1, <2>1, <2>2, FateOfAttempt
  <2>4. ASSUME proj'[a] = proj[a], proj[a] \cap {"reattempt", "terminal"} # {}
        PROVE  "terminal" \in proj'[a] /\ a \notin leased'
    <3>1. "terminal" \in proj[a] /\ a \notin leased
      BY <1>1, <2>4 DEF SpentForGood
    <3>2. ~Leasable(a)
      BY <2>2, <3>1 DEF Leasable, Ready, StateOf
    <3> QED
      BY <1>1, <2>1, <2>4, <3>1, <3>2, FateOfAttempt
  <2>5. ASSUME proj'[a] # proj[a], proj'[a] \cap {"reattempt", "terminal"} # {}
        PROVE  "terminal" \in proj'[a] /\ a \notin leased'
    <3>1. a \in leased /\ (a \notin leased' \/ proj'[a] = FoldEffectStaged(proj[a]))
      BY <1>1, <2>1, <2>5, FateOfAttempt
    <3>2. proj[a] \cap {"reattempt", "terminal"} = {}
      BY <1>1, <3>1 DEF SpentForGood
    <3>3. proj'[a] # FoldEffectStaged(proj[a])
      BY <2>5, <3>2 DEF FoldEffectStaged
    <3>4. proj'[a] = FoldCommitted(proj[a]) \/ proj'[a] = FoldFailed(proj[a], "DeadLettered")
      BY <1>1, <2>1, <2>5, <3>3, FateOfAttempt
    <3>5. "terminal" \in proj'[a]
      BY <2>5, <3>2, <3>4 DEF FoldCommitted, FoldFailed, is_pre_commit_crash
    <3> QED
      BY <3>1, <3>3, <3>5
  <2> QED
    BY <2>3, <2>4, <2>5
<1>4. ClimbedInOrder'
  <2> SUFFICES ASSUME NEW l \in Policied, NEW n \in 2 .. MaxAttempts, Tried(AttemptOf[l][n])'
               PROVE  /\ AttemptState(l, n - 1)' \in Lost
                      /\ \E i \in FoldedTimers(l, 1, n)' : timers'[i].fire_at <= now'
    BY DEF ClimbedInOrder
  <2>1. /\ n \in 1 .. MaxAttempts /\ n - 1 \in 1 .. MaxAttempts /\ n # 1 /\ n \in Nat
        /\ AttemptOf[l][n] \in Motes \ Steps /\ AttemptOf[l][n - 1] \in Attempts
    BY AttemptShapes
  <2>2. /\ AttemptState(l, n - 1) \in Lost
        /\ \E i \in FoldedTimers(l, 1, n) : timers[i].fire_at <= now
    <3>1. Tried(AttemptOf[l][n]) \/ MintedNow(AttemptOf[l][n])
      BY <1>1, <2>1, TriedFrom
    <3>2. CASE Tried(AttemptOf[l][n])
      BY <1>1, <3>2 DEF ClimbedInOrder
    <3>3. ASSUME MintedNow(AttemptOf[l][n])
          PROVE  (\E i \in FoldedTimers(l, 1, n) : timers[i].fire_at <= now) /\ AttemptState(l, n - 1) \in Lost
      <4>1. PICK i \in FoldedTimers(l, 1, n) : timers[i].purpose = 1 /\ timers[i].fire_at <= now
        BY <2>1, <3>3, AttemptShapes DEF MintedNow
      <4>2. timers[i].subject = l /\ timers[i].attempt = n /\ i \in 1 .. Len(timers)
        <5>1. n # 0
          BY <2>1
        <5> QED
          BY <5>1 DEF FoldedTimers
      <4>3. AttemptState(l, n - 1) \in Lost
        BY <1>1, <4>1, <4>2 DEF BackedOff
      <4> QED
        BY <4>1, <4>3
    <3> QED
      BY <3>1, <3>2, <3>3
  <2>3. AttemptState(l, n - 1)' \in Lost
    BY <2>1, <2>2, SpentStays DEF AttemptState
  <2> QED
    BY <1>1, <2>2, <2>3, TimersKept
<1>5. BackedOff'
  <2> SUFFICES ASSUME NEW i \in 1 .. Len(timers'), timers'[i].purpose = 1
               PROVE  \E l, n : /\ timers'[i].subject = l /\ timers'[i].attempt = n
                                /\ AttemptState(l, n - 1)' \in Lost
    BY DEF BackedOff, AttemptState, StateOfMote
  <2>1. ASSUME i \in 1 .. Len(timers)
        PROVE  \E l, n : /\ timers'[i].subject = l /\ timers'[i].attempt = n
                         /\ AttemptState(l, n - 1)' \in Lost
    <3>1. timers'[i] = timers[i]
      BY <1>1, <2>1, TimersKept
    <3>2. timers[i].subject \in Policied /\ timers[i].attempt \in 2 .. MaxAttempts
      BY <1>2, <2>1, <3>1 DEF TimersKnown
    <3>3. PICK l \in Policied, n \in 2 .. MaxAttempts : timers[i].subject = l /\ timers[i].attempt = n
      BY <3>2
    <3>4. AttemptState(l, n - 1) \in Lost
      BY <1>1, <2>1, <3>1, <3>3 DEF BackedOff
    <3>5. AttemptOf[l][n - 1] \in Attempts
      BY AttemptShapes
    <3>6. AttemptState(l, n - 1)' \in Lost
      BY <3>4, <3>5, SpentStays DEF AttemptState
    <3>7. timers'[i].subject = l /\ timers'[i].attempt = n
      BY <3>1, <3>3
    <3> QED
      BY <3>6, <3>7
  <2>2. ASSUME NEW t \in TimerRecord, timers' = Append(timers, t), NewTimer(t), proj' = proj,
               i \notin 1 .. Len(timers)
        PROVE  \E l, n : /\ timers'[i].subject = l /\ timers'[i].attempt = n
                         /\ AttemptState(l, n - 1)' \in Lost
    <3>1. timers'[i] = t
      BY <1>2, <2>2 DEF Shapes
    <3>2. t.purpose = 1
      BY <3>1
    <3>3. t.subject \in Policied /\ t.attempt \in First(Rungs(t.subject)) /\ t.attempt # 1
      BY <2>2, <3>2 DEF NewTimer
    <3>4. PICK l, n : l = t.subject /\ n = t.attempt
      OBVIOUS
    <3>5. n \in 1 .. MaxAttempts /\ n # 1 /\ \A k \in Rungs(l) : n <= k
      BY <3>3, <3>4 DEF First, Rungs
    <3>6. n - 1 \in 1 .. MaxAttempts /\ ~(n <= n - 1)
      BY <3>5, AttemptShapes
    <3>7. AttemptState(l, n - 1) \in Lost
      BY <3>5, <3>6 DEF Rungs
    <3>8. AttemptState(l, n - 1)' \in Lost
      BY <2>2, <3>7 DEF AttemptState, StateOfMote
    <3>9. timers'[i].subject = l /\ timers'[i].attempt = n
      BY <3>1, <3>4
    <3> QED
      BY <3>8, <3>9
  <2> QED
    BY <1>1, <2>1, <2>2, TimerMoves DEF TimersGrow, TimersSame
<1>6. LaunchTruth'
  <2> SUFFICES ASSUME NEW l \in Policied, result'[l] \notin {"none", "skip"}
               PROVE  \/ \E n \in 1 .. MaxAttempts : result'[l] = result'[AttemptOf[l][n]]
                      \/ /\ result'[l] = "failed" /\ l \in Continue
                         /\ \A n \in 1 .. MaxAttempts : AttemptState(l, n)' \in Lost
    BY DEF LaunchTruth
  <2>1. l \in Motes /\ l \in Steps /\ l \notin Waits
    BY ParkedAssumption DEF ParkedAssumption
  <2>2. ASSUME NEW n \in 1 .. MaxAttempts, AttemptState(l, n) \in Lost
        PROVE  AttemptState(l, n)' \in Lost
    <3>1. AttemptOf[l][n] \in Attempts
      BY AttemptShapes
    <3> QED
      BY <2>2, <3>1, SpentStays DEF AttemptState
  <2>3. CASE result'[l] = result[l]
    <3>1. \/ \E n \in 1 .. MaxAttempts : result[l] = result[AttemptOf[l][n]]
          \/ /\ result[l] = "failed" /\ l \in Continue
             /\ \A n \in 1 .. MaxAttempts : AttemptState(l, n) \in Lost
      BY <1>1, <2>3 DEF LaunchTruth
    <3>2. \A n \in 1 .. MaxAttempts : result[l] = result[AttemptOf[l][n]] =>
              result'[AttemptOf[l][n]] = result[AttemptOf[l][n]]
      BY <1>1, <2>3, AttemptShapes, ResultsStay
    <3> QED
      BY <2>2, <2>3, <3>1, <3>2
  <2>4. ASSUME result'[l] # result[l]
        PROVE  \/ \E n \in 1 .. MaxAttempts : result'[l] = result'[AttemptOf[l][n]]
               \/ /\ result'[l] = "failed" /\ l \in Continue
                  /\ \A n \in 1 .. MaxAttempts : AttemptState(l, n) \in Lost
    <3>1. CommitsNow(l)
      <4>1. Fates
        BY <1>1, StepFates
      <4> QED
        BY <1>2, <2>1, <2>4, <4>1 DEF Fates, NoFate, FailsNow, CrashesNow, StagesNow, CommitsNow, Shapes
    <3>2. ByLadder(l)
      BY <1>1, <2>1, <3>1 DEF CommitsNow, ByWorker, BySkip, ByTimer, OnceInv, Handed
    <3>3. ASSUME NEW n \in Rungs(l), result'[l] = result[AttemptOf[l][n]]
          PROVE  n \in 1 .. MaxAttempts /\ result'[l] = result'[AttemptOf[l][n]]
      <4>1. n \in 1 .. MaxAttempts
        BY DEF Rungs
      <4>2. AttemptOf[l][n] \in Motes /\ result[AttemptOf[l][n]] # "none"
        BY <3>3, <4>1, AttemptShapes
      <4> QED
        BY <1>1, <3>3, <4>1, <4>2, ResultsStay
    <3>4. Rungs(l) = {} => \A n \in 1 .. MaxAttempts : AttemptState(l, n) \in Lost
      BY DEF Rungs
    <3> QED
      BY <3>2, <3>3, <3>4 DEF ByLadder
  <2> QED
    BY <2>2, <2>3, <2>4
<1> QED
  BY <1>2, <1>3, <1>4, <1>5, <1>6 DEF LadderInv

\* When no attempt crashes its worker, the attempts of a step come one after the
\* other, each after its journaled backoff, and the step reports what they came to,
\* through restarts, re-submits and failed appends (settle_policied_steps).
THEOREM LaddersTellTheTruth ==
    ASSUME AttemptsDoNotCrash
    PROVE  Spec => []LadderTruth
<1>1. LadderInv => LadderTruth
  <2> SUFFICES ASSUME LadderInv PROVE LadderTruth
    OBVIOUS
  <2>1. LadderInOrder
    BY DEF LadderInv, ClimbedInOrder, LadderInOrder, Tried
  <2> QED
    BY <2>1 DEF LadderInv, LadderTruth
<1>2. LadderInv /\ [Next]_vars => LadderInv'
  BY LadderStep
<1> QED
  BY LadderInit, <1>1, <1>2, PTL DEF Spec

-----------------------------------------------------------------------------
(* The arms of a conditional *)

\* Within a drain the guard pass of a Mote comes after the wait passes and before
\* the Mote's timer is fired.
LEMMA PassOrder ==
    /\ \A i \in 1 .. LastStep : PassAt(i) = "fire" =>
          \E j \in 1 .. i - 1 : PassAt(j) = "guard" /\ MoteAt(j) = MoteAt(i)
    /\ \A i, j \in 1 .. LastStep : PassAt(i) = "wait" /\ PassAt(j) = "guard" => i < j
<1> DEFINE L == Len(Order)
<1>1. L \in Nat
  BY ParkedAssumption DEF ParkedAssumption
<1>2. LastStep = 5 * L
  BY DEF LastStep, Passes
<1>3. ASSUME NEW i \in 1 .. LastStep
      PROVE  /\ L > 0 /\ i \in Nat /\ i - 1 \in Nat
             /\ (i - 1) \div L \in 0 .. 4
             /\ i - 1 >= L * ((i - 1) \div L) /\ i - 1 < L * ((i - 1) \div L) + L
  BY <1>1, <1>2
<1>4. \A q \in 0 .. 4 : /\ Passes[1 + q] = "wait" => q = 0
                        /\ Passes[1 + q] = "guard" <=> q = 1
                        /\ Passes[1 + q] = "fire" => q = 4
  BY DEF Passes
<1>5. ASSUME NEW i \in 1 .. LastStep, PassAt(i) = "fire"
      PROVE  \E j \in 1 .. i - 1 : PassAt(j) = "guard" /\ MoteAt(j) = MoteAt(i)
  <2>1. (i - 1) \div L = 4
    BY <1>3, <1>4, <1>5 DEF PassAt
  <2>2. i - 1 >= 4 * L /\ i - 1 < 5 * L
    BY <1>1, <1>3, <2>1
  <2> DEFINE j == i - 3 * L
  <2>3. j \in 1 .. i - 1 /\ j - 1 \in Nat /\ i - 1 = (j - 1) + 3 * L
    BY <1>1, <1>3, <2>2
  <2>4. (j - 1) \div L = 1 /\ (j - 1) % L = (i - 1) % L
    <3>1. \A a \in Nat \ {0} : \A x \in Nat : a <= x /\ x < 2 * a => x \div a = 1
      BY SMT
    <3>2. \A a \in Nat \ {0} : \A x \in Nat : a <= x /\ x < 2 * a => x % a = x - a
      BY SMT
    <3>3. \A a \in Nat \ {0} : \A x \in Nat : 4 * a <= x /\ x < 5 * a => x % a = x - 4 * a
      BY SMT
    <3>4. L \in Nat \ {0} /\ L <= j - 1 /\ j - 1 < 2 * L /\ (j - 1) - L = (i - 1) - 4 * L
      BY <1>1, <1>3, <2>2, <2>3
    <3>5. j - 1 \in Nat /\ i - 1 \in Nat /\ 4 * L <= i - 1 /\ i - 1 < 5 * L
      BY <1>1, <1>3, <2>2, <2>3
    <3> HIDE DEF j, L
    <3>6. (j - 1) \div L = 1
      BY <3>1, <3>4, <3>5
    <3>7. (j - 1) % L = (j - 1) - L
      BY <3>2, <3>4, <3>5
    <3>8. (i - 1) % L = (i - 1) - 4 * L
      BY <3>3, <3>4, <3>5
    <3> QED
      BY <3>4, <3>6, <3>7, <3>8
  <2>5. PassAt(j) = "guard" /\ MoteAt(j) = MoteAt(i)
    BY <2>4, <1>4 DEF PassAt, MoteAt
  <2> QED
    BY <2>3, <2>5
<1>6. ASSUME NEW i \in 1 .. LastStep, NEW j \in 1 .. LastStep, PassAt(i) = "wait", PassAt(j) = "guard"
      PROVE  i < j
  <2>1. (i - 1) \div L = 0 /\ (j - 1) \div L = 1
    BY <1>3, <1>4, <1>6 DEF PassAt
  <2>2. i - 1 < L /\ j - 1 >= L
    BY <1>1, <1>3, <2>1
  <2> QED
    BY <1>1, <1>3, <2>2
<1> QED
  BY <1>5, <1>6

\* The entry step of an arm, and that its arm was selected.
Entry(m) == m \in Guards /\ Arm[m] # NoArm
Chosen(m) == \E p \in Parents[m] : result[p] = Arm[m]

\* Only conditionals select, and waits that pass a selection on.
Selectors ==
    /\ \A m \in Motes : result[m] \in Arms => m \in Conditionals \cup Waits
    /\ \A m \in Conditionals : result[m] \in Arms \cup {"none", "skip"}

\* What is in a worker's hands or has run is of the selected arm; an attempt of an
\* entry, which has no parents to select it, is never run.
EntriesChosen ==
    /\ \A m \in leased : Entry(m) => Chosen(m)
    /\ \A m \in Motes : Entry(m) /\ result[m] \notin {"none", "skip"} => Chosen(m)
    /\ \A a \in Attempts : Entry(a) => proj[a] = {}

\* An open wait at the entry of an arm is parked as a guard, or its arm was selected.
WaitsHeld ==
    \A m \in Waits : Entry(m) /\ m \in defs /\ StateOfMote(m) = "Pending" =>
        m \in parked_guards \/ Chosen(m)

\* The guard pass of this drain is behind m.
Guarded(m) == \E j \in 1 .. pc - 1 : PassAt(j) = "guard" /\ MoteAt(j) = m

\* A wait that its guard pass left parked has no timer yet.
PassedUnarmed ==
    pc \in 1 .. LastStep =>
        \A m \in Waits : Entry(m) /\ m \in parked_guards /\ Guarded(m) => WaitTimer(m) = {}

ArmInv == OnceInv /\ Selectors /\ EntriesChosen /\ WaitsHeld /\ PassedUnarmed

\* How conditionals are authored: a conditional is a plain step; the entry of an arm is
\* guarded and consumes its conditional, and no wait; and the append that skips a wait
\* does not fail (settle_skip_guards would unpark it all the same).
Branching ==
    /\ Conditionals \cap (Waits \cup Policied) = {}
    /\ \A m \in Steps : Arm[m] # NoArm =>
          /\ m \in Guards /\ Parents[m] \cap Waits = {}
          /\ Parents[m] \cap Conditionals # {}
    /\ \A m \in Waits : <<"guard", m>> \notin Flaky

\* A selection stands.
LEMMA ChosenStays ==
    ASSUME OnceInv, [Next]_vars, NEW m \in Motes, Entry(m), Chosen(m)
    PROVE  Chosen(m)'
<1>1. Arm[m] \in Arms /\ Parents[m] \subseteq Motes
  BY ParkedAssumption, GraphAssumption DEF ParkedAssumption, GraphAssumption, Entry
<1>2. Arm[m] # "none"
  BY <1>1 DEF Arms
<1> QED
  BY <1>1, <1>2, ResultsStay DEF Chosen

\* A guard that is cleared at an entry is of the selected arm.
LEMMA ClearedIsChosen ==
    ASSUME NEW m, Entry(m), GuardVerdict(m) = "Run"
    PROVE  Chosen(m)
BY DEF Entry, GuardVerdict, Chosen

\* Leases come from the lease gate only.
LEMMA LeasedFrom ==
    ASSUME OnceInv, [Next]_vars, NEW m \in leased'
    PROVE  m \in leased \/ (m \in Motes /\ Leasable(m))
BY StepFates DEF Fates, NoFate, CommitsNow, FailsNow, CrashesNow, StagesNow, Unassigned

\* A result that appears is a commit.
LEMMA ResultFrom ==
    ASSUME OnceInv, [Next]_vars, NEW m \in Motes, result'[m] # result[m]
    PROVE  CommitsNow(m)
BY StepFates DEF Fates, NoFate, FailsNow, CrashesNow, StagesNow, CommitsNow, OnceInv, ParkedInv, Shapes

\* A wait that is open was open before.
LEMMA OpenWasOpen ==
    ASSUME OnceInv, OnceInv', [Next]_vars, NEW m \in Waits, StateOfMote(m)' = "Pending"
    PROVE  m \in Motes /\ proj[m] = {} /\ proj'[m] = {} /\ StateOfMote(m) = "Pending"
<1>0. m \in Motes
  BY ParkedAssumption DEF ParkedAssumption
<1>1. proj'[m] \subseteq {"committed", "reattempt", "terminal"}
  BY <1>0 DEF OnceInv, Plain
<1>2. proj'[m] = {}
  BY <1>1 DEF StateOfMote, StateOf
<1>3. proj[m] \subseteq proj'[m]
  BY <1>0, StepFates
     DEF Fates, NoFate, FailsNow, CrashesNow, StagesNow, CommitsNow, FoldFailed, FoldCommitted,
         FoldEffectStaged, OnceInv, ParkedInv, Shapes
<1> QED
  BY <1>0, <1>2, <1>3 DEF StateOfMote, StateOf

\* A definition of a step comes from its submit.
LEMMA DefsFrom ==
    ASSUME OnceInv, [Next]_vars, NEW m \in Steps, m \in defs'
    PROVE  m \in defs \/ Submit(m)
<1> USE DEF OnceInv, ParkedInv
<1>1. ASSUME SettleStep PROVE m \in defs
  <2>1. PICK i \in First(Todo) :
           \/ AppendError(i)
           \/ PassAt(i) = "wait" /\ SettleWait(MoteAt(i))
           \/ PassAt(i) = "guard" /\ SettleGuard(MoteAt(i))
           \/ PassAt(i) = "policied" /\ SettlePolicied(MoteAt(i))
           \/ PassAt(i) = "mint" /\ \E t \in DueAt(MoteAt(i), 1) : FireMint(t)
           \/ PassAt(i) = "fire" /\ \E t \in DueAt(MoteAt(i), 0) : FireWait(t)
    BY <1>1 DEF SettleStep
  <2>2. HasWork(i)
    BY DEF First, Todo
  <2> DEFINE k == MoteAt(i)
  <2>3. CASE AppendError(i) \/ SettleWait(k) \/ SettleGuard(k)
             \/ \E t \in DueAt(k, 0) : FireWait(t)
    BY <2>3 DEF AppendError, SettleWait, SettleGuard, FireWait, dispatch, DeadLetterParked, SynthCommit
  <2>4. ASSUME PassAt(i) = "policied", SettlePolicied(k) PROVE m \in defs
    <3>1. k \in Policied
      BY <2>2, <2>4 DEF HasWork, Shapes
    <3>2. defs' \subseteq defs \/ defs' = defs \cup {AttemptOf[k][1]}
      BY <2>4 DEF SettlePolicied, ClimbLadder, MintAttempt, dispatch, DeadLetterParked, SynthCommit
    <3> QED
      BY <3>1, <3>2, AttemptShapes
  <2>5. ASSUME NEW t \in DueAt(k, 1), FireMint(t) PROVE m \in defs
    <3>1. t \in armed_timers /\ t.purpose = 1
      BY <2>5 DEF DueAt
    <3>2. t.subject \in Policied /\ t.attempt \in 2 .. MaxAttempts
      BY <3>1 DEF ArmedIsJournaled, TimersKnown
    <3>3. defs' \subseteq defs \/ defs' = defs \cup {AttemptOf[t.subject][t.attempt]}
      BY <2>5 DEF FireMint, MintAttempt, dispatch
    <3> QED
      BY <3>2, <3>3, AttemptShapes
  <2> QED
    BY <2>1, <2>3, <2>4, <2>5
<1>2. ASSUME NEW k \in Steps, Submit(k) PROVE m \in defs \/ Submit(m)
  BY <1>2 DEF Submit
<1>3. ASSUME \/ \E k \in Motes : \/ Lease(k) \/ StageEffect(k) \/ ReportFailure(k) \/ Reap(k)
                                 \/ \E r \in Results : ReportCommit(k, r)
             \/ Poll \/ BeginSettle \/ EndSettle \/ Tick \/ Restart \/ UNCHANGED vars
      PROVE  m \in defs
  BY <1>3 DEF Lease, StageEffect, ReportFailure, Reap, ReportCommit, Poll, BeginSettle, EndSettle,
              Tick, Restart, vars, dispatch
<1> QED
  BY <1>1, <1>2, <1>3 DEF Next

\* A guard whose wait is open is unparked when its arm was selected.
LEMMA UnparkedIsChosen ==
    ASSUME OnceInv, OnceInv', [Next]_vars, NEW m \in Waits, Entry(m), <<"guard", m>> \notin Flaky,
           m \in parked_guards \ parked_guards', m \in defs, StateOfMote(m)' = "Pending"
    PROVE  defs' = {} \/ Chosen(m)
<1> USE DEF OnceInv, ParkedInv
<1>0. m \in Motes /\ proj[m] = {} /\ proj'[m] = {} /\ ~Stale(m)
  BY OpenWasOpen DEF Stale
<1>1. ASSUME SettleStep PROVE Chosen(m)
  <2>1. PICK i \in First(Todo) :
           \/ AppendError(i)
           \/ PassAt(i) = "wait" /\ SettleWait(MoteAt(i))
           \/ PassAt(i) = "guard" /\ SettleGuard(MoteAt(i))
           \/ PassAt(i) = "policied" /\ SettlePolicied(MoteAt(i))
           \/ PassAt(i) = "mint" /\ \E t \in DueAt(MoteAt(i), 1) : FireMint(t)
           \/ PassAt(i) = "fire" /\ \E t \in DueAt(MoteAt(i), 0) : FireWait(t)
    BY <1>1 DEF SettleStep
  <2>2. ~AppendError(i)
    BY DEF AppendError
  <2>3. PassAt(i) = "guard" /\ SettleGuard(MoteAt(i))
    BY <2>1, <2>2 DEF SettleWait, SettlePolicied, FireMint, FireWait, parked
  <2>4. MoteAt(i) = m
    BY <2>3 DEF SettleGuard
  <2>5. SettleGuard(m)
    BY <2>3, <2>4
  <2>6. ~DeadLetterParked(m) /\ ~SynthCommit(m, "skip")
    <3>1. "terminal" \in FoldFailed({}, "DeadLettered") /\ "committed" \in FoldCommitted({})
      BY DEF FoldFailed, FoldCommitted, is_pre_commit_crash
    <3> QED
      BY <1>0, <3>1 DEF DeadLetterParked, SynthCommit, Shapes
  <2>7. GuardVerdict(m) = "Run"
    BY <1>0, <2>5, <2>6 DEF SettleGuard
  <2> QED
    BY <2>7, ClearedIsChosen
<1>2. ASSUME NEW k \in Steps, Submit(k) PROVE FALSE
  BY <1>2 DEF Submit
<1>3. ASSUME \/ \E k \in Motes : \/ Lease(k) \/ StageEffect(k) \/ ReportFailure(k) \/ Reap(k)
                                 \/ \E r \in Results : ReportCommit(k, r)
             \/ Poll \/ BeginSettle \/ EndSettle \/ Tick \/ UNCHANGED vars
      PROVE  FALSE
  BY <1>3 DEF Lease, StageEffect, ReportFailure, Reap, ReportCommit, Poll, BeginSettle, EndSettle,
              Tick, vars, parked
<1>4. ASSUME Restart PROVE defs' = {}
  BY <1>4 DEF Restart
<1> QED
  BY <1>1, <1>2, <1>3, <1>4 DEF Next

\* Steps keep who selects.
LEMMA SelectorsStep ==
    ASSUME Branching, ArmInv, [Next]_vars
    PROVE  Selectors'
<1>1. OnceInv /\ Selectors /\ Waits \subseteq Steps /\ Conditionals \subseteq Steps /\ Policied \subseteq Steps
      /\ Steps \subseteq Motes /\ parked_policied \subseteq Policied
  BY ParkedAssumption DEF ArmInv, ParkedAssumption, OnceInv, ParkedInv, Shapes
<1>2. ASSUME NEW m \in Motes, ByLadder(m)
      PROVE  m \in Policied /\ result'[m] \notin Arms
  <2>1. m \in Policied
    BY <1>1, <1>2 DEF ByLadder
  <2>2. ASSUME NEW n \in Rungs(m) PROVE result[AttemptOf[m][n]] \notin Arms
    <3>1. n \in 1 .. MaxAttempts
      BY DEF Rungs
    <3>2. AttemptOf[m][n] \in Motes \ Steps
      BY <2>1, <3>1, AttemptShapes
    <3> QED
      BY <1>1, <3>2 DEF Selectors
  <2>3. "failed" \notin Arms
    BY DEF Arms
  <2> QED
    BY <1>2, <2>1, <2>2, <2>3 DEF ByLadder
<1>3. ASSUME NEW m \in Motes, result'[m] # result[m]
      PROVE  \/ m \in Conditionals /\ result'[m] \in Arms
             \/ m \notin Conditionals /\ result'[m] = "value"
             \/ result'[m] = "skip"
             \/ m \in Policied /\ result'[m] \notin Arms
             \/ m \in Waits
  <2>1. CommitsNow(m)
    BY <1>1, <1>3, ResultFrom
  <2> QED
    BY <1>2, <2>1 DEF CommitsNow, ByWorker, BySkip, ByTimer
<1>4. "value" \notin Arms /\ "skip" \notin Arms
  BY DEF Arms
<1>5. Conditionals \cap Waits = {} /\ Conditionals \cap Policied = {}
  BY DEF Branching
<1> QED
  BY <1>1, <1>3, <1>4, <1>5 DEF Selectors

\* What runs is of the selected arm.
LEMMA EntriesStep ==
    ASSUME Branching, ArmInv, [Next]_vars
    PROVE  EntriesChosen'
<1>1. OnceInv /\ EntriesChosen /\ WaitsHeld /\ PassedUnarmed
  BY DEF ArmInv
<1>2. ASSUME NEW m \in leased', Entry(m) PROVE Chosen(m)'
  <2>1. m \in leased \/ (m \in Motes /\ Leasable(m))
    BY <1>1, LeasedFrom
  <2>2. m \in Motes
    BY <1>1, <2>1 DEF OnceInv, Handed
  <2>3. Chosen(m)
    BY <1>1, <1>2, <2>1, ClearedIsChosen DEF EntriesChosen, Leasable, skip_guard_cleared, Entry
  <2> QED
    BY <1>1, <1>2, <2>2, <2>3, ChosenStays
<1>3. ASSUME NEW a \in Attempts, Entry(a) PROVE proj'[a] = {}
  <2>0. PICK l \in Policied, n \in 1 .. MaxAttempts : a = AttemptOf[l][n]
    BY DEF Attempts
  <2>a. a \in Motes \ Steps
    BY AttemptShapes
  <2>b. Parents[AttemptOf[l][n]] = {}
    BY ParkedAssumption DEF ParkedAssumption
  <2>1. a \in Motes \ Steps /\ Parents[a] = {}
    BY <2>0, <2>a, <2>b
  <2>2. a \notin leased
    BY <1>1, <1>3, <2>1 DEF EntriesChosen, Chosen
  <2> QED
    BY <1>1, <1>3, <2>1, <2>2, FateOfAttempt DEF EntriesChosen
<1>4. ASSUME NEW m \in Motes, Entry(m), result'[m] \notin {"none", "skip"} PROVE Chosen(m)
  <2>1. CASE result'[m] = result[m]
    BY <1>1, <1>4, <2>1 DEF EntriesChosen
  <2>2. ASSUME CommitsNow(m) PROVE Chosen(m)
    <3>1. CASE ByWorker(m)
      BY <1>1, <1>4, <3>1 DEF ByWorker, EntriesChosen
    <3>2. CASE BySkip(m)
      BY <1>4, <3>2 DEF BySkip
    <3>3. CASE ByLadder(m)
      <4>1. m \in Policied
        BY <1>1, <3>3 DEF ByLadder, OnceInv, ParkedInv, Shapes
      <4>2. ASSUME NEW n \in 1 .. MaxAttempts PROVE AttemptState(m, n) = "Pending"
        <5>1. AttemptOf[m][n] \in Attempts
          BY <4>1, AttemptShapes
        <5>2. Entry(AttemptOf[m][n])
          BY <1>4, <4>1, ParkedAssumption DEF ParkedAssumption, Entry
        <5>3. proj[AttemptOf[m][n]] = {}
          BY <1>1, <5>1, <5>2 DEF EntriesChosen
        <5> QED
          BY <5>3 DEF AttemptState, StateOfMote, StateOf
      <4>3. Rungs(m) = 1 .. MaxAttempts
        BY <4>2 DEF Rungs, Lost
      <4> QED
        BY <3>3, <4>2, <4>3, AttemptShapes DEF ByLadder
    <3>4. ASSUME ByTimer(m), ~Chosen(m) PROVE FALSE
      <4>1. m \in Waits /\ m \in parked_guards /\ WaitTimer(m) # {} /\ pc \in 1 .. LastStep
        BY <1>1, <1>4, <3>4 DEF ByTimer, WaitsHeld
      <4>2. PICK i \in First(Todo) : PassAt(i) = "fire" /\ MoteAt(i) = m
        BY <3>4 DEF ByTimer
      <4>3. LastStep \in Nat
        BY ParkedAssumption DEF LastStep, Passes, ParkedAssumption
      <4>4. i \in 1 .. LastStep /\ i \in Nat
        BY <4>1, <4>3 DEF First, Todo
      <4>5. PICK j \in 1 .. i - 1 : PassAt(j) = "guard" /\ MoteAt(j) = m
        BY <4>2, <4>4, PassOrder
      <4>6. HasWork(j)
        BY <4>1, <4>5 DEF HasWork
      <4>7. CASE j < pc
        <5>1. j \in 1 .. pc - 1
          BY <4>1, <4>3, <4>4, <4>7
        <5>2. Guarded(m)
          BY <4>5, <5>1 DEF Guarded
        <5> QED
          BY <1>1, <1>4, <4>1, <5>2 DEF PassedUnarmed
      <4>8. CASE ~(j < pc)
        <5>1. j \in pc .. LastStep /\ ~(i <= j)
          BY <4>1, <4>3, <4>4, <4>8
        <5>2. j \in Todo
          BY <4>6, <5>1 DEF Todo
        <5> QED
          BY <5>1, <5>2 DEF First
      <4> QED
        BY <4>7, <4>8
    <3> QED
      BY <2>2, <3>1, <3>2, <3>3, <3>4 DEF CommitsNow
  <2> QED
    BY <1>1, <2>1, <2>2, ResultFrom
<1>5. ASSUME NEW m \in Motes, Entry(m), result'[m] \notin {"none", "skip"} PROVE Chosen(m)'
  BY <1>1, <1>4, <1>5, ChosenStays
<1> QED
  BY <1>2, <1>3, <1>5 DEF EntriesChosen, Entry

\* An open wait of an arm stays parked until its arm is selected.
LEMMA HeldStep ==
    ASSUME Branching, ArmInv, [Next]_vars
    PROVE  WaitsHeld'
<1>1. OnceInv /\ OnceInv' /\ WaitsHeld
  BY OnceStep DEF ArmInv
<1> SUFFICES ASSUME NEW m \in Waits, Entry(m), m \in defs', StateOfMote(m)' = "Pending"
             PROVE  m \in parked_guards' \/ Chosen(m)'
  BY DEF WaitsHeld, Entry
<1>2. m \in Steps /\ m \in Motes
  BY ParkedAssumption DEF ParkedAssumption
<1>3. StateOfMote(m) = "Pending"
  BY <1>1, <1>2, OpenWasOpen
<1>4. CASE Submit(m)
  BY <1>3, <1>4 DEF Submit, Entry
<1>5. CASE m \in defs
  <2>1. CASE Chosen(m)
    BY <1>1, <1>2, <2>1, ChosenStays
  <2>2. CASE ~Chosen(m)
    <3>1. m \in parked_guards
      BY <1>1, <1>3, <1>5, <2>2 DEF WaitsHeld
    <3>2. <<"guard", m>> \notin Flaky
      BY DEF Branching
    <3> QED
      BY <1>1, <1>2, <1>5, <2>2, <3>1, <3>2, UnparkedIsChosen
  <2> QED
    BY <2>1, <2>2
<1> QED
  BY <1>1, <1>2, <1>4, <1>5, DefsFrom

\* The guard pass leaves a wait parked only before its timer is journaled.
LEMMA PassedStep ==
    ASSUME Branching, ArmInv, [Next]_vars
    PROVE  PassedUnarmed'
<1>1. OnceInv /\ Selectors /\ PassedUnarmed /\ Shapes /\ Plain /\ TimersKnown /\ ArmedAfterParents
  BY DEF ArmInv, OnceInv, ParkedInv
<1>2. LastStep \in Nat
  BY ParkedAssumption DEF LastStep, Passes, ParkedAssumption
<1> SUFFICES ASSUME pc' \in 1 .. LastStep, NEW m \in Waits, Entry(m), m \in parked_guards',
                    NEW j \in 1 .. pc' - 1, PassAt(j) = "guard", MoteAt(j) = m
             PROVE  WaitTimer(m)' = {}
  BY DEF PassedUnarmed, Guarded, Entry, LastStep, PassAt, MoteAt
<1>3. m \in Steps /\ m \in Motes /\ m \notin Policied
  BY ParkedAssumption DEF ParkedAssumption
<1>4. CASE UNCHANGED vars
  <2>1. pc' = pc /\ parked_guards' = parked_guards /\ timers' = timers
    BY <1>4 DEF vars, parked, journal
  <2>2. Guarded(m)
    BY <2>1 DEF Guarded
  <2>3. WaitTimer(m) = {}
    BY <1>1, <2>1, <2>2 DEF PassedUnarmed
  <2> QED
    BY <2>1, <2>3 DEF WaitTimer, FoldedTimers
<1>5. ASSUME \/ \E k \in Steps : Submit(k)
             \/ \E k \in Motes : \/ Lease(k) \/ StageEffect(k) \/ ReportFailure(k) \/ Reap(k)
                                 \/ \E r \in Results : ReportCommit(k, r)
             \/ Poll \/ EndSettle \/ Tick \/ Restart
      PROVE  FALSE
  <2>1. pc' \in {0, Draining}
    BY <1>5 DEF Submit, Lease, StageEffect, ReportFailure, Reap, ReportCommit, Poll, EndSettle, Tick, Restart, Serve
  <2> QED
    BY <1>2, <2>1 DEF Draining
<1>6. ASSUME BeginSettle PROVE FALSE
  <2>1. pc' = 1
    BY <1>6 DEF BeginSettle
  <2> QED
    BY <2>1
<1>7. ASSUME SettleStep PROVE WaitTimer(m)' = {}
  <2>1. PICK i \in First(Todo) :
           /\ pc' = IF i = LastStep THEN 0 ELSE i + 1
           /\ \/ AppendError(i)
              \/ PassAt(i) = "wait" /\ SettleWait(MoteAt(i))
              \/ PassAt(i) = "guard" /\ SettleGuard(MoteAt(i))
              \/ PassAt(i) = "policied" /\ SettlePolicied(MoteAt(i))
              \/ PassAt(i) = "mint" /\ \E t \in DueAt(MoteAt(i), 1) : FireMint(t)
              \/ PassAt(i) = "fire" /\ \E t \in DueAt(MoteAt(i), 0) : FireWait(t)
    BY <1>7 DEF SettleStep
  <2>2. pc \in 1 .. LastStep /\ i \in pc .. LastStep /\ \A k \in Todo : i <= k
    BY <1>7 DEF SettleStep, First, Todo
  <2>3. i \in 1 .. LastStep /\ i \in Nat /\ pc' = i + 1 /\ j \in 1 .. i /\ j \in 1 .. LastStep
    BY <1>2, <2>1, <2>2
  <2>4. m \in parked_guards
    BY <1>7 DEF SettleStep, AppendError, SettleWait, SettleGuard, SettlePolicied, FireMint, FireWait, parked
  <2>5. HasWork(j)
    BY <2>4 DEF HasWork
  <2>6. WaitTimer(m) = {}
    <3>1. CASE j < pc
      <4>1. j \in 1 .. pc - 1
        BY <1>2, <2>2, <2>3, <3>1
      <4>2. Guarded(m)
        BY <4>1 DEF Guarded
      <4> QED
        BY <1>1, <2>2, <2>4, <4>2 DEF PassedUnarmed
    <3>2. CASE ~(j < pc) /\ j # i
      <4>1. j \in pc .. LastStep /\ ~(i <= j)
        BY <1>2, <2>2, <2>3, <3>2
      <4>2. j \in Todo
        BY <2>5, <4>1 DEF Todo
      <4> QED
        BY <2>2, <4>1, <4>2
    <3>3. ASSUME j = i, NEW k \in WaitTimer(m) PROVE FALSE
      <4>1. SettleGuard(m)
        <5>1. ~AppendError(i)
          BY <3>3 DEF AppendError, Branching
        <5> QED
          BY <2>1, <3>3, <5>1
      <4>2. /\ ~Stale(m) /\ ~ParentLost(m)
            /\ ~ParentsCommitted(m) \/ GuardVerdict(m) = "Undecided"
        BY <4>1 DEF SettleGuard
      <4>3. k \in 1 .. Len(timers) /\ timers[k].subject = m /\ timers[k].purpose = 0
        BY <1>1, <1>3 DEF WaitTimer, FoldedTimers, TimersKnown
      <4>4. \A p \in Parents[m] : p \in Motes /\ result[p] # "none"
        BY <1>1, <1>3, <4>3, GraphAssumption DEF ArmedAfterParents, GraphAssumption
      <4>5. ParentsCommitted(m)
        BY <1>1, <4>4 DEF ParentsCommitted, StateOfMote, StateOf, Shapes, Plain
      <4>6. PICK c \in Parents[m] : c \in Conditionals
        BY <1>3 DEF Branching, Entry
      <4>7. result[c] \in Arms \cup {"skip"}
        BY <1>1, <4>4, <4>6 DEF Selectors
      <4> QED
        BY <4>2, <4>5, <4>6, <4>7 DEF GuardVerdict
    <3> QED
      BY <3>1, <3>2, <3>3
  <2>7. ASSUME NEW t, timers' = Append(timers, t), NewTimer(t) PROVE t.subject # m
    <3>1. SUFFICES ASSUME t.subject = m PROVE FALSE
      OBVIOUS
    <3>2. PICK k \in First(Todo) : PassAt(k) = "wait" /\ MoteAt(k) = m
      BY <1>3, <2>7, <3>1 DEF NewTimer
    <3>3. k \in pc .. LastStep /\ k <= i /\ i <= k
      BY <2>2, <3>2 DEF First, Todo
    <3>4. k \in 1 .. LastStep /\ k = i
      BY <1>2, <2>2, <2>3, <3>3
    <3>5. k < j
      BY <2>3, <3>2, <3>4, PassOrder
    <3> QED
      BY <2>3, <3>4, <3>5
  <2>8. timers' = timers \/ \E t \in TimerRecord : timers' = Append(timers, t) /\ NewTimer(t)
    BY <1>1, TimerMoves DEF TimersGrow, TimersSame
  <2>9. CASE timers' = timers
    BY <2>6, <2>9 DEF WaitTimer, FoldedTimers
  <2>10. ASSUME NEW t \in TimerRecord, timers' = Append(timers, t), NewTimer(t)
         PROVE  WaitTimer(m)' = {}
    <3>1. /\ Len(timers) \in Nat /\ Len(timers') = Len(timers) + 1
          /\ \A k \in 1 .. Len(timers) : timers'[k] = timers[k]
          /\ timers'[Len(timers) + 1] = t
      BY <1>1, <2>10 DEF Shapes
    <3>2. \A k \in 1 .. Len(timers') : k \in 1 .. Len(timers) \/ k = Len(timers) + 1
      BY <3>1
    <3>3. \A k \in 1 .. Len(timers) : timers[k].subject # m
      BY <1>1, <1>3, <2>6 DEF WaitTimer, FoldedTimers
    <3>4. t.subject # m
      BY <2>7, <2>10
    <3> QED
      BY <3>1, <3>2, <3>3, <3>4 DEF WaitTimer, FoldedTimers
  <2> QED
    BY <2>8, <2>9, <2>10
<1> QED
  BY <1>4, <1>5, <1>6, <1>7 DEF Next

\* Initially nothing has run.
LEMMA BranchInit == Init => ArmInv
<1> SUFFICES ASSUME Init PROVE ArmInv
  OBVIOUS
<1>1. OnceInv
  BY OnceInit
<1>2. Attempts \subseteq Motes /\ Conditionals \subseteq Motes
  BY AttemptShapes, ParkedAssumption DEF ParkedAssumption
<1>3. Selectors /\ EntriesChosen
  BY <1>2 DEF Init, Selectors, EntriesChosen, Arms
<1>4. WaitsHeld /\ PassedUnarmed
  BY DEF Init, WaitsHeld, PassedUnarmed
<1> QED
  BY <1>1, <1>3, <1>4 DEF ArmInv

\* Of two entries of different arms of one conditional at most one is run, whatever
\* restarts, re-submits and crashes come between, also when an entry is a wait, which
\* no lease gate holds back, or has a retry policy (skip_guard_verdict,
\* settle_skip_guards).
THEOREM OneArmIsRun ==
    ASSUME Branching
    PROVE  Spec => []OneArm
<1>1. ArmInv => OneArm
  <2> SUFFICES ASSUME ArmInv, NEW s \in Steps, NEW t \in Steps, Arm[s] # Arm[t],
                      Arm[s] # NoArm, Arm[t] # NoArm,
                      NEW c \in Parents[s] \cap Parents[t] \cap Conditionals, Ran(s), Ran(t)
               PROVE  FALSE
    BY DEF OneArm
  <2>1. Entry(s) /\ Entry(t) /\ s \in Motes /\ t \in Motes
    BY ParkedAssumption DEF Branching, Entry, ParkedAssumption
  <2>2. Chosen(s) /\ Chosen(t)
    BY <2>1 DEF ArmInv, EntriesChosen, Ran
  <2>3. ASSUME NEW u \in Steps, Entry(u), Chosen(u), u \in Motes, c \in Parents[u]
        PROVE  result[c] = Arm[u]
    <3>1. PICK p \in Parents[u] : result[p] = Arm[u]
      BY <2>3 DEF Chosen
    <3>2. Arm[u] \in Arms /\ p \in Motes
      BY <2>3, ParkedAssumption, GraphAssumption DEF ParkedAssumption, GraphAssumption, Entry
    <3>3. p \in Conditionals
      BY <2>3, <3>1, <3>2 DEF ArmInv, Selectors, Branching, Entry
    <3>4. p = c
      BY <2>3, <3>3, ParkedAssumption DEF ParkedAssumption
    <3> QED
      BY <3>1, <3>4
  <2> QED
    BY <2>1, <2>2, <2>3
<1>2. ArmInv /\ [Next]_vars => ArmInv'
  <2> SUFFICES ASSUME ArmInv, [Next]_vars PROVE ArmInv'
    OBVIOUS
  <2>1. OnceInv'
    BY OnceStep DEF ArmInv
  <2> QED
    BY <2>1, SelectorsStep, EntriesStep, HeldStep, PassedStep DEF ArmInv
<1> QED
  BY BranchInit, <1>1, <1>2, PTL DEF Spec

=============================================================================
