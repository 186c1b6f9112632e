---------------------------- MODULE ParkedSteps ----------------------------
(***************************************************************************)
(* kx-coordinator: the steps the owner thread resolves itself.             *)
(*                                                                         *)
(* A durable wait, a step inside a conditional arm and a step with a       *)
(* failure policy are admitted but parked; after each drain of commands    *)
(* the settle passes walk the parked steps, journal timers, mint attempts, *)
(* skip untaken arms and fire what is due.  The passes of one drain are    *)
(* split into one step per pass and Mote, each with at most one append, so *)
(* that the process can be killed between any two appends.                 *)
(*                                                                         *)
(* Workers are reduced to what the passes see of them: a Mote is leased,   *)
(* maybe staged, then committed, dead-lettered, or crash-failed by a reap.  *)
(* WorldMutating Motes are StageThenCommit, the others PURE.               *)
(***************************************************************************)
EXTENDS Projection, Sequences

CONSTANTS
    Steps,          \* what the client submits; the other Motes are attempts
    Order,          \* the Motes in MoteId order, the order of each pass
    DataParents,    \* DataParents[m]: the Data edges of Parents[m]
    Waits,          \* is_wait_step
    Guards,         \* is_skip_guard
    Policied,       \* is_policied_step
    Conditionals,   \* steps that commit a selection
    Arm,            \* Arm[m]: the arm m is an entry of, or NoArm
    NoArm,
    Continue,       \* policied steps with mode "continue"; the rest: "retry"
    AttemptOf,      \* AttemptOf[l][n]: the identity of attempt n of l
    MaxAttempts,    \* RETRY_MAX_KEY
    Delay,          \* WAIT_DELAY_MS_KEY
    Backoff,        \* RETRY_BACKOFF_MS_KEY
    Failing,        \* Motes a worker can give up
    Crashing,       \* Motes a worker can crash on
    AtLeastOnce,    \* Motes of a tool of IdempotencyClass::AtLeastOnce
    Flaky,          \* <<pass, Mote>> pairs whose append can fail
    MaxErrors,      \* bound: failed appends
    MaxTime,        \* bound: the clock
    MaxRestarts     \* bound: coordinator restarts

Arms == {"then", "else"}

ASSUME ParkedAssumption ==
    /\ Steps \subseteq Motes
    /\ DataParents \in [Motes -> SUBSET Motes]
    /\ \A m \in Motes : DataParents[m] \subseteq Parents[m]
    /\ Waits \subseteq Steps /\ Policied \subseteq Steps /\ Waits \cap Policied = {}
    /\ Conditionals \subseteq Steps
    /\ Guards \subseteq Motes
    /\ Arm \in [Motes -> Arms \cup {NoArm}]
    /\ Continue \subseteq Policied
    /\ AtLeastOnce \subseteq WorldMutating
    /\ MaxAttempts \in Nat \ {0}
    /\ AttemptOf \in [Policied -> [1 .. MaxAttempts -> Motes \ Steps]]
    /\ \A l \in Policied, n \in 1 .. MaxAttempts :
         /\ Parents[AttemptOf[l][n]] = {}
         /\ (AttemptOf[l][n] \in Guards) = (l \in Guards)
         /\ Arm[AttemptOf[l][n]] = Arm[l]
    /\ \A l, k \in Policied, n, i \in 1 .. MaxAttempts :
         AttemptOf[l][n] = AttemptOf[k][i] => l = k /\ n = i
    /\ Order \in Seq(Motes)
    /\ \A m \in Motes : \A p, q \in Parents[m] \cap Conditionals : p = q
    /\ {Delay, Backoff, MaxErrors, MaxTime, MaxRestarts} \subseteq Nat

\* The backoff before attempt n doubles with each attempt.
BackoffDelay(n) == Backoff * 2^(n - 2)

ASSUME BackoffAssumption ==
    \A n \in 2 .. MaxAttempts : BackoffDelay(n) \in Nat

VARIABLES
    proj,           \* the projection of each Mote
    result,         \* what its committed result_ref stands for
    timers,         \* the folded TimerArmed records, in fold order
    declared, submitted, defs,
    leased,         \* held by some worker
    crash_failed,   \* LeaseTracker::crash_failed
    parked_waits, parked_guards, parked_policied,
    armed_timers,   \* one record per subject at most
    now,            \* the coordinator's clock
    pc,             \* 0: idle; Draining; or the position in the settle passes
    errors, restarts

journal  == <<proj, result, timers>>
dispatch == <<declared, submitted, defs, leased, crash_failed>>
parked   == <<parked_waits, parked_guards, parked_policied>>
bounds   == <<errors, restarts>>
vars == <<journal, dispatch, parked, armed_timers, now, pc, bounds>>

\* A selection, the SKIP and FAILED sentinels, or any other bytes.
Results == Arms \cup {"none", "skip", "failed", "value"}

TimerRecord == [subject : Motes, purpose : {0, 1}, attempt : Nat, fire_at : Nat]
Timer(m, p, n, t) == [subject |-> m, purpose |-> p, attempt |-> n, fire_at |-> t]

Passes == <<"wait", "guard", "policied", "mint", "fire">>
LastStep == Len(Passes) * Len(Order)
Draining == LastStep + 1
PassAt(i) == Passes[1 + (i - 1) \div Len(Order)]
MoteAt(i) == Order[1 + ((i - 1) % Len(Order))]

TypeOK ==
    /\ proj \in [Motes -> SUBSET Flags]
    /\ result \in [Motes -> Results]
    /\ \A m \in Motes : (result[m] # "none") = ("committed" \in proj[m])
    /\ timers \in Seq(TimerRecord)
    /\ declared \subseteq Motes /\ submitted \subseteq Motes /\ defs \subseteq Motes
    /\ leased \subseteq Motes \ (Waits \cup Policied) /\ crash_failed \subseteq Motes
    /\ parked_waits \subseteq Waits
    /\ parked_guards \subseteq Guards
    /\ parked_policied \subseteq Policied
    /\ \A t, u \in armed_timers : t.subject = u.subject => t = u
    /\ \A t \in armed_timers : \E i \in 1 .. Len(timers) : timers[i] = t
    /\ now \in 0 .. MaxTime
    /\ pc \in 0 .. Draining
    /\ errors \in 0 .. MaxErrors
    /\ restarts \in 0 .. MaxRestarts

Init ==
    /\ proj = [m \in Motes |-> {}]
    /\ result = [m \in Motes |-> "none"]
    /\ timers = <<>>
    /\ declared = {} /\ submitted = {} /\ defs = {}
    /\ leased = {} /\ crash_failed = {}
    /\ parked_waits = {} /\ parked_guards = {} /\ parked_policied = {}
    /\ armed_timers = {}
    /\ now = 0 /\ pc = 0 /\ errors = 0 /\ restarts = 0

StateOfMote(m) == StateOf(proj[m])

-----------------------------------------------------------------------------
(* Commands.  A drain serves one or more, then the settle passes run. *)

Serve == pc \in {0, Draining} /\ pc' = Draining

\* submit_and_capture.  A re-submit is a duplicate until a restart, and parks
\* again all the same.
Submit(m) ==
    /\ Serve
    /\ declared' = declared \cup {m}
    /\ IF m \in declared THEN UNCHANGED <<submitted, defs>>
       ELSE submitted' = submitted \cup {m} /\ defs' = defs \cup {m}
    /\ LET Park(set, kind) ==
               IF m \in kind /\ StateOfMote(m) # "Committed" THEN set \cup {m} ELSE set
       IN  /\ parked_waits' = Park(parked_waits, Waits)
           /\ parked_guards' = Park(parked_guards, Guards)
           /\ parked_policied' = Park(parked_policied, Policied)
    /\ UNCHANGED <<journal, leased, crash_failed, armed_timers, now, bounds>>

\* skip_guard_verdict, from the parents' committed results alone.
GuardVerdict(m) ==
    LET selections == {result[p] : p \in Parents[m]} \cap Arms
    IN  IF \E p \in Parents[m] : result[p] = "skip" THEN "Skip"
        ELSE IF Arm[m] = NoArm THEN "Run"
        ELSE IF selections = {} THEN "Undecided"
        ELSE IF Arm[m] \in selections THEN "Run" ELSE "Skip"

\* Mutated form: only a skipped arm is held back.
skip_guard_cleared_NotSkipped(m) == \A p \in Parents[m] : result[p] # "skip"

skip_guard_cleared(m) == GuardVerdict(m) = "Run"

\* redispatch_admissible: what a crash-failed Mote did is known.
RedispatchAdmissible(m) == m \notin WorldMutating \/ CanRedispatch(proj[m])

\* at_least_once_already_staged: the effect must not fire again.
AtLeastOnceStaged(m) == m \in AtLeastOnce /\ CanRedispatch(proj[m])

\* lease_ready: never a wait or a policied launch, a guard when it is cleared.
Leasable(m) ==
    /\ \/ Ready(proj, declared, {}, m)
       \/ m \in crash_failed /\ RedispatchAdmissible(m)
    /\ ~AtLeastOnceStaged(m)
    /\ StateOfMote(m) # "Committed"
    /\ m \notin leased
    /\ m \in defs
    /\ m \notin Waits \cup Policied
    /\ m \in Guards => skip_guard_cleared(m)

Lease(m) ==
    /\ Serve
    /\ Leasable(m)
    /\ leased' = leased \cup {m}
    /\ UNCHANGED <<journal, declared, submitted, defs, crash_failed, parked,
                   armed_timers, now, bounds>>

\* A poll that finds nothing still ends in a settle.
Poll ==
    /\ Serve
    /\ UNCHANGED <<journal, dispatch, parked, armed_timers, now, bounds>>

\* LeaseTracker::resolve_committed
Resolve(m) == leased' = leased \ {m} /\ crash_failed' = crash_failed \ {m}

\* ReportEffectStaged, before the holder fires the effect.
StageEffect(m) ==
    /\ Serve
    /\ m \in leased \cap WorldMutating
    /\ "staged" \notin proj[m]
    /\ proj' = [proj EXCEPT ![m] = FoldEffectStaged(@)]
    /\ UNCHANGED <<result, timers, dispatch, parked, armed_timers, now, bounds>>

ReportCommit(m, r) ==
    /\ Serve
    /\ m \in leased \cap submitted
    /\ m \in WorldMutating => "staged" \in proj[m]
    /\ r \in IF m \in Conditionals THEN Arms ELSE {"value"}
    /\ proj' = [proj EXCEPT ![m] = FoldCommitted(@)]
    /\ result' = [result EXCEPT ![m] = r]
    /\ defs' = defs \ {m}
    /\ Resolve(m)
    /\ UNCHANGED <<timers, declared, submitted, parked, armed_timers, now, bounds>>

\* dead_letter_failure of a holder.
ReportFailure(m) ==
    /\ Serve
    /\ m \in leased \cap Failing
    /\ proj' = IF StateOfMote(m) \in {"Pending", "Scheduled"}
               THEN [proj EXCEPT ![m] = FoldFailed(@, "DeadLettered")] ELSE proj
    /\ submitted' = IF proj' = proj THEN submitted ELSE submitted \ {m}
    /\ defs' = IF proj' = proj THEN defs ELSE defs \ {m}
    /\ Resolve(m)
    /\ UNCHANGED <<result, timers, declared, parked, armed_timers, now, bounds>>

\* The holder of m crashed, and a poll reaps it.  Bound: m's first crash only.
Reap(m) ==
    /\ Serve
    /\ m \in leased \cap Crashing
    /\ "reattempt" \notin proj[m]
    /\ proj' = [proj EXCEPT ![m] = FoldFailed(@, "WorkerCrashed")]
    /\ leased' = leased \ {m}
    /\ crash_failed' = crash_failed \cup {m}
    /\ UNCHANGED <<result, timers, declared, submitted, defs, parked, armed_timers,
                   now, bounds>>

-----------------------------------------------------------------------------
(* What the passes do *)

BeginSettle ==
    /\ pc = Draining
    /\ pc' = 1
    /\ UNCHANGED <<journal, dispatch, parked, armed_timers, now, bounds>>

\* Mutated form: a timer is due one tick early.
Due_Early(t) == t.fire_at <= now + 1

Due(t) == t.fire_at <= now

ArmInMemory(t) ==
    armed_timers' = {u \in armed_timers : u.subject # t.subject} \cup {t}

\* Append a TimerArmed, fold it and arm it.
ArmTimer(t) == timers' = Append(timers, t) /\ ArmInMemory(t)

\* synth_commit_subject, and the commit of fire_due_timers.
SynthCommit(m, r) ==
    /\ proj' = [proj EXCEPT ![m] = FoldCommitted(@)]
    /\ result' = [result EXCEPT ![m] = r]
    /\ submitted' = submitted \ {m}
    /\ defs' = defs \ {m}
    /\ armed_timers' = {t \in armed_timers : t.subject # m}
    /\ Resolve(m)
    /\ UNCHANGED <<timers, declared>>

\* dead_letter_parked_wait; a caller that parked m elsewhere unparks it there.
DeadLetterParked(m) ==
    /\ proj' = [proj EXCEPT ![m] = FoldFailed(@, "DeadLettered")]
    /\ submitted' = submitted \ {m}
    /\ defs' = defs \ {m}
    /\ parked_waits' = parked_waits \ {m}
    /\ armed_timers' = {t \in armed_timers : t.subject # m}
    /\ Resolve(m)
    /\ UNCHANGED <<result, timers, declared>>

\* materialize_react_turn for attempt n of l.
MintAttempt(l, n) ==
    LET a == AttemptOf[l][n]
    IN  /\ declared' = declared \cup {a}
        /\ submitted' = submitted \cup {a}
        /\ defs' = defs \cup {a}
        /\ UNCHANGED <<leased, crash_failed>>

Stale(m) == m \notin defs \/ StateOfMote(m) # "Pending"

Lost == {"Failed", "Inconsistent", "Repudiated"}

ParentLost(m)      == \E p \in Parents[m] : StateOfMote(p) \in Lost
ParentsCommitted(m) == \A p \in Parents[m] : StateOfMote(p) = "Committed"

\* The folded timers of m that the pass looks for, by position.
FoldedTimers(m, p, n) ==
    {i \in 1 .. Len(timers) : /\ timers[i].subject = m
                              /\ p \in {0, timers[i].purpose}
                              /\ n \in {0, timers[i].attempt}}

\* The least element of S, as a set.
First(S) == {i \in S : \A j \in S : i <= j}

-----------------------------------------------------------------------------
(* The passes, one step for each Mote *)

\* Mutated form: a re-parked wait is armed anew.
WaitTimer_None(m) == {}

WaitTimer(m) == FoldedTimers(m, 0, 0)

SettleWait(m) ==
    /\ \/ /\ Stale(m)
          /\ parked_waits' = parked_waits \ {m}
          /\ UNCHANGED <<journal, dispatch, armed_timers>>
       \/ /\ ~Stale(m) /\ WaitTimer(m) # {}
          /\ \E i \in First(WaitTimer(m)) : ArmInMemory(timers[i])
          /\ parked_waits' = parked_waits \ {m}
          /\ UNCHANGED <<journal, dispatch>>
       \/ /\ ~Stale(m) /\ WaitTimer(m) = {} /\ ParentLost(m)
          /\ DeadLetterParked(m)
       \/ /\ ~Stale(m) /\ WaitTimer(m) = {} /\ ParentsCommitted(m)
          /\ ArmTimer(Timer(m, 0, 0, now + Delay))
          /\ parked_waits' = parked_waits \ {m}
          /\ UNCHANGED <<proj, result, dispatch>>
       \/ /\ ~Stale(m) /\ WaitTimer(m) = {} /\ ~ParentLost(m) /\ ~ParentsCommitted(m)
          /\ UNCHANGED <<journal, dispatch, parked_waits, armed_timers>>
    /\ UNCHANGED <<parked_guards, parked_policied>>

SettleGuard(m) ==
    LET decided == ~Stale(m) /\ ParentsCommitted(m)
        unpark  == parked_guards' = parked_guards \ {m}
    IN  /\ \/ /\ Stale(m) \/ (decided /\ GuardVerdict(m) = "Run")
              /\ unpark
              /\ UNCHANGED <<journal, dispatch, parked_waits, armed_timers>>
           \/ ~Stale(m) /\ ParentLost(m) /\ DeadLetterParked(m) /\ unpark
           \/ /\ decided /\ GuardVerdict(m) = "Skip"
              /\ SynthCommit(m, "skip") /\ unpark
              /\ UNCHANGED parked_waits
           \/ /\ ~Stale(m) /\ ~ParentLost(m)
              /\ ~ParentsCommitted(m) \/ GuardVerdict(m) = "Undecided"
              /\ UNCHANGED <<journal, dispatch, parked_waits, parked_guards, armed_timers>>
        /\ UNCHANGED parked_policied

AttemptState(l, n) == StateOfMote(AttemptOf[l][n])

\* Mutated form: a failed attempt is decided anew.
Rungs_Respent(l) ==
    {n \in 1 .. MaxAttempts : AttemptState(l, n) \notin Lost \ {"Failed"}}

\* The attempts that are not spent; the least of them is decided.
Rungs(l) == {n \in 1 .. MaxAttempts : AttemptState(l, n) \notin Lost}

\* A Mote is in submitted from its mint on, or because the journal of an earlier
\* process has a fact about it, which may be no more than a staged intent.
Minted(l, n) == AttemptOf[l][n] \in submitted \cup defs

BackoffTimer(l, n) == Timer(l, 1, n, now + BackoffDelay(n))

\* The ladder: attempt n of l is the first that is not spent.
\* Mutated form: every attempt is minted at once, without its backoff.
ClimbLadder_NoBackoff(l, n) ==
    /\ IF Minted(l, n) THEN UNCHANGED dispatch ELSE MintAttempt(l, n)
    /\ UNCHANGED <<timers, armed_timers>>

ClimbLadder(l, n) ==
    IF Minted(l, n) THEN UNCHANGED <<dispatch, timers, armed_timers>>
    ELSE IF n = 1 THEN MintAttempt(l, 1) /\ UNCHANGED <<timers, armed_timers>>
    ELSE IF FoldedTimers(l, 1, n) # {}
    THEN /\ \E i \in First(FoldedTimers(l, 1, n)) : ArmInMemory(timers[i])
         /\ UNCHANGED <<dispatch, timers>>
    ELSE ArmTimer(BackoffTimer(l, n)) /\ UNCHANGED dispatch

\* The launch is settled by this pass; it arms a backoff in the journal.
LadderOver(l) ==
    \/ ParentLost(l)
    \/ /\ ParentsCommitted(l)
       /\ \/ Rungs(l) = {}
          \/ \E n \in First(Rungs(l)) : AttemptState(l, n) = "Committed"

ArmsBackoff(l) ==
    /\ ParentsCommitted(l) /\ ~LadderOver(l)
    /\ \E n \in First(Rungs(l)) :
         n >= 2 /\ ~Minted(l, n) /\ FoldedTimers(l, 1, n) = {}

\* A stale launch is dropped, a lost one dead-lettered, an exhausted one settled
\* by its mode, a landed one committed; the others wait or climb.
SettlePolicied(l) ==
    LET unpark == parked_policied' = parked_policied \ {l}
    IN  /\ \/ /\ Stale(l) /\ unpark
              /\ UNCHANGED <<journal, dispatch, parked_waits, armed_timers>>
           \/ /\ ~Stale(l) /\ unpark
              /\ \/ ParentLost(l)
                 \/ ParentsCommitted(l) /\ Rungs(l) = {} /\ l \notin Continue
              /\ DeadLetterParked(l)
           \/ /\ ~Stale(l) /\ ParentsCommitted(l) /\ unpark
              /\ \/ Rungs(l) = {} /\ l \in Continue /\ SynthCommit(l, "failed")
                 \/ \E n \in First(Rungs(l)) :
                       /\ AttemptState(l, n) = "Committed"
                       /\ SynthCommit(l, result[AttemptOf[l][n]])
              /\ UNCHANGED parked_waits
           \/ /\ ~Stale(l) /\ ParentsCommitted(l) /\ ~LadderOver(l)
              /\ \E n \in First(Rungs(l)) : ClimbLadder(l, n)
              /\ UNCHANGED <<proj, result, parked_waits, parked_policied>>
           \/ /\ ~Stale(l) /\ ~ParentLost(l) /\ ~ParentsCommitted(l)
              /\ UNCHANGED <<journal, dispatch, parked_waits, parked_policied, armed_timers>>
        /\ UNCHANGED parked_guards

\* fire_due_timers, purpose 1: the backoff is over.
FireMint(t) ==
    /\ armed_timers' = armed_timers \ {t}
    /\ IF Stale(t.subject) THEN UNCHANGED dispatch
       ELSE MintAttempt(t.subject, t.attempt)
    /\ UNCHANGED <<journal, parked>>

\* fire_due_timers, purpose 0: the wait is over.  Its output is the lone Data
\* parent's, or a descriptor of its own.
FireWait(t) ==
    LET m == t.subject
        output == IF Cardinality(DataParents[m]) = 1
                  THEN {result[p] : p \in DataParents[m]} ELSE {"value"}
    IN  /\ IF StateOfMote(m) # "Pending"
           THEN armed_timers' = armed_timers \ {t} /\ UNCHANGED <<journal, dispatch>>
           ELSE IF m \notin defs THEN UNCHANGED <<journal, dispatch, armed_timers>>
           ELSE \E r \in output : SynthCommit(m, r)
        /\ UNCHANGED parked

DueAt(m, p) == {t \in armed_timers : t.subject = m /\ t.purpose = p /\ Due(t)}

\* The pass at position i has something to do for its Mote.
HasWork(i) ==
    LET m == MoteAt(i)
    IN  \/ PassAt(i) = "wait" /\ m \in parked_waits
        \/ PassAt(i) = "guard" /\ m \in parked_guards
        \/ PassAt(i) = "policied" /\ m \in parked_policied
        \/ PassAt(i) = "mint" /\ DueAt(m, 1) # {}
        \/ PassAt(i) = "fire" /\ DueAt(m, 0) # {}

\* The pass at position i appends an entry for its Mote.
Appends(i) ==
    LET m == MoteAt(i)
    IN  \/ /\ PassAt(i) = "wait" /\ ~Stale(m) /\ WaitTimer(m) = {}
           /\ ParentLost(m) \/ ParentsCommitted(m)
        \/ /\ PassAt(i) = "guard" /\ ~Stale(m)
           /\ ParentLost(m) \/ (ParentsCommitted(m) /\ GuardVerdict(m) = "Skip")
        \/ PassAt(i) = "policied" /\ ~Stale(m) /\ (LadderOver(m) \/ ArmsBackoff(m))
        \/ PassAt(i) = "fire" /\ ~Stale(m)

\* That append fails.  A wait stays parked, a due timer armed and a ladder where
\* it is, for the next drain; a guard or a launch that was being settled is
\* unparked all the same.
UnparkedOnError(i) ==
    \/ PassAt(i) = "guard"
    \/ PassAt(i) = "policied" /\ LadderOver(MoteAt(i))

AppendError(i) ==
    LET Unpark(set, pass) ==
            IF PassAt(i) = pass /\ UnparkedOnError(i) THEN set \ {MoteAt(i)} ELSE set
    IN  /\ errors < MaxErrors /\ <<PassAt(i), MoteAt(i)>> \in Flaky /\ Appends(i)
        /\ errors' = errors + 1
        /\ parked_waits' = Unpark(parked_waits, "wait")
        /\ parked_guards' = Unpark(parked_guards, "guard")
        /\ parked_policied' = Unpark(parked_policied, "policied")
        /\ UNCHANGED <<journal, dispatch, armed_timers>>

Todo == {i \in pc .. LastStep : HasWork(i)}

SettleStep ==
    /\ pc \in 1 .. LastStep
    /\ \E i \in First(Todo) :
         /\ pc' = IF i = LastStep THEN 0 ELSE i + 1
         /\ \/ AppendError(i)
            \/ /\ UNCHANGED errors
               /\ \/ PassAt(i) = "wait" /\ SettleWait(MoteAt(i))
                  \/ PassAt(i) = "guard" /\ SettleGuard(MoteAt(i))
                  \/ PassAt(i) = "policied" /\ SettlePolicied(MoteAt(i))
                  \/ PassAt(i) = "mint" /\ \E t \in DueAt(MoteAt(i), 1) : FireMint(t)
                  \/ PassAt(i) = "fire" /\ \E t \in DueAt(MoteAt(i), 0) : FireWait(t)
    /\ UNCHANGED <<now, restarts>>

EndSettle ==
    /\ pc \in 1 .. LastStep
    /\ Todo = {}
    /\ pc' = 0
    /\ UNCHANGED <<journal, dispatch, parked, armed_timers, now, bounds>>

-----------------------------------------------------------------------------
(* Time and restarts *)

\* Time passes between drains (one takes no time on the scale of the delays);
\* the model's clock only moves while a timer is armed and not due, since
\* nothing else compares against it.
Tick ==
    /\ pc = 0
    /\ now < MaxTime
    /\ \E t \in armed_timers : t.fire_at > now
    /\ now' = now + 1
    /\ UNCHANGED <<journal, dispatch, parked, armed_timers, pc, bounds>>

\* core_loop's recovery: the last folded timer of each open subject is armed at
\* its journaled instant.
Superseded(i) == \E j \in i + 1 .. Len(timers) : timers[j].subject = timers[i].subject

RecoveredTimers ==
    {timers[i] : i \in {k \in 1 .. Len(timers) :
                         /\ StateOfMote(timers[k].subject) \notin Lost \cup {"Committed"}
                         /\ ~Superseded(k)}}

\* recover: every Mote the journal has a fact about counts as submitted; its def
\* comes back with the next submit or mint.
Restart ==
    /\ restarts < MaxRestarts
    /\ restarts' = restarts + 1
    /\ submitted' = {m \in Motes : proj[m] # {}}
    /\ declared' = {} /\ defs' = {} /\ leased' = {} /\ crash_failed' = {}
    /\ parked_waits' = {} /\ parked_guards' = {} /\ parked_policied' = {}
    /\ armed_timers' = RecoveredTimers
    /\ pc' = 0
    /\ UNCHANGED <<journal, now, errors>>

-----------------------------------------------------------------------------

Next ==
    \/ \E m \in Steps : Submit(m)
    \/ \E m \in Motes : \/ Lease(m) \/ StageEffect(m) \/ ReportFailure(m) \/ Reap(m)
                        \/ \E r \in Results : ReportCommit(m, r)
    \/ Poll \/ BeginSettle \/ SettleStep \/ EndSettle \/ Tick \/ Restart

Spec == Init /\ [][Next]_vars

\* The client submits what a restart forgot, workers poll and report, the clock
\* runs and the owner thread goes on; no fairness for crashes and restarts.
UsefulCommand ==
    \/ \E m \in Steps : m \notin declared /\ Submit(m)
    \/ \E m \in Motes : \/ Lease(m) \/ StageEffect(m) \/ ReportFailure(m)
                        \/ \E r \in Results : ReportCommit(m, r)

Fairness ==
    /\ SF_vars(UsefulCommand)
    /\ SF_vars(Tick)
    /\ WF_vars(Poll)
    /\ WF_vars(BeginSettle)
    /\ WF_vars(SettleStep)
    /\ WF_vars(EndSettle)

FairSpec == Spec /\ Fairness

-----------------------------------------------------------------------------
(* Properties *)

\* A wait step that was not skipped is committed only when a timer journaled
\* after all its parents committed is due, also when restarts, re-submits and
\* re-arming happened in between (settle_wait_steps, fire_due_timers).
WaitedOut ==
    \A m \in Waits :
        result[m] \notin {"none", "skip"} =>
            /\ \E i \in FoldedTimers(m, 0, 0) : timers[i].fire_at <= now
            /\ \A p \in Parents[m] : result[p] # "none"

\* "A re-arm can never become a second timer": one TimerArmed at most for each
\* subject, purpose and attempt, however often the step is parked again.
OneTimer ==
    \A i, j \in 1 .. Len(timers) :
        /\ timers[i].subject = timers[j].subject
        /\ timers[i].purpose = timers[j].purpose
        /\ timers[i].attempt = timers[j].attempt
        => i = j

\* Attempt n + 1 of a policied step exists only after attempt n is lost for good
\* and its backoff, armed in the journal, is over (settle_policied_steps).
LadderInOrder ==
    \A l \in Policied, n \in 2 .. MaxAttempts :
        AttemptOf[l][n] \in declared \/ proj[AttemptOf[l][n]] # {} =>
            /\ AttemptState(l, n - 1) \in Lost
            /\ \E t \in FoldedTimers(l, 1, n) : timers[t].fire_at <= now

\* A policied step commits what one of its attempts committed, or, with mode
\* "continue", the FAILED placeholder once every attempt is lost.
LaunchTruth ==
    \A l \in Policied :
        result[l] \notin {"none", "skip"} =>
            \/ \E n \in 1 .. MaxAttempts : result[l] = result[AttemptOf[l][n]]
            \/ /\ result[l] = "failed" /\ l \in Continue
               /\ \A n \in 1 .. MaxAttempts : AttemptState(l, n) \in Lost

\* The attempts of a step come one after the other, and what the step reports is
\* what they came to (settle_policied_steps).
LadderTruth == LadderInOrder /\ LaunchTruth

Ran(m) == m \in leased \/ result[m] \notin {"none", "skip"}

\* Of two entries of different arms of one conditional at most one is run
\* (strings.rs: "a conditional that ran both arms is a bug").
OneArm ==
    \A s, t \in Steps :
        /\ Arm[s] # Arm[t] /\ NoArm \notin {Arm[s], Arm[t]}
        /\ Parents[s] \cap Parents[t] \cap Conditionals # {}
        => ~(Ran(s) /\ Ran(t))

\* The steps and attempts whose end the end of m depends on, m among them.
Behind ==
    LET Attempts(m) ==
            {AttemptOf[l][n] : l \in Policied \cap {m}, n \in 1 .. MaxAttempts}
        On(m) == Parents[m] \cup Attempts(m)
        Closed(S) == \A m \in S : On(m) \subseteq S
    IN  [m \in Steps |->
            {x \in Motes : \A S \in SUBSET Motes : m \in S /\ Closed(S) => x \in S}]

Ended(m) == "committed" \in proj[m] \/ "terminal" \in proj[m]

\* The three ways in which the code gives a Mote up without an entry that says
\* so: a crash it will not re-offer, a staged AtLeastOnce effect nobody holds, and
\* an attempt whose staged intent is all a restart left of it.
Stranded(m) ==
    /\ ~Ended(m) /\ m \notin leased
    /\ \/ /\ StateOfMote(m) = "Failed"
          /\ ~(m \in crash_failed /\ RedispatchAdmissible(m))
       \/ AtLeastOnceStaged(m)
       \/ "staged" \in proj[m] /\ m \notin Steps /\ m \in submitted \ defs

\* Every submitted step is committed or terminally failed in the end, through a
\* restart, crashes, lost timers and exhausted attempts, unless the code stranded a
\* Mote that it depends on (settle_policied_steps: "a recovery re-park resumes
\* exactly where the journal says it was").
Settled ==
    \A m \in Steps : <>[](Ended(m) \/ \E x \in Behind[m] : Stranded(x))

\* A parked step is dead-lettered only when a parent can no longer commit, or
\* all its attempts are given up ("a terminally-failed parent dead-letters").
LostForCause ==
    \A m \in Steps \ Failing :
        "terminal" \in proj[m] =>
            \/ \E p \in Parents[m] :
                  proj[p] \cap {"terminal", "repudiated", "inconsistent"} # {}
            \/ /\ m \in Policied
               /\ \A n \in 1 .. MaxAttempts : "terminal" \in proj[AttemptOf[m][n]]

=============================================================================
