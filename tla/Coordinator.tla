---------------------------- MODULE Coordinator ----------------------------
(***************************************************************************)
(* kx-coordinator: the owner thread (sole journal writer), its dispatch    *)
(* bookkeeping and the worker registry.                                    *)
(*                                                                         *)
(* One operator per command the owner thread serves.  The thread serves    *)
(* one command at a time (a run of Commits is flushed, in arrival order,   *)
(* before any other command), so each handler is one atomic step.  The     *)
(* journal is represented by what folding it gives; modules Journal and    *)
(* Engine show that the fold in memory and a replay agree.                 *)
(* Worker processes and the RPCs between them and this module are in       *)
(* module Fleet.                                                           *)
(***************************************************************************)
EXTENDS Projection

CONSTANTS
    Class,              \* Class[m]: how a worker runs m
    AtLeastOnce,        \* Motes whose tool resolved to the AtLeastOnce class
    MaxWorkers,         \* bound: registrations per coordinator incarnation
    RetryBudget,        \* PURE_RETRY_BUDGET
    MaxLease,           \* the max_motes of a LeaseWork request
    CascadeCeiling,     \* DEFAULT_CASCADE_CEILING
    MaxRestarts         \* bound: coordinator restarts

\* "Pure" Motes recompute, "Staged" ones are StageThenCommit, "Direct" ones are
\* the other non-PURE patterns, dispatched without staging.
Classes == {"Pure", "Staged", "Direct"}

ASSUME CoordinatorAssumption ==
    /\ Class \in [Motes -> Classes]
    /\ AtLeastOnce \subseteq {m \in Motes : Class[m] = "Staged"}
    /\ MaxWorkers \in Nat
    /\ RetryBudget \in Nat \ {0}
    /\ MaxLease \in Nat \ {0}
    /\ CascadeCeiling \in Nat
    /\ MaxRestarts \in Nat

Ids == 0 .. (MaxWorkers - 1)    \* WorkerIds, handed out from 0

VARIABLES
    proj,               \* the projection: the fold of the journal
    valid,              \* committed critics whose stored verdict is Valid
    registered,         \* the RunRegistered fact has been journaled
    declared,           \* scheduler pending map = declared in the projection
    submitted,          \* Dispatch::submitted, the commit admission set
    defs,               \* Dispatch::defs, what LeaseWork can hand out
    leases,             \* LeaseTracker::leases and holders, as <<id, mote>>
    crash_failed,       \* LeaseTracker::crash_failed
    attempt_failures,   \* LeaseTracker::attempt_failures
    next_id,            \* InMemoryWorkerRegistry::next_id
    live,               \* ids heard from within the liveness window
    restarts            \* restarts so far (bound)

journal  == <<proj, valid, registered>>
dispatch == <<declared, submitted, defs>>
tracker  == <<leases, crash_failed, attempt_failures>>
registry == <<next_id, live>>
coordinatorVars == <<journal, dispatch, tracker, registry, restarts>>

CoordinatorTypeOK ==
    /\ proj \in [Motes -> SUBSET Flags]
    /\ valid \subseteq Motes
    /\ registered \in BOOLEAN
    /\ declared \subseteq Motes
    /\ submitted \subseteq Motes
    /\ defs \subseteq Motes
    /\ leases \subseteq Ids \X Motes
    /\ crash_failed \subseteq Motes
    /\ attempt_failures \in [Motes -> 0 .. RetryBudget + 1]
    /\ next_id \in 0 .. MaxWorkers
    /\ live \subseteq Ids
    /\ restarts \in 0 .. MaxRestarts

CoordinatorInit ==
    /\ proj = [m \in Motes |-> {}]
    /\ valid = {}
    /\ registered = FALSE
    /\ declared = {}
    /\ submitted = {}
    /\ defs = {}
    /\ leases = {}
    /\ crash_failed = {}
    /\ attempt_failures = [m \in Motes |-> 0]
    /\ next_id = 0
    /\ live = {}
    /\ restarts = 0

StateOfMote(m) == StateOf(proj[m])

-----------------------------------------------------------------------------
(* The worker registry *)

IsRegistered(id) == id < next_id

RegisterWorker(id) ==
    /\ next_id < MaxWorkers
    /\ id = next_id
    /\ next_id' = next_id + 1
    /\ live' = live \cup {id}
    /\ UNCHANGED <<journal, dispatch, tracker, restarts>>

Heartbeat(id) ==
    /\ IsRegistered(id)
    /\ live' = live \cup {id}
    /\ UNCHANGED <<journal, dispatch, tracker, next_id, restarts>>

\* Time passes: the last heartbeat of id falls out of the liveness window.
Timeout(id) ==
    /\ id \in live
    /\ live' = live \ {id}
    /\ UNCHANGED <<journal, dispatch, tracker, next_id, restarts>>

IsDead(id) == IsRegistered(id) /\ id \notin live

-----------------------------------------------------------------------------
(* The run and its Motes *)

RegisterRun ==
    /\ ~registered
    /\ \A m \in Motes : proj[m] = {}    \* RunAlreadyStarted otherwise
    /\ registered' = TRUE
    /\ UNCHANGED <<proj, valid, dispatch, tracker, registry, restarts>>

\* A second submit before a restart is DuplicateSubmission and changes nothing.
Submit(m) ==
    /\ registered
    /\ m \notin declared
    /\ declared' = declared \cup {m}
    /\ submitted' = submitted \cup {m}
    /\ defs' = defs \cup {m}
    /\ UNCHANGED <<journal, tracker, registry, restarts>>

-----------------------------------------------------------------------------
(* LeaseWork: reap the dead, select, record *)

Holders(ls, m) == {id \in Ids : <<id, m>> \in ls}

\* Mutated form: the holder asked about is the poller itself.
is_leased_by_other_Self(ls, m, id) == id \in Holders(ls, m)

is_leased_by_other(ls, m, id) == Holders(ls, m) \ {id} # {}

ResolveLeases(ls, m) == {l \in ls : l[2] # m}

\* Mutated form: a dead worker keeps its leases.
TakenLeases_None == {}

\* Leases that reap_dead_workers takes from dead workers.
TakenLeases == {l \in leases : IsDead(l[1])}
Reaped      == {m \in Motes : \E id \in Ids : <<id, m>> \in TakenLeases}

\* Those it crash-fails: a Mote that committed meanwhile is only resolved.
Crashed == {m \in Reaped : StateOfMote(m) # "Committed"}

\* record_crash.  A Mote has at most one holder, so a reap counts it once; the
\* counter saturates past the budget, where the code no longer tells it apart.
FailuresAfterReap ==
    [m \in Motes |->
        IF m \in Crashed
        THEN IF attempt_failures[m] <= RetryBudget
             THEN attempt_failures[m] + 1
             ELSE attempt_failures[m]
        ELSE IF m \in Reaped THEN 0 ELSE attempt_failures[m]]

\* Mutated form: the budget is off by one.
UnderBudget_OneLess(failures) == failures + 1 < RetryBudget

UnderBudget(failures) == failures < RetryBudget

CrashFailedAfterReap ==
    (crash_failed \ Reaped)
        \cup {m \in Crashed : UnderBudget(FailuresAfterReap[m])}

ProjAfterReap ==
    [m \in Motes |-> IF m \in Crashed
                     THEN FoldFailed(proj[m], "WorkerCrashed")
                     ELSE proj[m]]

\* Mutated form: any crash-failed Mote is re-offered.
redispatch_admissible_Any(pr, m) == m \in defs

\* R-13 under distribution: the re-offer of a crash-failed Mote.
redispatch_admissible(pr, m) ==
    /\ m \in defs
    /\ Class[m] = "Pure" \/ CanRedispatch(pr[m])

\* Mutated form: the quarantine looks at the crash-failed half only.
at_least_once_already_staged_CrashFailed(pr, m) ==
    m \in AtLeastOnce /\ CanRedispatch(pr[m]) /\ m \in CrashFailedAfterReap

at_least_once_already_staged(pr, m) ==
    /\ m \in defs
    /\ m \in AtLeastOnce
    /\ CanRedispatch(pr[m])

\* lease_ready: what worker id may be handed after the reap.
Candidates(id) ==
    LET pr == ProjAfterReap
    IN  {m \in ReadySet(pr, declared, valid)
                \cup {c \in CrashFailedAfterReap : redispatch_admissible(pr, c)} :
            /\ ~at_least_once_already_staged(pr, m)
            /\ StateOf(pr[m]) # "Committed"
            /\ ~is_leased_by_other(leases \ TakenLeases, m, id)
            /\ m \in defs}

\* Placement orders the candidates; any order is possible, so any choice of
\* `items` of the right size is.
LeaseWork(id, items) ==
    /\ IsRegistered(id)
    /\ items \subseteq Candidates(id)
    /\ \/ items = Candidates(id) /\ Cardinality(items) <= MaxLease
       \/ Cardinality(items) = MaxLease
    /\ proj' = ProjAfterReap
    /\ leases' = (leases \ TakenLeases) \cup ({id} \X items)
    /\ crash_failed' = CrashFailedAfterReap
    /\ attempt_failures' = FailuresAfterReap
    /\ UNCHANGED <<valid, registered, dispatch, registry, restarts>>

-----------------------------------------------------------------------------
(* Reports from workers *)

\* LeaseTracker::resolve_committed
ResolveCommitted(m) ==
    /\ leases' = ResolveLeases(leases, m)
    /\ crash_failed' = crash_failed \ {m}
    /\ attempt_failures' = [attempt_failures EXCEPT ![m] = 0]

StageEffect(m) ==
    /\ proj' = [proj EXCEPT ![m] = FoldEffectStaged(@)]
    /\ UNCHANGED <<valid, registered, dispatch, tracker, registry, restarts>>

CommitAdmitted(m) == m \in submitted

\* flush_commits and apply_batch for one proposal: a second Committed for m
\* dedupes in the journal and is not folded.  verdict: what the result decodes
\* to, when m is a critic.
Commit(m, verdict) ==
    /\ CommitAdmitted(m)
    /\ proj' = [proj EXCEPT ![m] = FoldCommitted(@)]
    /\ valid' = IF "committed" \notin proj[m] /\ verdict /\ CriticFor[m] # NoMote
                THEN valid \cup {m} ELSE valid
    /\ defs' = defs \ {m}
    /\ ResolveCommitted(m)
    /\ UNCHANGED <<registered, declared, submitted, registry, restarts>>

\* dead_letter_failure answers a report about a Mote in any other state with a
\* no-op that still clears the tracking.
DeadLetterNoOp(m) ==
    /\ StateOfMote(m) \notin {"Pending", "Scheduled"}
    /\ ResolveCommitted(m)
    /\ UNCHANGED <<journal, dispatch, registry, restarts>>

DeadLetterAppend(id, m) ==
    /\ StateOfMote(m) \in {"Pending", "Scheduled"}
    /\ id \in Holders(leases, m)
    /\ proj' = [proj EXCEPT ![m] = FoldFailed(@, "DeadLettered")]
    /\ submitted' = submitted \ {m}
    /\ defs' = defs \ {m}
    /\ ResolveCommitted(m)
    /\ UNCHANGED <<valid, registered, declared, registry, restarts>>

\* NotLeased: the reporter does not hold a Mote that is still in flight.
DeadLetterRefused(id, m) ==
    /\ StateOfMote(m) \in {"Pending", "Scheduled"}
    /\ id \notin Holders(leases, m)
    /\ UNCHANGED coordinatorVars

DeadLetterFailure(id, m) ==
    DeadLetterNoOp(m) \/ DeadLetterAppend(id, m) \/ DeadLetterRefused(id, m)

-----------------------------------------------------------------------------
(* Repudiation and restart *)

\* Mutated form: only the target's own consumers follow it.
CascadeSet_TargetOnly(target) == {target}

CascadeSet(target) ==
    {target} \cup {c \in TransitiveConsumers(proj, declared, target) :
                        "committed" \in proj[c]}

Repudiate(target) ==
    /\ "committed" \in proj[target]
    /\ Cardinality(CascadeSet(target)) <= CascadeCeiling
    /\ proj' = [m \in Motes |-> IF m \in CascadeSet(target)
                                THEN FoldRepudiated(proj[m], TRUE)
                                ELSE proj[m]]
    /\ UNCHANGED <<valid, registered, dispatch, tracker, registry, restarts>>

\* recover: the admission set is every Mote the journal names; everything else
\* the owner thread and the registry hold is lost.
Restart ==
    /\ restarts < MaxRestarts
    /\ restarts' = restarts + 1
    /\ submitted' = {m \in Motes : proj[m] # {}}
    /\ declared' = {}
    /\ defs' = {}
    /\ leases' = {}
    /\ crash_failed' = {}
    /\ attempt_failures' = [m \in Motes |-> 0]
    /\ next_id' = 0
    /\ live' = {}
    /\ UNCHANGED journal

=============================================================================
