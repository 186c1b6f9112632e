------------------------------- MODULE Fleet -------------------------------
(***************************************************************************)
(* The coordinator together with its worker processes (kx-worker), the     *)
(* clients that submit and repudiate, and the world the effects reach.     *)
(*                                                                         *)
(* A worker polls LeaseWork, runs the whole batch it was handed, then      *)
(* deals with the failures one by one, and only then polls again.  Every   *)
(* RPC can be lost before the coordinator serves it or after (the answer). *)
(* The per-Mote deadline is off, as it is by default.                      *)
(***************************************************************************)
EXTENDS Coordinator

CONSTANTS
    Workers,            \* worker processes; each registers at most once
    NoId,               \* a process that has not registered
    WorkerMaxAttempts,  \* WORKER_MAX_ATTEMPTS
    Failing,            \* Motes whose execution can fail
    Repudiable,         \* Motes a client may repudiate
    LossyRpc,           \* RPCs can be lost
    FalseDeaths,        \* a running worker can be timed out
    WorkersOutlive,     \* workers survive a restart of the coordinator
    CriticsFirst        \* clients submit a critic before its gated consumers

ASSUME FleetAssumption ==
    /\ NoId \notin Ids
    /\ WorkerMaxAttempts \in Nat \ {0}
    /\ Failing \subseteq Motes
    /\ Repudiable \subseteq Motes
    /\ LossyRpc \in BOOLEAN
    /\ FalseDeaths \in BOOLEAN
    /\ WorkersOutlive \in BOOLEAN
    /\ CriticsFirst \in BOOLEAN

VARIABLES
    up,         \* processes that have not crashed
    wid,        \* Worker::id of each process
    task,       \* task[w][m]: how far w has got with m
    attempts,   \* Worker::attempts, the transient-failure counter
    fired       \* fired[w][m]: effects of m that w's broker fired (0, 1, many)

workerVars == <<up, wid, task, attempts>>
vars == <<coordinatorVars, workerVars, fired>>

\* "leased": in the batch; "ready": staged and acknowledged; "done": has a
\* result to propose; "transient", "terminal": failed, to be dealt with after
\* the batch; "dead": given up, to be reported.
Running  == {"leased", "ready", "done"}
TaskState == Running \cup {"idle", "transient", "terminal", "dead"}

TypeOK ==
    /\ CoordinatorTypeOK
    /\ up \subseteq Workers
    /\ wid \in [Workers -> Ids \cup {NoId}]
    /\ task \in [Workers -> [Motes -> TaskState]]
    /\ attempts \in [Workers -> [Motes -> 0 .. WorkerMaxAttempts - 1]]
    /\ fired \in [Workers -> [Motes -> 0 .. 2]]

Init ==
    /\ CoordinatorInit
    /\ up = Workers
    /\ wid = [w \in Workers |-> NoId]
    /\ task = [w \in Workers |-> [m \in Motes |-> "idle"]]
    /\ attempts = [w \in Workers |-> [m \in Motes |-> 0]]
    /\ fired = [w \in Workers |-> [m \in Motes |-> 0]]

\* The coordinator knows the id that w presents.
Known(w) == wid[w] # NoId /\ IsRegistered(wid[w])

SetTask(w, m, s) == task' = [task EXCEPT ![w][m] = s]

-----------------------------------------------------------------------------
(* Registration and liveness *)

Register(w) ==
    /\ w \in up
    /\ wid[w] = NoId
    /\ \E id \in Ids : RegisterWorker(id) /\ wid' = [wid EXCEPT ![w] = id]
    /\ UNCHANGED <<up, task, attempts, fired>>

Beat(w) ==
    /\ w \in up
    /\ Known(w)
    /\ Heartbeat(wid[w])
    /\ UNCHANGED <<workerVars, fired>>

\* The liveness window of an id elapses: its process has crashed, or (with
\* FalseDeaths) is only slow or cut off.
Silence(id) ==
    /\ FalseDeaths \/ \A w \in up : wid[w] # id
    /\ Timeout(id)
    /\ UNCHANGED <<workerVars, fired>>

-----------------------------------------------------------------------------
(* The lease loop: Worker::run_once *)

BatchIdle(w) == \A m \in Motes : task[w][m] = "idle"

Lease(w) ==
    /\ w \in up
    /\ Known(w)
    /\ BatchIdle(w)
    /\ \E items \in SUBSET Candidates(wid[w]), answered \in {TRUE, ~LossyRpc} :
         /\ LeaseWork(wid[w], items)
         /\ task' = [task EXCEPT ![w] =
                        [m \in Motes |-> IF answered /\ m \in items
                                         THEN "leased" ELSE "idle"]]
    /\ UNCHANGED <<up, wid, attempts, fired>>

\* run_wm, first half: the durable intent, before the effect.  An RPC that is
\* lost, refused, or whose answer is lost aborts the dispatch.
Stage(w, m) ==
    /\ w \in up
    /\ task[w][m] = "leased"
    /\ Class[m] = "Staged"
    /\ \/ /\ Known(w)
          /\ StageEffect(m)
          /\ \/ SetTask(w, m, "ready")
             \/ LossyRpc /\ SetTask(w, m, "transient")
       \/ /\ ~Known(w) \/ LossyRpc
          /\ SetTask(w, m, "transient")
          /\ UNCHANGED coordinatorVars
    /\ UNCHANGED <<up, wid, attempts, fired>>

\* Mutated form: the dispatch does not wait for the stage's answer.
AtDispatch_Unstaged(w, m) == task[w][m] \in {"leased", "ready"}

\* The step at which m runs: a PURE body, or broker.dispatch.
AtDispatch(w, m) ==
    task[w][m] = IF Class[m] = "Staged" THEN "ready" ELSE "leased"

CountFired(w, m) ==
    fired' = IF Class[m] = "Pure" THEN fired
             ELSE [fired EXCEPT ![w][m] = IF @ < 2 THEN @ + 1 ELSE @]

\* The body or the effect ran.  A failure can still come after it.
Execute(w, m) ==
    /\ w \in up
    /\ AtDispatch(w, m)
    /\ CountFired(w, m)
    /\ \/ SetTask(w, m, "done")
       \/ m \in Failing /\ \E s \in {"transient", "terminal"} : SetTask(w, m, s)
    /\ UNCHANGED <<coordinatorVars, up, wid, attempts>>

\* It failed before it had any effect.
ExecuteFails(w, m) ==
    /\ w \in up
    /\ m \in Failing
    /\ AtDispatch(w, m)
    /\ \E s \in {"transient", "terminal"} : SetTask(w, m, s)
    /\ UNCHANGED <<coordinatorVars, up, wid, attempts, fired>>

\* Propose the commit.  A refused or lost proposal is a batch error: the Mote
\* ran cleanly, so its attempts are cleared either way.
ReportCommit(w, m) ==
    /\ w \in up
    /\ task[w][m] = "done"
    /\ \/ Known(w) /\ \E verdict \in BOOLEAN : Commit(m, verdict)
       \/ /\ ~Known(w) \/ ~CommitAdmitted(m) \/ LossyRpc
          /\ UNCHANGED coordinatorVars
    /\ SetTask(w, m, "idle")
    /\ attempts' = [attempts EXCEPT ![w][m] = 0]
    /\ UNCHANGED <<up, wid, fired>>

BatchJoined(w) == \A m \in Motes : task[w][m] \notin Running

AttemptsExhausted(n) == n >= WorkerMaxAttempts

\* handle_execution_failure
HandleFailure(w, m) ==
    /\ w \in up
    /\ BatchJoined(w)
    /\ \/ /\ task[w][m] = "transient"
          /\ ~AttemptsExhausted(attempts[w][m] + 1)
          /\ SetTask(w, m, "idle")
          /\ attempts' = [attempts EXCEPT ![w][m] = @ + 1]
       \/ /\ \/ task[w][m] = "terminal"
             \/ task[w][m] = "transient" /\ AttemptsExhausted(attempts[w][m] + 1)
          /\ SetTask(w, m, "dead")
          /\ attempts' = [attempts EXCEPT ![w][m] = 0]
    /\ UNCHANGED <<coordinatorVars, up, wid, fired>>

\* dead_letter: best effort, a lost or refused report is only logged.
ReportFailure(w, m) ==
    /\ w \in up
    /\ BatchJoined(w)
    /\ task[w][m] = "dead"
    /\ \/ Known(w) /\ DeadLetterFailure(wid[w], m)
       \/ (~Known(w) \/ LossyRpc) /\ UNCHANGED coordinatorVars
    /\ SetTask(w, m, "idle")
    /\ UNCHANGED <<up, wid, attempts, fired>>

-----------------------------------------------------------------------------
(* Clients, crashes, restarts *)

ClientRegistersRun == RegisterRun /\ UNCHANGED <<workerVars, fired>>

\* The critics that gate m: those of its world-mutating parents.
GatingCritics(m) ==
    {c \in Motes \ {m} : CriticFor[c] \in Parents[m] \cap WorldMutating}

ClientSubmits(m) ==
    /\ CriticsFirst => GatingCritics(m) \subseteq declared
    /\ Submit(m)
    /\ UNCHANGED <<workerVars, fired>>

ClientRepudiates(m) ==
    m \in Repudiable /\ Repudiate(m) /\ UNCHANGED <<workerVars, fired>>

\* A worker process dies.  One process is always left to take over.
Crash(w) ==
    /\ w \in up
    /\ up # {w}
    /\ up' = up \ {w}
    /\ task' = [task EXCEPT ![w] = [m \in Motes |-> "idle"]]
    /\ attempts' = [attempts EXCEPT ![w] = [m \in Motes |-> 0]]
    /\ UNCHANGED <<coordinatorVars, wid, fired>>

\* The coordinator restarts.  In kx serve the worker pool lives in the same
\* process and goes down with it; remote workers keep running, with the ids the
\* previous incarnation gave them.
CoordinatorRestarts ==
    LET left == IF WorkersOutlive THEN up ELSE {w \in up : wid[w] = NoId}
        Kept(f, none) ==
            [w \in Workers |-> IF w \in left THEN f[w]
                               ELSE [m \in Motes |-> none]]
    IN  /\ left # {}
        /\ Restart
        /\ up' = left
        /\ task' = Kept(task, "idle")
        /\ attempts' = Kept(attempts, 0)
        /\ UNCHANGED <<wid, fired>>

-----------------------------------------------------------------------------

WorkerStep(w) ==
    \/ Register(w)
    \/ Lease(w)
    \/ \E m \in Motes : \/ Stage(w, m)
                        \/ Execute(w, m)
                        \/ ReportCommit(w, m)
                        \/ HandleFailure(w, m)
                        \/ ReportFailure(w, m)

Next ==
    \/ ClientRegistersRun
    \/ \E m \in Motes : ClientSubmits(m) \/ ClientRepudiates(m)
    \/ \E w \in Workers : \/ WorkerStep(w)
                          \/ Beat(w)
                          \/ Crash(w)
                          \/ \E m \in Motes : ExecuteFails(w, m)
    \/ \E id \in Ids : Silence(id)
    \/ CoordinatorRestarts

Spec == Init /\ [][Next]_vars

-----------------------------------------------------------------------------
(* Safety *)

\* A Mote is committed only after every Mote it consumes was: no order of
\* leases, crashes, re-leases and late proposals lets a result overtake the
\* inputs it was computed from (ready_set_impl_with, flush_commits).
CausalClosure ==
    \A m \in Motes : "committed" \in proj[m] =>
        \A p \in Parents[m] : "committed" \in proj[p]

\* At most one worker id holds an unresolved lease on a Mote, whoever was
\* timed out, came back or polled again (is_leased_by_other, take_leases).
OneHolder ==
    \A m \in Motes : \A i, j \in Holders(leases, m) : i = j

Fired(m) == {w \in Workers : fired[w][m] > 0}

\* An effect of the AtLeastOnce class, which nothing downstream dedupes, is
\* fired once at most (at_least_once_already_staged).
AtMostOnce ==
    \A m \in AtLeastOnce :
        /\ \A v, w \in Fired(m) : v = w
        /\ \A w \in Workers : fired[w][m] <= 1

\* R-13: a Mote dispatched without a durable EffectStaged hint is never fired
\* by a second worker process (redispatch_admissible).
NoBlindRefire ==
    \A m \in Motes : Class[m] = "Direct" => \A v, w \in Fired(m) : v = w

\* A StageThenCommit effect is never in the world without the journal knowing
\* of the intent (run_wm awaits the stage's ack before broker.dispatch).
StagedBeforeFired ==
    \A m \in Motes : Class[m] = "Staged" /\ Fired(m) # {} => "staged" \in proj[m]

\* A consumer of a world-mutating producer is committed only if each critic of
\* the producer committed a Valid verdict (promotion_state_with).
CriticGate ==
    \A m \in Motes : "committed" \in proj[m] =>
        \A c \in GatingCritics(m) :
            CriticFor[m] # CriticFor[c] => c \in valid /\ "committed" \in proj[c]

\* A crash-failed Mote that is neither given up nor out of its budget, and whose
\* inputs stand, is still offered by LeaseWork or held by a worker: "a crashed
\* worker's Mote is re-offered here, never stranded" (lease_ready).
Stranded(m) ==
    /\ m \in defs
    /\ Class[m] = "Pure"
    /\ StateOfMote(m) = "Failed"
    /\ "terminal" \notin proj[m]
    /\ attempt_failures[m] < RetryBudget
    /\ m \notin crash_failed
    /\ Holders(leases, m) = {}
    /\ \A p \in Parents[m] : StateOfMote(p) = "Committed"

NoneStranded == \A m \in Motes : ~Stranded(m)

-----------------------------------------------------------------------------
(* Refinement *)

LedgerStatus ==
    [m \in Motes |->
        IF "repudiated" \in proj[m] THEN "repudiated"
        ELSE IF "committed" \in proj[m] THEN "committed"
        ELSE IF "terminal" \in proj[m] THEN "failed"
        ELSE "open"]

Ledger == INSTANCE MoteLedger WITH status <- LedgerStatus

\* The fleet implements the ledger of Mote fates: commits once and in causal
\* order, dead letters for good, cascades whole.
RefinesLedger == Ledger!LedgerSpec

-----------------------------------------------------------------------------
(* Liveness *)

\* Worker tasks and clients keep going, and the window of a crashed worker
\* elapses; nothing is assumed of crashes.
Fairness ==
    /\ WF_vars(ClientRegistersRun)
    /\ \A m \in Motes : WF_vars(ClientSubmits(m))
    /\ \A id \in Ids : WF_vars(Silence(id))
    /\ \A w \in Workers :
          /\ WF_vars(Register(w)) /\ WF_vars(Beat(w)) /\ WF_vars(Lease(w))
          /\ \A m \in Motes :
                /\ WF_vars(Stage(w, m)) /\ WF_vars(Execute(w, m))
                /\ WF_vars(ReportCommit(w, m)) /\ WF_vars(HandleFailure(w, m))
                /\ WF_vars(ReportFailure(w, m))

FairSpec == Spec /\ Fairness

\* Every Mote of the workflow is committed in the end, although workers die
\* with leases in hand (reap_dead_workers, lease_ready).
Resolves == \A m \in Motes : <>("committed" \in proj[m])

=============================================================================
