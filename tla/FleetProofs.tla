---------------------------- MODULE FleetProofs ----------------------------
(***************************************************************************)
(* Theorems about module Fleet, for every workflow graph, any number of    *)
(* workers, lost RPCs, false deaths and coordinator restarts.              *)
(***************************************************************************)
EXTENDS Fleet, TLAPS

-----------------------------------------------------------------------------
(* Facts about the fold *)

\* Folding keeps a Mote's info a set of flags (Projection::fold).
LEMMA FoldsTyped ==
    ASSUME NEW info \in SUBSET Flags
    PROVE  /\ FoldCommitted(info) \in SUBSET Flags
           /\ FoldEffectStaged(info) \in SUBSET Flags
           /\ \A r \in FailureReason : FoldFailed(info, r) \in SUBSET Flags
           /\ FoldRepudiated(info, TRUE) \in SUBSET Flags
  BY DEF FoldCommitted, FoldEffectStaged, FoldFailed, FoldRepudiated, Flags,
         FailureReason, is_pre_commit_crash

\* No fold withdraws a commit or a staged intent, and only a Committed entry
\* brings a commit (prefix-monotone flags of MoteInfo).
LEMMA FoldsKeepFlags ==
    ASSUME NEW info \in SUBSET Flags
    PROVE  /\ "committed" \in FoldCommitted(info)
           /\ \A f \in {"committed", "staged"} :
                 /\ f \in info => f \in FoldCommitted(info)
                 /\ f \in info => f \in FoldEffectStaged(info)
                 /\ \A r \in FailureReason : f \in info <=> f \in FoldFailed(info, r)
                 /\ f \in info <=> f \in FoldRepudiated(info, TRUE)
           /\ "staged" \in FoldEffectStaged(info)
           /\ "committed" \in FoldEffectStaged(info) => "committed" \in info
  BY DEF FoldCommitted, FoldEffectStaged, FoldFailed, FoldRepudiated, Flags,
         FailureReason, is_pre_commit_crash

-----------------------------------------------------------------------------
(* Type correctness *)

\* What the reap of a LeaseWork leaves in the projection and the tracker keeps
\* its type (reap_dead_workers, record_crash).
LEMMA ReapTyped ==
    ASSUME CoordinatorTypeOK
    PROVE  /\ ProjAfterReap \in [Motes -> SUBSET Flags]
           /\ CrashFailedAfterReap \in SUBSET Motes
           /\ FailuresAfterReap \in [Motes -> 0 .. RetryBudget + 1]
  <1>1. ProjAfterReap \in [Motes -> SUBSET Flags]
    <2>1. "WorkerCrashed" \in FailureReason
      BY DEF FailureReason
    <2>2. QED
      BY <2>1, FoldsTyped DEF CoordinatorTypeOK, ProjAfterReap
  <1>2. CrashFailedAfterReap \in SUBSET Motes
    BY DEF CoordinatorTypeOK, CrashFailedAfterReap, Crashed, Reaped
  <1>3. FailuresAfterReap \in [Motes -> 0 .. RetryBudget + 1]
    BY CoordinatorAssumption DEF CoordinatorTypeOK, FailuresAfterReap
  <1>4. QED
    BY <1>1, <1>2, <1>3

\* Clearing the tracking of a Mote keeps the tracker's type.
LEMMA ResolveTyped ==
    ASSUME CoordinatorTypeOK, NEW m \in Motes, ResolveCommitted(m)
    PROVE  /\ leases' \in SUBSET (Ids \X Motes)
           /\ crash_failed' \in SUBSET Motes
           /\ attempt_failures' \in [Motes -> 0 .. RetryBudget + 1]
  BY CoordinatorAssumption
  DEF CoordinatorTypeOK, ResolveCommitted, ResolveLeases

\* LeaseWork leaves a well-typed coordinator: reap, selection and record
\* together (lease_work, reap_dead_workers, lease_ready).
LEMMA LeaseWorkTyped ==
    ASSUME CoordinatorTypeOK, NEW id \in Ids, NEW items \in SUBSET Motes,
           LeaseWork(id, items)
    PROVE  CoordinatorTypeOK'
  <1>1. leases' \in SUBSET (Ids \X Motes)
    BY DEF CoordinatorTypeOK, LeaseWork
  <1>2. QED
    BY <1>1, ReapTyped
    DEF CoordinatorTypeOK, LeaseWork, dispatch, registry

\* A commit proposal leaves a well-typed coordinator (flush_commits,
\* apply_batch).
LEMMA CommitTyped ==
    ASSUME CoordinatorTypeOK, NEW m \in Motes, NEW verdict \in BOOLEAN,
           Commit(m, verdict)
    PROVE  CoordinatorTypeOK'
  <1>1. proj' \in [Motes -> SUBSET Flags]
    BY FoldsTyped DEF CoordinatorTypeOK, Commit
  <1>2. ResolveCommitted(m)
    BY DEF Commit
  <1>3. valid' \in SUBSET Motes
    BY DEF CoordinatorTypeOK, Commit
  <1>4. QED
    BY <1>1, <1>2, <1>3, ResolveTyped DEF CoordinatorTypeOK, Commit, registry

\* Each answer to a failure report leaves a well-typed coordinator
\* (dead_letter_failure).
LEMMA DeadLetterTyped ==
    ASSUME CoordinatorTypeOK, NEW id \in Ids, NEW m \in Motes,
           DeadLetterFailure(id, m)
    PROVE  CoordinatorTypeOK'
  <1>1. CASE DeadLetterNoOp(m)
    BY <1>1, ResolveTyped
    DEF CoordinatorTypeOK, DeadLetterNoOp, journal, dispatch, registry
  <1>2. CASE DeadLetterAppend(id, m)
    <2>1. proj' \in [Motes -> SUBSET Flags]
      <3>1. "DeadLettered" \in FailureReason
        BY DEF FailureReason
      <3>2. QED
        BY <1>2, <3>1, FoldsTyped DEF CoordinatorTypeOK, DeadLetterAppend
    <2>2. QED
      BY <1>2, <2>1, ResolveTyped
      DEF CoordinatorTypeOK, DeadLetterAppend, registry
  <1>3. CASE DeadLetterRefused(id, m)
    BY <1>3
    DEF CoordinatorTypeOK, DeadLetterRefused, coordinatorVars, journal,
        dispatch, tracker, registry
  <1>4. QED
    BY <1>1, <1>2, <1>3 DEF DeadLetterFailure

\* Journaling an intent leaves a well-typed coordinator (stage_effect).
LEMMA StageTyped ==
    ASSUME CoordinatorTypeOK, NEW m \in Motes, StageEffect(m)
    PROVE  CoordinatorTypeOK'
  <1>1. proj' \in [Motes -> SUBSET Flags]
    BY FoldsTyped DEF CoordinatorTypeOK, StageEffect
  <1>2. QED
    BY <1>1 DEF CoordinatorTypeOK, StageEffect, dispatch, tracker, registry

\* A whole cascade leaves a well-typed coordinator (repudiate_cascade).
LEMMA RepudiateTyped ==
    ASSUME CoordinatorTypeOK, NEW m \in Motes, Repudiate(m)
    PROVE  CoordinatorTypeOK'
  <1>1. proj' \in [Motes -> SUBSET Flags]
    BY FoldsTyped DEF CoordinatorTypeOK, Repudiate
  <1>2. QED
    BY <1>1 DEF CoordinatorTypeOK, Repudiate, dispatch, tracker, registry

\* What recover rebuilds is a well-typed coordinator.
LEMMA RestartTyped ==
    ASSUME CoordinatorTypeOK, Restart
    PROVE  CoordinatorTypeOK'
  BY CoordinatorAssumption DEF CoordinatorTypeOK, Restart, journal

\* A worker's own step does not disturb the coordinator's types.
LEMMA UnchangedTyped ==
    ASSUME CoordinatorTypeOK, UNCHANGED coordinatorVars
    PROVE  CoordinatorTypeOK'
  BY DEF CoordinatorTypeOK, coordinatorVars, journal, dispatch, tracker, registry

\* A fresh coordinator and its unregistered workers are well typed.
LEMMA TypeInit == Init => TypeOK
  <1> SUFFICES ASSUME Init
               PROVE  TypeOK
    OBVIOUS
  <1>1. CoordinatorTypeOK
    <2>1. attempt_failures \in [Motes -> 0 .. RetryBudget + 1]
      BY CoordinatorAssumption DEF Init, CoordinatorInit
    <2>2. proj \in [Motes -> SUBSET Flags]
      BY DEF Init, CoordinatorInit
    <2>3. next_id \in 0 .. MaxWorkers /\ restarts \in 0 .. MaxRestarts
      BY CoordinatorAssumption DEF Init, CoordinatorInit
    <2>4. QED
      BY <2>1, <2>2, <2>3 DEF Init, CoordinatorInit, CoordinatorTypeOK
  <1>2. attempts \in [Workers -> [Motes -> 0 .. WorkerMaxAttempts - 1]]
    BY FleetAssumption DEF Init
  <1>3. task \in [Workers -> [Motes -> TaskState]]
    BY DEF Init, TaskState, Running
  <1>4. QED
    BY <1>1, <1>2, <1>3 DEF Init, TypeOK

\* A change of one task keeps the task table's type.
LEMMA SetTaskTyped ==
    ASSUME TypeOK, NEW w \in Workers, NEW m \in Motes, NEW s \in TaskState,
           SetTask(w, m, s)
    PROVE  task' \in [Workers -> [Motes -> TaskState]]
  BY DEF TypeOK, SetTask

\* Type correctness is inductive: one step per command of the owner thread
\* and per step of a worker.
LEMMA TypeStep == TypeOK /\ [Next]_vars => TypeOK'
  <1> SUFFICES ASSUME TypeOK, [Next]_vars
               PROVE  TypeOK'
    OBVIOUS
  <1> CoordinatorTypeOK
    BY DEF TypeOK
  <1>1. ASSUME ClientRegistersRun
        PROVE  TypeOK'
    BY <1>1
    DEF ClientRegistersRun, RegisterRun, TypeOK, CoordinatorTypeOK, workerVars,
        dispatch, tracker, registry
  <1>2. ASSUME NEW m \in Motes, ClientSubmits(m)
        PROVE  TypeOK'
    BY <1>2
    DEF ClientSubmits, Submit, TypeOK, CoordinatorTypeOK, workerVars, journal,
        tracker, registry
  <1>3. ASSUME NEW m \in Motes, ClientRepudiates(m)
        PROVE  TypeOK'
    BY <1>3, RepudiateTyped DEF ClientRepudiates, TypeOK, workerVars
  <1>4. ASSUME NEW w \in Workers, Register(w)
        PROVE  TypeOK'
    <2>1. PICK id \in Ids : RegisterWorker(id) /\ wid' = [wid EXCEPT ![w] = id]
      BY <1>4 DEF Register
    <2>2. CoordinatorTypeOK'
      BY <2>1, CoordinatorAssumption
      DEF RegisterWorker, CoordinatorTypeOK, Ids, journal, dispatch, tracker
    <2>3. QED
      BY <1>4, <2>1, <2>2 DEF Register, TypeOK
  <1>5. ASSUME NEW w \in Workers, Beat(w)
        PROVE  TypeOK'
    <2>1. wid[w] \in Ids
      BY <1>5 DEF Beat, Known, TypeOK
    <2>2. CoordinatorTypeOK'
      BY <1>5, <2>1
      DEF Beat, Heartbeat, CoordinatorTypeOK, journal, dispatch, tracker
    <2>3. QED
      BY <1>5, <2>2 DEF Beat, TypeOK, workerVars
  <1>6. ASSUME NEW id \in Ids, Silence(id)
        PROVE  TypeOK'
    BY <1>6
    DEF Silence, Timeout, TypeOK, CoordinatorTypeOK, workerVars, journal,
        dispatch, tracker
  <1>7. ASSUME NEW w \in Workers, Lease(w)
        PROVE  TypeOK'
    <2>1. wid[w] \in Ids
      BY <1>7 DEF Lease, Known, TypeOK
    <2>2. PICK items \in SUBSET Candidates(wid[w]), answered \in {TRUE, ~LossyRpc} :
             /\ LeaseWork(wid[w], items)
             /\ task' = [task EXCEPT ![w] =
                           [m \in Motes |-> IF answered /\ m \in items
                                            THEN "leased" ELSE "idle"]]
      BY <1>7 DEF Lease
    <2>3. items \in SUBSET Motes
      BY ReapTyped DEF Candidates, ReadySet
    <2>4. CoordinatorTypeOK'
      BY <2>1, <2>2, <2>3, LeaseWorkTyped
    <2>5. task' \in [Workers -> [Motes -> TaskState]]
      BY <2>2 DEF TypeOK, TaskState, Running
    <2>6. QED
      BY <1>7, <2>4, <2>5 DEF Lease, TypeOK
  <1>8. ASSUME NEW w \in Workers, NEW m \in Motes, Stage(w, m)
        PROVE  TypeOK'
    <2>1. CoordinatorTypeOK'
      BY <1>8, StageTyped, UnchangedTyped DEF Stage
    <2>2. task' \in [Workers -> [Motes -> TaskState]]
      BY <1>8, SetTaskTyped DEF Stage, TaskState, Running
    <2>3. QED
      BY <1>8, <2>1, <2>2 DEF Stage, TypeOK
  <1>9. ASSUME NEW w \in Workers, NEW m \in Motes, Execute(w, m)
        PROVE  TypeOK'
    <2>1. CoordinatorTypeOK'
      BY <1>9, UnchangedTyped DEF Execute
    <2>2. task' \in [Workers -> [Motes -> TaskState]]
      BY <1>9, SetTaskTyped DEF Execute, TaskState, Running
    <2>3. fired' \in [Workers -> [Motes -> 0 .. 2]]
      BY <1>9 DEF Execute, CountFired, TypeOK
    <2>4. QED
      BY <1>9, <2>1, <2>2, <2>3 DEF Execute, TypeOK
  <1>10. ASSUME NEW w \in Workers, NEW m \in Motes, ExecuteFails(w, m)
         PROVE  TypeOK'
    <2>1. CoordinatorTypeOK'
      BY <1>10, UnchangedTyped DEF ExecuteFails
    <2>2. task' \in [Workers -> [Motes -> TaskState]]
      BY <1>10, SetTaskTyped DEF ExecuteFails, TaskState, Running
    <2>3. QED
      BY <1>10, <2>1, <2>2 DEF ExecuteFails, TypeOK
  <1>11. ASSUME NEW w \in Workers, NEW m \in Motes, ReportCommit(w, m)
         PROVE  TypeOK'
    <2>1. CoordinatorTypeOK'
      BY <1>11, CommitTyped, UnchangedTyped DEF ReportCommit
    <2>2. task' \in [Workers -> [Motes -> TaskState]]
      BY <1>11, SetTaskTyped DEF ReportCommit, TaskState, Running
    <2>3. attempts' \in [Workers -> [Motes -> 0 .. WorkerMaxAttempts - 1]]
      BY <1>11, FleetAssumption DEF ReportCommit, TypeOK
    <2>4. QED
      BY <1>11, <2>1, <2>2, <2>3 DEF ReportCommit, TypeOK
  <1>12. ASSUME NEW w \in Workers, NEW m \in Motes, HandleFailure(w, m)
         PROVE  TypeOK'
    <2>1. CoordinatorTypeOK'
      BY <1>12, UnchangedTyped DEF HandleFailure
    <2>2. task' \in [Workers -> [Motes -> TaskState]]
      BY <1>12, SetTaskTyped DEF HandleFailure, TaskState, Running
    <2>3. attempts' \in [Workers -> [Motes -> 0 .. WorkerMaxAttempts - 1]]
      BY <1>12, FleetAssumption DEF HandleFailure, AttemptsExhausted, TypeOK
    <2>4. QED
      BY <1>12, <2>1, <2>2, <2>3 DEF HandleFailure, TypeOK
  <1>13. ASSUME NEW w \in Workers, NEW m \in Motes, ReportFailure(w, m)
         PROVE  TypeOK'
    <2>1. CoordinatorTypeOK'
      <3>1. CASE Known(w) /\ DeadLetterFailure(wid[w], m)
        <4>1. wid[w] \in Ids
          BY <3>1 DEF Known, TypeOK
        <4>2. QED
          BY <3>1, <4>1, DeadLetterTyped
      <3>2. CASE UNCHANGED coordinatorVars
        BY <3>2, UnchangedTyped
      <3>3. QED
        BY <1>13, <3>1, <3>2 DEF ReportFailure
    <2>2. task' \in [Workers -> [Motes -> TaskState]]
      BY <1>13, SetTaskTyped DEF ReportFailure, TaskState, Running
    <2>3. QED
      BY <1>13, <2>1, <2>2 DEF ReportFailure, TypeOK
  <1>14. ASSUME NEW w \in Workers, Crash(w)
         PROVE  TypeOK'
    <2>1. CoordinatorTypeOK'
      BY <1>14, UnchangedTyped DEF Crash
    <2>2. QED
      BY <1>14, <2>1, FleetAssumption DEF Crash, TypeOK, TaskState, Running
  <1>15. ASSUME CoordinatorRestarts
         PROVE  TypeOK'
    <2>1. CoordinatorTypeOK'
      BY <1>15, RestartTyped DEF CoordinatorRestarts
    <2>2. QED
      BY <1>15, <2>1, FleetAssumption
      DEF CoordinatorRestarts, TypeOK, TaskState, Running
  <1>16. CASE UNCHANGED vars
    <2>1. CoordinatorTypeOK'
      BY <1>16, UnchangedTyped DEF vars
    <2>2. QED
      BY <1>16, <2>1 DEF vars, workerVars, TypeOK
  <1>17. QED
    BY <1>1, <1>2, <1>3, <1>4, <1>5, <1>6, <1>7, <1>8, <1>9, <1>10, <1>11,
       <1>12, <1>13, <1>14, <1>15, <1>16
    DEF Next, WorkerStep

\* Every variable of the coordinator and of its workers keeps its type, the
\* crash counter its bound and the worker's attempt counter its limit, whatever
\* is lost, timed out or restarted.
THEOREM TypeCorrect == Spec => []TypeOK
  BY TypeInit, TypeStep, PTL DEF Spec

-----------------------------------------------------------------------------
(* What one step can do to the flags of the projection *)

\* Every step of the fleet keeps the commits and the staged intents that were
\* journaled (the log is append-only, the fold prefix-monotone).
LEMMA FlagsPersist ==
    ASSUME TypeOK, [Next]_vars, NEW m \in Motes, NEW f \in {"committed", "staged"},
           f \in proj[m]
    PROVE  f \in proj'[m]
  <1> proj \in [Motes -> SUBSET Flags]
    BY DEF TypeOK, CoordinatorTypeOK
  <1> "WorkerCrashed" \in FailureReason /\ "DeadLettered" \in FailureReason
    BY DEF FailureReason
  <1>f. /\ f \in FoldCommitted(proj[m])
        /\ f \in FoldEffectStaged(proj[m])
        /\ f \in FoldFailed(proj[m], "WorkerCrashed")
        /\ f \in FoldFailed(proj[m], "DeadLettered")
        /\ f \in FoldRepudiated(proj[m], TRUE)
    <2>1. ASSUME NEW info \in SUBSET Flags, f \in info
          PROVE  /\ f \in FoldCommitted(info)
                 /\ f \in FoldEffectStaged(info)
                 /\ \A r \in FailureReason : f \in FoldFailed(info, r)
                 /\ f \in FoldRepudiated(info, TRUE)
      BY <2>1 DEF FoldCommitted, FoldEffectStaged, FoldFailed, FoldRepudiated
    <2>2. proj[m] \in SUBSET Flags
      OBVIOUS
    <2>3. QED
      BY <2>1, <2>2
  <1>1. CASE UNCHANGED proj
    BY <1>1
  <1>2. ASSUME NEW t \in Motes, ClientRepudiates(t)
        PROVE  f \in proj'[m]
    BY <1>2, <1>f DEF ClientRepudiates, Repudiate
  <1>3. ASSUME NEW w \in Workers, Lease(w)
        PROVE  f \in proj'[m]
    BY <1>3, <1>f DEF Lease, LeaseWork, ProjAfterReap
  <1>4. ASSUME NEW w \in Workers, NEW n \in Motes, Stage(w, n)
        PROVE  f \in proj'[m]
    BY <1>4, <1>f DEF Stage, StageEffect, coordinatorVars, journal
  <1>5. ASSUME NEW w \in Workers, NEW n \in Motes, ReportCommit(w, n)
        PROVE  f \in proj'[m]
    BY <1>5, <1>f DEF ReportCommit, Commit, coordinatorVars, journal
  <1>6. ASSUME NEW w \in Workers, NEW n \in Motes, ReportFailure(w, n)
        PROVE  f \in proj'[m]
    BY <1>6, <1>f
    DEF ReportFailure, DeadLetterFailure, DeadLetterNoOp, DeadLetterAppend,
        DeadLetterRefused, coordinatorVars, journal
  <1>7. ASSUME NEW w \in Workers, Register(w) \/ Beat(w) \/ Crash(w)
        PROVE  UNCHANGED proj
    BY <1>7
    DEF Register, RegisterWorker, Beat, Heartbeat, Crash, coordinatorVars, journal
  <1>8. ASSUME NEW w \in Workers, NEW n \in Motes,
               Execute(w, n) \/ ExecuteFails(w, n) \/ HandleFailure(w, n)
        PROVE  UNCHANGED proj
    BY <1>8 DEF Execute, ExecuteFails, HandleFailure, coordinatorVars, journal
  <1>9. ASSUME ClientRegistersRun \/ (\E n \in Motes : ClientSubmits(n))
                 \/ (\E id \in Ids : Silence(id)) \/ CoordinatorRestarts
                 \/ UNCHANGED vars
        PROVE  UNCHANGED proj
    BY <1>9
    DEF ClientRegistersRun, RegisterRun, ClientSubmits, Submit, Silence, Timeout,
        CoordinatorRestarts, Restart, vars, coordinatorVars, journal
  <1>10. QED
    BY <1>1, <1>2, <1>3, <1>4, <1>5, <1>6, <1>7, <1>8, <1>9
    DEF Next, WorkerStep

-----------------------------------------------------------------------------
(* Causal closure *)

\* m is somewhere between its first lease and its end: a worker deals with it,
\* an id holds it, or it waits to be offered again.
Work(m) ==
    \/ m \in crash_failed
    \/ Holders(leases, m) # {}
    \/ \E w \in Workers : task[w][m] # "idle"

InputsCommitted(m) == \A p \in Parents[m] : "committed" \in proj[p]

\* The inductive strengthening of CausalClosure: what is being worked on has
\* its inputs committed, so a proposal can come as late as it likes.
CausalInv == CausalClosure /\ \A m \in Motes : Work(m) => InputsCommitted(m)

\* Only the classification Committed lets a parent through to the ready set.
LEMMA CommittedState ==
    ASSUME NEW info, StateOf(info) = "Committed"
    PROVE  "committed" \in info
  BY DEF StateOf

\* A step takes up work on a Mote only through a lease, and a lease offers only
\* what is ready or was worked on before (lease_ready).
LEMMA WorkBegins ==
    ASSUME TypeOK, [Next]_vars, NEW m \in Motes, Work(m)'
    PROVE  \/ Work(m)
           \/ /\ Ready(ProjAfterReap, declared, valid, m)
              /\ proj' = ProjAfterReap /\ valid' = valid
  <1>1. ASSUME NEW w \in Workers, Lease(w)
        PROVE  \/ Work(m)
               \/ /\ Ready(ProjAfterReap, declared, valid, m)
                  /\ proj' = ProjAfterReap /\ valid' = valid
    <2>1. PICK items \in SUBSET Candidates(wid[w]), answered \in {TRUE, ~LossyRpc} :
             /\ LeaseWork(wid[w], items)
             /\ task' = [task EXCEPT ![w] =
                           [n \in Motes |-> IF answered /\ n \in items
                                            THEN "leased" ELSE "idle"]]
      BY <1>1 DEF Lease
    <2>2. m \in items \/ m \in CrashFailedAfterReap \/ Work(m)
      BY <2>1 DEF Work, Holders, LeaseWork, TypeOK
    <2>3. m \in CrashFailedAfterReap => Work(m)
      BY DEF CrashFailedAfterReap, Crashed, Reaped, TakenLeases, Work, Holders
    <2>4. ASSUME m \in items, m \notin CrashFailedAfterReap
          PROVE  Ready(ProjAfterReap, declared, valid, m)
      BY <2>4 DEF Candidates, ReadySet
    <2>5. proj' = ProjAfterReap /\ valid' = valid
      BY <2>1 DEF LeaseWork
    <2>6. QED
      BY <2>2, <2>3, <2>4, <2>5
  <1>2. ASSUME NEW w \in Workers, NEW n \in Motes,
               Stage(w, n) \/ Execute(w, n) \/ ExecuteFails(w, n)
        PROVE  Work(m)
    <2>1. UNCHANGED tracker /\ task[w][n] # "idle"
      BY <1>2
      DEF Stage, StageEffect, Execute, ExecuteFails, AtDispatch, coordinatorVars
    <2>2. \A v \in Workers : task'[v][m] # "idle" => task[v][m] # "idle"
      BY <1>2, <2>1 DEF Stage, Execute, ExecuteFails, SetTask, TypeOK
    <2>3. QED
      BY <2>1, <2>2 DEF Work, Holders, tracker
  <1>3. ASSUME NEW w \in Workers, NEW n \in Motes,
               ReportCommit(w, n) \/ HandleFailure(w, n) \/ ReportFailure(w, n)
        PROVE  Work(m)
    <2>1. leases' \subseteq leases /\ crash_failed' \subseteq crash_failed
      BY <1>3
      DEF ReportCommit, Commit, HandleFailure, ReportFailure, DeadLetterFailure,
          DeadLetterNoOp, DeadLetterAppend, DeadLetterRefused, ResolveCommitted,
          ResolveLeases, coordinatorVars, tracker
    <2>2. task[w][n] # "idle"
      BY <1>3 DEF ReportCommit, HandleFailure, ReportFailure
    <2>3. \A v \in Workers : task'[v][m] # "idle" => task[v][m] # "idle"
      <3>1. PICK s : SetTask(w, n, s)
        BY <1>3 DEF ReportCommit, HandleFailure, ReportFailure
      <3>2. QED
        BY <3>1, <2>2 DEF SetTask, TypeOK
    <2>4. QED
      BY <2>1, <2>3 DEF Work, Holders
  <1>4. ASSUME NEW w \in Workers, Register(w) \/ Beat(w)
        PROVE  Work(m)
    BY <1>4
    DEF Register, RegisterWorker, Beat, Heartbeat, Work, Holders, tracker, workerVars
  <1>5. ASSUME NEW w \in Workers, Crash(w)
        PROVE  Work(m)
    BY <1>5 DEF Crash, Work, Holders, coordinatorVars, tracker, TypeOK
  <1>6. ASSUME CoordinatorRestarts
        PROVE  Work(m)
    <2>1. leases' = {} /\ crash_failed' = {}
      BY <1>6 DEF CoordinatorRestarts, Restart
    <2>2. \A v \in Workers : task'[v][m] # "idle" => task[v][m] # "idle"
      BY <1>6 DEF CoordinatorRestarts, TypeOK
    <2>3. QED
      BY <2>1, <2>2 DEF Work, Holders
  <1>7. ASSUME ClientRegistersRun \/ (\E n \in Motes : ClientSubmits(n))
                 \/ (\E n \in Motes : ClientRepudiates(n))
                 \/ (\E id \in Ids : Silence(id)) \/ UNCHANGED vars
        PROVE  Work(m)
    BY <1>7
    DEF ClientRegistersRun, RegisterRun, ClientSubmits, Submit, ClientRepudiates,
        Repudiate, Silence, Timeout, vars, coordinatorVars, tracker, workerVars,
        Work, Holders
  <1>8. QED
    BY <1>1, <1>2, <1>3, <1>4, <1>5, <1>6, <1>7 DEF Next, WorkerStep

\* Hence work is taken up on committed inputs only.
LEMMA WorkBeginsOnInputs ==
    ASSUME TypeOK, [Next]_vars, NEW m \in Motes, Work(m)'
    PROVE  Work(m) \/ InputsCommitted(m)'
  <1>1. ASSUME Ready(ProjAfterReap, declared, valid, m), proj' = ProjAfterReap
        PROVE  InputsCommitted(m)'
    <2>1. \A p \in Parents[m] : StateOf(ProjAfterReap[p]) = "Committed"
      BY <1>1 DEF Ready
    <2>2. QED
      BY <1>1, <2>1, CommittedState DEF InputsCommitted
  <1>2. QED
    BY <1>1, WorkBegins

\* A Mote becomes committed only by the proposal of a worker that had it in
\* hand (report_commit, flush_commits).
LEMMA CommitComesFromWork ==
    ASSUME TypeOK, [Next]_vars, NEW m \in Motes,
           "committed" \in proj'[m], "committed" \notin proj[m]
    PROVE  Work(m)
  <1> "WorkerCrashed" \in FailureReason /\ "DeadLettered" \in FailureReason
    BY DEF FailureReason
  <1> proj \in [Motes -> SUBSET Flags]
    BY DEF TypeOK, CoordinatorTypeOK
  <1>f. /\ "committed" \notin FoldEffectStaged(proj[m])
        /\ "committed" \notin FoldFailed(proj[m], "WorkerCrashed")
        /\ "committed" \notin FoldFailed(proj[m], "DeadLettered")
        /\ "committed" \notin FoldRepudiated(proj[m], TRUE)
    BY FoldsKeepFlags
  <1>1. ASSUME NEW w \in Workers, NEW n \in Motes, ReportCommit(w, n)
        PROVE  Work(m)
    <2>1. n = m /\ task[w][n] = "done"
      BY <1>1 DEF ReportCommit, Commit, coordinatorVars, journal
    <2>2. QED
      BY <2>1 DEF Work
  <1>2. ASSUME NEW t \in Motes, ClientRepudiates(t)
        PROVE  FALSE
    BY <1>2, <1>f DEF ClientRepudiates, Repudiate
  <1>3. ASSUME NEW w \in Workers, Lease(w)
        PROVE  FALSE
    BY <1>3, <1>f DEF Lease, LeaseWork, ProjAfterReap
  <1>4. ASSUME NEW w \in Workers, NEW n \in Motes, Stage(w, n)
        PROVE  FALSE
    BY <1>4, <1>f DEF Stage, StageEffect, coordinatorVars, journal
  <1>5. ASSUME NEW w \in Workers, NEW n \in Motes, ReportFailure(w, n)
        PROVE  FALSE
    BY <1>5, <1>f
    DEF ReportFailure, DeadLetterFailure, DeadLetterNoOp, DeadLetterAppend,
        DeadLetterRefused, coordinatorVars, journal
  <1>6. ASSUME NEW w \in Workers, Register(w) \/ Beat(w) \/ Crash(w)
        PROVE  FALSE
    BY <1>6
    DEF Register, RegisterWorker, Beat, Heartbeat, Crash, coordinatorVars, journal
  <1>7. ASSUME NEW w \in Workers, NEW n \in Motes,
               Execute(w, n) \/ ExecuteFails(w, n) \/ HandleFailure(w, n)
        PROVE  FALSE
    BY <1>7 DEF Execute, ExecuteFails, HandleFailure, coordinatorVars, journal
  <1>8. ASSUME ClientRegistersRun \/ (\E n \in Motes : ClientSubmits(n))
                 \/ (\E id \in Ids : Silence(id)) \/ CoordinatorRestarts
                 \/ UNCHANGED vars
        PROVE  FALSE
    BY <1>8
    DEF ClientRegistersRun, RegisterRun, ClientSubmits, Submit, Silence, Timeout,
        CoordinatorRestarts, Restart, vars, coordinatorVars, journal
  <1>9. QED
    BY <1>1, <1>2, <1>3, <1>4, <1>5, <1>6, <1>7, <1>8 DEF Next, WorkerStep

\* CausalInv is inductive: work begins on committed inputs, commits come from
\* work, and commits stay.
LEMMA CausalStep == TypeOK /\ CausalInv /\ [Next]_vars => CausalInv'
  <1> SUFFICES ASSUME TypeOK, CausalInv, [Next]_vars
               PROVE  CausalInv'
    OBVIOUS
  <1>1. ASSUME NEW m \in Motes, InputsCommitted(m)
        PROVE  InputsCommitted(m)'
    BY <1>1, FlagsPersist, GraphAssumption DEF InputsCommitted
  <1>2. ASSUME NEW m \in Motes, Work(m)'
        PROVE  InputsCommitted(m)'
    BY <1>1, <1>2, WorkBeginsOnInputs DEF CausalInv
  <1>3. ASSUME NEW m \in Motes, "committed" \in proj'[m]
        PROVE  InputsCommitted(m)'
    <2>1. InputsCommitted(m)
      BY <1>3, CommitComesFromWork DEF CausalInv, CausalClosure, InputsCommitted
    <2>2. QED
      BY <2>1, <1>1
  <1>4. QED
    BY <1>2, <1>3 DEF CausalInv, CausalClosure, InputsCommitted

\* No result overtakes the inputs it was computed from: whatever is leased,
\* reaped, re-leased, reported late, repudiated or restarted, a committed Mote
\* has every input committed (ready_set_impl_with, lease_ready, flush_commits).
THEOREM Causality == Spec => []CausalClosure
  <1>1. Init => CausalInv
    BY DEF Init, CoordinatorInit, CausalInv, CausalClosure, Work, Holders
  <1>2. CausalInv => CausalClosure
    BY DEF CausalInv
  <1>3. QED
    BY <1>1, <1>2, TypeCorrect, CausalStep, PTL DEF Spec

-----------------------------------------------------------------------------
(* Exclusive leases *)

\* Only LeaseWork hands out leases; every other step keeps or drops them.
LEMMA OnlyLeaseGrants ==
    ASSUME TypeOK, [Next]_vars
    PROVE  leases' \subseteq leases \/ \E w \in Workers : Lease(w)
  <1>1. ASSUME NEW w \in Workers, Register(w) \/ Beat(w) \/ Crash(w)
        PROVE  leases' = leases
    BY <1>1
    DEF Register, RegisterWorker, Beat, Heartbeat, Crash, coordinatorVars, tracker
  <1>2. ASSUME NEW w \in Workers, NEW n \in Motes,
               \/ Stage(w, n) \/ Execute(w, n)
               \/ ExecuteFails(w, n) \/ HandleFailure(w, n)
        PROVE  leases' = leases
    BY <1>2
    DEF Stage, StageEffect, Execute, ExecuteFails, HandleFailure, coordinatorVars,
        tracker
  <1>3. ASSUME NEW w \in Workers, NEW n \in Motes,
               ReportCommit(w, n) \/ ReportFailure(w, n)
        PROVE  leases' \subseteq leases
    BY <1>3
    DEF ReportCommit, Commit, ReportFailure, DeadLetterFailure, DeadLetterNoOp,
        DeadLetterAppend, DeadLetterRefused, ResolveCommitted, ResolveLeases,
        coordinatorVars, tracker
  <1>4. ASSUME CoordinatorRestarts
        PROVE  leases' \subseteq leases
    BY <1>4 DEF CoordinatorRestarts, Restart
  <1>5. ASSUME ClientRegistersRun \/ (\E n \in Motes : ClientSubmits(n))
                 \/ (\E n \in Motes : ClientRepudiates(n))
                 \/ (\E id \in Ids : Silence(id)) \/ UNCHANGED vars
        PROVE  leases' = leases
    BY <1>5
    DEF ClientRegistersRun, RegisterRun, ClientSubmits, Submit, ClientRepudiates,
        Repudiate, Silence, Timeout, vars, coordinatorVars, tracker
  <1>6. QED
    BY <1>1, <1>2, <1>3, <1>4, <1>5 DEF Next, WorkerStep

\* A grant respects the holders that the reap left in place (is_leased_by_other
\* is asked after take_leases, in the same command).
LEMMA GrantIsExclusive ==
    ASSUME TypeOK, OneHolder, NEW id \in Ids, NEW items, LeaseWork(id, items)
    PROVE  OneHolder'
  <1> SUFFICES ASSUME NEW m \in Motes, NEW i \in Holders(leases', m),
                      NEW j \in Holders(leases', m)
               PROVE  i = j
    BY DEF OneHolder
  <1>1. leases' = (leases \ TakenLeases) \cup ({id} \X items)
    BY DEF LeaseWork
  <1>2. CASE m \in items
    <2>1. Holders(leases \ TakenLeases, m) \ {id} = {}
      BY <1>2 DEF LeaseWork, Candidates, is_leased_by_other
    <2>2. i = id /\ j = id
      BY <1>1, <2>1 DEF Holders
    <2>3. QED
      BY <2>2
  <1>3. CASE m \notin items
    <2>1. i \in Holders(leases, m) /\ j \in Holders(leases, m)
      BY <1>1, <1>3 DEF Holders
    <2>2. QED
      BY <2>1 DEF OneHolder
  <1>4. QED
    BY <1>2, <1>3

\* OneHolder is inductive together with the types.
LEMMA HolderStep == TypeOK /\ OneHolder /\ [Next]_vars => OneHolder'
  <1> SUFFICES ASSUME TypeOK, OneHolder, [Next]_vars
               PROVE  OneHolder'
    OBVIOUS
  <1>1. CASE leases' \subseteq leases
    BY <1>1 DEF OneHolder, Holders
  <1>2. ASSUME NEW w \in Workers, Lease(w)
        PROVE  OneHolder'
    <2>1. wid[w] \in Ids
      BY <1>2 DEF Lease, Known, TypeOK
    <2>2. PICK items : LeaseWork(wid[w], items)
      BY <1>2 DEF Lease
    <2>3. QED
      BY <2>1, <2>2, GrantIsExclusive
  <1>3. QED
    BY <1>1, <1>2, OnlyLeaseGrants

\* For any number of workers and whatever timeouts, crashes, lost answers and
\* restarts occur, no Mote is leased to two worker ids at a time (lease_ready).
THEOREM ExclusiveLeases == Spec => []OneHolder
  <1>1. Init => OneHolder
    BY DEF Init, CoordinatorInit, OneHolder, Holders
  <1>2. QED
    BY <1>1, TypeCorrect, HolderStep, PTL DEF Spec

-----------------------------------------------------------------------------
(* Write-ahead staging *)

\* The inductive strengthening of StagedBeforeFired: a worker that stands at
\* broker.dispatch, too, has its intent in the journal.
WriteAheadInv ==
    \A w \in Workers, m \in Motes :
        /\ Class[m] = "Staged"
        /\ task[w][m] = "ready" \/ fired[w][m] > 0
        => "staged" \in proj[m]

\* Only an acknowledged stage brings a worker to the dispatch of a
\* StageThenCommit Mote (run_wm).
LEMMA ReadyComesFromStage ==
    ASSUME TypeOK, [Next]_vars, NEW v \in Workers, NEW m \in Motes,
           task'[v][m] = "ready", task[v][m] # "ready"
    PROVE  "staged" \in proj'[m]
  <1> proj \in [Motes -> SUBSET Flags] /\ task \in [Workers -> [Motes -> TaskState]]
    BY DEF TypeOK, CoordinatorTypeOK
  <1>1. ASSUME NEW w \in Workers, NEW n \in Motes, Stage(w, n)
        PROVE  "staged" \in proj'[m]
    <2>1. w = v /\ n = m /\ StageEffect(n)
      BY <1>1 DEF Stage, SetTask
    <2>2. QED
      BY <2>1, FoldsKeepFlags DEF StageEffect
  <1>2. ASSUME NEW w \in Workers, NEW n \in Motes, NEW s, SetTask(w, n, s),
               s # "ready"
        PROVE  FALSE
    BY <1>2 DEF SetTask
  <1>3. ASSUME NEW w \in Workers, NEW n \in Motes,
               \/ Execute(w, n) \/ ExecuteFails(w, n) \/ ReportCommit(w, n)
               \/ HandleFailure(w, n) \/ ReportFailure(w, n)
        PROVE  FALSE
    <2>1. PICK s : SetTask(w, n, s) /\ s # "ready"
      BY <1>3 DEF Execute, ExecuteFails, ReportCommit, HandleFailure, ReportFailure
    <2>2. QED
      BY <2>1, <1>2
  <1>4. ASSUME NEW w \in Workers, Lease(w) \/ Crash(w)
        PROVE  FALSE
    BY <1>4 DEF Lease, Crash
  <1>5. ASSUME CoordinatorRestarts
        PROVE  FALSE
    BY <1>5 DEF CoordinatorRestarts
  <1>6. ASSUME ClientRegistersRun \/ (\E n \in Motes : ClientSubmits(n))
                 \/ (\E n \in Motes : ClientRepudiates(n))
                 \/ (\E w \in Workers : Register(w) \/ Beat(w))
                 \/ (\E id \in Ids : Silence(id)) \/ UNCHANGED vars
        PROVE  FALSE
    BY <1>6
    DEF ClientRegistersRun, ClientSubmits, ClientRepudiates, Register, Beat,
        Silence, vars, workerVars
  <1>7. QED
    BY <1>1, <1>3, <1>4, <1>5, <1>6 DEF Next, WorkerStep

\* An effect is counted only by the worker that stands at its dispatch.
LEMMA FiredComesFromDispatch ==
    ASSUME TypeOK, [Next]_vars, NEW v \in Workers, NEW m \in Motes,
           fired'[v][m] # fired[v][m]
    PROVE  Execute(v, m) /\ AtDispatch(v, m)
  <1>1. ASSUME NEW w \in Workers, NEW n \in Motes, Execute(w, n)
        PROVE  Execute(v, m) /\ AtDispatch(v, m)
    <2>1. w = v /\ n = m
      BY <1>1 DEF Execute, CountFired, TypeOK
    <2>2. QED
      BY <1>1, <2>1 DEF Execute
  <1>2. ASSUME NEW w \in Workers, NEW n \in Motes,
               \/ Stage(w, n) \/ ExecuteFails(w, n) \/ ReportCommit(w, n)
               \/ HandleFailure(w, n) \/ ReportFailure(w, n)
        PROVE  fired' = fired
    BY <1>2 DEF Stage, ExecuteFails, ReportCommit, HandleFailure, ReportFailure
  <1>3. ASSUME NEW w \in Workers, Register(w) \/ Lease(w) \/ Beat(w) \/ Crash(w)
        PROVE  fired' = fired
    BY <1>3 DEF Register, Lease, Beat, Crash
  <1>4. ASSUME ClientRegistersRun \/ (\E n \in Motes : ClientSubmits(n))
                 \/ (\E n \in Motes : ClientRepudiates(n))
                 \/ (\E id \in Ids : Silence(id)) \/ CoordinatorRestarts
                 \/ UNCHANGED vars
        PROVE  fired' = fired
    BY <1>4
    DEF ClientRegistersRun, ClientSubmits, ClientRepudiates, Silence,
        CoordinatorRestarts, vars
  <1>5. QED
    BY <1>1, <1>2, <1>3, <1>4 DEF Next, WorkerStep

\* WriteAheadInv is inductive: a flag once journaled stays, so only a worker
\* reaching its dispatch, or passing it, has to be looked at.
LEMMA WriteAheadStep == TypeOK /\ WriteAheadInv /\ [Next]_vars => WriteAheadInv'
  <1> SUFFICES ASSUME TypeOK, WriteAheadInv, [Next]_vars,
                      NEW w \in Workers, NEW m \in Motes, Class[m] = "Staged",
                      task'[w][m] = "ready" \/ fired'[w][m] > 0
               PROVE  "staged" \in proj'[m]
    BY DEF WriteAheadInv
  <1>1. CASE "staged" \in proj[m]
    BY <1>1, FlagsPersist
  <1>2. CASE task'[w][m] = "ready" /\ task[w][m] # "ready"
    BY <1>2, ReadyComesFromStage
  <1>3. CASE fired'[w][m] # fired[w][m]
    <2>1. task[w][m] = "ready"
      BY <1>3, FiredComesFromDispatch DEF AtDispatch
    <2>2. QED
      BY <2>1, <1>1 DEF WriteAheadInv
  <1>4. QED
    BY <1>1, <1>2, <1>3 DEF WriteAheadInv

\* Whatever is lost between worker and coordinator, whoever crashes or is
\* restarted, the journal knows of every StageThenCommit effect in the world
\* (run_wm, stage_effect).
THEOREM WriteAhead == Spec => []StagedBeforeFired
  <1>1. Init => WriteAheadInv
    BY DEF Init, WriteAheadInv
  <1>2. WriteAheadInv => StagedBeforeFired
    BY DEF WriteAheadInv, StagedBeforeFired, Fired
  <1>3. QED
    BY <1>1, <1>2, TypeCorrect, WriteAheadStep, PTL DEF Spec

=============================================================================
