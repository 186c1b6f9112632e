---------------------------- MODULE FateProofs -----------------------------
(***************************************************************************)
(* Further theorems about module Fleet: whose effects are fired once, what *)
(* a critic holds back, which crash-failed Motes stay on offer, and that   *)
(* the fleet implements the ledger of Mote fates (module MoteLedger).      *)
(***************************************************************************)
EXTENDS FleetProofs

-----------------------------------------------------------------------------
(* What one step can do, variable by variable *)

\* The projection changes in five ways only: a reap, a staged intent, a commit,
\* a dead letter, a cascade.
LEMMA ProjSteps ==
    ASSUME TypeOK, [Next]_vars
    PROVE  \/ UNCHANGED proj
           \/ \E w \in Workers : Lease(w) /\ proj' = ProjAfterReap
           \/ \E w \in Workers, m \in Motes : Stage(w, m) /\ StageEffect(m)
           \/ \E w \in Workers, m \in Motes :
                 /\ ReportCommit(w, m)
                 /\ \E verdict \in BOOLEAN : Commit(m, verdict)
           \/ \E w \in Workers, m \in Motes :
                 ReportFailure(w, m) /\ DeadLetterAppend(wid[w], m)
           \/ \E m \in Motes : Repudiate(m)
  <1>2. ASSUME NEW w \in Workers, Lease(w)
        PROVE  proj' = ProjAfterReap
    BY <1>2 DEF Lease, LeaseWork
  <1>3. ASSUME NEW w \in Workers, NEW m \in Motes, Stage(w, m)
        PROVE  UNCHANGED proj \/ StageEffect(m)
    BY <1>3 DEF Stage, coordinatorVars, journal
  <1>4. ASSUME NEW w \in Workers, NEW m \in Motes, ReportCommit(w, m)
        PROVE  UNCHANGED proj \/ \E verdict \in BOOLEAN : Commit(m, verdict)
    BY <1>4 DEF ReportCommit, coordinatorVars, journal
  <1>5. ASSUME NEW w \in Workers, NEW m \in Motes, ReportFailure(w, m)
        PROVE  UNCHANGED proj \/ DeadLetterAppend(wid[w], m)
    BY <1>5
    DEF ReportFailure, DeadLetterFailure, DeadLetterNoOp, DeadLetterRefused,
        coordinatorVars, journal
  <1>6. ASSUME NEW w \in Workers, Register(w) \/ Beat(w) \/ Crash(w)
        PROVE  UNCHANGED proj
    BY <1>6
    DEF Register, RegisterWorker, Beat, Heartbeat, Crash, coordinatorVars, journal
  <1>7. ASSUME NEW w \in Workers, NEW n \in Motes,
               Execute(w, n) \/ ExecuteFails(w, n) \/ HandleFailure(w, n)
        PROVE  UNCHANGED proj
    BY <1>7 DEF Execute, ExecuteFails, HandleFailure, coordinatorVars, journal
  <1>8. ASSUME ClientRegistersRun \/ (\E n \in Motes : ClientSubmits(n))
                 \/ (\E id \in Ids : Silence(id)) \/ CoordinatorRestarts
                 \/ UNCHANGED vars
        PROVE  UNCHANGED proj
    BY <1>8
    DEF ClientRegistersRun, RegisterRun, ClientSubmits, Submit, Silence, Timeout,
        CoordinatorRestarts, Restart, vars, coordinatorVars, journal
  <1>9. ASSUME NEW m \in Motes, ClientRepudiates(m)
        PROVE  Repudiate(m)
    BY <1>9 DEF ClientRepudiates
  <1>10. QED
    BY <1>2, <1>3, <1>4, <1>5, <1>6, <1>7, <1>8, <1>9 DEF Next, WorkerStep

\* The flags the fleet's entries bring are never taken back (Projection::fold;
\* only a Proposed entry, which the coordinator does not write, clears one).
LEMMA AllFlagsPersist ==
    ASSUME TypeOK, [Next]_vars, NEW m \in Motes, NEW f \in proj[m]
    PROVE  f \in proj'[m]
  <1> proj \in [Motes -> SUBSET Flags]
    BY DEF TypeOK, CoordinatorTypeOK
  <1>1. ASSUME NEW info, f \in info
        PROVE  /\ f \in FoldCommitted(info)
               /\ f \in FoldEffectStaged(info)
               /\ \A r : f \in FoldFailed(info, r)
               /\ f \in FoldRepudiated(info, TRUE)
    BY <1>1 DEF FoldCommitted, FoldEffectStaged, FoldFailed, FoldRepudiated
  <1>2. CASE proj' = ProjAfterReap
    BY <1>1, <1>2 DEF ProjAfterReap
  <1>3. ASSUME NEW n \in Motes, StageEffect(n)
        PROVE  f \in proj'[m]
    BY <1>1, <1>3 DEF StageEffect
  <1>4. ASSUME NEW n \in Motes, NEW verdict \in BOOLEAN, Commit(n, verdict)
        PROVE  f \in proj'[m]
    BY <1>1, <1>4 DEF Commit
  <1>5. ASSUME NEW n \in Motes, NEW id, DeadLetterAppend(id, n)
        PROVE  f \in proj'[m]
    BY <1>1, <1>5 DEF DeadLetterAppend
  <1>6. ASSUME NEW n \in Motes, Repudiate(n)
        PROVE  f \in proj'[m]
    BY <1>1, <1>6 DEF Repudiate
  <1>7. QED
    BY <1>2, <1>3, <1>4, <1>5, <1>6, ProjSteps

\* How far a worker has got with a Mote changes along one path: leased, staged,
\* run, dealt with (run_once, handle_execution_failure).
LEMMA TaskSteps ==
    ASSUME TypeOK, [Next]_vars, NEW v \in Workers, NEW m \in Motes,
           task'[v][m] # task[v][m], task'[v][m] # "idle"
    PROVE  /\ v \in up
           /\ \/ Lease(v) /\ task'[v][m] = "leased"
              \/ /\ Class[m] = "Staged"
                 /\ task[v][m] = "leased"
                 /\ task'[v][m] \in {"ready", "transient"}
              \/ /\ AtDispatch(v, m)
                 /\ \/ task'[v][m] = "done"
                    \/ m \in Failing /\ task'[v][m] \in {"transient", "terminal"}
              \/ /\ task[v][m] \in {"transient", "terminal"}
                 /\ task'[v][m] = "dead"
  <1> task \in [Workers -> [Motes -> TaskState]]
    BY DEF TypeOK
  <1>1. ASSUME NEW w \in Workers, NEW n \in Motes, NEW s, SetTask(w, n, s)
        PROVE  w = v /\ n = m /\ task'[v][m] = s
    BY <1>1 DEF SetTask
  <1>2. ASSUME NEW w \in Workers, NEW n \in Motes, Stage(w, n)
        PROVE  /\ w = v /\ n = m /\ v \in up /\ Class[m] = "Staged"
               /\ task[v][m] = "leased" /\ task'[v][m] \in {"ready", "transient"}
    BY <1>1, <1>2 DEF Stage
  <1>3. ASSUME NEW w \in Workers, NEW n \in Motes, Execute(w, n) \/ ExecuteFails(w, n)
        PROVE  /\ w = v /\ n = m /\ v \in up /\ AtDispatch(v, m)
               /\ \/ task'[v][m] = "done"
                  \/ m \in Failing /\ task'[v][m] \in {"transient", "terminal"}
    BY <1>1, <1>3 DEF Execute, ExecuteFails
  <1>4. ASSUME NEW w \in Workers, NEW n \in Motes, HandleFailure(w, n)
        PROVE  /\ w = v /\ n = m /\ v \in up
               /\ task[v][m] \in {"transient", "terminal"} /\ task'[v][m] = "dead"
    BY <1>1, <1>4 DEF HandleFailure
  <1>5. ASSUME NEW w \in Workers, NEW n \in Motes,
               ReportCommit(w, n) \/ ReportFailure(w, n)
        PROVE  FALSE
    BY <1>1, <1>5 DEF ReportCommit, ReportFailure
  <1>6. ASSUME NEW w \in Workers, Lease(w)
        PROVE  w = v /\ v \in up /\ task'[v][m] = "leased"
    BY <1>6 DEF Lease
  <1>7. ASSUME NEW w \in Workers, Crash(w)
        PROVE  FALSE
    BY <1>7 DEF Crash
  <1>8. ASSUME CoordinatorRestarts
        PROVE  FALSE
    BY <1>8 DEF CoordinatorRestarts
  <1>9. ASSUME ClientRegistersRun \/ (\E n \in Motes : ClientSubmits(n))
                 \/ (\E n \in Motes : ClientRepudiates(n))
                 \/ (\E w \in Workers : Register(w) \/ Beat(w))
                 \/ (\E id \in Ids : Silence(id)) \/ UNCHANGED vars
        PROVE  FALSE
    BY <1>9
    DEF ClientRegistersRun, ClientSubmits, ClientRepudiates, Register, Beat,
        Silence, vars, workerVars
  <1>10. QED
    BY <1>2, <1>3, <1>4, <1>5, <1>6, <1>7, <1>8, <1>9 DEF Next, WorkerStep

-----------------------------------------------------------------------------
(* Ids and processes *)

\* No worker process outlives the coordinator that gave it its id: the pool
\* lives in the coordinator's process (kx serve), or there is no restart.
PoolDiesWithCoordinator == ~WorkersOutlive \/ MaxRestarts = 0

\* The processes whose id belongs to this incarnation of the coordinator.
Present(w) == w \in up \/ MaxRestarts = 0

IdsIssued == \A w \in Workers : Present(w) /\ wid[w] # NoId => IsRegistered(wid[w])

IdsDistinct ==
    \A v, w \in Workers :
        Present(v) /\ Present(w) /\ wid[v] = wid[w] /\ wid[v] # NoId => v = w

IdleWhenAway ==
    \A w \in Workers : w \notin up \/ wid[w] = NoId =>
        \A m \in Motes : task[w][m] = "idle"

\* What the registry and the processes agree on (InMemoryWorkerRegistry).
RegistryInv == IdsIssued /\ IdsDistinct /\ IdleWhenAway

\* Who is up, which id it has and which ids are issued change only when a worker
\* registers or dies or the coordinator restarts.
LEMMA RegistrySteps ==
    ASSUME TypeOK, [Next]_vars
    PROVE  \/ UNCHANGED <<up, wid, next_id>>
           \/ \E w \in Workers : Register(w)
           \/ \E w \in Workers : Crash(w)
           \/ CoordinatorRestarts
  <1>1. ASSUME NEW w \in Workers, Lease(w) \/ Beat(w)
        PROVE  UNCHANGED <<up, wid, next_id>>
    BY <1>1 DEF Lease, LeaseWork, Beat, Heartbeat, workerVars, registry
  <1>2. ASSUME NEW w \in Workers, NEW m \in Motes,
               Stage(w, m) \/ Execute(w, m) \/ ExecuteFails(w, m) \/ HandleFailure(w, m)
        PROVE  UNCHANGED <<up, wid, next_id>>
    BY <1>2
    DEF Stage, StageEffect, Execute, ExecuteFails, HandleFailure, coordinatorVars,
        registry
  <1>3. ASSUME NEW w \in Workers, NEW m \in Motes,
               ReportCommit(w, m) \/ ReportFailure(w, m)
        PROVE  UNCHANGED <<up, wid, next_id>>
    BY <1>3
    DEF ReportCommit, Commit, ReportFailure, DeadLetterFailure, DeadLetterNoOp,
        DeadLetterAppend, DeadLetterRefused, coordinatorVars, registry
  <1>4. ASSUME ClientRegistersRun \/ (\E n \in Motes : ClientSubmits(n))
                 \/ (\E n \in Motes : ClientRepudiates(n))
                 \/ (\E id \in Ids : Silence(id)) \/ UNCHANGED vars
        PROVE  UNCHANGED <<up, wid, next_id>>
    BY <1>4
    DEF ClientRegistersRun, RegisterRun, ClientSubmits, Submit, ClientRepudiates,
        Repudiate, Silence, Timeout, vars, coordinatorVars, workerVars, registry
  <1>5. QED
    BY <1>1, <1>2, <1>3, <1>4 DEF Next, WorkerStep

\* A restart leaves no registered process behind when the pool dies with it.
LEMMA RestartClearsPool ==
    ASSUME PoolDiesWithCoordinator, TypeOK, CoordinatorRestarts
    PROVE  /\ MaxRestarts # 0
           /\ up' = {w \in up : wid[w] = NoId}
           /\ wid' = wid /\ fired' = fired /\ proj' = proj
           /\ \A w \in Workers : w \notin up' => \A m \in Motes : task'[w][m] = "idle"
           /\ \A w \in up' : task'[w] = task[w]
  <1>1. MaxRestarts # 0
    BY CoordinatorAssumption
    DEF CoordinatorRestarts, Restart, TypeOK, CoordinatorTypeOK
  <1>2. ~WorkersOutlive
    BY <1>1 DEF PoolDiesWithCoordinator
  <1>3. up \subseteq Workers
    BY DEF TypeOK
  <1>4. QED
    BY <1>1, <1>2, <1>3 DEF CoordinatorRestarts, Restart, journal

\* RegistryInv is inductive: ids are issued upwards, and a restart that issues
\* them anew finds no process that still carries an old one.
LEMMA RegistryStep ==
    ASSUME PoolDiesWithCoordinator
    PROVE  TypeOK /\ RegistryInv /\ [Next]_vars => RegistryInv'
  <1> SUFFICES ASSUME TypeOK, RegistryInv, [Next]_vars
               PROVE  RegistryInv'
    OBVIOUS
  <1> /\ wid \in [Workers -> Ids \cup {NoId}] /\ up \subseteq Workers
      /\ next_id \in 0 .. MaxWorkers /\ MaxWorkers \in Nat
      /\ NoId \notin Ids
    BY CoordinatorAssumption, FleetAssumption DEF TypeOK, CoordinatorTypeOK
  <1>1. IdsIssued' /\ IdsDistinct'
    <2>1. CASE UNCHANGED <<up, wid, next_id>>
      BY <2>1 DEF RegistryInv, IdsIssued, IdsDistinct, Present, IsRegistered
    <2>2. ASSUME NEW w \in Workers, Register(w)
          PROVE  IdsIssued' /\ IdsDistinct'
      <3>1. /\ wid' = [wid EXCEPT ![w] = next_id] /\ next_id' = next_id + 1
            /\ up' = up /\ w \in up /\ next_id \in Ids
        BY <2>2 DEF Register, RegisterWorker
      <3>2. IdsIssued'
        BY <3>1 DEF RegistryInv, IdsIssued, Present, IsRegistered, Ids
      <3>3. \A v \in Workers : Present(v) => wid[v] # next_id
        BY <3>1 DEF RegistryInv, IdsIssued, IsRegistered, Ids
      <3>4. IdsDistinct'
        BY <3>1, <3>3 DEF RegistryInv, IdsDistinct, Present
      <3>5. QED
        BY <3>2, <3>4
    <2>3. ASSUME NEW w \in Workers, Crash(w)
          PROVE  IdsIssued' /\ IdsDistinct'
      <3>1. wid' = wid /\ next_id' = next_id /\ up' = up \ {w}
        BY <2>3 DEF Crash, coordinatorVars, registry
      <3>2. QED
        BY <3>1 DEF RegistryInv, IdsIssued, IdsDistinct, Present, IsRegistered
    <2>4. CASE CoordinatorRestarts
      BY <2>4, RestartClearsPool DEF IdsIssued, IdsDistinct, Present
    <2>5. QED
      BY <2>1, <2>2, <2>3, <2>4, RegistrySteps
  <1>2. ASSUME NEW v \in Workers, NEW m \in Motes, task'[v][m] # "idle"
        PROVE  v \in up' /\ wid'[v] # NoId
    <2>1. v \in up /\ wid[v] # NoId
      <3>1. CASE task[v][m] # "idle"
        BY <3>1 DEF RegistryInv, IdleWhenAway
      <3>2. CASE task[v][m] = "idle"
        <4>1. Lease(v)
          BY <1>2, <3>2, TaskSteps DEF AtDispatch
        <4>2. QED
          BY <4>1 DEF Lease, Known
      <3>3. QED
        BY <3>1, <3>2
    <2>2. CASE UNCHANGED <<up, wid, next_id>>
      BY <2>1, <2>2
    <2>3. ASSUME NEW w \in Workers, Register(w)
          PROVE  v \in up' /\ wid'[v] # NoId
      BY <2>1, <2>3 DEF Register
    <2>4. ASSUME NEW w \in Workers, Crash(w)
          PROVE  v \in up' /\ wid'[v] # NoId
      BY <1>2, <2>1, <2>4 DEF Crash, TypeOK
    <2>5. CASE CoordinatorRestarts
      BY <1>2, <2>1, <2>5, RestartClearsPool DEF RegistryInv, IdleWhenAway
    <2>6. QED
      BY <2>2, <2>3, <2>4, <2>5, RegistrySteps
  <1>3. IdleWhenAway'
    BY <1>2 DEF IdleWhenAway
  <1>4. QED
    BY <1>1, <1>3 DEF RegistryInv

-----------------------------------------------------------------------------
(* Effects that are fired by one worker only *)

\* Flags that keep a Mote whose effect cannot be repeated off the lease offers.
Barring == {"reattempt", "terminal", "committed", "inconsistent", "staged"}
Barred(m) == proj[m] \cap Barring # {}

\* The Motes that no second worker may run: AtLeastOnce effects, and those that
\* leave no staged hint, as long as the lease table is not lost in a restart.
Guarded(m) == m \in AtLeastOnce \/ (Class[m] = "Direct" /\ MaxRestarts = 0)

\* w may still fire m's effect, or has.
Engaged(w, m) == task[w][m] \in {"leased", "ready"} \/ fired[w][m] > 0

\* Only StageThenCommit Motes have staged intents.
OnlyStagedAreStaged == \A m \in Motes : "staged" \in proj[m] => Class[m] = "Staged"

\* Whoever is engaged holds the lease, or the Mote will not be leased again.
EngagedHolds ==
    \A m \in Motes, w \in Workers : Guarded(m) /\ Engaged(w, m) =>
        \/ Barred(m)
        \/ Present(w) /\ wid[w] # NoId /\ <<wid[w], m>> \in leases

EngagedOnce ==
    \A m \in Motes : Guarded(m) =>
        \A v, w \in Workers : Engaged(v, m) /\ Engaged(w, m) => v = w

\* A worker that fired an AtLeastOnce effect does not stand before it again.
FiredIsPast ==
    \A m \in AtLeastOnce, w \in Workers : fired[w][m] > 0 =>
        fired[w][m] <= 1 /\ task[w][m] \notin {"leased", "ready"}

\* The inductive invariant behind AtMostOnce and NoBlindRefire.
EffectInv == OnlyStagedAreStaged /\ EngagedHolds /\ EngagedOnce /\ FiredIsPast

\* The reap only adds crash facts to the projection (reap_dead_workers).
LEMMA ReapFlags ==
    ASSUME TypeOK, NEW m \in Motes
    PROVE  /\ proj[m] \subseteq ProjAfterReap[m]
           /\ ProjAfterReap[m] \subseteq proj[m] \cup {"reattempt"}
           /\ m \in Reaped => ProjAfterReap[m] \cap Barring # {}
  <1>1. proj[m] \subseteq ProjAfterReap[m]
    BY DEF ProjAfterReap, FoldFailed
  <1>2. ProjAfterReap[m] \subseteq proj[m] \cup {"reattempt"}
    BY DEF ProjAfterReap, FoldFailed, is_pre_commit_crash
  <1>3. ASSUME m \in Reaped
        PROVE  ProjAfterReap[m] \cap Barring # {}
    <2>1. CASE m \in Crashed
      BY <2>1 DEF ProjAfterReap, FoldFailed, is_pre_commit_crash, Barring
    <2>2. CASE m \notin Crashed
      <3>1. "committed" \in proj[m]
        BY <1>3, <2>2, CommittedState DEF Crashed, StateOfMote
      <3>2. QED
        BY <1>1, <3>1 DEF Barring
    <2>3. QED
      BY <2>1, <2>2
  <1>4. QED
    BY <1>1, <1>2, <1>3

\* LeaseWork offers no guarded Mote that carries a barring flag after the reap
\* (at_least_once_already_staged, redispatch_admissible, state_of_id).
LEMMA BarredIsNotOffered ==
    ASSUME TypeOK, OnlyStagedAreStaged, NEW m \in Motes, Guarded(m),
           ProjAfterReap[m] \cap Barring # {}, NEW id
    PROVE  m \notin Candidates(id)
  <1> SUFFICES ASSUME m \in Candidates(id)
               PROVE  FALSE
    OBVIOUS
  <1>1. /\ m \in defs
        /\ ~at_least_once_already_staged(ProjAfterReap, m)
        /\ \/ StateOf(ProjAfterReap[m]) = "Pending"
           \/ redispatch_admissible(ProjAfterReap, m)
    BY DEF Candidates, ReadySet, Ready
  <1>2. Class[m] # "Pure"
    BY CoordinatorAssumption DEF Guarded
  <1>3. "staged" \in ProjAfterReap[m] => m \in AtLeastOnce
    BY ReapFlags DEF OnlyStagedAreStaged, Guarded
  <1>4. CASE StateOf(ProjAfterReap[m]) = "Pending"
    <2>1. ProjAfterReap[m] \cap {"inconsistent", "committed", "terminal"} = {}
      BY <1>4 DEF StateOf
    <2>2. "staged" \notin ProjAfterReap[m]
      BY <1>1, <1>3, <2>1 DEF at_least_once_already_staged, CanRedispatch
    <2>3. "reattempt" \in ProjAfterReap[m]
      BY <2>1, <2>2 DEF Barring
    <2>4. QED
      BY <1>4, <2>1, <2>2, <2>3 DEF StateOf
  <1>5. CASE redispatch_admissible(ProjAfterReap, m)
    BY <1>1, <1>2, <1>3, <1>5
    DEF redispatch_admissible, at_least_once_already_staged, CanRedispatch
  <1>6. QED
    BY <1>1, <1>4, <1>5

\* A lease is dropped only together with a flag that bars the Mote, or in a
\* restart (take_leases, resolve_committed, recover).
LEMMA DroppedLeaseBars ==
    ASSUME TypeOK, [Next]_vars, NEW m \in Motes, NEW id \in Ids,
           <<id, m>> \in leases, <<id, m>> \notin leases', ~CoordinatorRestarts
    PROVE  Barred(m)'
  <1> proj \in [Motes -> SUBSET Flags]
    BY DEF TypeOK, CoordinatorTypeOK
  <1>1. ASSUME NEW w \in Workers, Lease(w)
        PROVE  Barred(m)'
    <2>1. proj' = ProjAfterReap /\ <<id, m>> \in TakenLeases
      BY <1>1 DEF Lease, LeaseWork
    <2>2. m \in Reaped
      BY <2>1 DEF Reaped
    <2>3. QED
      BY <2>1, <2>2, ReapFlags DEF Barred
  <1>2. ASSUME NEW w \in Workers, NEW n \in Motes, ReportCommit(w, n)
        PROVE  Barred(m)'
    <2>1. PICK verdict \in BOOLEAN : Commit(n, verdict)
      BY <1>2 DEF ReportCommit, coordinatorVars, tracker
    <2>2. n = m
      BY <2>1 DEF Commit, ResolveCommitted, ResolveLeases
    <2>3. "committed" \in proj'[m]
      BY <2>1, <2>2 DEF Commit, FoldCommitted
    <2>4. QED
      BY <2>3 DEF Barred, Barring
  <1>3. ASSUME NEW w \in Workers, NEW n \in Motes, ReportFailure(w, n)
        PROVE  Barred(m)'
    <2>1. DeadLetterNoOp(n) \/ DeadLetterAppend(wid[w], n)
      BY <1>3
      DEF ReportFailure, DeadLetterFailure, DeadLetterRefused, coordinatorVars, tracker
    <2>2. n = m
      BY <2>1 DEF DeadLetterNoOp, DeadLetterAppend, ResolveCommitted, ResolveLeases
    <2>3. CASE DeadLetterNoOp(n)
      <3>1. proj' = proj /\ StateOf(proj[m]) \notin {"Pending", "Scheduled"}
        BY <2>2, <2>3 DEF DeadLetterNoOp, journal, StateOfMote
      <3>2. QED
        BY <3>1 DEF StateOf, Barred, Barring
    <2>4. CASE DeadLetterAppend(wid[w], n)
      <3>1. proj'[m] = FoldFailed(proj[m], "DeadLettered")
        BY <2>2, <2>4 DEF DeadLetterAppend
      <3>2. QED
        BY <3>1 DEF FoldFailed, is_pre_commit_crash, Barred, Barring
    <2>5. QED
      BY <2>1, <2>3, <2>4
  <1>4. ASSUME NEW w \in Workers, Register(w) \/ Beat(w) \/ Crash(w)
        PROVE  FALSE
    BY <1>4
    DEF Register, RegisterWorker, Beat, Heartbeat, Crash, coordinatorVars, tracker
  <1>5. ASSUME NEW w \in Workers, NEW n \in Motes,
               \/ Stage(w, n) \/ Execute(w, n)
               \/ ExecuteFails(w, n) \/ HandleFailure(w, n)
        PROVE  FALSE
    BY <1>5
    DEF Stage, StageEffect, Execute, ExecuteFails, HandleFailure, coordinatorVars,
        tracker
  <1>6. ASSUME ClientRegistersRun \/ (\E n \in Motes : ClientSubmits(n))
                 \/ (\E n \in Motes : ClientRepudiates(n))
                 \/ (\E i \in Ids : Silence(i)) \/ UNCHANGED vars
        PROVE  FALSE
    BY <1>6
    DEF ClientRegistersRun, RegisterRun, ClientSubmits, Submit, ClientRepudiates,
        Repudiate, Silence, Timeout, vars, coordinatorVars, tracker
  <1>7. QED
    BY <1>1, <1>2, <1>3, <1>4, <1>5, <1>6 DEF Next, WorkerStep

\* What each new flag of a Mote comes from: an intent from the staging of a
\* StageThenCommit Mote, a commit from its worker's admitted proposal, a dead
\* letter from its holder, a repudiation from an earlier commit.
LEMMA NewFlags ==
    ASSUME TypeOK, [Next]_vars, NEW m \in Motes, NEW f \in proj'[m], f \notin proj[m]
    PROVE  \/ f = "reattempt"
           \/ f = "staged" /\ Class[m] = "Staged"
           \/ /\ f = "committed"
              /\ \E w \in Workers : task[w][m] = "done" /\ CommitAdmitted(m)
           \/ /\ f = "terminal"
              /\ \E w \in Workers : DeadLetterAppend(wid[w], m)
           \/ f = "repudiated" /\ "committed" \in proj[m]
  <1> proj \in [Motes -> SUBSET Flags]
    BY DEF TypeOK, CoordinatorTypeOK
  <1>1. CASE proj' = ProjAfterReap
    BY <1>1, ReapFlags
  <1>2. ASSUME NEW w \in Workers, NEW n \in Motes, Stage(w, n), StageEffect(n)
        PROVE  f = "staged" /\ Class[m] = "Staged"
    BY <1>2 DEF Stage, StageEffect, FoldEffectStaged
  <1>3. ASSUME NEW w \in Workers, NEW n \in Motes, ReportCommit(w, n),
               NEW verdict \in BOOLEAN, Commit(n, verdict)
        PROVE  f = "committed" /\ task[w][m] = "done" /\ CommitAdmitted(m)
    <2>1. proj' = [proj EXCEPT ![n] = FoldCommitted(@)] /\ CommitAdmitted(n)
      BY <1>3 DEF Commit
    <2>2. n = m /\ f = "committed"
      BY <2>1 DEF FoldCommitted
    <2>3. QED
      BY <1>3, <2>1, <2>2 DEF ReportCommit
  <1>4. ASSUME NEW w \in Workers, NEW n \in Motes, DeadLetterAppend(wid[w], n)
        PROVE  f \in {"reattempt", "terminal"} /\ n = m
    <2>1. proj' = [proj EXCEPT ![n] = FoldFailed(@, "DeadLettered")]
      BY <1>4 DEF DeadLetterAppend
    <2>2. QED
      BY <2>1 DEF FoldFailed, is_pre_commit_crash
  <1>5. ASSUME NEW n \in Motes, Repudiate(n)
        PROVE  f = "repudiated" /\ "committed" \in proj[m]
    <2>1. proj'[m] = FoldRepudiated(proj[m], TRUE) /\ m \in CascadeSet(n)
      BY <1>5 DEF Repudiate
    <2>2. "committed" \in proj[m]
      BY <1>5, <2>1 DEF Repudiate, CascadeSet
    <2>3. QED
      BY <2>1, <2>2 DEF FoldRepudiated
  <1>6. QED
    BY <1>1, <1>2, <1>3, <1>4, <1>5, ProjSteps

\* A worker becomes engaged with a Mote only by leasing it, and it leases only
\* what LeaseWork offers and records for it (run_once, lease_work).
LEMMA EngagedByLease ==
    ASSUME TypeOK, [Next]_vars, NEW w \in Workers, NEW m \in Motes,
           Engaged(w, m)', ~Engaged(w, m)
    PROVE  /\ Lease(w)
           /\ w \in up /\ Known(w)
           /\ m \in Candidates(wid[w])
           /\ proj' = ProjAfterReap /\ UNCHANGED <<up, wid, fired>>
           /\ leases' \subseteq (leases \ TakenLeases) \cup ({wid[w]} \X Motes)
           /\ <<wid[w], m>> \in leases'
  <1>1. Lease(w) /\ task'[w][m] = "leased"
    <2>1. CASE fired'[w][m] > 0
      <3>1. fired'[w][m] # fired[w][m]
        BY <2>1 DEF Engaged, TypeOK
      <3>2. AtDispatch(w, m)
        BY <3>1, FiredComesFromDispatch
      <3>3. QED
        BY <3>2 DEF AtDispatch, Engaged
    <2>2. CASE task'[w][m] \in {"leased", "ready"}
      BY <2>2, TaskSteps DEF Engaged
    <2>3. QED
      BY <2>1, <2>2 DEF Engaged
  <1>2. PICK items \in SUBSET Candidates(wid[w]), answered \in {TRUE, ~LossyRpc} :
           /\ LeaseWork(wid[w], items)
           /\ task' = [task EXCEPT ![w] =
                         [n \in Motes |-> IF answered /\ n \in items
                                          THEN "leased" ELSE "idle"]]
    BY <1>1 DEF Lease
  <1>3. m \in items
    BY <1>1, <1>2 DEF TypeOK
  <1>4. items \subseteq Motes
    BY ReapTyped DEF Candidates, ReadySet, TypeOK
  <1>5. QED
    BY <1>1, <1>2, <1>3, <1>4 DEF Lease, LeaseWork

\* No two workers get engaged with a guarded Mote: the second would have been
\* offered a Mote that the first still holds, or that a flag bars.
LEMMA NewcomerIsAlone ==
    ASSUME TypeOK, RegistryInv, WriteAheadInv, EffectInv, [Next]_vars,
           NEW m \in Motes, Guarded(m),
           NEW v \in Workers, NEW w \in Workers,
           Engaged(v, m), Engaged(w, m)', ~Engaged(w, m)
    PROVE  v = w
  <1> USE EngagedByLease
  <1>1. ProjAfterReap[m] \cap Barring = {}
    BY BarredIsNotOffered DEF EffectInv
  <1>2. ~Barred(m)
    BY <1>1, ReapFlags DEF Barred
  <1>3. Present(v) /\ wid[v] # NoId /\ <<wid[v], m>> \in leases
    BY <1>2 DEF EffectInv, EngagedHolds
  <1>4. wid[v] \in Ids /\ wid[w] \in Ids
    BY <1>3 DEF TypeOK, Known
  <1>5. <<wid[v], m>> \notin TakenLeases
    BY <1>1, <1>4, ReapFlags DEF Reaped
  <1>6. wid[v] = wid[w]
    BY <1>3, <1>4, <1>5 DEF Candidates, is_leased_by_other, Holders
  <1>7. QED
    BY <1>3, <1>6 DEF RegistryInv, IdsDistinct, Present

\* EffectInv is inductive: whoever stops holding a lease leaves a barring flag
\* behind, and what is barred is not leased again.
LEMMA EffectStep ==
    ASSUME PoolDiesWithCoordinator
    PROVE  TypeOK /\ RegistryInv /\ WriteAheadInv /\ EffectInv /\ [Next]_vars => EffectInv'
  <1> SUFFICES ASSUME TypeOK, RegistryInv, WriteAheadInv, EffectInv, [Next]_vars
               PROVE  EffectInv'
    OBVIOUS
  <1>t. TypeOK'
    BY TypeStep
  <1>1. OnlyStagedAreStaged'
    BY NewFlags DEF EffectInv, OnlyStagedAreStaged
  <1>2. EngagedHolds'
    <2> SUFFICES ASSUME NEW m \in Motes, NEW w \in Workers, Guarded(m), Engaged(w, m)'
                 PROVE  \/ Barred(m)'
                        \/ Present(w)' /\ wid'[w] # NoId /\ <<wid'[w], m>> \in leases'
      BY DEF EngagedHolds, Guarded
    <2>1. CASE ~Engaged(w, m)
      BY <2>1, EngagedByLease DEF Present, Known
    <2>2. CASE Engaged(w, m) /\ Barred(m)
      BY <2>2, AllFlagsPersist DEF Barred
    <2>3. CASE /\ Engaged(w, m) /\ ~Barred(m)
               /\ Present(w) /\ wid[w] # NoId /\ <<wid[w], m>> \in leases
      <3>1. CASE CoordinatorRestarts
        <4>1. /\ MaxRestarts # 0 /\ fired' = fired
              /\ task'[w][m] = "idle"
          BY <2>3, <3>1, RestartClearsPool DEF Present
        <4>2. fired[w][m] > 0 /\ m \in AtLeastOnce
          BY <4>1 DEF Engaged, Guarded
        <4>3. "staged" \in proj[m]
          BY <4>2, CoordinatorAssumption DEF WriteAheadInv
        <4>4. QED
          BY <2>3, <4>3 DEF Barred, Barring
      <3>2. CASE ~CoordinatorRestarts /\ ~Barred(m)'
        <4>1. wid[w] \in Ids
          BY <2>3 DEF TypeOK
        <4>2. <<wid[w], m>> \in leases'
          BY <2>3, <3>2, <4>1, DroppedLeaseBars
        <4>3. wid'[w] = wid[w]
          BY <2>3, <3>2, RegistrySteps DEF Register, Crash, TypeOK
        <4>4. Present(w)'
          <5>1. CASE w \in up' \/ MaxRestarts = 0
            BY <5>1 DEF Present
          <5>2. CASE w \notin up' /\ MaxRestarts # 0
            <6>1. task'[w][m] = "idle"
              BY <5>2, RegistryStep DEF RegistryInv, IdleWhenAway
            <6>2. fired'[w][m] > 0 /\ m \in AtLeastOnce
              BY <6>1, <5>2 DEF Engaged, Guarded
            <6>3. "staged" \in proj'[m]
              BY <6>2, WriteAheadStep, CoordinatorAssumption DEF WriteAheadInv
            <6>4. QED
              BY <6>3, <3>2 DEF Barred, Barring
          <5>3. QED
            BY <5>1, <5>2
        <4>5. QED
          BY <2>3, <4>2, <4>3, <4>4
      <3>3. QED
        BY <3>1, <3>2
    <2>4. QED
      BY <2>1, <2>2, <2>3 DEF EffectInv, EngagedHolds
  <1>3. EngagedOnce'
    <2> SUFFICES ASSUME NEW m \in Motes, Guarded(m), NEW v \in Workers,
                        NEW w \in Workers, Engaged(v, m)', Engaged(w, m)'
                 PROVE  v = w
      BY DEF EngagedOnce, Guarded
    <2>1. CASE Engaged(v, m) /\ Engaged(w, m)
      BY <2>1 DEF EffectInv, EngagedOnce
    <2>2. CASE Engaged(v, m) /\ ~Engaged(w, m)
      BY <2>2, NewcomerIsAlone
    <2>3. CASE ~Engaged(v, m) /\ Engaged(w, m)
      BY <2>3, NewcomerIsAlone
    <2>4. CASE ~Engaged(v, m) /\ ~Engaged(w, m)
      <3>1. Lease(v) /\ Lease(w)
        BY <2>4, EngagedByLease
      <3>2. task'[v][m] = "leased" /\ task'[w][m] = "leased"
        BY <2>4, <3>1, EngagedByLease DEF Engaged, Lease, TypeOK
      <3>3. QED
        BY <2>4, <3>1, <3>2 DEF Lease, Engaged, TypeOK
    <2>5. QED
      BY <2>1, <2>2, <2>3, <2>4
  <1>4. FiredIsPast'
    <2> SUFFICES ASSUME NEW m \in AtLeastOnce, NEW w \in Workers, fired'[w][m] > 0
                 PROVE  fired'[w][m] <= 1 /\ task'[w][m] \notin {"leased", "ready"}
      BY DEF FiredIsPast
    <2> m \in Motes /\ Class[m] = "Staged" /\ Guarded(m)
      BY CoordinatorAssumption DEF Guarded
    <2>1. CASE fired'[w][m] # fired[w][m]
      <3>1. AtDispatch(w, m)
        BY <2>1, FiredComesFromDispatch
      <3>2. fired[w][m] = 0
        BY <3>1 DEF AtDispatch, EffectInv, FiredIsPast, TypeOK
      <3>3. Execute(w, m)
        BY <2>1, FiredComesFromDispatch
      <3>4. QED
        BY <3>2, <3>3 DEF Execute, CountFired, SetTask, TypeOK
    <2>2. CASE fired'[w][m] = fired[w][m]
      <3>1. fired[w][m] <= 1 /\ task[w][m] \notin {"leased", "ready"}
        BY <2>2 DEF EffectInv, FiredIsPast
      <3>2. "staged" \in proj[m]
        BY <2>2 DEF WriteAheadInv
      <3>3. ASSUME task'[w][m] \in {"leased", "ready"}
            PROVE  FALSE
        <4>1. Lease(w) /\ task'[w][m] = "leased"
          BY <3>1, <3>3, TaskSteps
        <4>2. m \in Candidates(wid[w])
          BY <4>1 DEF Lease, TypeOK
        <4>3. ProjAfterReap[m] \cap Barring # {}
          BY <3>2, ReapFlags DEF Barring
        <4>4. QED
          BY <4>2, <4>3, BarredIsNotOffered DEF EffectInv
      <3>4. QED
        BY <2>2, <3>1, <3>3
    <2>3. QED
      BY <2>1, <2>2
  <1>5. QED
    BY <1>1, <1>2, <1>3, <1>4 DEF EffectInv

\* The fleet's effect bookkeeping holds in every reachable state.
LEMMA EffectInvariance ==
    ASSUME PoolDiesWithCoordinator
    PROVE  Spec => [](TypeOK /\ RegistryInv /\ WriteAheadInv /\ EffectInv)
  <1> DEFINE Inv == TypeOK /\ RegistryInv /\ WriteAheadInv /\ EffectInv
  <1>1. Init => Inv
    <2>1. Init => RegistryInv
      BY DEF Init, RegistryInv, IdsIssued, IdsDistinct, IdleWhenAway
    <2>2. Init => WriteAheadInv
      BY DEF Init, WriteAheadInv
    <2>3. Init => EffectInv
      BY CoordinatorAssumption
      DEF Init, CoordinatorInit, EffectInv, OnlyStagedAreStaged, EngagedHolds,
          EngagedOnce, FiredIsPast, Engaged
    <2>4. QED
      BY <2>1, <2>2, <2>3, TypeInit
  <1>2. Inv /\ [Next]_vars => Inv'
    BY TypeStep, RegistryStep, WriteAheadStep, EffectStep
  <1>3. QED
    BY <1>1, <1>2, PTL DEF Spec

\* Whatever is timed out, lost, reported late or restarted with its pool, an
\* effect of the AtLeastOnce class is fired once at most, by one worker
\* (at_least_once_already_staged, redispatch_admissible).
THEOREM AtLeastOnceFiresOnce ==
    ASSUME PoolDiesWithCoordinator
    PROVE  Spec => []AtMostOnce
  <1>1. TypeOK /\ EffectInv => AtMostOnce
    <2> SUFFICES ASSUME TypeOK, EffectInv, NEW m \in AtLeastOnce
                 PROVE  /\ \A v, w \in Fired(m) : v = w
                        /\ \A w \in Workers : fired[w][m] <= 1
      BY DEF AtMostOnce
    <2>1. m \in Motes /\ Guarded(m)
      BY CoordinatorAssumption DEF Guarded
    <2>2. \A v, w \in Fired(m) : v = w
      BY <2>1 DEF EffectInv, EngagedOnce, Engaged, Fired
    <2>3. \A w \in Workers : fired[w][m] \in 0 .. 2
      BY <2>1 DEF TypeOK
    <2>4. QED
      BY <2>2, <2>3 DEF EffectInv, FiredIsPast
  <1>2. QED
    BY <1>1, EffectInvariance, PTL

\* R-13: as long as the lease table is not lost in a restart, a Mote that leaves
\* no staged hint is fired by one worker process only, however often workers are
\* taken for dead (redispatch_admissible, is_leased_by_other).
THEOREM DirectMotesAreNotRefired ==
    ASSUME MaxRestarts = 0
    PROVE  Spec => []NoBlindRefire
  <1>1. PoolDiesWithCoordinator
    BY DEF PoolDiesWithCoordinator
  <1>2. EffectInv => NoBlindRefire
    BY DEF EffectInv, EngagedOnce, NoBlindRefire, Fired, Engaged, Guarded
  <1>3. QED
    BY <1>1, <1>2, EffectInvariance, PTL

-----------------------------------------------------------------------------
(* The critic gate *)

\* Every critic of m's world-mutating inputs, but the ones m sits beside, has
\* committed a Valid verdict.
GateOpen(m) ==
    \A c \in GatingCritics(m) :
        CriticFor[m] # CriticFor[c] => c \in valid /\ "committed" \in proj[c]

\* Clients submit critics first, so the gate knows every critic it has.
CriticsKnown == \A m \in declared : GatingCritics(m) \subseteq declared

\* The inductive strengthening of CriticGate: nothing is even worked on before
\* its gate is open.
GateInv ==
    /\ CriticsKnown
    /\ \A m \in Motes : Work(m) \/ "committed" \in proj[m] => GateOpen(m)

\* A Mote of the ready set has its gate open (ready_set_impl_with,
\* promotion_state_with).
LEMMA ReadyGateOpen ==
    ASSUME NEW pr, NEW D, NEW V, NEW m \in Motes, Ready(pr, D, V, m),
           NEW c \in GatingCritics(m), c \in D, CriticFor[m] # CriticFor[c]
    PROVE  c \in V /\ "committed" \in pr[c]
  <1> DEFINE p == CriticFor[c]
  <1>1. p \in Parents[m] /\ p \in WorldMutating
    BY DEF GatingCritics
  <1>2. PromotionState(pr, D, V, p) # "Unpromoted"
    BY <1>1 DEF Ready
  <1>3. QED
    BY <1>2 DEF PromotionState

\* Verdicts, once read as Valid, stay so.
LEMMA ValidGrows ==
    ASSUME [Next]_vars
    PROVE  valid \subseteq valid'
  <1>1. ASSUME NEW w \in Workers, NEW m \in Motes,
               \/ Stage(w, m) \/ Execute(w, m) \/ ExecuteFails(w, m)
               \/ ReportCommit(w, m) \/ HandleFailure(w, m) \/ ReportFailure(w, m)
        PROVE  valid \subseteq valid'
    BY <1>1
    DEF Stage, StageEffect, Execute, ExecuteFails, ReportCommit, Commit,
        HandleFailure, ReportFailure, DeadLetterFailure, DeadLetterNoOp,
        DeadLetterAppend, DeadLetterRefused, coordinatorVars, journal
  <1>2. ASSUME NEW w \in Workers, Register(w) \/ Lease(w) \/ Beat(w) \/ Crash(w)
        PROVE  valid \subseteq valid'
    BY <1>2
    DEF Register, RegisterWorker, Lease, LeaseWork, Beat, Heartbeat, Crash,
        coordinatorVars, journal
  <1>3. ASSUME ClientRegistersRun \/ (\E n \in Motes : ClientSubmits(n))
                 \/ (\E n \in Motes : ClientRepudiates(n))
                 \/ (\E id \in Ids : Silence(id)) \/ CoordinatorRestarts
                 \/ UNCHANGED vars
        PROVE  valid \subseteq valid'
    BY <1>3
    DEF ClientRegistersRun, RegisterRun, ClientSubmits, Submit, ClientRepudiates,
        Repudiate, Silence, Timeout, CoordinatorRestarts, Restart, vars,
        coordinatorVars, journal
  <1>4. QED
    BY <1>1, <1>2, <1>3 DEF Next, WorkerStep

\* The admission set and the definitions on offer change only when a client
\* submits, a result or a dead letter is journaled, or the coordinator restarts.
LEMMA DispatchSteps ==
    ASSUME [Next]_vars
    PROVE  \/ UNCHANGED <<declared, submitted, defs>>
           \/ \E m \in Motes : ClientSubmits(m)
           \/ \E w \in Workers, m \in Motes : \E verdict \in BOOLEAN :
                 ReportCommit(w, m) /\ Commit(m, verdict)
           \/ \E w \in Workers, m \in Motes :
                 ReportFailure(w, m) /\ DeadLetterAppend(wid[w], m)
           \/ CoordinatorRestarts
  <1>1. ASSUME NEW w \in Workers, NEW m \in Motes,
               \/ Stage(w, m) \/ Execute(w, m)
               \/ ExecuteFails(w, m) \/ HandleFailure(w, m)
        PROVE  UNCHANGED <<declared, submitted, defs>>
    BY <1>1
    DEF Stage, StageEffect, Execute, ExecuteFails, HandleFailure, coordinatorVars,
        dispatch
  <1>2. ASSUME NEW w \in Workers, NEW m \in Motes, ReportCommit(w, m)
        PROVE  \/ UNCHANGED <<declared, submitted, defs>>
               \/ \E verdict \in BOOLEAN : Commit(m, verdict)
    BY <1>2 DEF ReportCommit, coordinatorVars, dispatch
  <1>3. ASSUME NEW w \in Workers, NEW m \in Motes, ReportFailure(w, m)
        PROVE  \/ UNCHANGED <<declared, submitted, defs>>
               \/ DeadLetterAppend(wid[w], m)
    BY <1>3
    DEF ReportFailure, DeadLetterFailure, DeadLetterNoOp, DeadLetterRefused,
        coordinatorVars, dispatch
  <1>4. ASSUME NEW w \in Workers, Register(w) \/ Lease(w) \/ Beat(w) \/ Crash(w)
        PROVE  UNCHANGED <<declared, submitted, defs>>
    BY <1>4
    DEF Register, RegisterWorker, Lease, LeaseWork, Beat, Heartbeat, Crash,
        coordinatorVars, dispatch
  <1>5. ASSUME ClientRegistersRun \/ (\E n \in Motes : ClientRepudiates(n))
                 \/ (\E id \in Ids : Silence(id)) \/ UNCHANGED vars
        PROVE  UNCHANGED <<declared, submitted, defs>>
    BY <1>5
    DEF ClientRegistersRun, RegisterRun, ClientRepudiates, Repudiate, Silence,
        Timeout, vars, coordinatorVars, dispatch
  <1>6. QED
    BY <1>1, <1>2, <1>3, <1>4, <1>5 DEF Next, WorkerStep

\* GateInv is inductive: verdicts and commits stay, and work begins in the ready
\* set, where the gate has been looked at.
LEMMA GateStep ==
    ASSUME CriticsFirst
    PROVE  TypeOK /\ GateInv /\ [Next]_vars => GateInv'
  <1> SUFFICES ASSUME TypeOK, GateInv, [Next]_vars
               PROVE  GateInv'
    OBVIOUS
  <1>1. CriticsKnown'
    <2>1. ASSUME NEW n \in Motes, ClientSubmits(n)
          PROVE  CriticsKnown'
      BY <2>1 DEF ClientSubmits, Submit, GateInv, CriticsKnown, GatingCritics
    <2>2. CASE declared' = declared \/ declared' = {}
      BY <2>2 DEF GateInv, CriticsKnown, GatingCritics
    <2>3. QED
      BY <2>1, <2>2, DispatchSteps
      DEF Commit, DeadLetterAppend, CoordinatorRestarts, Restart
  <1>2. ASSUME NEW m \in Motes, GateOpen(m)
        PROVE  GateOpen(m)'
    BY <1>2, AllFlagsPersist, ValidGrows DEF GateOpen, GatingCritics
  <1>3. ASSUME NEW m \in Motes, Work(m)'
        PROVE  GateOpen(m)'
    <2>1. CASE Work(m)
      BY <1>2, <2>1 DEF GateInv
    <2>2. CASE /\ Ready(ProjAfterReap, declared, valid, m)
               /\ proj' = ProjAfterReap /\ valid' = valid
      <3>1. GatingCritics(m) \subseteq declared
        BY <2>2 DEF Ready, GateInv, CriticsKnown
      <3>2. QED
        BY <2>2, <3>1, ReadyGateOpen DEF GateOpen, GatingCritics
    <2>3. QED
      BY <1>3, <2>1, <2>2, WorkBegins
  <1>4. ASSUME NEW m \in Motes, "committed" \in proj'[m]
        PROVE  GateOpen(m)'
    BY <1>2, <1>4, CommitComesFromWork DEF GateInv
  <1>5. QED
    BY <1>1, <1>3, <1>4 DEF GateInv

\* When clients submit critics before what they gate, no consumer of a
\* world-mutating Mote is committed before each of the Mote's critics has
\* committed a Valid verdict, in any order of leases, crashes, repudiations and
\* restarts (promotion_state_with, ready_set_impl_with).
THEOREM CriticsGate ==
    ASSUME CriticsFirst
    PROVE  Spec => []CriticGate
  <1>1. Init => GateInv
    BY DEF Init, CoordinatorInit, GateInv, CriticsKnown, Work, Holders
  <1>2. GateInv => CriticGate
    BY DEF GateInv, GateOpen, CriticGate
  <1>3. TypeOK /\ GateInv /\ [Next]_vars => GateInv'
    BY GateStep
  <1>4. QED
    BY <1>1, <1>2, <1>3, TypeCorrect, PTL DEF Spec

-----------------------------------------------------------------------------
(* Crash-failed Motes stay on offer *)

\* The lease table and its counters change only in LeaseWork, with a commit or
\* a failure report, and in a restart (LeaseTracker).
LEMMA TrackerSteps ==
    ASSUME [Next]_vars
    PROVE  \/ UNCHANGED tracker
           \/ \E w \in Workers : Lease(w)
           \/ \E w \in Workers, m \in Motes : \E verdict \in BOOLEAN :
                 ReportCommit(w, m) /\ Commit(m, verdict)
           \/ \E w \in Workers, m \in Motes : ReportFailure(w, m) /\ ResolveCommitted(m)
           \/ CoordinatorRestarts
  <1>1. ASSUME NEW w \in Workers, NEW m \in Motes,
               \/ Stage(w, m) \/ Execute(w, m)
               \/ ExecuteFails(w, m) \/ HandleFailure(w, m)
        PROVE  UNCHANGED tracker
    BY <1>1
    DEF Stage, StageEffect, Execute, ExecuteFails, HandleFailure, coordinatorVars
  <1>2. ASSUME NEW w \in Workers, NEW m \in Motes, ReportCommit(w, m)
        PROVE  UNCHANGED tracker \/ \E verdict \in BOOLEAN : Commit(m, verdict)
    BY <1>2 DEF ReportCommit, coordinatorVars
  <1>3. ASSUME NEW w \in Workers, NEW m \in Motes, ReportFailure(w, m)
        PROVE  UNCHANGED tracker \/ ResolveCommitted(m)
    BY <1>3
    DEF ReportFailure, DeadLetterFailure, DeadLetterNoOp, DeadLetterAppend,
        DeadLetterRefused, coordinatorVars
  <1>4. ASSUME NEW w \in Workers, Register(w) \/ Beat(w) \/ Crash(w)
        PROVE  UNCHANGED tracker
    BY <1>4
    DEF Register, RegisterWorker, Beat, Heartbeat, Crash, coordinatorVars
  <1>5. ASSUME ClientRegistersRun \/ (\E n \in Motes : ClientRepudiates(n))
                 \/ (\E n \in Motes : ClientSubmits(n))
                 \/ (\E id \in Ids : Silence(id)) \/ UNCHANGED vars
        PROVE  UNCHANGED tracker
    BY <1>5
    DEF ClientRegistersRun, RegisterRun, ClientRepudiates, Repudiate, ClientSubmits,
        Submit, Silence, Timeout, vars, coordinatorVars
  <1>6. QED
    BY <1>1, <1>2, <1>3, <1>4, <1>5 DEF Next, WorkerStep

\* PURE Motes do not fail: their bodies are not among the failing ones, and only
\* a staging can go wrong otherwise.
PureRunsClean ==
    \A m \in Motes, w \in Workers :
        Class[m] = "Pure" => task[w][m] \in {"idle", "leased", "done"}

\* A PURE Mote that a crash failed is held or waits for a re-offer until its
\* budget is spent (record_crash).
CrashedIsTracked ==
    \A m \in Motes :
        /\ Class[m] = "Pure"
        /\ "reattempt" \in proj[m]
        /\ "committed" \notin proj[m]
        /\ attempt_failures[m] < RetryBudget
        => m \in crash_failed \/ Holders(leases, m) # {}

OfferInv == PureRunsClean /\ CrashedIsTracked

\* A Mote is marked for another attempt by the reap of its lease or by its own
\* dead letter.
LEMMA ReattemptComesFromReap ==
    ASSUME TypeOK, [Next]_vars, NEW m \in Motes,
           "reattempt" \in proj'[m], "reattempt" \notin proj[m]
    PROVE  \/ \E w \in Workers : Lease(w) /\ m \in Crashed
           \/ \E w \in Workers : ReportFailure(w, m)
  <1> proj \in [Motes -> SUBSET Flags]
    BY DEF TypeOK, CoordinatorTypeOK
  <1>1. ASSUME NEW w \in Workers, Lease(w), proj' = ProjAfterReap
        PROVE  m \in Crashed
    BY <1>1 DEF ProjAfterReap
  <1>2. ASSUME NEW n \in Motes, StageEffect(n)
        PROVE  FALSE
    BY <1>2 DEF StageEffect, FoldEffectStaged
  <1>3. ASSUME NEW n \in Motes, NEW verdict \in BOOLEAN, Commit(n, verdict)
        PROVE  FALSE
    <2>1. proj' = [proj EXCEPT ![n] = FoldCommitted(@)]
      BY <1>3 DEF Commit
    <2>2. QED
      BY <2>1 DEF FoldCommitted
  <1>4. ASSUME NEW w \in Workers, NEW n \in Motes, DeadLetterAppend(wid[w], n)
        PROVE  n = m
    BY <1>4 DEF DeadLetterAppend
  <1>5. ASSUME NEW n \in Motes, Repudiate(n)
        PROVE  FALSE
    BY <1>5 DEF Repudiate, FoldRepudiated
  <1>6. QED
    BY <1>1, <1>2, <1>3, <1>4, <1>5, ProjSteps

\* OfferInv is inductive while the lease table lives and PURE Motes run clean.
LEMMA OfferStep ==
    ASSUME MaxRestarts = 0, \A m \in Failing : Class[m] # "Pure"
    PROVE  TypeOK /\ OfferInv /\ [Next]_vars => OfferInv'
  <1> SUFFICES ASSUME TypeOK, OfferInv, [Next]_vars
               PROVE  OfferInv'
    OBVIOUS
  <1>1. PureRunsClean'
    <2> SUFFICES ASSUME NEW m \in Motes, NEW w \in Workers, Class[m] = "Pure"
                 PROVE  task'[w][m] \in {"idle", "leased", "done"}
      BY DEF PureRunsClean
    <2>1. task[w][m] \in {"idle", "leased", "done"}
      BY DEF OfferInv, PureRunsClean
    <2>2. QED
      BY <2>1, TaskSteps
  <1>2. CrashedIsTracked'
    <2> SUFFICES ASSUME NEW m \in Motes, Class[m] = "Pure", "reattempt" \in proj'[m],
                        "committed" \notin proj'[m], attempt_failures'[m] < RetryBudget
                 PROVE  m \in crash_failed' \/ Holders(leases', m) # {}
      BY DEF CrashedIsTracked
    <2>1. "committed" \notin proj[m]
      BY AllFlagsPersist
    <2>2. ASSUME NEW w \in Workers, ReportFailure(w, m)
          PROVE  FALSE
      BY <2>2 DEF ReportFailure, OfferInv, PureRunsClean
    <2>3. ASSUME NEW w \in Workers, Lease(w)
          PROVE  m \in crash_failed' \/ Holders(leases', m) # {}
      <3>1. PICK items : LeaseWork(wid[w], items)
        BY <2>3 DEF Lease
      <3>2. CASE m \in Crashed
        BY <3>1, <3>2 DEF LeaseWork, CrashFailedAfterReap, UnderBudget
      <3>3. CASE m \notin Crashed
        <4>1. m \notin Reaped
          BY <2>1, <3>3, CommittedState DEF Crashed, StateOfMote
        <4>2. /\ proj'[m] = proj[m] /\ attempt_failures'[m] = attempt_failures[m]
              /\ m \in crash_failed => m \in crash_failed'
          BY <3>1, <3>3, <4>1
          DEF LeaseWork, ProjAfterReap, FailuresAfterReap, CrashFailedAfterReap
        <4>3. Holders(leases, m) \subseteq Holders(leases', m)
          BY <3>1, <4>1 DEF LeaseWork, Reaped, Holders
        <4>4. QED
          BY <2>1, <4>2, <4>3 DEF OfferInv, CrashedIsTracked
      <3>4. QED
        BY <3>2, <3>3
    <2>4. ASSUME ~\E w \in Workers : Lease(w)
          PROVE  "reattempt" \in proj[m]
      BY <2>2, <2>4, ReattemptComesFromReap
    <2>5. CASE UNCHANGED tracker /\ ~\E w \in Workers : Lease(w)
      BY <2>1, <2>4, <2>5 DEF tracker, OfferInv, CrashedIsTracked
    <2>6. ASSUME NEW n \in Motes, n # m, ResolveCommitted(n),
                 ~\E w \in Workers : Lease(w)
          PROVE  m \in crash_failed' \/ Holders(leases', m) # {}
      <3>1. /\ attempt_failures'[m] = attempt_failures[m]
            /\ m \in crash_failed => m \in crash_failed'
            /\ Holders(leases', m) = Holders(leases, m)
        BY <2>6 DEF ResolveCommitted, ResolveLeases, Holders, TypeOK, CoordinatorTypeOK
      <3>2. QED
        BY <2>1, <2>4, <2>6, <3>1 DEF OfferInv, CrashedIsTracked
    <2>7. ASSUME NEW verdict \in BOOLEAN, Commit(m, verdict)
          PROVE  FALSE
      BY <2>7 DEF Commit, FoldCommitted, TypeOK, CoordinatorTypeOK
    <2>8. ~CoordinatorRestarts
      BY DEF CoordinatorRestarts, Restart, TypeOK, CoordinatorTypeOK
    <2>9. QED
      BY <2>2, <2>3, <2>5, <2>6, <2>7, <2>8, TrackerSteps DEF Commit
  <1>3. QED
    BY <1>1, <1>2 DEF OfferInv

\* "A crashed worker's Mote is re-offered here, never stranded": for PURE Motes
\* whose bodies do not fail, while the coordinator stays up (lease_ready,
\* reap_dead_workers).  A late failure report breaks the promise otherwise, and
\* a restart forgets whom to re-offer.
THEOREM CrashedMotesAreReoffered ==
    ASSUME MaxRestarts = 0, \A m \in Failing : Class[m] # "Pure"
    PROVE  Spec => []NoneStranded
  <1>1. Init => OfferInv
    BY DEF Init, CoordinatorInit, OfferInv, PureRunsClean, CrashedIsTracked
  <1>2. OfferInv => NoneStranded
    BY DEF OfferInv, CrashedIsTracked, NoneStranded, Stranded, StateOfMote, StateOf
  <1>3. TypeOK /\ OfferInv /\ [Next]_vars => OfferInv'
    BY OfferStep
  <1>4. QED
    BY <1>1, <1>2, <1>3, TypeCorrect, PTL DEF Spec

-----------------------------------------------------------------------------
(* The ledger *)

RepudiatedWasCommitted ==
    \A m \in Motes : "repudiated" \in proj[m] => "committed" \in proj[m]

OfferedIsDeclared ==
    \A m \in Motes : m \in defs \/ Holders(leases, m) # {} => m \in declared

\* A dead-lettered Mote is neither held nor waiting, and nobody can bring a
\* result for it: its proposals are refused, or no worker still runs it.
TerminalIsFinal ==
    \A m \in Motes : "terminal" \in proj[m] =>
        /\ Holders(leases, m) = {}
        /\ m \notin crash_failed
        /\ \/ m \in declared /\ m \notin submitted
           \/ \A w \in Workers : task[w][m] \notin Running

\* What the refinement needs beyond causality (CausalInv).
LedgerInv == RepudiatedWasCommitted /\ OfferedIsDeclared /\ TerminalIsFinal

\* LeaseWork does not offer a dead-lettered Mote that nobody holds or waits for.
LEMMA TerminalIsNotOffered ==
    ASSUME TypeOK, NEW m \in Motes, "terminal" \in proj[m],
           Holders(leases, m) = {}, m \notin crash_failed
    PROVE  m \notin CrashFailedAfterReap /\ \A id : m \notin Candidates(id)
  <1>1. m \notin Reaped
    BY DEF Reaped, TakenLeases, Holders
  <1>2. m \notin CrashFailedAfterReap
    BY <1>1 DEF CrashFailedAfterReap, Crashed
  <1>3. StateOf(ProjAfterReap[m]) # "Pending"
    BY ReapFlags DEF StateOf
  <1>4. QED
    BY <1>2, <1>3 DEF Candidates, ReadySet, Ready

\* Definitions on offer and leases belong to declared Motes (submit, lease_ready).
LEMMA OfferedStep ==
    ASSUME TypeOK, OfferedIsDeclared, [Next]_vars
    PROVE  OfferedIsDeclared'
  <1> SUFFICES ASSUME NEW m \in Motes, m \in defs' \/ Holders(leases', m) # {}
               PROVE  m \in declared'
    BY DEF OfferedIsDeclared
  <1>1. ~CoordinatorRestarts
    BY DEF CoordinatorRestarts, Restart, Holders
  <1>2. declared \subseteq declared'
    BY <1>1, DispatchSteps DEF ClientSubmits, Submit, Commit, DeadLetterAppend
  <1>3. CASE m \in defs'
    BY <1>1, <1>2, <1>3, DispatchSteps
    DEF ClientSubmits, Submit, Commit, DeadLetterAppend, OfferedIsDeclared
  <1>4. CASE leases' \subseteq leases /\ Holders(leases', m) # {}
    BY <1>2, <1>4 DEF OfferedIsDeclared, Holders
  <1>5. ASSUME NEW w \in Workers, Lease(w), Holders(leases', m) # {}
        PROVE  m \in declared'
    <2>1. PICK items \in SUBSET Candidates(wid[w]) : LeaseWork(wid[w], items)
      BY <1>5 DEF Lease
    <2>2. m \in items \/ Holders(leases, m) # {}
      BY <1>5, <2>1 DEF LeaseWork, Holders
    <2>3. m \in items => m \in defs
      BY DEF Candidates
    <2>4. QED
      BY <1>2, <2>2, <2>3 DEF OfferedIsDeclared
  <1>6. QED
    BY <1>3, <1>4, <1>5, OnlyLeaseGrants

\* A dead letter is final: its holder gave the Mote up, admission is closed, and
\* after a restart nobody who ran it is left (dead_letter_failure, recover).
LEMMA TerminalStep ==
    ASSUME PoolDiesWithCoordinator, TypeOK, RegistryInv, LedgerInv, [Next]_vars
    PROVE  TerminalIsFinal'
  <1> SUFFICES ASSUME NEW m \in Motes, "terminal" \in proj'[m]
               PROVE  /\ Holders(leases', m) = {}
                      /\ m \notin crash_failed'
                      /\ \/ m \in declared' /\ m \notin submitted'
                         \/ \A w \in Workers : task'[w][m] \notin Running
    BY DEF TerminalIsFinal
  <1>1. CASE "terminal" \notin proj[m]
    <2>1. PICK w \in Workers : DeadLetterAppend(wid[w], m)
      BY <1>1, NewFlags
    <2>2. m \in declared
      BY <2>1 DEF DeadLetterAppend, LedgerInv, OfferedIsDeclared
    <2>3. QED
      BY <2>1, <2>2 DEF DeadLetterAppend, ResolveCommitted, ResolveLeases, Holders
  <1>2. CASE "terminal" \in proj[m]
    <2>1. /\ Holders(leases, m) = {} /\ m \notin crash_failed
          /\ \/ m \in declared /\ m \notin submitted
             \/ \A w \in Workers : task[w][m] \notin Running
      BY <1>2 DEF LedgerInv, TerminalIsFinal
    <2>2. m \notin CrashFailedAfterReap /\ \A id : m \notin Candidates(id)
      BY <1>2, <2>1, TerminalIsNotOffered
    <2>3. Holders(leases', m) = {}
      <3>1. CASE leases' \subseteq leases
        BY <2>1, <3>1 DEF Holders
      <3>2. ASSUME NEW w \in Workers, Lease(w)
            PROVE  Holders(leases', m) = {}
        BY <2>1, <2>2, <3>2 DEF Lease, LeaseWork, Holders
      <3>3. QED
        BY <3>1, <3>2, OnlyLeaseGrants
    <2>4. m \notin crash_failed'
      <3>1. ASSUME NEW w \in Workers, Lease(w)
            PROVE  m \notin crash_failed'
        BY <2>2, <3>1 DEF Lease, LeaseWork
      <3>2. QED
        BY <2>1, <3>1, TrackerSteps
        DEF tracker, Commit, ResolveCommitted, CoordinatorRestarts, Restart
    <2>5. CASE CoordinatorRestarts
      <3>1. \A w \in Workers : task'[w][m] = "idle"
        BY <2>5, RestartClearsPool DEF RegistryInv, IdleWhenAway
      <3>2. QED
        BY <2>3, <2>4, <3>1 DEF Running
    <2>6. CASE ~CoordinatorRestarts /\ m \in declared /\ m \notin submitted
      <3>1. m \in declared' /\ m \notin submitted'
        BY <2>6, DispatchSteps DEF ClientSubmits, Submit, Commit, DeadLetterAppend
      <3>2. QED
        BY <2>3, <2>4, <3>1
    <2>7. CASE \A w \in Workers : task[w][m] \notin Running
      <3>1. ASSUME NEW w \in Workers, task'[w][m] \in Running
            PROVE  FALSE
        <4>1. Lease(w) /\ task'[w][m] = "leased"
          BY <2>7, <3>1, TaskSteps DEF Running, AtDispatch
        <4>2. m \in Candidates(wid[w])
          BY <4>1 DEF Lease, TypeOK
        <4>3. QED
          BY <2>2, <4>2
      <3>2. QED
        BY <2>3, <2>4, <3>1
    <2>8. QED
      BY <2>1, <2>5, <2>6, <2>7
  <1>3. QED
    BY <1>1, <1>2

\* LedgerInv is inductive.
LEMMA LedgerStep ==
    ASSUME PoolDiesWithCoordinator
    PROVE  TypeOK /\ RegistryInv /\ LedgerInv /\ [Next]_vars => LedgerInv'
  <1> SUFFICES ASSUME TypeOK, RegistryInv, LedgerInv, [Next]_vars
               PROVE  LedgerInv'
    OBVIOUS
  <1>1. RepudiatedWasCommitted'
    BY NewFlags, AllFlagsPersist DEF LedgerInv, RepudiatedWasCommitted
  <1>2. OfferedIsDeclared'
    BY OfferedStep DEF LedgerInv
  <1>3. TerminalIsFinal'
    BY TerminalStep
  <1>4. QED
    BY <1>1, <1>2, <1>3 DEF LedgerInv

\* Only three flags decide a Mote's fate.
LEMMA SameFate ==
    ASSUME \A m \in Motes, f \in {"repudiated", "committed", "terminal"} :
               f \in proj'[m] <=> f \in proj[m]
    PROVE  LedgerStatus' = LedgerStatus
  <1>1. \A m \in Motes : LedgerStatus'[m] = LedgerStatus[m]
    BY DEF LedgerStatus
  <1>2. QED
    BY <1>1 DEF LedgerStatus

\* When one Mote's info changes, one Mote's status does.
LEMMA OneFate ==
    ASSUME TypeOK, NEW m \in Motes, NEW s, LedgerStatus'[m] = s,
           \A n \in Motes : n # m => proj'[n] = proj[n]
    PROVE  LedgerStatus' = [LedgerStatus EXCEPT ![m] = s]
  <1>1. \A n \in Motes : n # m => LedgerStatus'[n] = LedgerStatus[n]
    BY DEF LedgerStatus
  <1>2. QED
    BY <1>1 DEF LedgerStatus

\* A Mote committed is settled as committed or repudiated.
LEMMA CommittedFate ==
    ASSUME NEW m \in Motes, "committed" \in proj[m]
    PROVE  LedgerStatus[m] \in {"committed", "repudiated"}
  BY DEF LedgerStatus

\* An admitted proposal is CommitMote, or a duplicate (flush_commits,
\* apply_batch).
LEMMA CommitRefines ==
    ASSUME TypeOK, CausalInv, LedgerInv, NEW w \in Workers, NEW m \in Motes,
           ReportCommit(w, m), NEW verdict \in BOOLEAN, Commit(m, verdict)
    PROVE  UNCHANGED LedgerStatus \/ Ledger!CommitMote(m)
  <1> proj \in [Motes -> SUBSET Flags]
    BY DEF TypeOK, CoordinatorTypeOK
  <1>1. proj' = [proj EXCEPT ![m] = proj[m] \cup {"committed"}] /\ CommitAdmitted(m)
    BY DEF Commit, FoldCommitted
  <1>2. CASE "committed" \in proj[m]
    BY <1>1, <1>2, SameFate
  <1>3. CASE "committed" \notin proj[m]
    <2>1. task[w][m] = "done" /\ m \in submitted
      BY <1>1 DEF ReportCommit, CommitAdmitted
    <2>2. "repudiated" \notin proj[m] /\ "terminal" \notin proj[m]
      BY <1>3, <2>1
      DEF LedgerInv, RepudiatedWasCommitted, TerminalIsFinal, Running
    <2>3. LedgerStatus[m] = "open"
      BY <1>3, <2>2 DEF LedgerStatus
    <2>4. \A p \in Parents[m] : LedgerStatus[p] \in {"committed", "repudiated"}
      <3>1. InputsCommitted(m)
        BY <2>1 DEF CausalInv, Work
      <3>2. QED
        BY <3>1, CommittedFate, GraphAssumption DEF InputsCommitted
    <2>5. LedgerStatus'[m] = "committed"
      BY <1>1, <2>2 DEF LedgerStatus
    <2>6. LedgerStatus' = [LedgerStatus EXCEPT ![m] = "committed"]
      BY <1>1, <2>5, OneFate
    <2>7. QED
      BY <2>3, <2>4, <2>6 DEF Ledger!CommitMote
  <1>4. QED
    BY <1>2, <1>3

\* A dead letter is FailMote (dead_letter_failure).
LEMMA DeadLetterRefines ==
    ASSUME TypeOK, LedgerInv, NEW id, NEW m \in Motes, DeadLetterAppend(id, m)
    PROVE  Ledger!FailMote(m)
  <1> proj \in [Motes -> SUBSET Flags]
    BY DEF TypeOK, CoordinatorTypeOK
  <1>1. /\ proj' = [proj EXCEPT ![m] = FoldFailed(proj[m], "DeadLettered")]
        /\ StateOf(proj[m]) \in {"Pending", "Scheduled"}
    BY DEF DeadLetterAppend, StateOfMote
  <1>2. "committed" \notin proj[m] /\ "terminal" \notin proj[m]
    BY <1>1 DEF StateOf
  <1>3. "repudiated" \notin proj[m]
    BY <1>2 DEF LedgerInv, RepudiatedWasCommitted
  <1>4. proj'[m] = proj[m] \cup {"reattempt", "terminal"}
    BY <1>1, <1>2 DEF FoldFailed, is_pre_commit_crash
  <1>5. LedgerStatus[m] = "open" /\ LedgerStatus'[m] = "failed"
    BY <1>2, <1>3, <1>4 DEF LedgerStatus
  <1>6. LedgerStatus' = [LedgerStatus EXCEPT ![m] = "failed"]
    BY <1>1, <1>5, OneFate
  <1>7. QED
    BY <1>5, <1>6 DEF Ledger!FailMote

\* The walk's result is closed: a committed consumer of something withdrawn is
\* withdrawn (transitive_consumers).
LEMMA CascadeClosed ==
    ASSUME NEW target \in Motes, NEW p \in CascadeSet(target), NEW c \in Motes,
           p \in Parents[c], <<p, c>> \notin NonCascade, "committed" \in proj[c]
    PROVE  c \in CascadeSet(target)
  <1>1. Cascades(proj, declared, p, c)
    BY DEF Cascades
  <1>2. c \in TransitiveConsumers(proj, declared, target)
    BY <1>1 DEF TransitiveConsumers, CascadeSet
  <1>3. QED
    BY <1>2 DEF CascadeSet

\* A cascade is one RepudiateMotes of all that is not withdrawn yet
\* (repudiate_cascade).
LEMMA RepudiateRefines ==
    ASSUME TypeOK, LedgerInv, NEW target \in Motes, Repudiate(target)
    PROVE  \E S \in SUBSET Motes : Ledger!RepudiateMotes(S)
  <1> DEFINE S == {m \in CascadeSet(target) : LedgerStatus[m] = "committed"}
  <1>1. CascadeSet(target) \subseteq Motes
    BY DEF CascadeSet, TransitiveConsumers
  <1>2. \A m \in CascadeSet(target) : "committed" \in proj[m]
    BY DEF CascadeSet, Repudiate
  <1>3. \A c \in Motes : LedgerStatus[c] = "committed" => "committed" \in proj[c]
    BY DEF LedgerStatus
  <1>4. \A p \in S, c \in Motes :
            p \in Parents[c] /\ <<p, c>> \notin NonCascade /\ LedgerStatus[c] = "committed"
            => c \in S
    BY <1>3, CascadeClosed
  <1>5. \A m \in Motes :
            LedgerStatus'[m] = IF m \in S THEN "repudiated" ELSE LedgerStatus[m]
    <2> SUFFICES ASSUME NEW m \in Motes
                 PROVE  LedgerStatus'[m] = IF m \in S THEN "repudiated" ELSE LedgerStatus[m]
      OBVIOUS
    <2>1. CASE m \in CascadeSet(target)
      <3>1. proj'[m] = proj[m] \cup {"repudiated"}
        BY <1>2, <2>1 DEF Repudiate, FoldRepudiated
      <3>2. LedgerStatus'[m] = "repudiated"
        BY <3>1 DEF LedgerStatus
      <3>3. QED
        BY <1>2, <2>1, <3>2, CommittedFate
    <2>2. CASE m \notin CascadeSet(target)
      <3>1. proj'[m] = proj[m]
        BY <2>2 DEF Repudiate
      <3>2. QED
        BY <2>2, <3>1 DEF LedgerStatus
    <2>3. QED
      BY <2>1, <2>2
  <1>6. LedgerStatus' = [m \in Motes |-> IF m \in S THEN "repudiated" ELSE LedgerStatus[m]]
    BY <1>5 DEF LedgerStatus
  <1>7. S \in SUBSET Motes
    BY <1>1
  <1>8. \A m \in S : LedgerStatus[m] = "committed"
    OBVIOUS
  <1>9. Ledger!RepudiateMotes(S)
    BY <1>4, <1>6, <1>8 DEF Ledger!RepudiateMotes
  <1>10. QED
    BY <1>7, <1>9

\* Every step of the fleet is a step of the ledger, or leaves it as it is.
LEMMA FleetStepRefines ==
    TypeOK /\ CausalInv /\ LedgerInv /\ [Next]_vars => [Ledger!LedgerNext]_LedgerStatus
  <1> SUFFICES ASSUME TypeOK, CausalInv, LedgerInv, [Next]_vars
               PROVE  UNCHANGED LedgerStatus \/ Ledger!LedgerNext
    OBVIOUS
  <1>1. CASE UNCHANGED proj
    BY <1>1, SameFate
  <1>2. CASE proj' = ProjAfterReap
    BY <1>2, ReapFlags, SameFate
  <1>3. ASSUME NEW m \in Motes, StageEffect(m)
        PROVE  UNCHANGED LedgerStatus
    <2>1. proj' = [proj EXCEPT ![m] = proj[m] \cup {"staged"}]
      BY <1>3 DEF StageEffect, FoldEffectStaged
    <2>2. QED
      BY <2>1, SameFate DEF TypeOK, CoordinatorTypeOK
  <1>4. ASSUME NEW w \in Workers, NEW m \in Motes, ReportCommit(w, m),
               NEW verdict \in BOOLEAN, Commit(m, verdict)
        PROVE  UNCHANGED LedgerStatus \/ Ledger!LedgerNext
    BY <1>4, CommitRefines DEF Ledger!LedgerNext
  <1>5. ASSUME NEW w \in Workers, NEW m \in Motes, DeadLetterAppend(wid[w], m)
        PROVE  Ledger!LedgerNext
    BY <1>5, DeadLetterRefines DEF Ledger!LedgerNext
  <1>6. ASSUME NEW m \in Motes, Repudiate(m)
        PROVE  Ledger!LedgerNext
    BY <1>6, RepudiateRefines DEF Ledger!LedgerNext
  <1>7. QED
    BY <1>1, <1>2, <1>3, <1>4, <1>5, <1>6, ProjSteps

\* The coordinator and its workers implement the ledger of Mote fates: commits
\* once and after the inputs, dead letters for good, cascades whole, although
\* leases are reaped, answers lost and the coordinator restarted with its pool.
THEOREM FleetImplementsLedger ==
    ASSUME PoolDiesWithCoordinator
    PROVE  Spec => RefinesLedger
  <1>1. Init => Ledger!LedgerInit
    BY DEF Init, CoordinatorInit, LedgerStatus, Ledger!LedgerInit
  <1>2. Init => RegistryInv /\ CausalInv /\ LedgerInv
    <2>1. Init => RegistryInv
      BY DEF Init, RegistryInv, IdsIssued, IdsDistinct, IdleWhenAway
    <2>2. Init => CausalInv
      BY DEF Init, CoordinatorInit, CausalInv, CausalClosure, Work, Holders
    <2>3. Init => LedgerInv
      BY DEF Init, CoordinatorInit, LedgerInv, RepudiatedWasCommitted,
             OfferedIsDeclared, TerminalIsFinal, Holders
    <2>4. QED
      BY <2>1, <2>2, <2>3
  <1>3. TypeOK /\ RegistryInv /\ CausalInv /\ LedgerInv /\ [Next]_vars
           => RegistryInv' /\ CausalInv' /\ LedgerInv'
    BY RegistryStep, CausalStep, LedgerStep
  <1>4. QED
    BY <1>1, <1>2, <1>3, TypeCorrect, FleetStepRefines, PTL
    DEF Spec, RefinesLedger, Ledger!LedgerSpec

=============================================================================
