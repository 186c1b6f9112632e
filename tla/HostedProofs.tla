---------------------------- MODULE HostedProofs ----------------------------
(***************************************************************************)
(* Proofs about HostedApp, for any number of requests: the types, that no  *)
(* server is orphaned, that a stopped or failed App rests until the next   *)
(* request, and that a running App shows the port its current task saw     *)
(* accept.                                                                 *)
(***************************************************************************)
EXTENDS HostedApp, TLAPS

Stages == {"none", "begin", "materialize", "materialized", "install", "check",
           "checked", "build", "built", "spawn", "store", "list", "wait",
           "ready", "exited", "timedout", "kill", "unlist", "done"}
Processes == {"none", "up", "accepting", "exited", "killed"}

(* Where a current task has nothing left to write. *)
Over == {"none", "done", "kill", "unlist"}

AppType == [state : States, generation : 0..MaxGeneration,
            child : 0..MaxGeneration, pgid : 0..MaxGeneration,
            port : 0..MaxGeneration]

Shape ==
    /\ app \in AppType
    /\ task \in [Generations -> Stages]
    /\ server \in [Generations -> Processes]
    /\ origins \subseteq Generations

(* The App tracks nothing but the server of its own generation. *)
Tracks ==
    /\ app.child \in {None, app.pgid}
    /\ app.pgid \in {None, app.generation}
    /\ app.port \in {None, app.generation}

(* A task past its spawn has a server, and so has what is stored or listed. *)
Spawned ==
    /\ \A g \in Generations : task[g] \in {"store", "list", "wait"} => server[g] # "none"
    /\ app.port # None => server[app.port] # "none"
    /\ \A g \in origins : server[g] # "none"

(* Tasks of generations to come do not exist. *)
Unborn == \A g \in Generations : g > app.generation => task[g] = "none"

(* An App at rest has no task that could still write its state. *)
AtRest ==
    app.state \in {"Stopped", "Failed"} =>
        \A g \in Generations : Current(g) => task[g] \in Over

IInv == Shape /\ Tracks /\ Spawned /\ Unborn /\ NoOrphan /\ AtRest

USE HostedAssumption DEF None, Generations

-----------------------------------------------------------------------------
(* The initial state satisfies the invariant. *)
LEMMA InitInv == Init => IInv
  BY DEF Init, IInv, Shape, AppType, States, Busy, Stages, Processes, Tracks,
         Spawned, Unborn, NoOrphan, AtRest, Alive, At, Current, Over

(* Forgetting the child and its group leaves the rest of the App alone. *)
LEMMA UntrackedFields ==
    ASSUME NEW a \in AppType
    PROVE  /\ Untracked(a) \in AppType
           /\ Untracked(a).child = None /\ Untracked(a).pgid = None
           /\ Untracked(a).state = a.state
           /\ Untracked(a).generation = a.generation
           /\ Untracked(a).port = a.port
<1> DEFINE b == [a EXCEPT !.child = None]
<1>1. /\ b \in AppType /\ b.child = None /\ b.state = a.state
      /\ b.generation = a.generation /\ b.port = a.port
  BY DEF AppType
<1>2. Untracked(a) = [b EXCEPT !.pgid = None]
  BY Zenon DEF Untracked
<1> HIDE DEF b
<1> DEFINE c == [b EXCEPT !.pgid = None]
<1>3. /\ c \in AppType /\ c.child = b.child /\ c.pgid = None /\ c.state = b.state
      /\ c.generation = b.generation /\ c.port = b.port
  BY <1>1 DEF AppType
<1> QED
  BY <1>1, <1>2, <1>3, Zenon

(* What a request makes of the App. *)
LEMMA SupersededFields ==
    ASSUME app \in AppType, app.generation < MaxGeneration,
           NEW state \in {"Materializing", "Stopped"}, Superseding(state)
    PROVE  /\ app' \in AppType
           /\ app'.child = None /\ app'.pgid = None /\ app'.port = None
           /\ app'.state = state /\ app'.generation = app.generation + 1
<1> DEFINE u == Untracked(app)
<1>1. /\ u \in AppType /\ u.child = None /\ u.pgid = None
      /\ u.generation = app.generation
  BY UntrackedFields
<1>a. app' = [u EXCEPT !.generation = u.generation + 1, !.state = state, !.port = None]
  BY Zenon DEF Superseding
<1> HIDE DEF u
<1> DEFINE b == [u EXCEPT !.generation = u.generation + 1]
<1>2. /\ b \in AppType /\ b.child = None /\ b.pgid = None
      /\ b.generation = app.generation + 1
  BY <1>1 DEF AppType
<1>b. app' = [b EXCEPT !.state = state, !.port = None]
  BY <1>a, Zenon
<1> HIDE DEF b
<1> DEFINE c == [b EXCEPT !.state = state]
<1>3. /\ c \in AppType /\ c.child = None /\ c.pgid = None /\ c.state = state
      /\ c.generation = app.generation + 1
  BY <1>2 DEF AppType, States, Busy
<1>c. app' = [c EXCEPT !.port = None]
  BY <1>b, Zenon
<1> HIDE DEF c
<1> QED
  BY <1>3, <1>c DEF AppType

(* What the stored child makes of the App. *)
LEMMA StoredFields ==
    ASSUME app \in AppType, NEW g \in Generations,
           app' = [app EXCEPT !.child = g, !.pgid = g, !.port = g]
    PROVE  /\ app' \in AppType
           /\ app'.child = g /\ app'.pgid = g /\ app'.port = g
           /\ app'.state = app.state /\ app'.generation = app.generation
<1> DEFINE b == [app EXCEPT !.child = g]
<1>1. /\ b \in AppType /\ b.child = g
      /\ b.state = app.state /\ b.generation = app.generation
  BY DEF AppType
<1>a. app' = [b EXCEPT !.pgid = g, !.port = g]
  BY Zenon
<1> HIDE DEF b
<1> DEFINE c == [b EXCEPT !.pgid = g]
<1>2. /\ c \in AppType /\ c.child = g /\ c.pgid = g
      /\ c.state = app.state /\ c.generation = app.generation
  BY <1>1 DEF AppType
<1>b. app' = [c EXCEPT !.port = g]
  BY <1>a, Zenon
<1> HIDE DEF c
<1> QED
  BY <1>2, <1>b DEF AppType

-----------------------------------------------------------------------------
(* A request kills the tracked server, and no other can be alive but one   *)
(* its task still holds.                                                   *)
LEMMA SupersedingInv ==
    ASSUME IInv, NEW state \in {"Materializing", "Stopped"},
           app.generation < MaxGeneration,
           Superseding(state),
           origins' \subseteq origins,
           \/ state = "Materializing" /\ task' = [task EXCEPT ![app.generation + 1] = "begin"]
           \/ state = "Stopped" /\ task' = task
    PROVE  IInv'
<1> app \in AppType
  BY DEF IInv, Shape
<1>1. app.generation \in 0..MaxGeneration /\ app.generation + 1 \in Generations
  BY DEF AppType
<1>2. /\ app' \in AppType
      /\ app'.child = None /\ app'.pgid = None /\ app'.port = None
      /\ app'.state = state /\ app'.generation = app.generation + 1
  BY SupersededFields
<1>3. /\ server' \in [Generations -> Processes]
      /\ \A g \in Generations : server[g] # "none" => server'[g] # "none"
      /\ \A g \in Generations : server'[g] \in Alive => server[g] \in Alive /\ g # app.pgid
  BY DEF IInv, Shape, Superseding, KillTree, Killed, Alive, Processes
<1>4. Shape'
  BY <1>1, <1>2, <1>3 DEF IInv, Shape, Stages
<1>5. Tracks'
  BY <1>2 DEF Tracks
<1>6. Spawned'
  BY <1>1, <1>2, <1>3 DEF IInv, Spawned, Shape
<1>7. Unborn'
  BY <1>1, <1>2 DEF IInv, Unborn, Shape
<1>8. NoOrphan'
  <2> SUFFICES ASSUME NEW g \in Generations, server'[g] \in Alive
               PROVE  task'[g] = "store"
    BY DEF NoOrphan, At
  <2>1. task[g] = "store"
    BY <1>3 DEF IInv, NoOrphan, At
  <2>2. task[app.generation + 1] = "none"
    BY <1>1 DEF IInv, Unborn
  <2> QED
    BY <2>1, <2>2 DEF IInv, Shape
<1>9. AtRest'
  <2> SUFFICES ASSUME state = "Stopped", NEW g \in Generations, g = app.generation + 1
               PROVE  task'[g] \in Over
    BY <1>2 DEF AtRest, Current
  <2> QED
    BY <1>1 DEF IInv, Unborn, Over
<1> QED
  BY <1>4, <1>5, <1>6, <1>7, <1>8, <1>9 DEF IInv

(* A step of a task that neither spawns, stores nor kills: the App keeps   *)
(* its generation, group and port, and its state unless the task is        *)
(* current and not over.                                                   *)
LEMMA TaskStepInv ==
    ASSUME IInv, NEW g \in Generations, NEW pc \in Stages,
           task' = [task EXCEPT ![g] = pc], task[g] \notin {"none", "store"},
           pc \notin {"store", "list"}, pc = "wait" => task[g] = "list",
           task[g] \in Over => pc \in Over,
           app' \in AppType,
           app'.generation = app.generation, app'.pgid = app.pgid, app'.port = app.port,
           app'.child \in {None, app.child},
           \/ app'.state = app.state
           \/ Current(g) /\ app'.state \in {"Stopped", "Failed"} => pc \in Over,
           ~ Current(g) => app'.state = app.state,
           server' = server,
           origins' \subseteq {h \in Generations : server[h] # "none"}
    PROVE  IInv'
<1>1. Shape'
  BY DEF IInv, Shape
<1>2. Tracks'
  BY DEF IInv, Tracks
<1>3. Spawned'
  BY DEF IInv, Shape, Spawned
<1>4. Unborn'
  BY DEF IInv, Shape, Unborn
<1>5. NoOrphan'
  BY DEF IInv, Shape, NoOrphan, At
<1>6. AtRest'
  <2> SUFFICES ASSUME app'.state \in {"Stopped", "Failed"},
                      NEW h \in Generations, app.generation = h
               PROVE  task'[h] \in Over
    BY DEF AtRest, Current
  <2>1. CASE app'.state = app.state
    BY <2>1 DEF IInv, Shape, AtRest, Current
  <2>2. CASE app'.state # app.state
    BY <2>2 DEF IInv, Shape, AtRest, Current
  <2> QED
    BY <2>1, <2>2
<1> QED
  BY <1>1, <1>2, <1>3, <1>4, <1>5, <1>6 DEF IInv

(* The fields of an App whose state alone is written. *)
LEMMA StateWritten ==
    ASSUME app \in AppType, NEW state \in States,
           app' = [app EXCEPT !.state = state]
    PROVE  /\ app' \in AppType /\ app'.state = state
           /\ app'.generation = app.generation /\ app'.pgid = app.pgid
           /\ app'.port = app.port /\ app'.child = app.child
  BY DEF AppType

(* A stage begins, or the task ends superseded. *)
LEMMA EntersInv ==
    ASSUME IInv, NEW g \in Generations, NEW from \in Stages, NEW pc \in Stages,
           NEW state \in Busy, Enters(g, from, state, pc),
           from \notin Over \cup {"store"}, pc \notin {"store", "list", "wait"}
    PROVE  IInv'
<1> app \in AppType /\ server' = server /\ origins' = origins
  BY DEF IInv, Shape, Enters
<1>0. origins \subseteq {h \in Generations : server[h] # "none"}
  BY DEF IInv, Shape, Spawned
<1>1. CASE Current(g) /\ app' = [app EXCEPT !.state = state] /\ Goto(g, pc)
  <2>1. /\ app' \in AppType /\ app'.state = state
        /\ app'.generation = app.generation /\ app'.pgid = app.pgid
        /\ app'.port = app.port /\ app'.child = app.child
    BY <1>1, StateWritten DEF States
  <2> QED
    BY <1>0, <1>1, <2>1, TaskStepInv DEF Enters, Goto, At, Over, Busy
<1>2. CASE ~ Current(g) /\ UNCHANGED app /\ Goto(g, "done")
  BY <1>0, <1>2, TaskStepInv DEF Enters, Goto, At, Over, Stages
<1> QED
  BY <1>1, <1>2 DEF Enters

(* A stage ends well. *)
LEMMA CompletesInv ==
    ASSUME IInv, NEW g \in Generations, NEW from \in Stages, NEW pc \in Stages,
           Completes(g, from, pc),
           from \notin Over \cup {"store"}, pc \notin {"store", "list", "wait"}
    PROVE  IInv'
<1>0. origins \subseteq {h \in Generations : server[h] # "none"} /\ app \in AppType
  BY DEF IInv, Shape, Spawned
<1> QED
  BY <1>0, TaskStepInv DEF Completes, Goto, At, Over

(* A current task that fails writes the state and has nothing left to do.  *)
LEMMA FailingInv ==
    ASSUME IInv, NEW g \in Generations, NEW from \in Stages, NEW pc \in Over \ {"none"},
           At(g, from), Goto(g, pc),
           app' = IF Current(g) THEN [app EXCEPT !.state = "Failed"] ELSE app,
           UNCHANGED <<server, origins>>,
           from \notin Over \cup {"store"}
    PROVE  IInv'
<1> app \in AppType /\ server' = server /\ origins' = origins
  BY DEF IInv, Shape
<1>0. origins \subseteq {h \in Generations : server[h] # "none"} /\ pc \in Stages
  BY DEF IInv, Shape, Spawned, Over, Stages
<1>1. CASE Current(g)
  <2>1. /\ app' \in AppType /\ app'.state = "Failed"
        /\ app'.generation = app.generation /\ app'.pgid = app.pgid
        /\ app'.port = app.port /\ app'.child = app.child
    BY <1>1, StateWritten DEF States
  <2> QED
    BY <1>0, <1>1, <2>1, TaskStepInv DEF Goto, At, Over
<1>2. CASE ~ Current(g)
  BY <1>0, <1>2, TaskStepInv DEF Goto, At, Over
<1> QED
  BY <1>1, <1>2

(* The server is spawned, in the hands of its task. *)
LEMMA SpawnInv ==
    ASSUME IInv, NEW g \in Generations, SpawnServer(g)
    PROVE  IInv'
<1>1. /\ task[g] = "spawn" /\ task' = [task EXCEPT ![g] = "store"]
      /\ server' = [server EXCEPT ![g] = "up"] /\ app' = app /\ origins' = origins
  BY DEF SpawnServer, At, Goto
<1>2. Shape' /\ Tracks' /\ Spawned'
  BY <1>1 DEF IInv, Shape, Stages, Processes, Tracks, Spawned
<1>3. Unborn' /\ AtRest'
  BY <1>1 DEF IInv, Shape, Unborn, AtRest, Current, Over
<1>4. NoOrphan'
  BY <1>1 DEF IInv, Shape, NoOrphan, At
<1> QED
  BY <1>2, <1>3, <1>4 DEF IInv

(* The server passes from the task's hands to the App's, or dies with the  *)
(* superseded task.                                                        *)
LEMMA StoreInv ==
    ASSUME IInv, NEW g \in Generations, StoreChild(g)
    PROVE  IInv'
<1> app \in AppType /\ origins' = origins /\ task[g] = "store"
  BY DEF IInv, Shape, StoreChild, At
<1>1. CASE Current(g) /\ app' = [app EXCEPT !.child = g, !.pgid = g, !.port = g]
           /\ Goto(g, "list") /\ UNCHANGED server
  <2>1. /\ app' \in AppType /\ app'.child = g /\ app'.pgid = g /\ app'.port = g
        /\ app'.state = app.state /\ app'.generation = app.generation
    BY <1>1, StoredFields
  <2>2. /\ app.generation = g /\ task' = [task EXCEPT ![g] = "list"] /\ server' = server
    BY <1>1 DEF Current, Goto
  <2>3. Shape' /\ Tracks' /\ Spawned'
    BY <2>1, <2>2 DEF IInv, Shape, Stages, Tracks, Spawned
  <2>4. Unborn'
    BY <2>1, <2>2 DEF IInv, Shape, Unborn
  <2>5. AtRest'
    BY <2>1, <2>2 DEF IInv, Shape, AtRest, Current, Over
  <2>6. NoOrphan'
    <3> SUFFICES ASSUME NEW h \in Generations, server[h] \in Alive, h # g
                 PROVE  task'[h] = "store"
      BY <2>1, <2>2 DEF NoOrphan, At
    <3> QED
      BY <2>2 DEF IInv, Shape, Tracks, NoOrphan, At
  <2> QED
    BY <2>3, <2>4, <2>5, <2>6 DEF IInv
<1>2. CASE ~ Current(g) /\ server' = Killed(g) /\ Goto(g, "done") /\ UNCHANGED app
  <2>1. /\ server' \in [Generations -> Processes]
        /\ \A h \in Generations : server[h] # "none" => server'[h] # "none"
        /\ \A h \in Generations : server'[h] \in Alive => server[h] \in Alive /\ h # g
    BY <1>2 DEF IInv, Shape, Killed, Alive, Processes
  <2>2. Shape' /\ Tracks' /\ Spawned'
    BY <1>2, <2>1 DEF IInv, Shape, Goto, Stages, Tracks, Spawned, AppType
  <2>3. Unborn' /\ AtRest'
    BY <1>2 DEF IInv, Shape, Goto, Unborn, AtRest, Current, Over
  <2>4. NoOrphan'
    BY <1>2, <2>1 DEF IInv, Shape, Goto, NoOrphan, At
  <2> QED
    BY <2>2, <2>3, <2>4 DEF IInv
<1> QED
  BY <1>1, <1>2 DEF StoreChild

(* The wait for the port ends, in one of its three ways. *)
LEMMA WaitInv ==
    ASSUME IInv, NEW g \in Generations, WaitReady(g)
    PROVE  IInv'
<1> app \in AppType /\ origins' = origins /\ server' = server /\ task[g] = "wait"
  BY DEF IInv, Shape, WaitReady, At
<1>0. origins \subseteq {h \in Generations : server[h] # "none"}
  BY DEF IInv, Shape, Spawned
<1>1. ASSUME NEW pc \in {"ready", "timedout"}, Goto(g, pc), UNCHANGED app
      PROVE  IInv'
  BY <1>0, <1>1, TaskStepInv DEF Goto, Over, Stages
<1>2. CASE Reaps(g) /\ app' = [app EXCEPT !.child = None] /\ Goto(g, "exited")
  <2>1. /\ app' \in AppType /\ app'.child = None /\ app'.state = app.state
        /\ app'.generation = app.generation /\ app'.pgid = app.pgid
        /\ app'.port = app.port
    BY <1>2 DEF AppType
  <2> QED
    BY <1>0, <1>2, <2>1, TaskStepInv DEF Goto, Over, Stages
<1> QED
  BY <1>1, <1>2 DEF WaitReady

(* A port is listed or unlisted. *)
LEMMA ListsInv ==
    ASSUME IInv, NEW g \in Generations, ListOrigin(g) \/ Unlist(g)
    PROVE  IInv'
<1>0. origins \subseteq {h \in Generations : server[h] # "none"} /\ app \in AppType
  BY DEF IInv, Shape, Spawned
<1>1. CASE ListOrigin(g)
  <2>1. origins' \subseteq {h \in Generations : server[h] # "none"}
    BY <1>0, <1>1 DEF ListOrigin, At, IInv, Spawned
  <2> QED
    BY <1>0, <1>1, <2>1, TaskStepInv DEF ListOrigin, At, Goto, Over, Stages
<1>2. CASE Unlist(g)
  BY <1>0, <1>2, TaskStepInv DEF Unlist, At, Goto, Over, Stages
<1> QED
  BY <1>1, <1>2

(* The kill of finish_readiness takes the server the App tracks, whoever   *)
(* spawned it, and leaves none to be orphaned.                             *)
LEMMA KillInv ==
    ASSUME IInv, NEW g \in Generations, KillAfterTimeout(g)
    PROVE  IInv'
<1> app \in AppType
  BY DEF IInv, Shape
<1>1. /\ app' \in AppType /\ app'.child = None /\ app'.pgid = None
      /\ app'.state = app.state /\ app'.generation = app.generation
      /\ app'.port = app.port
  BY UntrackedFields DEF KillAfterTimeout
<1>2. task[g] = "kill" /\ task' = [task EXCEPT ![g] = "unlist"] /\ origins' = origins
  BY DEF KillAfterTimeout, At, Goto
<1>3. /\ server' \in [Generations -> Processes]
      /\ \A h \in Generations : server[h] # "none" => server'[h] # "none"
      /\ \A h \in Generations : server'[h] \in Alive => server[h] \in Alive /\ h # app.pgid
  BY DEF IInv, Shape, KillAfterTimeout, KillTree, Killed, Alive, Processes
<1>4. Shape' /\ Tracks' /\ Spawned'
  <2>1. app'.port # None => server'[app'.port] # "none"
    BY <1>1, <1>3 DEF IInv, Spawned, AppType
  <2> QED
    BY <1>1, <1>2, <1>3, <2>1 DEF IInv, Shape, Stages, Tracks, Spawned
<1>5. Unborn' /\ AtRest'
  BY <1>1, <1>2 DEF IInv, Shape, Unborn, AtRest, Current, Over
<1>6. NoOrphan'
  BY <1>1, <1>2, <1>3 DEF IInv, Shape, NoOrphan, At
<1> QED
  BY <1>4, <1>5, <1>6 DEF IInv

(* A server moves by itself. *)
LEMMA ServerInv ==
    ASSUME IInv, NEW g \in Generations, Accepts(g) \/ Exits(g)
    PROVE  IInv'
<1>1. PICK s \in {"accepting", "exited"} : server' = [server EXCEPT ![g] = s]
  BY DEF Accepts, Exits
<1>2. server[g] \in Alive /\ UNCHANGED <<app, task, origins>>
  BY DEF Accepts, Exits, Alive
<1>3. /\ server' \in [Generations -> Processes]
      /\ \A h \in Generations : server[h] # "none" => server'[h] # "none"
      /\ \A h \in Generations : server'[h] \in Alive => server[h] \in Alive
  BY <1>1, <1>2 DEF IInv, Shape, Processes, Alive
<1>4. Shape' /\ Tracks' /\ Spawned'
  BY <1>2, <1>3 DEF IInv, Shape, Tracks, Spawned, AppType
<1>5. Unborn' /\ AtRest' /\ NoOrphan'
  BY <1>2, <1>3 DEF IInv, Unborn, AtRest, Current, NoOrphan, At
<1> QED
  BY <1>4, <1>5 DEF IInv

-----------------------------------------------------------------------------
(* One step per action of the task. *)
LEMMA LifecycleInv ==
    ASSUME IInv, NEW g \in Generations, Lifecycle(g)
    PROVE  IInv'
<1>1. ASSUME NEW from \in {"begin", "materialize", "install", "check", "build", "spawn"},
             Fails(g, from)
      PROVE  IInv'
  BY <1>1, FailingInv DEF Fails, Failed, Over, Stages
<1>2. CASE Refuse(g)
  BY <1>1, <1>2 DEF Refuse
<1>3. CASE Materialize(g)
  BY <1>1, <1>3, EntersInv, CompletesInv DEF Materialize, Busy, Over, Stages
<1>4. CASE Install(g)
  BY <1>1, <1>4, EntersInv, CompletesInv DEF Install, Busy, Over, Stages
<1>5. CASE TypeCheck(g)
  BY <1>1, <1>5, CompletesInv DEF TypeCheck, Over, Stages
<1>6. CASE Build(g)
  BY <1>1, <1>6, EntersInv, CompletesInv DEF Build, Busy, Over, Stages
<1>7. CASE EnterStarting(g)
  BY <1>7, EntersInv DEF EnterStarting, Busy, Over, Stages
<1>8. CASE SpawnFails(g)
  BY <1>1, <1>8 DEF SpawnFails
<1>9. CASE SpawnServer(g) \/ StoreChild(g) \/ ListOrigin(g) \/ WaitReady(g)
  BY <1>9, SpawnInv, StoreInv, ListsInv, WaitInv
<1>10. CASE FinishReadiness(g)
  <2>1. CASE Ready(g)
    BY <2>1, EntersInv DEF Ready, Busy, Over, Stages
  <2>2. CASE Exited(g)
    BY <2>2, FailingInv DEF Exited, Failed, Over, Stages
  <2>3. CASE TimedOut(g)
    BY <2>3, FailingInv DEF TimedOut, AfterTimeout, Failed, Over, Stages
  <2> QED
    BY <1>10, <2>1, <2>2, <2>3, KillInv, ListsInv DEF FinishReadiness
<1> QED
  BY <1>2, <1>3, <1>4, <1>5, <1>6, <1>7, <1>8, <1>9, <1>10 DEF Lifecycle

(* The invariant is inductive. *)
LEMMA NextInv == IInv /\ [Next]_vars => IInv'
<1> SUFFICES ASSUME IInv, [Next]_vars PROVE IInv'
  OBVIOUS
<1>1. ASSUME NEW rebuild \in BOOLEAN, Start(rebuild) PROVE IInv'
  BY <1>1, SupersedingInv DEF Start
<1>2. CASE Stop
  <2>1. app.generation < MaxGeneration /\ origins' \subseteq origins
    BY <1>2 DEF Stop
  <2> QED
    BY <1>2, <2>1, SupersedingInv DEF Stop
<1>3. CASE UNCHANGED vars
  BY <1>3 DEF vars, IInv, Shape, Tracks, Spawned, Unborn, NoOrphan, AtRest, At, Current
<1> QED
  BY <1>1, <1>2, <1>3, LifecycleInv, ServerInv DEF Next

(* No task writes the state of a resting App: the one that is current is   *)
(* over.                                                                   *)
LEMMA RestingStep ==
    ASSUME IInv, NEW g \in Generations, Lifecycle(g),
           app.state \in {"Stopped", "Failed"}
    PROVE  app'.state = app.state
<1> app \in AppType
  BY DEF IInv, Shape
<1>1. CASE task[g] \in Over
  <2>1. KillAfterTimeout(g) \/ Unlist(g)
    BY <1>1 DEF Over, At, Lifecycle, Refuse, Materialize, Install, TypeCheck, Build,
          EnterStarting, SpawnFails, SpawnServer, StoreChild, ListOrigin, WaitReady,
          FinishReadiness, Ready, Exited, TimedOut, Enters, Completes, Fails
  <2> QED
    BY <2>1, UntrackedFields DEF KillAfterTimeout, Unlist
<1>2. CASE task[g] \notin Over
  <2>1. ~ Current(g)
    BY <1>2 DEF IInv, AtRest
  <2>2. app' = app
    BY <1>2, <2>1 DEF Over, At, Lifecycle, Refuse, Materialize, Install, TypeCheck, Build,
          EnterStarting, SpawnFails, SpawnServer, StoreChild, ListOrigin, WaitReady, Reaps,
          FinishReadiness, Ready, Exited, TimedOut, Enters, Completes, Fails,
          KillAfterTimeout, Unlist
  <2> QED
    BY <2>2
<1> QED
  BY <1>1, <1>2

(* The invariant holds of every behaviour of the supervisor. *)
THEOREM Invariance == Spec => []IInv
  BY InitInv, NextInv, PTL DEF Spec

(* The fields of the RunningApp are consistent with the tasks and servers, *)
(* for any number of Starts and Stops (hostsupervisor.rs:77).              *)
THEOREM TypeCorrect == Spec => []TypeOK
<1>1. IInv => TypeOK
  <2> SUFFICES ASSUME IInv PROVE TypeOK
    OBVIOUS
  <2>1. app.state \in States /\ app.generation \in 0..MaxGeneration
    BY DEF IInv, Shape, AppType
  <2> QED
    BY <2>1 DEF IInv, Shape, Tracks, Spawned, Unborn, TypeOK
<1> QED
  BY <1>1, Invariance, PTL

(* No server is left running that neither the App tracks nor its own task  *)
(* still holds, whatever Starts, Stops and deadlines overtake each other   *)
(* (hostsupervisor.rs:562).                                                *)
THEOREM NoServerIsOrphaned == Spec => []NoOrphan
<1>1. IInv => NoOrphan
  BY DEF IInv
<1> QED
  BY <1>1, Invariance, PTL

(* A stopped or failed App stays so until the next request: no superseded  *)
(* task writes its state (advance, hostsupervisor.rs:453).                 *)
THEOREM StoppedStaysStopped == Spec => RestsUntilAsked
<1>1. IInv /\ [Next]_vars =>
        [app.state \in {"Stopped", "Failed"} /\ app.state' # app.state =>
            app'.generation > app.generation]_vars
  <2> SUFFICES ASSUME IInv, Next, app.state \in {"Stopped", "Failed"},
                      app.state' # app.state
               PROVE  app'.generation > app.generation
    BY DEF vars
  <2> app \in AppType
    BY DEF IInv, Shape
  <2>1. ASSUME NEW state \in {"Materializing", "Stopped"}, Superseding(state),
               app.generation < MaxGeneration
        PROVE  app'.generation > app.generation
    <3>1. app'.generation = app.generation + 1 /\ app.generation \in Nat
      BY <2>1, SupersededFields DEF AppType
    <3> QED
      BY <3>1
  <2>2. CASE Stop
    <3>1. app.generation < MaxGeneration
      BY <2>2 DEF Stop
    <3> QED
      BY <2>1, <2>2, <3>1 DEF Stop
  <2>3. ASSUME NEW rebuild \in BOOLEAN, Start(rebuild)
        PROVE  app'.generation > app.generation
    BY <2>1, <2>3 DEF Start
  <2>4. ASSUME NEW g \in Generations, Accepts(g) \/ Exits(g) PROVE FALSE
    BY <2>4 DEF Accepts, Exits
  <2> QED
    BY <2>2, <2>3, <2>4, RestingStep DEF Next
<1> QED
  BY <1>1, Invariance, PTL DEF Spec, RestsUntilAsked

-----------------------------------------------------------------------------
(* The current task holds its port until it is done, and its page is listed *)
(* from the moment the task waits.                                          *)
Held(g) ==
    /\ task[g] \in {"list", "wait", "ready"} => app.port = g
    /\ task[g] \in {"wait", "ready"} => g \in origins

RunInv == IInv /\ (\A g \in Generations : Current(g) => Held(g)) /\ RunningTruth

(* What a step of a task may do to the other tasks, the port and the list. *)
LEMMA LifecycleFrame ==
    ASSUME IInv, NEW g \in Generations, Lifecycle(g)
    PROVE  /\ app'.generation = app.generation
           /\ task[g] \notin {"none", "done"}
           /\ \A h \in Generations : h # g => task'[h] = task[h]
           /\ \/ app'.port = app.port
              \/ Current(g) /\ app'.port = g
           /\ \/ origins' = origins
              \/ origins' = origins \cup {g}
              \/ task[g] = "unlist" /\ task'[g] = "done" /\ origins' = origins \ {g}
           /\ task'[g] = "list" /\ Current(g) => app'.port = g
           /\ task'[g] = "wait" => task[g] = "list" /\ app' = app /\ g \in origins'
           /\ task'[g] = "ready" => task[g] = "wait" /\ app' = app /\ origins' = origins
           /\ app'.state = "Running" =>
                 \/ app.state = "Running"
                 \/ /\ task[g] = "ready" /\ task'[g] = "done" /\ Current(g)
                    /\ app'.port = app.port /\ origins' = origins
<1> app \in AppType /\ task \in [Generations -> Stages]
  BY DEF IInv, Shape
<1> DEFINE Plain == /\ app'.generation = app.generation
                    /\ task[g] \notin {"none", "done"}
                    /\ \A h \in Generations : h # g => task'[h] = task[h]
                    /\ app'.port = app.port /\ origins' = origins
                    /\ task'[g] \notin {"list", "wait", "ready"}
<1> DEFINE StateOf == app'.state = "Running" => app.state = "Running"
<1>1. ASSUME NEW from \in Stages \ {"none", "done"}, NEW pc \in Stages \ {"list", "wait", "ready"},
             At(g, from), Goto(g, pc), UNCHANGED origins,
             app'.generation = app.generation, app'.port = app.port
      PROVE  Plain
  BY <1>1 DEF At, Goto
<1>2. ASSUME NEW from \in Stages \ {"none", "done"}, NEW pc \in Stages \ {"list", "wait", "ready"},
             NEW state \in Busy, Enters(g, from, state, pc)
      PROVE  /\ Plain
             /\ app'.state \in {app.state, state} /\ (~ Current(g) => app'.state = app.state)
             /\ Current(g) => task'[g] = pc
  <2>1. CASE Current(g) /\ app' = [app EXCEPT !.state = state] /\ Goto(g, pc)
    <3>1. app'.state = state /\ app'.generation = app.generation /\ app'.port = app.port
      BY <2>1, StateWritten DEF States
    <3> QED
      BY <1>1, <1>2, <2>1, <3>1 DEF Enters, Goto
  <2>2. CASE ~ Current(g) /\ UNCHANGED app /\ Goto(g, "done")
    BY <1>1, <1>2, <2>2 DEF Enters, Stages
  <2> QED
    BY <1>2, <2>1, <2>2 DEF Enters
<1>3. ASSUME NEW from \in Stages \ {"none", "done"}, NEW pc \in Stages \ {"list", "wait", "ready"},
             At(g, from), Goto(g, pc), UNCHANGED origins,
             app' = IF Current(g) THEN [app EXCEPT !.state = "Failed"] ELSE app
      PROVE  Plain /\ StateOf
  <2>1. /\ app'.generation = app.generation /\ app'.port = app.port
        /\ app'.state \in {"Failed", app.state}
    BY <1>3, StateWritten DEF States
  <2> QED
    BY <1>1, <1>3, <2>1
<1>4. ASSUME NEW from \in Stages \ {"none", "done"}, NEW pc \in Stages \ {"list", "wait", "ready"},
             Completes(g, from, pc)
      PROVE  Plain /\ StateOf
  BY <1>1, <1>4 DEF Completes
<1>5. ASSUME NEW from \in Stages \ {"none", "done"}, Fails(g, from)
      PROVE  Plain /\ StateOf
  BY <1>3, <1>5 DEF Fails, Failed, Stages
<1>6. ASSUME NEW from \in Stages \ {"none", "done"}, NEW pc \in Stages \ {"list", "wait", "ready"},
             NEW state \in Busy \ {"Running"}, Enters(g, from, state, pc)
      PROVE  Plain /\ StateOf
  <2>1. Plain /\ app'.state \in {app.state, state}
    BY <1>2, <1>6
  <2> QED
    BY <2>1
<1>7. CASE Refuse(g) \/ Materialize(g) \/ Install(g) \/ TypeCheck(g) \/ Build(g)
           \/ EnterStarting(g) \/ SpawnFails(g)
  <2>1. Plain /\ StateOf
    <3>1. CASE Refuse(g) \/ SpawnFails(g)
      BY <1>5, <3>1 DEF Refuse, SpawnFails, Stages
    <3>2. CASE Materialize(g)
      BY <1>4, <1>5, <1>6, <3>2 DEF Materialize, Stages, Busy
    <3>3. CASE Install(g)
      BY <1>4, <1>5, <1>6, <3>3 DEF Install, Stages, Busy
    <3>4. CASE TypeCheck(g)
      BY <1>4, <1>5, <3>4 DEF TypeCheck, Stages
    <3>5. CASE Build(g)
      BY <1>4, <1>5, <1>6, <3>5 DEF Build, Stages, Busy
    <3>6. CASE EnterStarting(g)
      BY <1>6, <3>6 DEF EnterStarting, Stages, Busy
    <3> QED
      BY <1>7, <3>1, <3>2, <3>3, <3>4, <3>5, <3>6
  <2> QED
    BY <2>1
<1>8. CASE SpawnServer(g)
  BY <1>8 DEF SpawnServer, At, Goto
<1>9. CASE StoreChild(g)
  <2>1. CASE Current(g) /\ app' = [app EXCEPT !.child = g, !.pgid = g, !.port = g]
             /\ Goto(g, "list")
    BY <1>9, <2>1, StoredFields DEF StoreChild, At, Goto
  <2>2. CASE ~ Current(g) /\ Goto(g, "done") /\ UNCHANGED app
    BY <1>9, <2>2 DEF StoreChild, At, Goto
  <2> QED
    BY <1>9, <2>1, <2>2 DEF StoreChild
<1>10. CASE ListOrigin(g)
  BY <1>10 DEF ListOrigin, At, Goto
<1>11. CASE WaitReady(g)
  <2>1. CASE Reaps(g) /\ app' = [app EXCEPT !.child = None] /\ Goto(g, "exited")
    <3>1. app'.generation = app.generation /\ app'.port = app.port /\ app'.state = app.state
      BY <2>1 DEF AppType
    <3> QED
      BY <1>11, <2>1, <3>1 DEF WaitReady, At, Goto
  <2>2. CASE UNCHANGED app /\ (Goto(g, "ready") \/ Goto(g, "timedout"))
    BY <1>11, <2>2 DEF WaitReady, At, Goto
  <2> QED
    BY <1>11, <2>1, <2>2 DEF WaitReady
<1>12. CASE Ready(g)
  <2>1. /\ Plain
        /\ app'.state \in {app.state, "Running"} /\ (~ Current(g) => app'.state = app.state)
        /\ Current(g) => task'[g] = "done"
    BY <1>2, <1>12 DEF Ready, Stages, Busy
  <2>2. task[g] = "ready"
    BY <1>12 DEF Ready, Enters, At
  <2> QED
    BY <2>1, <2>2
<1>13. CASE Exited(g) \/ TimedOut(g)
  <2>1. Plain /\ StateOf
    BY <1>3, <1>13 DEF Exited, TimedOut, AfterTimeout, Failed, Stages
  <2> QED
    BY <2>1
<1>14. CASE KillAfterTimeout(g)
  BY <1>14, UntrackedFields DEF KillAfterTimeout, At, Goto
<1>15. CASE Unlist(g)
  BY <1>15 DEF Unlist, At, Goto
<1> QED
  BY <1>7, <1>8, <1>9, <1>10, <1>11, <1>12, <1>13, <1>14, <1>15
  DEF Lifecycle, FinishReadiness

\* Before the first request nothing is running.
LEMMA RunInit == Init => RunInv
  BY InitInv DEF Init, RunInv, Current, Held, RunningTruth

(* The invariant is inductive: only the current task's own steps touch the *)
(* port and the listing it relies on.                                      *)
LEMMA RunStep == RunInv /\ [Next]_vars => RunInv'
<1> SUFFICES ASSUME RunInv, [Next]_vars PROVE RunInv'
  OBVIOUS
<1>0. /\ IInv /\ IInv' /\ app \in AppType
      /\ app.generation \in Nat /\ task \in [Generations -> Stages]
  BY NextInv DEF RunInv, IInv, Shape, AppType
<1>1. ASSUME NEW state \in {"Materializing", "Stopped"}, Superseding(state),
             app.generation < MaxGeneration,
             task' \in {task, [task EXCEPT ![app.generation + 1] = "begin"]}
      PROVE  RunInv'
  <2>1. app'.state = state /\ app'.generation = app.generation + 1
    BY <1>0, <1>1, SupersededFields
  <2>2. app.generation + 1 \in Generations /\ task[app.generation + 1] = "none"
    BY <1>0, <1>1 DEF IInv, Unborn
  <2>3. task'[app.generation + 1] \in {"none", "begin"}
    BY <1>0, <1>1, <2>2
  <2>4. \A g \in Generations : Current(g)' => Held(g)'
    BY <2>1, <2>3 DEF Current, Held
  <2>5. RunningTruth'
    BY <2>1 DEF RunningTruth
  <2> QED
    BY <1>0, <2>4, <2>5 DEF RunInv
<1>2. ASSUME NEW rebuild \in BOOLEAN, Start(rebuild) PROVE RunInv'
  BY <1>1, <1>2 DEF Start
<1>3. CASE Stop
  <2>1. app.generation < MaxGeneration
    BY <1>3 DEF Stop
  <2> QED
    BY <1>1, <1>3, <2>1 DEF Stop
<1>4. CASE UNCHANGED <<app, task, origins>>
  BY <1>0, <1>4 DEF RunInv, Current, Held, RunningTruth, At
<1>5. ASSUME NEW g \in Generations, Lifecycle(g) PROVE RunInv'
  <2>1. ASSUME NEW h \in Generations, Current(h)' PROVE Held(h)'
    <3>1. Current(h) /\ Held(h)
      BY <1>0, <1>5, <2>1, LifecycleFrame DEF RunInv, Current
    <3>2. CASE h = g
      BY <1>0, <1>5, <3>1, <3>2, LifecycleFrame DEF Held
    <3>3. CASE h # g
      <4>1. ~ Current(g)
        BY <3>1, <3>3 DEF Current
      <4> QED
        BY <1>0, <1>5, <3>1, <3>3, <4>1, LifecycleFrame DEF Held
    <3> QED
      BY <3>2, <3>3
  <2>2. RunningTruth'
    <3> SUFFICES ASSUME app'.state = "Running"
                 PROVE  /\ app'.port = app'.generation /\ app'.port \in origins'
                        /\ task'[app'.generation] = "done"
      BY DEF RunningTruth, At
    <3>1. CASE app.state = "Running"
      <4>1. /\ app.port = app.generation /\ app.port \in origins
            /\ task[app.generation] = "done"
        BY <3>1 DEF RunInv, RunningTruth, At
      <4>2. app.generation \in Generations
        BY <1>0, <4>1 DEF IInv, Shape
      <4>3. ~ Current(g) /\ app.generation # g
        BY <1>0, <1>5, <4>1, LifecycleFrame DEF Current
      <4> QED
        BY <1>0, <1>5, <4>1, <4>2, <4>3, LifecycleFrame
    <3>2. CASE /\ task[g] = "ready" /\ task'[g] = "done" /\ Current(g)
               /\ app'.port = app.port /\ origins' = origins
      BY <1>0, <1>5, <3>2, LifecycleFrame DEF RunInv, Held, Current
    <3> QED
      BY <1>0, <1>5, <3>1, <3>2, LifecycleFrame
  <2> QED
    BY <1>0, <2>1, <2>2 DEF RunInv
<1>6. ASSUME NEW g \in Generations, Accepts(g) \/ Exits(g) PROVE RunInv'
  BY <1>4, <1>6 DEF Accepts, Exits
<1> QED
  BY <1>2, <1>3, <1>4, <1>5, <1>6 DEF Next, vars

(* Running is said of the current run only: its own task saw its own port  *)
(* accept, and the port shown is that server's and is listed, for any      *)
(* number of requests and whichever superseded tasks still run             *)
(* (hostsupervisor.rs:592).                                                *)
THEOREM RunningIsTrue == Spec => []RunningTruth
<1>1. RunInv => RunningTruth
  BY DEF RunInv
<1> QED
  BY <1>1, RunInit, RunStep, PTL DEF Spec

=============================================================================
