------------------------------ MODULE HostedApp ------------------------------
(***************************************************************************)
(* The supervisor of one hosted App (hostsupervisor.rs): Start and Stop    *)
(* requests, the background task that each Start spawns (materialize,      *)
(* install, type-check, build, spawn the server, wait until it accepts),   *)
(* and the server processes.  Requests and tasks share the RunningApp      *)
(* under a mutex; a generation number, bumped by every Start and Stop,     *)
(* tells a task that it is superseded.                                     *)
(*                                                                         *)
(* A task, its server and the server's port are named by the generation    *)
(* that made them (alloc_port returns a fresh port).  Left out: the        *)
(* contents of the working directory, the page's credential (app_tokens)   *)
(* and the log ring.  The supervisor persists nothing: a new gateway       *)
(* process starts from Init.                                               *)
(***************************************************************************)
EXTENDS Naturals, FiniteSets

CONSTANT MaxGeneration   \* bound: Start and Stop requests

ASSUME HostedAssumption == MaxGeneration \in Nat

VARIABLES
    app,       \* RunningApp: state, generation, child, pgid and port
    task,      \* task[g]: where the lifecycle task of generation g is
    server,    \* server[g]: the server process that task spawned
    origins    \* hosted_origins: the ports whose pages the gateway allows

vars == <<app, task, server, origins>>

None == 0
Generations == 1..MaxGeneration
Busy == {"Materializing", "Installing", "Building", "Starting", "Running"}
Alive == {"up", "accepting"}

Init ==
    /\ app = [state |-> "Stopped", generation |-> 0,
              child |-> None, pgid |-> None, port |-> None]
    /\ task = [g \in Generations |-> "none"]
    /\ server = [g \in Generations |-> "none"]
    /\ origins = {}

-----------------------------------------------------------------------------
(* kill_tree: the process group and the direct child, both forgotten. *)

Killed(g) == [h \in Generations |-> IF h = g /\ server[h] \in Alive
                                    THEN "killed" ELSE server[h]]

KillTree == server' = Killed(app.pgid)

Untracked(a) == [a EXCEPT !.child = None, !.pgid = None]

\* Mutated form: the server of the run before is forgotten, not killed.
Superseding_Keeps(state) ==
    /\ app' = [Untracked(app) EXCEPT !.generation = @ + 1, !.state = state,
                                     !.port = None]
    /\ UNCHANGED server

(* Every request that changes the App supersedes the task of the run before *)
(* and kills its server.                                                    *)
Superseding(state) ==
    /\ KillTree
    /\ app' = [Untracked(app) EXCEPT !.generation = @ + 1, !.state = state,
                                     !.port = None]

(* start: an App that is progressing or running is left alone unless a     *)
(* rebuild is asked for.                                                   *)
Start(rebuild) ==
    /\ app.generation < MaxGeneration
    /\ app.state \in Busy => rebuild
    /\ Superseding("Materializing")
    /\ task' = [task EXCEPT ![app.generation + 1] = "begin"]
    /\ UNCHANGED origins

(* stop, of an App the supervisor knows. *)
Stop ==
    /\ app.generation \in 1..(MaxGeneration - 1)
    /\ Superseding("Stopped")
    /\ origins' = origins \ {app.port}
    /\ UNCHANGED task

-----------------------------------------------------------------------------
(* The lifecycle task of generation g. *)

At(g, pc) == task[g] = pc

Goto(g, pc) == task' = [task EXCEPT ![g] = pc]

\* Mutated form: no guard.
Current_Any(g) == g <= app.generation

Current(g) == app.generation = g

(* advance, at the head of a stage: the task writes its state, or finds    *)
(* that it is superseded and ends.                                         *)
Enters(g, from, state, to) ==
    /\ At(g, from)
    /\ \/ Current(g) /\ app' = [app EXCEPT !.state = state] /\ Goto(g, to)
       \/ ~ Current(g) /\ UNCHANGED app /\ Goto(g, "done")
    /\ UNCHANGED <<server, origins>>

(* A stage ends: well, or with advance(Failed) and the end of the task.    *)
Completes(g, at, to) ==
    /\ At(g, at)
    /\ Goto(g, to)
    /\ UNCHANGED <<app, server, origins>>

Failed == [app EXCEPT !.state = "Failed"]

Fails(g, at) ==
    /\ At(g, at)
    /\ Goto(g, "done")
    /\ app' = IF Current(g) THEN Failed ELSE app
    /\ UNCHANGED <<server, origins>>

\* A sandbox the platform cannot provide is refused before any work.
Refuse(g) == Fails(g, "begin")

Materialize(g) == \/ Enters(g, "begin", "Materializing", "materialize")
                  \/ Completes(g, "materialize", "materialized")
                  \/ Fails(g, "materialize")

\* npm install is skipped, succeeds, fails or is killed at COMMAND_TIMEOUT.
Install(g) == \/ Enters(g, "materialized", "Installing", "install")
              \/ Completes(g, "install", "check")
              \/ Fails(g, "install")

\* The run goes on to the build in the production lane only, which is read
\* here and nowhere else that matters.
TypeCheck(g) == \/ \E lane \in {"checked", "built"} : Completes(g, "check", lane)
                \/ Fails(g, "check")

Build(g) == \/ Enters(g, "checked", "Building", "build")
            \/ Completes(g, "build", "built")
            \/ Fails(g, "build")

EnterStarting(g) == Enters(g, "built", "Starting", "spawn")

SpawnFails(g) == Fails(g, "spawn")

SpawnServer(g) ==
    /\ At(g, "spawn")
    /\ server' = [server EXCEPT ![g] = "up"]
    /\ Goto(g, "store")
    /\ UNCHANGED <<app, origins>>

(* The child, its group and its port are stored, or the server of a        *)
(* superseded task is killed where it stands.                              *)
StoreChild(g) ==
    /\ At(g, "store")
    /\ \/ /\ Current(g)
          /\ app' = [app EXCEPT !.child = g, !.pgid = g, !.port = g]
          /\ Goto(g, "list")
          /\ UNCHANGED server
       \/ /\ ~ Current(g)
          /\ server' = Killed(g)
          /\ Goto(g, "done")
          /\ UNCHANGED app
    /\ UNCHANGED origins

ListOrigin(g) ==
    /\ At(g, "list")
    /\ origins' = origins \cup {g}
    /\ Goto(g, "wait")
    /\ UNCHANGED <<app, server>>

(* wait_ready: the port accepts; or this generation's child is found       *)
(* exited and reaped; or the deadline passes.                              *)
Reaps(g) == Current(g) /\ app.child = g /\ server[g] = "exited"

WaitReady(g) ==
    /\ At(g, "wait")
    /\ \/ server[g] = "accepting" /\ Goto(g, "ready") /\ UNCHANGED app
       \/ /\ Reaps(g)
          /\ app' = [app EXCEPT !.child = None]
          /\ Goto(g, "exited")
       \/ Goto(g, "timedout") /\ UNCHANGED app
    /\ UNCHANGED <<server, origins>>

\* Mutated form: a timeout kills the server and leaves the state.
AfterTimeout_Silent == app

AfterTimeout == Failed

(* finish_readiness.  A timeout takes the lock twice: to write the state   *)
(* if the task is current, then to kill whatever server the App has.       *)
Ready(g) == Enters(g, "ready", "Running", "done")

Exited(g) ==
    /\ At(g, "exited")
    /\ app' = IF Current(g) THEN Failed ELSE app
    /\ Goto(g, "unlist")
    /\ UNCHANGED <<server, origins>>

TimedOut(g) ==
    /\ At(g, "timedout")
    /\ app' = IF Current(g) THEN AfterTimeout ELSE app
    /\ Goto(g, "kill")
    /\ UNCHANGED <<server, origins>>

KillAfterTimeout(g) ==
    /\ At(g, "kill")
    /\ KillTree
    /\ app' = Untracked(app)
    /\ Goto(g, "unlist")
    /\ UNCHANGED origins

\* Mutated form: the port the App has now.
Unlist_AppPort(g) ==
    /\ At(g, "unlist")
    /\ origins' = origins \ {app.port}
    /\ Goto(g, "done")
    /\ UNCHANGED <<app, server>>

Unlist(g) ==
    /\ At(g, "unlist")
    /\ origins' = origins \ {g}
    /\ Goto(g, "done")
    /\ UNCHANGED <<app, server>>

FinishReadiness(g) == Ready(g) \/ Exited(g) \/ TimedOut(g) \/ KillAfterTimeout(g)
                      \/ Unlist(g)

Lifecycle(g) ==
    \/ Refuse(g) \/ Materialize(g) \/ Install(g) \/ TypeCheck(g) \/ Build(g)
    \/ EnterStarting(g) \/ SpawnFails(g) \/ SpawnServer(g) \/ StoreChild(g)
    \/ ListOrigin(g) \/ WaitReady(g) \/ FinishReadiness(g)

-----------------------------------------------------------------------------
(* The server process, which is npm's: it opens its port, or exits. *)

Accepts(g) ==
    /\ server[g] = "up"
    /\ server' = [server EXCEPT ![g] = "accepting"]
    /\ UNCHANGED <<app, task, origins>>

Exits(g) ==
    /\ server[g] \in Alive
    /\ server' = [server EXCEPT ![g] = "exited"]
    /\ UNCHANGED <<app, task, origins>>

Next ==
    \/ \E rebuild \in BOOLEAN : Start(rebuild)
    \/ Stop
    \/ \E g \in Generations : Lifecycle(g)
    \/ \E g \in Generations : Accepts(g) \/ Exits(g)

(* Every step of a task returns: the commands are bounded by               *)
(* COMMAND_TIMEOUT and the wait by READINESS_TIMEOUT; tsc has no bound of  *)
(* the supervisor's and is assumed to end.                                 *)
Spec == Init /\ [][Next]_vars /\ \A g \in Generations : WF_vars(Lifecycle(g))

-----------------------------------------------------------------------------
States == Busy \cup {"Stopped", "Failed"}

(* The App's fields are consistent with its task: it tracks a child only   *)
(* of the current generation and with its group, and a port only of a      *)
(* server that was spawned (RunningApp, hostsupervisor.rs:77).             *)
TypeOK ==
    /\ app.state \in States /\ app.generation \in 0..MaxGeneration
    /\ app.child \in {None, app.pgid}
    /\ app.pgid \in {None, app.generation} /\ app.port \in {None, app.generation}
    /\ app.port # None => server[app.port] # "none"
    /\ \A g \in Generations : g > app.generation => task[g] = "none"
    /\ origins \subseteq {g \in Generations : server[g] # "none"}

(* No server outlives the run it belongs to: one that is alive is the one  *)
(* the App tracks and the next Stop or Start kills, or is in the hands of  *)
(* the task about to store or kill it, whatever Start and Stop overtake    *)
(* (hostsupervisor.rs:562).                                                *)
NoOrphan ==
    \A g \in Generations :
        server[g] \in Alive => app.pgid = g \/ At(g, "store")

(* Running is said of the current run only: its own task saw its own port  *)
(* accept, the port shown is that server's and its page's calls are        *)
(* allowed; no earlier task's readiness is taken for it                    *)
(* (hostsupervisor.rs:592).                                                *)
RunningTruth ==
    app.state = "Running" =>
        /\ app.port = app.generation /\ app.port \in origins
        /\ At(app.generation, "done")

(* A stopped or failed App stays so until the next request: a task that    *)
(* was overtaken by a Stop, at whatever stage, does not bring it back      *)
(* (advance, hostsupervisor.rs:453).                                       *)
RestsUntilAsked ==
    [][app.state \in {"Stopped", "Failed"} /\ app.state' # app.state =>
          app'.generation > app.generation]_vars

(* A start comes to an end: the App is running, failed or stopped, and no  *)
(* status is "installing" or "starting" for ever, although superseded      *)
(* tasks still hold the working directory or wait for a port               *)
(* (hostsupervisor.rs:1071).                                               *)
Settles ==
    app.state \in Busy \ {"Running"} ~> app.state \in {"Running", "Failed", "Stopped"}

(* Only the App's own exit or a request ends a server that runs: a task    *)
(* that was superseded aborts its writes (hostsupervisor.rs:95).           *)
RunningIsServed ==
    app.state = "Running" => server[app.generation] # "killed"
=============================================================================
