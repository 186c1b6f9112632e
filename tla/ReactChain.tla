----------------------------- MODULE ReactChain -----------------------------
(***************************************************************************)
(* One ReAct chain of the coordinator (kx-coordinator/src/state.rs): turns  *)
(* of a model, the tool calls a turn proposes, their observations, the      *)
(* operator's approvals, the rerank of retrieved passages, the budget, and  *)
(* for an agentic step the launch Mote the chain answers for.               *)
(*                                                                         *)
(* The owner thread serves commands (workers, operator, client), then runs  *)
(* the settle passes; pc is the position in them.  A pass step appends at   *)
(* most one journal entry, so Restart can come between any two appends, and *)
(* with ok = FALSE the append fails.  The chain is re-derived from its      *)
(* facts (rounds) in every pass and after a restart.                        *)
(*                                                                         *)
(* A call stands for a tool with its arguments.  The workers are the        *)
(* in-process pool: a restart takes their work with it.                     *)
(***************************************************************************)
EXTENDS Naturals, Sequences, FiniteSets

CONSTANTS
    MaxTurns,       \* the anchor's max_turns
    MaxToolCalls,   \* the anchor's max_tool_calls
    MaxBatch,       \* MAX_TOOL_BATCH_CALLS
    Ceiling,        \* cost ceiling in priced units, 0 = off
    TurnPrice,      \* price of a turn; a call costs 1
    Calls,          \* what a turn can propose
    Outputs,        \* what the committed output of a turn decodes to
    Gated,          \* calls held for approval (require_approval and the class)
    Retrieval,      \* retrieve@1 calls that find two passages or more
    Removable,      \* calls whose tool an operator may deregister
    Failing,        \* calls whose observation may fail for good
    AtLeastOnce,    \* calls whose tool resolved to IdempotencyClass::AtLeastOnce
    FailingKinds,   \* kinds of Mote that may be dead-lettered: "turn", "rerank"
    Crashing,       \* kinds of Mote a worker may die with
    Kinds,          \* "run": a chain of its own; "launch": an agentic step
    Flaky,          \* appends that may fail
    MaxFaults       \* bound: appends that fail, crashes, removals, restarts

Turns == 0 .. MaxTurns - 1
Slots == 1 .. MaxBatch
Reasons == {"refused", "duplicate", "failed"}

\* The instruction of a turn: the base prompt, re-prompted after a refusal,
\* nudged near the budget (render_turn_instruction).  It is part of the id.
Base == [reject |-> "none", nudge |-> FALSE]
Texts == [reject : Reasons \cup {"none"}, nudge : BOOLEAN]

\* MoteIds.
Mote(kind, t, i, text) == [kind |-> kind, turn |-> t, slot |-> i, text |-> text]
TurnMote(t, text) == Mote("turn", t, 0, text)
ObsMote(t, i) == Mote("obs", t, i, Base)
TurnMotes == {TurnMote(t, text) : t \in Turns, text \in Texts}
RerankMote(t) == Mote("rerank", t, 0, Base)
Launch == Mote("launch", 0, 0, Base)
Motes == [kind : {"turn", "obs", "rerank", "launch"}, turn : Turns,
          slot : 0 .. MaxBatch, text : Texts]

Branches == {"Pending", "Answer", "Tool", "Rejected", "DeadLettered"}
Round(t, branch, reason, text) ==
    [turn |-> t, branch |-> branch, reason |-> reason, text |-> text]
Rounds == [turn : Turns, branch : Branches, reason : Reasons \cup {"none"},
           text : Texts]

Faults == {"append", "crash", "removal", "restart"}

\* An output that has not been committed yet decodes to nothing.
NoOutput == [calls |-> <<>>, refused |-> TRUE]

ASSUME ReactAssumption ==
    /\ MaxTurns \in Nat \ {0}
    /\ MaxToolCalls \in Nat \ {0}
    /\ MaxBatch \in Nat \ {0}
    /\ Ceiling \in Nat /\ TurnPrice \in Nat
    /\ Outputs \subseteq [calls : Seq(Calls), refused : BOOLEAN]
    /\ \A o \in Outputs : Len(o.calls) <= MaxBatch \/ o.refused
    /\ Gated \subseteq Calls /\ Retrieval \subseteq Calls
    /\ Removable \subseteq Calls /\ Failing \subseteq Calls
    /\ AtLeastOnce \subseteq Calls
    /\ FailingKinds \subseteq {"turn", "rerank"}
    /\ Crashing \subseteq {"turn", "obs", "rerank", "input"}
    /\ Kinds \subseteq {"run", "launch"}
    /\ Flaky \subseteq {"anchor", "branch", "pending", "approval", "rerank", "launch"}
    /\ MaxFaults \in Nat

VARIABLES
    rounds,         \* the ReactRound facts of the chain, in journal order
    committed,      \* Motes with a Committed entry
    failed,         \* Motes with a terminal Failed entry
    crashed,        \* Motes with a WorkerCrashed entry
    staged,         \* Motes with an EffectStaged entry
    output,         \* what each committed turn Mote decodes to
    requested, granted, denied,   \* Approval facts, by observation
    reranking, reranked,          \* ReRankRound facts: anchored, settled
    defs,           \* Dispatch.defs: Motes a worker may be given
    leased,         \* LeaseTracker
    slow,           \* Motes of workers that were reaped and still run
    declared,       \* the client's Mote is known to this incarnation's scheduler
    parked,         \* parked_launches holds the launch
    settled,        \* ReactSettleCache.settled holds the chain
    pc,             \* position in the settle passes
    kind,           \* of the chain
    input,          \* the DAG parent of the launch
    registered,     \* the tool registry
    ran,            \* history: observations a worker was ever given
    faults          \* how often each fault has happened

facts == <<rounds, committed, failed, crashed, staged, output, requested,
           granted, denied, reranking, reranked>>
dispatch == <<defs, leased, slow, declared, parked, settled>>
world == <<kind, input, registered, ran>>
vars == <<facts, dispatch, pc, world, faults>>

\* One more fault of this kind, while the bound allows it.
Fault(f) == /\ faults["append"] + faults["crash"] + faults["removal"] + faults["restart"]
                 < MaxFaults
            /\ faults' = [faults EXCEPT ![f] = @ + 1]

At(place) == [at |-> place, call |-> 0, all |-> TRUE]
Idle == At("idle")

Init ==
    /\ rounds = <<>>
    /\ committed = {} /\ failed = {} /\ crashed = {} /\ staged = {}
    /\ output = [m \in TurnMotes |-> NoOutput]
    /\ requested = {} /\ granted = {} /\ denied = {}
    /\ reranking = {} /\ reranked = {}
    /\ defs = {} /\ leased = {} /\ slow = {}
    /\ declared = FALSE /\ parked = FALSE /\ settled = FALSE
    /\ pc = Idle
    /\ kind \in Kinds
    /\ input = IF kind = "launch" THEN "pending" ELSE "committed"
    /\ registered = Calls
    /\ ran = {}
    /\ faults = [f \in Faults |-> 0]

-----------------------------------------------------------------------------
(* What the chain's facts say *)

\* MoteState of a Mote of the chain: a commit wins over a crash, and so does an
\* intent that was staged.
StateOf(m) == CASE m \in committed -> "Committed"
                [] m \notin committed /\ m \in failed -> "Failed"
                [] m \notin committed \cup failed /\ m \in crashed \ staged -> "Crashed"
                [] OTHER -> "Pending"

Anchored == \E k \in DOMAIN rounds : rounds[k].turn = 0
HasTurn(t) == \E k \in DOMAIN rounds : rounds[k].turn = t
HasFact(t, branch) ==
    \E k \in DOMAIN rounds : rounds[k].turn = t /\ rounds[k].branch = branch

\* The latest fact of turn t, and the work frontier: the latest of the highest.
LatestOf(t) ==
    CHOOSE k \in DOMAIN rounds :
        /\ rounds[k].turn = t
        /\ \A j \in DOMAIN rounds : rounds[j].turn = t => j <= k
FrontierTurn ==
    CHOOSE t \in Turns : HasTurn(t) /\ \A u \in Turns : HasTurn(u) => u <= t
Frontier == rounds[LatestOf(FrontierTurn)]

\* The Mote of a turn, as its first fact (Pending) names it.
MoteOf(t) ==
    TurnMote(t, rounds[CHOOSE k \in DOMAIN rounds :
                         rounds[k].turn = t /\ \A j \in 1 .. k - 1 : rounds[j].turn # t].text)

\* What the committed output of a turn decodes to: the output of its Mote.
OutputOf(t) == output[MoteOf(t)]

\* Calls spent by the facts of the turns in S: each call of a Tool or ToolBatch
\* fact, and one for a Rejected fact.
Width(r) == CASE r.branch = "Tool" -> Len(OutputOf(r.turn).calls)
              [] r.branch = "Rejected" -> 1
              [] OTHER -> 0
\* Mutated form: a batch is one call.
SpentIn_PerTurn(S) ==
    Cardinality({k \in DOMAIN rounds : rounds[k].turn \in S /\ Width(rounds[k]) > 0})

SpentIn(S) ==
    Cardinality({kj \in (DOMAIN rounds) \X Slots :
                   /\ rounds[kj[1]].turn \in S
                   /\ kj[2] <= Width(rounds[kj[1]])})

\* Every fact counts, whichever turn it is of.
Spent == SpentIn(Turns)
SpentBefore(t) == SpentIn({u \in Turns : u < t})

\* near_budget of the turn that is built when `used' turns and `calls' are spent.
NearBudget(calls, used) == calls + 1 >= MaxToolCalls \/ used + 1 >= MaxTurns

\* The refusal the next turn is told about: only if it is the latest fact of t.
RejectOf(t) == IF HasTurn(t) /\ rounds[LatestOf(t)].branch = "Rejected"
               THEN rounds[LatestOf(t)].reason ELSE "none"

\* Mutated form: only the turns whose latest fact is the Tool fact.
PriorFired_Latest(t) ==
    UNION {{OutputOf(u).calls[i] : i \in DOMAIN OutputOf(u).calls} :
             u \in {v \in Turns : v < t /\ HasTurn(v)
                                  /\ rounds[LatestOf(v)].branch = "Tool"}}

\* collect_prior_fired_calls: the calls of every earlier turn with a Tool fact,
\* although a Rejected fact may have superseded it.
PriorFired(t) ==
    UNION {{OutputOf(u).calls[i] : i \in DOMAIN OutputOf(u).calls} :
             u \in {v \in Turns : v < t /\ HasFact(v, "Tool")}}

\* settle_calls_to_branch and the duplicate check before it: the branch a
\* committed output freezes.  refused stands for whatever the decoder, the
\* attempt and continuation checks or the batch cap refuse.
Decision(t) ==
    LET o == OutputOf(t)
        tools == {o.calls[i] : i \in DOMAIN o.calls}
    IN  CASE o.refused -> Round(t, "Rejected", "refused", Base)
          [] ~o.refused /\ o.calls = <<>> -> Round(t, "Answer", "none", Base)
          [] ~o.refused /\ Len(o.calls) = 1 /\ tools \subseteq PriorFired(t)
                -> Round(t, "Rejected", "duplicate", Base)
          [] ~o.refused /\ o.calls # <<>>
             /\ ~(Len(o.calls) = 1 /\ tools \subseteq PriorFired(t))
                -> IF tools \subseteq registered
                   THEN Round(t, "Tool", "none", Base)
                   ELSE Round(t, "Rejected", "refused", Base)

\* react_projected_spend_micro_usd, in units of a call.
ProjectedSpend(t) == (t + 1) * TurnPrice + Spent

-----------------------------------------------------------------------------
(* Appends *)

\* An append of this kind goes through, or fails with an error that is logged.
Outcome(what, ok) == ok \/ what \in Flaky
Charge(ok) == IF ok THEN UNCHANGED faults ELSE Fault("append")

\* append_react_branch: one branch fact, unless the turn has the same already.
append_react_branch(r, ok) ==
    rounds' = IF ~ok \/ (\E k \in DOMAIN rounds :
                            /\ rounds[k].turn = r.turn
                            /\ rounds[k].branch = r.branch
                            /\ rounds[k].reason = r.reason)
              THEN rounds ELSE Append(rounds, r)

DeadLettered(t) == Round(t, "DeadLettered", "none", Base)

\* dead_letter_agentic_launch, commit_agentic_launch.
DeadLetterLaunch(ok) ==
    /\ failed' = IF ok THEN failed \cup {Launch} ELSE failed
    /\ defs' = IF ok THEN defs \ {Launch} ELSE defs
    /\ UNCHANGED committed
CommitLaunch(ok) ==
    /\ committed' = IF ok THEN committed \cup {Launch} ELSE committed
    /\ defs' = IF ok THEN defs \ {Launch} ELSE defs
    /\ UNCHANGED failed

-----------------------------------------------------------------------------
(* The client submits *)

\* submit_and_capture of a react seed: turn 0 is admitted in place of the seed,
\* then the chain is anchored.
SubmitSeed(ok) ==
    /\ pc = Idle /\ kind = "run" /\ ~declared
    /\ Outcome("anchor", ok) /\ (Anchored => ok)
    /\ declared' = TRUE
    /\ defs' = defs \cup {TurnMote(0, Base)}
    /\ rounds' = IF ok /\ ~Anchored THEN Append(rounds, Round(0, "Pending", "none", Base))
                 ELSE rounds
    /\ Charge(ok)
    /\ UNCHANGED <<committed, failed, crashed, staged, output, requested, granted, denied,
                   reranking, reranked, leased, slow, parked, settled, pc, world>>

\* submit_and_capture of an agentic launch step: admitted and parked.
SubmitLaunch ==
    /\ pc = Idle /\ kind = "launch" /\ ~declared
    /\ declared' = TRUE
    /\ parked' = TRUE
    /\ defs' = defs \cup {Launch}
    /\ UNCHANGED <<facts, leased, slow, settled, pc, world, faults>>

-----------------------------------------------------------------------------
(* run_settle_passes: settle_agentic_launches *)

BeginPass ==
    /\ pc = Idle
    /\ pc' = At("launch")
    /\ UNCHANGED <<facts, dispatch, world, faults>>

\* Nothing is parked, or its parent is still in flight.
LaunchWaits ==
    /\ pc.at = "launch"
    /\ ~parked \/ (Launch \in defs /\ StateOf(Launch) = "Pending" /\ input = "pending")
    /\ pc' = At("rerank")
    /\ UNCHANGED <<facts, dispatch, world, faults>>

\* The launch is gone, done, or its chain is anchored.
UnparkLaunch ==
    /\ pc.at = "launch" /\ parked
    /\ \/ Launch \notin defs
       \/ StateOf(Launch) # "Pending"
       \/ input = "committed" /\ Anchored
    /\ parked' = FALSE
    /\ pc' = At("rerank")
    /\ UNCHANGED <<facts, defs, leased, slow, declared, settled, world, faults>>

LaunchReady == parked /\ Launch \in defs /\ StateOf(Launch) = "Pending"

\* A parent that is Failed, whatever the flavour, dead-letters the launch.
LaunchUnsatisfiable(ok) ==
    /\ pc.at = "launch" /\ LaunchReady
    /\ input \in {"lost", "crashed"}
    /\ Outcome("launch", ok)
    /\ DeadLetterLaunch(ok)
    /\ parked' = FALSE
    /\ pc' = At("rerank")
    /\ Charge(ok)
    /\ UNCHANGED <<rounds, crashed, staged, output, requested, granted, denied, reranking,
                   reranked, leased, slow, declared, settled, world>>

\* Anchor the chain, then materialize turn 0; a failed anchor stays parked.
AnchorLaunch(ok) ==
    /\ pc.at = "launch" /\ LaunchReady
    /\ input = "committed" /\ ~Anchored
    /\ Outcome("anchor", ok)
    /\ append_react_branch(Round(0, "Pending", "none", Base), ok)
    /\ defs' = IF ok THEN defs \cup {TurnMote(0, Base)} ELSE defs
    /\ parked' = ~ok
    /\ pc' = At("rerank")
    /\ Charge(ok)
    /\ UNCHANGED <<committed, failed, crashed, staged, output, requested, granted, denied,
                   reranking, reranked, leased, slow, declared, settled, world>>

(* settle_rerank_rounds *)

\* Mutated form: a rerank that failed is waited for.
OpenReranks_Committed == {t \in reranking \ reranked : StateOf(RerankMote(t)) = "Committed"}

OpenReranks == {t \in reranking \ reranked : StateOf(RerankMote(t)) # "Pending"}

SettleReranks(ok) ==
    /\ pc.at = "rerank"
    /\ Outcome("rerank", ok) /\ (OpenReranks = {} => ok)
    /\ reranked' = IF ok THEN reranked \cup OpenReranks ELSE reranked
    /\ pc' = At("drive")
    /\ Charge(ok)
    /\ UNCHANGED <<rounds, committed, failed, crashed, staged, output, requested, granted,
                   denied, reranking, dispatch, world>>

-----------------------------------------------------------------------------
(* drive_react_chain *)

\* A chain that is not anchored, cached as settled, or whose turn is in flight
\* or lost by a crash (its commit may still come) is left alone.
Quiescent ==
    \/ ~Anchored \/ settled
    \/ Anchored /\ Frontier.branch = "Pending" /\ StateOf(MoteOf(FrontierTurn)) \in {"Pending", "Crashed"}

\* Where a frozen frontier is driven to.
DriveTo(branch) == CASE branch = "Tool" -> "calls"
                     [] branch = "Rejected" -> "advance"
                     [] branch \in {"Answer", "DeadLettered"} -> "final"

LeaveChain ==
    /\ pc.at = "drive" /\ Quiescent
    /\ pc' = Idle
    /\ UNCHANGED <<facts, dispatch, world, faults>>

Drive ==
    /\ pc.at = "drive" /\ ~Quiescent /\ Frontier.branch # "Pending"
    /\ pc' = At(DriveTo(Frontier.branch))
    /\ UNCHANGED <<facts, dispatch, world, faults>>

\* The turn in flight ended: its branch is frozen and driven on in the same pass,
\* whether or not the fact could be appended.
Freeze(ok) ==
    /\ pc.at = "drive" /\ ~Quiescent /\ Frontier.branch = "Pending"
    /\ Outcome("branch", ok)
    /\ LET t == FrontierTurn
           r == IF StateOf(MoteOf(t)) = "Failed" THEN DeadLettered(t) ELSE Decision(t)
       IN  /\ append_react_branch(r, ok)
           /\ pc' = At(DriveTo(r.branch))
    /\ Charge(ok)
    /\ UNCHANGED <<committed, failed, crashed, staged, output, requested, granted, denied,
                   reranking, reranked, dispatch, world>>

-----------------------------------------------------------------------------
(* progress_tool_batch: the calls of turn t, one by one *)

Proposed == OutputOf(FrontierTurn).calls
Call == Proposed[pc.call]
Obs == ObsMote(FrontierTurn, pc.call)

AtCall == pc.at = "calls" /\ pc.call > 0

\* On to the next call, or past the last: the chain goes on only if every
\* observation has committed.
NextCall(all) ==
    pc' = IF pc.call < Len(Proposed) THEN [at |-> "calls", call |-> pc.call + 1, all |-> all]
          ELSE IF all THEN At("gate") ELSE Idle

\* The chain is dead-lettered and settles.
KillChain(ok) ==
    /\ Outcome("branch", ok)
    /\ append_react_branch(DeadLettered(FrontierTurn), ok)
    /\ pc' = At("final")
    /\ Charge(ok)
    /\ UNCHANGED <<committed, failed, crashed, staged, output, requested, granted, denied,
                   reranking, reranked, leased, slow, declared, parked, settled,
                   world>>

\* The cost ceiling, before any call of the turn is offered.
WithinCeiling ==
    /\ pc.at = "calls" /\ pc.call = 0
    /\ Ceiling = 0 \/ ProjectedSpend(FrontierTurn) <= Ceiling
    /\ NextCall(TRUE)
    /\ UNCHANGED <<facts, dispatch, world, faults>>
OverCeiling(ok) ==
    /\ pc.at = "calls" /\ pc.call = 0
    /\ Ceiling > 0 /\ ProjectedSpend(FrontierTurn) > Ceiling
    /\ KillChain(ok)
    /\ UNCHANGED defs

\* Mutated form: what an earlier call of the batch said is forgotten.
CallObserved_Forgets ==
    /\ AtCall /\ StateOf(Obs) = "Committed"
    /\ NextCall(TRUE)
    /\ UNCHANGED <<facts, dispatch, world, faults>>

CallObserved ==
    /\ AtCall /\ StateOf(Obs) = "Committed"
    /\ NextCall(pc.all)
    /\ UNCHANGED <<facts, dispatch, world, faults>>

\* A crash may still be followed by the commit: wait.
CallCrashed ==
    /\ AtCall /\ StateOf(Obs) = "Crashed"
    /\ pc' = Idle
    /\ UNCHANGED <<facts, dispatch, world, faults>>

\* The tool failed for good: the turn is rejected, the next pass re-prompts.
CallFailed(ok) ==
    /\ AtCall /\ StateOf(Obs) = "Failed"
    /\ Outcome("branch", ok)
    /\ append_react_branch(Round(FrontierTurn, "Rejected", "failed", Base), ok)
    /\ pc' = Idle
    /\ Charge(ok)
    /\ UNCHANGED <<committed, failed, crashed, staged, output, requested, granted, denied,
                   reranking, reranked, dispatch, world>>

\* resolve_tool_args: the arguments of call i can never be resolved, because the
\* tool is gone or the batch it belongs to was not recorded.
Unresolvable(t, i) ==
    \/ OutputOf(t).calls[i] \notin registered
    \/ Len(OutputOf(t).calls) > 1 /\ ~HasFact(t, "Tool")

CallPermanent(ok) ==
    /\ AtCall /\ StateOf(Obs) = "Pending"
    /\ Obs \notin leased /\ Unresolvable(FrontierTurn, pc.call)
    /\ KillChain(ok)
    /\ defs' = defs \ {Obs}

\* Mutated form: only the first call of a batch is held.
NeedsApproval_First(c) == c \in Gated \cap registered /\ pc.call = 1

\* tool_needs_approval, under the anchor's require_approval.
NeedsApproval(c) == c \in Gated \cap registered

Dispatchable == AtCall /\ StateOf(Obs) = "Pending"
                /\ (Obs \in leased \/ ~Unresolvable(FrontierTurn, pc.call))

\* approval_gate_decision, when nothing is decided: ask once, and withhold.
Withhold(ok) ==
    /\ Dispatchable /\ NeedsApproval(Call)
    /\ Obs \notin granted \cup denied
    /\ Outcome("approval", ok) /\ (Obs \in requested => ok)
    /\ requested' = IF ok THEN requested \cup {Obs} ELSE requested
    /\ NextCall(FALSE)
    /\ Charge(ok)
    /\ UNCHANGED <<rounds, committed, failed, crashed, staged, output, granted, denied,
                   reranking, reranked, dispatch, world>>

CallDenied(ok) ==
    /\ Dispatchable /\ NeedsApproval(Call)
    /\ Obs \in denied
    /\ KillChain(ok)
    /\ UNCHANGED defs

materialize_react_tool ==
    /\ Dispatchable
    /\ NeedsApproval(Call) => Obs \in granted
    /\ defs' = defs \cup {Obs}
    /\ NextCall(FALSE)
    /\ UNCHANGED <<facts, leased, slow, declared, parked, settled, world, faults>>

-----------------------------------------------------------------------------
(* maybe_gate_on_rerank *)

HasRetrieval(t) == \E i \in DOMAIN OutputOf(t).calls : OutputOf(t).calls[i] \in Retrieval

\* No passages to rerank, or they are; or the rerank is in flight.
PassRerank ==
    /\ pc.at = "gate"
    /\ \/ ~HasRetrieval(FrontierTurn) \/ FrontierTurn \in reranked
       \/ FrontierTurn \in reranking
    /\ pc' = IF HasRetrieval(FrontierTurn) /\ FrontierTurn \in reranking \ reranked
             THEN Idle ELSE At("advance")
    /\ UNCHANGED <<facts, dispatch, world, faults>>

\* Anchor the rerank, then offer its Mote; without the anchor go on unranked.
StartRerank(ok) ==
    /\ pc.at = "gate" /\ HasRetrieval(FrontierTurn) /\ FrontierTurn \notin reranking
    /\ Outcome("rerank", ok)
    /\ reranking' = IF ok THEN reranking \cup {FrontierTurn} ELSE reranking
    /\ defs' = IF ok THEN defs \cup {RerankMote(FrontierTurn)} ELSE defs
    /\ pc' = IF ok THEN Idle ELSE At("advance")
    /\ Charge(ok)
    /\ UNCHANGED <<rounds, committed, failed, crashed, staged, output, requested, granted,
                   denied, reranked, leased, slow, declared, parked, settled, world>>

-----------------------------------------------------------------------------
(* advance_react_chain *)

Exhausted(t) == Spent >= MaxToolCalls \/ t + 1 >= MaxTurns

\* A chain that ends on a tool or a refusal is dead-lettered; one whose branch
\* could not be recorded only stops.
AdvanceExhausted(ok) ==
    /\ pc.at = "advance" /\ Exhausted(FrontierTurn)
    /\ Outcome("branch", ok) /\ (Frontier.branch = "Pending" => ok)
    /\ append_react_branch(DeadLettered(FrontierTurn), ok /\ Frontier.branch # "Pending")
    /\ pc' = At("final")
    /\ Charge(ok)
    /\ UNCHANGED <<committed, failed, crashed, staged, output, requested, granted, denied,
                   reranking, reranked, dispatch, world>>

\* The text of the turn after t, rendered from the facts.
NextText(t) == [reject |-> RejectOf(t), nudge |-> NearBudget(Spent, t + 1)]

\* The next turn's Pending fact, then its Mote, whether or not the fact went in.
AdvanceNext(ok) ==
    /\ pc.at = "advance" /\ ~Exhausted(FrontierTurn)
    /\ Outcome("pending", ok)
    /\ LET t == FrontierTurn + 1
           text == NextText(FrontierTurn)
       IN  /\ append_react_branch(Round(t, "Pending", "none", text), ok)
           /\ defs' = defs \cup {TurnMote(t, text)}
    /\ pc' = Idle
    /\ Charge(ok)
    /\ UNCHANGED <<committed, failed, crashed, staged, output, requested, granted, denied,
                   reranking, reranked, leased, slow, declared, parked, settled,
                   world>>

-----------------------------------------------------------------------------
(* settle_react_chain once the driver is done: finalize_agentic_launch *)

\* Mutated form: the output of the last turn is taken for the answer.
HasAnswer_LastTurn == \E t \in Turns : HasTurn(t) /\ MoteOf(t) \in committed

HasAnswer == \E t \in Turns : HasFact(t, "Answer")

\* A chain of its own, or a launch that is done, is settled; a launch this
\* incarnation has not been given stays active.
FinishChain ==
    /\ pc.at = "final"
    /\ \/ kind = "run" \/ StateOf(Launch) # "Pending"
       \/ Launch \notin defs
    /\ settled' = (kind = "run" \/ StateOf(Launch) # "Pending")
    /\ pc' = Idle
    /\ UNCHANGED <<facts, defs, leased, slow, declared, parked, world, faults>>

\* The launch is committed with the answer or dead-lettered without one, and the
\* chain is settled even if that entry could not be appended.
FinalizeLaunch(ok) ==
    /\ pc.at = "final" /\ kind = "launch"
    /\ StateOf(Launch) = "Pending" /\ Launch \in defs
    /\ Outcome("launch", ok)
    /\ IF HasAnswer THEN CommitLaunch(ok) ELSE DeadLetterLaunch(ok)
    /\ settled' = TRUE
    /\ parked' = (parked /\ ~ok)
    /\ pc' = Idle
    /\ Charge(ok)
    /\ UNCHANGED <<rounds, crashed, staged, output, requested, granted, denied, reranking,
                   reranked, leased, slow, declared, world>>

-----------------------------------------------------------------------------
(* Workers, operator and environment: commands served between two passes *)

\* at_least_once_already_staged: the effect may have fired and must not fire again.
AtLeastOnceStaged(m) ==
    /\ m.kind = "obs" /\ m \in staged
    /\ OutputOf(m.turn).calls[m.slot] \in AtLeastOnce

\* lease_ready: a launch is never given out, an observation only if its
\* arguments resolve, and a staged one of an AtLeastOnce tool to nobody.
Lease(m) ==
    /\ pc = Idle
    /\ m \in defs \ leased /\ m # Launch
    /\ StateOf(m) = "Pending"
    /\ ~AtLeastOnceStaged(m)
    /\ m.kind = "obs" => ~Unresolvable(m.turn, m.slot)
    /\ leased' = leased \cup {m}
    /\ ran' = IF m.kind = "obs" THEN ran \cup {m} ELSE ran
    /\ UNCHANGED <<facts, defs, slow, declared, parked, settled, pc, kind, input,
                   registered, faults>>

\* ReportEffectStaged: an observation is a StageThenCommit Mote.  The handler asks
\* nothing, so the intent of a worker that was reaped is recorded as well.
StageMote(m) ==
    /\ pc = Idle
    /\ m \in leased \cup slow /\ m.kind = "obs" /\ m \notin staged
    /\ staged' = staged \cup {m}
    /\ UNCHANGED <<rounds, committed, failed, crashed, output, requested, granted,
                   denied, reranking, reranked, dispatch, pc, world, faults>>

\* Whoever still works on m may report on it, as long as m is admitted.
Reported(m) ==
    /\ pc = Idle
    /\ m \in defs /\ m \in leased \cup slow
    /\ defs' = defs \ {m}
    /\ leased' = leased \ {m}
    /\ slow' = slow \ {m}
    /\ UNCHANGED <<rounds, crashed, staged, requested, granted, denied, reranking,
                   reranked, declared, parked, settled, pc, world, faults>>

\* ReportCommit; o is what the output of a turn decodes to.  The worker fires a
\* tool only once its intent is staged.
CommitMote(m, o) ==
    /\ Reported(m)
    /\ m \notin committed
    /\ m.kind = "obs" => m \in staged
    /\ committed' = committed \cup {m}
    /\ output' = IF m.kind = "turn" THEN [output EXCEPT ![m] = o] ELSE output
    /\ UNCHANGED failed

\* ReportFailure: the Mote is dead-lettered.
FailMote(m) ==
    /\ Reported(m)
    /\ m \notin committed
    /\ \/ m.kind = "obs" /\ OutputOf(m.turn).calls[m.slot] \in Failing
       \/ m.kind \in FailingKinds
    /\ failed' = failed \cup {m}
    /\ UNCHANGED <<committed, output>>

\* reap_dead_workers.  The worker may be slow rather than dead.  What was staged
\* stays Pending, anything else is crash-failed.
CrashMote(m) ==
    /\ pc = Idle
    /\ m \in leased \ slow /\ m.kind \in Crashing
    /\ leased' = leased \ {m}
    /\ slow' = slow \cup {m}
    /\ crashed' = crashed \cup {m}
    /\ Fault("crash")
    /\ UNCHANGED <<rounds, committed, failed, staged, output, requested, granted,
                   denied, reranking, reranked, defs, declared, parked, settled, pc,
                   world>>

\* decide_approval: only a request nobody has decided.
DecideApproval(m, grant, ok) ==
    /\ pc = Idle
    /\ m \in requested \ (granted \cup denied)
    /\ Outcome("approval", ok)
    /\ granted' = IF grant /\ ok THEN granted \cup {m} ELSE granted
    /\ denied' = IF ~grant /\ ok THEN denied \cup {m} ELSE denied
    /\ Charge(ok)
    /\ UNCHANGED <<rounds, committed, failed, crashed, staged, output, requested, reranking,
                   reranked, dispatch, pc, world>>

\* An operator takes a tool out of the registry.
Deregister(c) ==
    /\ c \in Removable \cap registered
    /\ registered' = registered \ {c}
    /\ Fault("removal")
    /\ UNCHANGED <<facts, dispatch, pc, kind, input, ran>>

\* What becomes of the launch's parent; a crash may be followed by a late commit.
InputEnds(how) ==
    /\ pc = Idle /\ kind = "launch"
    /\ \/ input = "pending" /\ (how = "crashed" => "input" \in Crashing)
       \/ input = "crashed" /\ how = "committed"
    /\ input' = how
    /\ UNCHANGED <<facts, dispatch, pc, kind, registered, ran, faults>>

-----------------------------------------------------------------------------
(* A restart: everything but the facts is lost *)

\* Mutated form: a turn is rebuilt from the base prompt alone.
Rebuilt_FromBase(t) == Base

\* recover_react_chain renders the turn in flight from the facts before it.
Rebuilt(t) == [reject |-> IF t = 0 THEN "none" ELSE RejectOf(t - 1),
               nudge |-> NearBudget(SpentBefore(t), t)]

\* The turn in flight is offered again only if it was rebuilt as recorded.
RecoveredTurn ==
    {m \in {TurnMote(t, Rebuilt(t)) : t \in {u \in Turns : HasTurn(u)}} :
        /\ m.turn = FrontierTurn /\ Frontier.branch = "Pending"
        /\ m = MoteOf(m.turn)
        /\ StateOf(m) = "Pending"}

\* recover_rerank_chain
RecoveredReranks ==
    {m \in {RerankMote(t) : t \in reranking \ reranked} : StateOf(m) = "Pending"}

Restart ==
    /\ Fault("restart")
    /\ defs' = RecoveredTurn \cup RecoveredReranks
    /\ leased' = {} /\ slow' = {}
    /\ declared' = FALSE /\ parked' = FALSE /\ settled' = FALSE
    /\ pc' = At("rerank")
    /\ UNCHANGED <<facts, world>>

-----------------------------------------------------------------------------
(* The specification *)

PassStep ==
    \/ LaunchWaits \/ UnparkLaunch
    \/ \E ok \in BOOLEAN : LaunchUnsatisfiable(ok) \/ AnchorLaunch(ok) \/ SettleReranks(ok)
    \/ LeaveChain \/ Drive \/ \E ok \in BOOLEAN : Freeze(ok)
    \/ WithinCeiling \/ CallObserved \/ CallCrashed \/ materialize_react_tool
    \/ \E ok \in BOOLEAN :
          OverCeiling(ok) \/ CallFailed(ok) \/ CallPermanent(ok) \/ Withhold(ok) \/ CallDenied(ok)
    \/ PassRerank
    \/ \E ok \in BOOLEAN : StartRerank(ok) \/ AdvanceExhausted(ok) \/ AdvanceNext(ok)
    \/ FinishChain \/ \E ok \in BOOLEAN : FinalizeLaunch(ok)

WorkOn(m) ==
    \/ StageMote(m) \/ FailMote(m)
    \/ \E o \in (IF m.kind = "turn" THEN Outputs ELSE {NoOutput}) : CommitMote(m, o)

WorkerStep ==
    \/ \E m \in defs : Lease(m)
    \/ \E m \in leased : WorkOn(m)

\* A worker that was taken for dead.
LateStep == \E m \in slow : WorkOn(m)

ClientStep == SubmitLaunch \/ \E ok \in BOOLEAN : SubmitSeed(ok)
InputStep == \E how \in {"committed", "lost", "crashed"} : InputEnds(how)

Next ==
    \/ BeginPass \/ PassStep \/ WorkerStep \/ LateStep \/ ClientStep \/ InputStep
    \/ \E m \in leased : CrashMote(m)
    \/ \E m \in requested, grant \in BOOLEAN, ok \in BOOLEAN : DecideApproval(m, grant, ok)
    \/ \E c \in Removable : Deregister(c)
    \/ Restart

Spec == Init /\ [][Next]_vars

\* The owner thread keeps looping; between two passes it serves whatever is
\* queued, so a command that stays possible is served (strong, since no command
\* is served inside a pass).  Nothing is assumed of the operator, or of a worker
\* that was reaped.
Fairness ==
    /\ WF_vars(BeginPass) /\ WF_vars(PassStep)
    /\ SF_vars(WorkerStep) /\ SF_vars(ClientStep) /\ SF_vars(InputStep)

FairSpec == Spec /\ Fairness

-----------------------------------------------------------------------------
(* Properties *)

TypeOK ==
    /\ rounds \in Seq(Rounds)
    /\ committed \subseteq Motes /\ failed \subseteq Motes
    /\ crashed \subseteq Motes /\ staged \subseteq Motes
    /\ output \in [TurnMotes -> Outputs \cup {NoOutput}]
    /\ requested \subseteq Motes /\ granted \subseteq requested /\ denied \subseteq requested
    /\ reranking \subseteq Turns /\ reranked \subseteq reranking
    /\ defs \subseteq Motes /\ leased \subseteq Motes /\ slow \subseteq Motes
    /\ declared \in BOOLEAN /\ parked \in BOOLEAN /\ settled \in BOOLEAN
    /\ pc \in [at : {"idle", "launch", "rerank", "drive", "calls", "gate", "advance", "final"},
               call : 0 .. MaxBatch, all : BOOLEAN]
    /\ kind \in {"run", "launch"}
    /\ input \in {"pending", "committed", "lost", "crashed"}
    /\ registered \subseteq Calls /\ ran \subseteq Motes
    /\ faults \in [Faults -> 0 .. MaxFaults]

\* Between two passes the turn a chain waits for is on offer to the workers,
\* whatever was re-prompted or nudged and whenever the coordinator restarted
\* (recover_react_chain: otherwise the chain is wedged for good).
InFlightIsOffered ==
    pc = Idle /\ Anchored /\ ~settled /\ Frontier.branch = "Pending"
        /\ StateOf(MoteOf(FrontierTurn)) = "Pending"
    => MoteOf(FrontierTurn) \in defs

\* A chain opens another turn only while it has really given out fewer tool calls
\* than its budget, batches, failed calls and re-prompts included
\* (advance_react_chain counts facts, the workers count calls).
BudgetKept ==
    \A t \in Turns : t > 0 /\ HasTurn(t) =>
        Cardinality({m \in ran : m.turn < t}) < MaxToolCalls

\* A lone call that an earlier turn of the chain gave out is never given out
\* again, not even after it failed (collect_prior_fired_calls).
NoRefire ==
    \A m, n \in ran :
        m.turn < n.turn /\ Len(OutputOf(n.turn).calls) = 1
        => OutputOf(m.turn).calls[m.slot] # OutputOf(n.turn).calls[n.slot]

\* A gated call reaches a worker only after the operator granted this very call,
\* whatever batch it came in and wherever a restart fell (approval_gate_decision).
GateHeld ==
    \A m \in ran : OutputOf(m.turn).calls[m.slot] \in Gated => m \in granted \ denied

\* No turn follows a recorded tool turn before all of its calls are observed and its
\* passages reranked, unless the turn was rejected (progress_tool_batch,
\* maybe_gate_on_rerank).
BackPressure ==
    \A t \in Turns : HasFact(t, "Tool") /\ ~HasFact(t, "Rejected") /\ HasTurn(t + 1) =>
        /\ \A i \in DOMAIN OutputOf(t).calls : ObsMote(t, i) \in committed
        /\ t \notin reranking \ reranked

\* The launch step is committed only with an answer of its chain, and is
\* dead-lettered only if the chain has none and gets none later, provided no
\* append failed (finalize_agentic_launch).
AnswerTruth ==
    /\ Launch \in committed => \E t \in Turns : HasFact(t, "Answer")
    /\ Launch \in failed /\ faults["append"] = 0 => \A t \in Turns : ~HasFact(t, "Answer")

Done == /\ Anchored /\ Frontier.branch \in {"Answer", "DeadLettered"}
        /\ kind = "launch" => Launch \in committed \cup failed
AwaitsOperator == requested \ (granted \cup denied) # {}

\* An observation of the frontier fired, or may have, and its worker or the
\* coordinator is gone: the code leaves it to the operator.
StuckStaged ==
    /\ Anchored
    /\ \E i \in DOMAIN OutputOf(FrontierTurn).calls :
          LET m == ObsMote(FrontierTurn, i)
          IN  AtLeastOnceStaged(m) /\ StateOf(m) = "Pending" /\ m \notin leased

\* Without append errors and crash-failed Motes every chain comes to its end,
\* waits for the operator's approval, or is held by an observation of an
\* AtLeastOnce tool that was staged and then cut off, and by nothing else
\* (settle_react_rounds: never a silent wedge; at_least_once_already_staged: "left
\* stuck").  A launch whose input is lost ends without a chain.
ChainSettles ==
    [](faults["append"] = 0 /\ crashed \subseteq staged /\ input # "crashed")
    => <>[](Done \/ AwaitsOperator \/ StuckStaged \/ Launch \in failed)

=============================================================================
