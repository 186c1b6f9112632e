------------------------------- MODULE Engine -------------------------------
(***************************************************************************)
(* kx-runtime: the single-process drive loop (run_with_seams) with the     *)
(* executor's lifecycle and commit protocol, the journal it appends to and *)
(* the checkpoint sidecar it recovers from.                                *)
(*                                                                         *)
(* Every journal append, the effect, and both halves of a checkpoint are   *)
(* steps of their own: the process can be killed between any two, and a    *)
(* new one starts from the journal and the sidecar.  Topology shapers are  *)
(* not modelled.                                                           *)
(***************************************************************************)
EXTENDS Journal

CONSTANTS
    Order,          \* the Motes in submission order
    Class,          \* "Pure", "Staged" (StageThenCommit) or "Direct"
    Validated,      \* Motes with the ValidateThenCommit pattern
    Failing,        \* Motes whose dispatch can fail
    Policies,       \* values of FailurePolicy::max_attempts; 0: no policy
    Cadence,        \* checkpoint_every; 0: checkpointing is off
    MaxStarts,      \* bound: process starts
    MaxReplaced,    \* bound: times the journal file is replaced
    MaxLog          \* bound: length of the log

ASSUME EngineAssumption ==
    /\ Order \in Seq(Motes)
    /\ Class \in [Motes -> {"Pure", "Staged", "Direct"}]
    /\ Validated \subseteq {m \in Motes : Class[m] = "Direct"}
    /\ Failing \subseteq Motes
    /\ Policies \subseteq Nat /\ Cadence \in Nat
    /\ MaxStarts \in Nat /\ MaxReplaced \in Nat /\ MaxLog \in Nat

VARIABLES
    log,                \* the journal
    sidecar,            \* the checkpoint file: {} or {[journal_offset, state]}
    phase,              \* where the process is
    cur,                \* the Mote being dispatched, or NoMote
    error,              \* class of the dispatch error at hand, or "none"
    projection,         \* the folded state in memory
    folded_through,     \* journal seq up to which it is folded
    last_checkpoint_at, \* the cadence counter
    attempts,           \* transient attempts per Mote
    max_attempts,       \* the failure policy of the run
    fired,              \* broker dispatches per Mote (0, 1, many)
    starts,             \* process starts so far (bound)
    replaced            \* journal replacements so far (bound)

durable == <<log, sidecar>>
memory  == <<projection, folded_through, last_checkpoint_at, attempts>>
bounds  == <<max_attempts, starts, replaced>>
vars == <<durable, phase, cur, error, memory, fired, bounds>>

Dispatching == {"begin", "proposed", "staged", "fired", "critic"}
Phases == Dispatching \cup {"down", "top", "failed", "bottom", "checkpoint",
                            "seal", "last checkpoint", "last seal", "ended"}

TypeOK ==
    /\ Cardinality(sidecar) <= 1
    /\ phase \in Phases
    /\ cur \in Motes \cup {NoMote}
    /\ (cur # NoMote) = (phase \in Dispatching \cup {"failed"})
    /\ (error # "none") = (phase = "failed")
    /\ projection.motes \in [Motes -> SUBSET Flags]
    /\ folded_through \in 0 .. Len(log)
    /\ last_checkpoint_at \in 0 .. folded_through
    /\ attempts \in [Motes -> 0 .. max_attempts]
    /\ fired \in [Motes -> 0 .. 2]
    /\ starts \in 0 .. MaxStarts
    /\ replaced \in 0 .. MaxReplaced
    /\ max_attempts \in Policies

Init ==
    /\ log = <<>>
    /\ sidecar = {}
    /\ phase = "down"
    /\ cur = NoMote
    /\ error = "none"
    /\ projection = EmptyState
    /\ folded_through = 0
    /\ last_checkpoint_at = 0
    /\ attempts = [m \in Motes |-> 0]
    /\ fired = [m \in Motes |-> 0]
    /\ max_attempts \in Policies
    /\ starts = 0
    /\ replaced = 0

Goto(p) == phase' = p

AppendEntry(e) == Len(log) < MaxLog /\ log' = JournalAppend(log, e)

-----------------------------------------------------------------------------
(* The drive loop *)

\* Start of run_with_seams: recover, then register the workflow's Motes.
Start ==
    /\ phase \in {"down", "ended"}
    /\ starts < MaxStarts
    /\ Goto("top")
    /\ starts' = starts + 1
    /\ projection' = RecoveredState(log, sidecar)
    /\ folded_through' = Len(log)
    /\ last_checkpoint_at' = Len(log)
    /\ attempts' = [m \in Motes |-> 0]
    /\ UNCHANGED <<durable, cur, error, max_attempts, fired, replaced>>

is_terminal(state) ==
    state \in {"Committed", "Failed", "Repudiated", "Inconsistent"}

StateNow(m) == StateOf(projection.motes[m])
InReady(m)  == Ready(projection.motes, Motes, projection.valid, m)

\* Mutated form: an in-flight effect is run again like a PURE body.
Runnable_InFlight(m) == InReady(m) \/ StateNow(m) = "Scheduled"

\* Motes pick_next dispatches afresh: PURE ones also when left in flight.
Runnable(m) == InReady(m) \/ (Class[m] = "Pure" /\ StateNow(m) = "Scheduled")

\* Motes it sends to redispatch_wm_mote, the recovery path (RecoveryArmDead).
Recoverable(m) ==
    /\ StateNow(m) = "Scheduled"
    /\ Class[m] # "Pure"
    /\ CanRedispatch(projection.motes[m])

Pickable(m) == ~is_terminal(StateNow(m)) /\ (Runnable(m) \/ Recoverable(m))

\* pick_next takes the first such Mote in submission order.
PickNext(i) ==
    /\ phase = "top"
    /\ Pickable(Order[i])
    /\ \A j \in 1 .. i - 1 : ~Pickable(Order[j])
    /\ Goto("begin")
    /\ cur' = Order[i]
    /\ UNCHANGED <<durable, error, memory, fired, bounds>>

\* Nothing left to pick: a last checkpoint unless this frontier has one.
LoopEnds ==
    /\ phase = "top"
    /\ \A m \in Motes : ~Pickable(m)
    /\ Goto(IF Cadence # 0 /\ folded_through > last_checkpoint_at
            THEN "last checkpoint" ELSE "ended")
    /\ UNCHANGED <<durable, cur, error, memory, fired, bounds>>

-----------------------------------------------------------------------------
(* run_pure_mote, run_native_critic_mote, run_wm_mote and the commit        *)
(* protocol                                                                 *)

Propose ==
    /\ phase = "begin"
    /\ AppendEntry(Proposed(cur))
    /\ Goto("proposed")
    /\ UNCHANGED <<sidecar, cur, error, memory, fired, bounds>>

Stage ==
    /\ phase = "proposed"
    /\ Class[cur] = "Staged"
    /\ AppendEntry(EffectStaged(cur))
    /\ Goto("staged")
    /\ UNCHANGED <<sidecar, cur, error, memory, fired, bounds>>

AtDispatch ==
    \/ phase = "proposed" /\ Class[cur] = "Direct"
    \/ phase = "staged"

Fires == fired' = [fired EXCEPT ![cur] = IF @ < 2 THEN @ + 1 ELSE @]

Dispatch ==
    /\ AtDispatch
    /\ Fires
    /\ Goto("fired")
    /\ UNCHANGED <<durable, cur, error, memory, bounds>>

\* The sibling critics that schedule_sibling_critic proposes.
SiblingCritics(m) == {c \in Motes : m \in Validated /\ CriticFor[c] = m}

Commit(verdict) ==
    /\ \/ phase = "proposed" /\ Class[cur] = "Pure"
       \/ phase = "fired"
    /\ verdict => CriticFor[cur] # NoMote
    /\ AppendEntry(Committed(cur, verdict))
    /\ IF SiblingCritics(cur) = {}
       THEN Goto("bottom") /\ cur' = NoMote
       ELSE Goto("critic") /\ UNCHANGED cur
    /\ UNCHANGED <<sidecar, error, memory, fired, bounds>>

ScheduleCritic ==
    /\ phase = "critic"
    /\ \E c \in SiblingCritics(cur) : AppendEntry(Proposed(c))
    /\ Goto("bottom")
    /\ cur' = NoMote
    /\ UNCHANGED <<sidecar, error, memory, fired, bounds>>

-----------------------------------------------------------------------------
(* Failures *)

\* Classes an error can have at this point: a failed journal append is
\* transient; a refusal, a broker's verdict or a missing result is terminal.
ErrorClasses ==
    IF phase = "begin" \/ phase = "fired" \/ AtDispatch
    THEN {"transient", "terminal"} ELSE {"transient"}

\* The dispatch of cur fails; a broker can fail after the effect.
DispatchFails(class) ==
    /\ phase \in Dispatching
    /\ cur \in Failing
    /\ class \in ErrorClasses
    /\ UNCHANGED fired \/ (AtDispatch /\ Fires)
    /\ Goto("failed")
    /\ error' = class
    /\ UNCHANGED <<durable, cur, memory, bounds>>

\* No policy: the run returns the error.
RunAborts ==
    /\ phase = "failed"
    /\ max_attempts = 0
    /\ Goto("ended")
    /\ cur' = NoMote
    /\ error' = "none"
    /\ UNCHANGED <<durable, memory, fired, bounds>>

reason_for(class) == "DeadLettered"

Exhausted(n) == n >= max_attempts

\* Mutated form: the counter starts over at every failure.
NextAttempt_First(m) == 1

NextAttempt(m) == attempts[m] + 1

\* handle_failure, after its first fold_new (which st is).
FailureHandled(st) ==
    LET n == NextAttempt(cur)
    IN  IF is_terminal(StateOf(st.motes[cur]))
        THEN UNCHANGED <<log, attempts>> /\ projection' = st
        ELSE IF error = "transient" /\ ~Exhausted(n)
        THEN /\ attempts' = [attempts EXCEPT ![cur] = n]
             /\ projection' = st
             /\ UNCHANGED log
        ELSE /\ attempts' = [attempts EXCEPT ![cur] =
                                IF error = "transient" THEN n ELSE @]
             /\ AppendEntry(Failed(cur, reason_for(error)))
             /\ projection' = FoldTail(st, log', Len(log))

HandleFailure ==
    /\ phase = "failed"
    /\ max_attempts # 0
    /\ FailureHandled(FoldTail(projection, log, folded_through))
    /\ folded_through' = Len(log')
    /\ Goto("top")
    /\ cur' = NoMote
    /\ error' = "none"
    /\ UNCHANGED <<sidecar, last_checkpoint_at, fired, bounds>>

-----------------------------------------------------------------------------
(* The bottom of the loop: fold_new, maybe_checkpoint *)

Bottom ==
    /\ phase = "bottom"
    /\ projection' = FoldTail(projection, log, folded_through)
    /\ folded_through' = Len(log)
    /\ IF Cadence # 0 /\ Len(log) - last_checkpoint_at >= Cadence
       THEN Goto("checkpoint") /\ last_checkpoint_at' = Len(log)
       ELSE Goto("top") /\ UNCHANGED last_checkpoint_at
    /\ UNCHANGED <<durable, cur, error, attempts, fired, bounds>>

AfterCheckpoint ==
    IF phase \in {"checkpoint", "seal"} THEN "top" ELSE "ended"

\* write_atomic: the old file or the new one, never a torn one.  A failed
\* write skips the seal.
WriteSidecar ==
    /\ phase \in {"checkpoint", "last checkpoint"}
    /\ \/ /\ sidecar' = {[journal_offset |-> projection.last_seq,
                          state |-> projection]}
          /\ Goto(IF phase = "checkpoint" THEN "seal" ELSE "last seal")
       \/ UNCHANGED sidecar /\ Goto(AfterCheckpoint)
    /\ UNCHANGED <<log, cur, error, memory, fired, bounds>>

Seal ==
    /\ phase \in {"seal", "last seal"}
    /\ \/ AppendEntry(DigestSealed(folded_through, projection))
       \/ UNCHANGED log
    /\ Goto(AfterCheckpoint)
    /\ UNCHANGED <<sidecar, cur, error, memory, fired, bounds>>

-----------------------------------------------------------------------------
(* The environment *)

\* The process is killed.  What it held in memory is gone.
Crash ==
    /\ phase \notin {"down", "ended"}
    /\ starts < MaxStarts
    /\ Goto("down")
    /\ cur' = NoMote
    /\ error' = "none"
    /\ projection' = EmptyState
    /\ folded_through' = 0
    /\ last_checkpoint_at' = 0
    /\ attempts' = [m \in Motes |-> 0]
    /\ UNCHANGED <<durable, fired, bounds>>

\* The sidecar is lost or unreadable.
LoseSidecar ==
    /\ phase = "down"
    /\ sidecar # {}
    /\ sidecar' = {}
    /\ UNCHANGED <<log, phase, cur, error, memory, fired, bounds>>

\* A new run of the workflow gets a fresh journal at the same path; the sidecar
\* of the previous run is still beside it.
ReplaceJournal ==
    /\ phase = "down"
    /\ log # <<>>
    /\ replaced < MaxReplaced
    /\ replaced' = replaced + 1
    /\ log' = <<>>
    /\ fired' = [m \in Motes |-> 0]
    /\ UNCHANGED <<sidecar, phase, cur, error, memory, max_attempts, starts>>

-----------------------------------------------------------------------------

Step ==
    \/ \E i \in 1 .. Len(Order) : PickNext(i)
    \/ LoopEnds
    \/ Propose \/ Stage \/ Dispatch \/ ScheduleCritic
    \/ \E verdict \in BOOLEAN : Commit(verdict)
    \/ RunAborts \/ HandleFailure
    \/ Bottom \/ WriteSidecar \/ Seal

Next ==
    \/ Start \/ Step
    \/ \E class \in {"transient", "terminal"} : DispatchFails(class)
    \/ Crash \/ LoseSidecar \/ ReplaceJournal

Spec == Init /\ [][Next]_vars

\* The process runs on; a killed one is started again.
FairSpec == Spec /\ WF_vars(Step) /\ WF_vars(phase = "down" /\ Start)

-----------------------------------------------------------------------------
(* Safety *)

\* Whatever was killed between two appends, and whichever sidecar recovery
\* finds (current, stale, unsealed, of another run), the projection the loop
\* decides from is the fold of the journal up to its frontier
\* (from_journal_with_checkpoint, fold_new).
ProjectionIsReplay ==
    phase # "down" => projection = Replay(SubSeq(log, 1, folded_through))

\* An effect dispatched without a durable hint is fired once at most, although
\* processes die before and after it (pick_next: "left stuck rather than risking
\* a double effect").
EffectAtMostOnce ==
    \A m \in Motes : Class[m] = "Direct" => fired[m] <= 1

\* A StageThenCommit effect leaves its intent in the journal before it reaches
\* the world (commit_stage_then_commit).
StagedBeforeFired ==
    \A m \in Motes : Class[m] = "Staged" /\ fired[m] > 0
                        => Present(log, EffectStaged(m))

\* The journal accounts for every effect: one it cannot know of is not repeated,
\* one that may be repeated it knows of beforehand (the three commit protocols).
EffectsAccounted == EffectAtMostOnce /\ StagedBeforeFired

\* No Mote is ever sent to redispatch_wm_mote: a staged one is Pending, which
\* the loop dispatches afresh.
RecoveryArmDead == phase = "top" => \A m \in Motes : ~Recoverable(m)

\* "A retry re-selects the still-ready Mote" (handle_failure): no Mote is left
\* at the end with attempts it never got.
RetriesSpent ==
    phase = "ended" /\ max_attempts # 0 =>
        \A m \in Motes : attempts[m] > 0 => is_terminal(StateNow(m))

-----------------------------------------------------------------------------
(* Refinement and liveness *)

LedgerStatus ==
    LET st == Replay(log)
    IN  [m \in Motes |-> IF "committed" \in st.motes[m] THEN "committed"
                         ELSE IF "terminal" \in st.motes[m] THEN "failed"
                         ELSE "open"]

Ledger == INSTANCE MoteLedger WITH status <- LedgerStatus

\* The single-process driver implements the same ledger as the fleet, once for
\* each journal: a replaced journal starts a new one.
RefinesLedger ==
    Ledger!LedgerInit /\ [][Ledger!LedgerNext \/ ReplaceJournal]_LedgerStatus

\* The loop always comes to an end, whatever fails and whenever it is killed
\* (the dead letters of handle_failure are terminal, reason_for).
Terminates == <>[](phase = "ended")

=============================================================================
