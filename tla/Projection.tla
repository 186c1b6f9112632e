----------------------------- MODULE Projection -----------------------------
(***************************************************************************)
(* kx-projection: what folding the journal makes of a Mote.                *)
(*                                                                         *)
(* A Mote's read-side info (MoteInfo) is the set of the facts the fold has *)
(* observed about it.  The operators Fold... are the arms of               *)
(* Projection::fold, StateOf and CanRedispatch are the two classifications *)
(* every driver (coordinator, worker pool, single-node engine) decides     *)
(* from, and the rest reads the declared workflow graph.                   *)
(***************************************************************************)
EXTENDS Naturals, FiniteSets

CONSTANTS
    Motes,          \* the units of work of the workflow
    Parents,        \* Parents[m]: the Motes m consumes
    NonCascade,     \* control edges <<parent, child>> opted out of the cascade
    CriticFor,      \* CriticFor[m]: the producer m judges, or NoMote
    NoMote,         \* stands for None
    WorldMutating   \* Motes whose committed NdClass is WorldMutating

ASSUME GraphAssumption ==
    /\ Parents \in [Motes -> SUBSET Motes]
    /\ NonCascade \subseteq Motes \X Motes
    /\ CriticFor \in [Motes -> Motes \cup {NoMote}]
    /\ NoMote \notin Motes
    /\ WorldMutating \subseteq Motes

-----------------------------------------------------------------------------
(* MoteInfo *)

Flags == {"proposed", "committed", "repudiated", "reattempt",
          "terminal", "quarantined", "staged", "inconsistent"}

\* FailureReason, by what the fold tells apart.
FailureReason == {"WorkerCrashed", "TimedOut", "DeadLettered",
                  "QuarantinedAtLeastOnce"}

is_pre_commit_crash(reason) == reason \in {"TimedOut", "WorkerCrashed"}

-----------------------------------------------------------------------------
(* The fold, one operator per entry kind *)

FoldProposed(info) == (info \cup {"proposed"}) \ {"reattempt"}

\* The caller never folds a second Committed (DuplicateCommitted is an error).
FoldCommitted(info) == info \cup {"committed"}

FoldFailed(info, reason) ==
    IF "committed" \in info
    THEN info
    ELSE info \cup {"reattempt"}
              \cup (IF is_pre_commit_crash(reason) THEN {} ELSE {"terminal"})
              \cup (IF reason = "QuarantinedAtLeastOnce"
                    THEN {"quarantined"} ELSE {})

\* seqMatches: the entry names the seq of the Committed entry that was folded.
FoldRepudiated(info, seqMatches) ==
    IF "committed" \in info
    THEN IF seqMatches THEN info \cup {"repudiated"} ELSE info
    ELSE IF "staged" \in info THEN info \cup {"inconsistent"} ELSE info

FoldEffectStaged(info) == info \cup {"staged"}

-----------------------------------------------------------------------------
(* Classification *)

\* Mutated forms: the staged hint is looked at before a terminal failure; the
\* proposal before the staged hint.
StateOf_StagedFirst(info) ==
    IF "inconsistent" \in info THEN "Inconsistent"
    ELSE IF "committed" \in info
         THEN IF "repudiated" \in info THEN "Repudiated" ELSE "Committed"
    ELSE IF "staged" \in info THEN "Pending"
    ELSE IF info \cap {"terminal", "reattempt"} # {} THEN "Failed"
    ELSE IF "proposed" \in info THEN "Scheduled"
    ELSE "Pending"

StateOf_ProposedFirst(info) ==
    IF "inconsistent" \in info THEN "Inconsistent"
    ELSE IF "committed" \in info
         THEN IF "repudiated" \in info THEN "Repudiated" ELSE "Committed"
    ELSE IF info \cap {"terminal", "reattempt"} # {} THEN "Failed"
    ELSE IF "proposed" \in info THEN "Scheduled"
    ELSE "Pending"

\* state_of_id: the order of the branches is the recovery contract (a terminal
\* failure is looked at before the staged hint).
StateOf(info) ==
    IF "inconsistent" \in info THEN "Inconsistent"
    ELSE IF "committed" \in info
         THEN IF "repudiated" \in info THEN "Repudiated" ELSE "Committed"
    ELSE IF "terminal" \in info THEN "Failed"
    ELSE IF "staged" \in info THEN "Pending"
    ELSE IF "reattempt" \in info THEN "Failed"
    ELSE IF "proposed" \in info THEN "Scheduled"
    ELSE "Pending"

CanRedispatch(info) ==
    /\ "staged" \in info
    /\ info \cap {"inconsistent", "terminal", "committed"} = {}

-----------------------------------------------------------------------------
(* The ready set and the critic exit gate.  `declared` is the set of Motes  *)
(* registered with the projection, `valid` the critics whose committed      *)
(* result decodes to a Valid verdict.                                       *)

\* Mutated form: a critic that committed is enough, whatever its verdict.
PromotionState_AnyVerdict(proj, declared, valid, producer) ==
    LET critics == {c \in declared : CriticFor[c] = producer}
    IN  IF critics = {} THEN "NotApplicable"
        ELSE IF \A c \in critics : "committed" \in proj[c]
        THEN "Promoted"
        ELSE "Unpromoted"

PromotionState(proj, declared, valid, producer) ==
    LET critics == {c \in declared : CriticFor[c] = producer}
    IN  IF critics = {} THEN "NotApplicable"
        ELSE IF \A c \in critics : /\ "committed" \in proj[c]
                                   /\ "repudiated" \notin proj[c]
                                   /\ c \in valid
        THEN "Promoted"
        ELSE "Unpromoted"

\* Mutated form: a parent that was not declared yet does not hold m back.
Ready_DeclaredParents(proj, declared, valid, m) ==
    /\ StateOf(proj[m]) = "Pending"
    /\ m \in declared
    /\ \A p \in Parents[m] \cap declared : StateOf(proj[p]) = "Committed"

Ready(proj, declared, valid, m) ==
    /\ StateOf(proj[m]) = "Pending"
    /\ m \in declared
    /\ \A p \in Parents[m] :
         /\ StateOf(proj[p]) = "Committed"
         /\ \/ CriticFor[m] = p
            \/ p \notin WorldMutating
            \/ PromotionState(proj, declared, valid, p) # "Unpromoted"

ReadySet(proj, declared, valid) ==
    {m \in Motes : Ready(proj, declared, valid, m)}

\* Edges of the reverse index: a Mote contributes its parents once it is
\* declared or committed.
Cascades(proj, declared, p, c) ==
    /\ p \in Parents[c]
    /\ c \in declared \/ "committed" \in proj[c]
    /\ <<p, c>> \notin NonCascade

\* The breadth-first walk's result: the least set that holds the cascading
\* children of root and of its own members.
TransitiveConsumers(proj, declared, root) ==
    LET Closed(S) == \A p \in S \cup {root}, c \in Motes :
                        Cascades(proj, declared, p, c) => c \in S
    IN  {c \in Motes : \A S \in SUBSET Motes : Closed(S) => c \in S}

=============================================================================
