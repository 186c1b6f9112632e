------------------------------ MODULE Journal ------------------------------
(***************************************************************************)
(* kx-journal: the append-only log, and the projection as a fold of it.    *)
(*                                                                         *)
(* The seq of an entry is its position, from 1.  A Mote's idempotency key  *)
(* is its id.  Entries carry what the fold reads; the digest of a folded   *)
(* state is the state itself (two states never share one).                 *)
(***************************************************************************)
EXTENDS Projection, Sequences

Proposed(m)           == [kind |-> "Proposed", mote |-> m]
Committed(m, verdict) == [kind |-> "Committed", mote |-> m, verdict |-> verdict]
EffectStaged(m)       == [kind |-> "EffectStaged", mote |-> m]
Failed(m, reason)     == [kind |-> "Failed", mote |-> m, reason |-> reason]
DigestSealed(s, d)    == [kind |-> "DigestSealed", through_seq |-> s,
                          state_digest |-> d]

\* The kinds the (idempotency_key, kind) index dedupes.  Repudiated is the
\* third; nothing in this module appends one.
DedupedKinds == {"Committed", "EffectStaged"}

Present(log, e) ==
    \E i \in 1 .. Len(log) : log[i].kind = e.kind /\ log[i].mote = e.mote

\* Journal::append: the log afterwards.
JournalAppend(log, e) ==
    IF e.kind \in DedupedKinds /\ Present(log, e) THEN log ELSE Append(log, e)

-----------------------------------------------------------------------------
(* The folded state *)

EmptyState == [motes |-> [m \in Motes |-> {}], valid |-> {}, last_seq |-> 0]

FoldMote(info, e) ==
    CASE e.kind = "Proposed"     -> FoldProposed(info)
      [] e.kind = "Committed"    -> FoldCommitted(info)
      [] e.kind = "EffectStaged" -> FoldEffectStaged(info)
      [] e.kind = "Failed"       -> FoldFailed(info, e.reason)

\* Projection::fold of the entry at seq.  A seal only moves the frontier.
FoldEntry(st, seq, e) ==
    IF e.kind = "DigestSealed"
    THEN [st EXCEPT !.last_seq = seq]
    ELSE [st EXCEPT !.motes[e.mote] = FoldMote(@, e),
                    !.valid = IF e.kind = "Committed" /\ e.verdict
                              THEN @ \cup {e.mote} ELSE @,
                    !.last_seq = seq]

\* Fold the entries with seq in (from, head] on top of st.
FoldTail(st, log, from) ==
    LET f[n \in from .. Len(log)] ==
            IF n = from THEN st ELSE FoldEntry(f[n - 1], n, log[n])
    IN  f[Len(log)]

\* from_journal
Replay(log) == FoldTail(EmptyState, log, 0)

-----------------------------------------------------------------------------
(* Recovery from a checkpoint: [journal_offset, state] or none *)

SealedAt(log, s) ==
    /\ s + 1 <= Len(log)
    /\ log[s + 1].kind = "DigestSealed"
    /\ log[s + 1].through_seq = s

\* Mutated form: any checkpoint that fits the length of the log is trusted.
SeedUsable_Unsealed(log, cp) ==
    cp.journal_offset <= Len(log) /\ cp.state.last_seq = cp.journal_offset

\* try_seed_state.  Integrity and decoding are part of reading the sidecar; the
\* run-id gate never applies, as the engine journals no RunRegistered.
SeedUsable(log, cp) ==
    /\ cp.journal_offset <= Len(log)
    /\ cp.state.last_seq = cp.journal_offset
    /\ SealedAt(log, cp.journal_offset)
    /\ log[cp.journal_offset + 1].state_digest = cp.state

\* build_from_journal
RecoveredState(log, cps) ==
    LET usable == {cp \in cps : SeedUsable(log, cp)}
    IN  IF usable = {} THEN Replay(log)
        ELSE LET cp == CHOOSE c \in usable : TRUE
             IN  FoldTail(cp.state, log, cp.journal_offset)

=============================================================================
