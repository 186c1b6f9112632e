----------------------------- MODULE EventTail -----------------------------
(***************************************************************************)
(* How a journal commit becomes visible: the writers' transactions, the    *)
(* change notification (kx-journal/src/watch.rs), the live tails of the     *)
(* gateway with their bounded queues (kx-gateway/src/live_tail.rs,          *)
(* kx-gateway-core/src/events.rs), the clients that resume from their last  *)
(* next_seq (kx-cli/src/verbs/events.rs), and a sidecar folded from the     *)
(* journal (kx-gateway/src/capture.rs and its loop in server.rs).           *)
(*                                                                         *)
(* The seq of an entry is its position in the log.  The watermark only      *)
(* grows, so its value stands for the version of the watch channel, and a   *)
(* subscription is the last value it has seen.  The journal may hold        *)
(* entries from an earlier serve while the watch starts at 0.               *)
(***************************************************************************)
EXTENDS Naturals, Sequences, FiniteSets

CONSTANTS
    Writers,        \* threads that append
    Clients,        \* each follows at most one stream at a time
    Entries,        \* [kind, key]; the key of a RunRegistered is its run
    Batches,        \* what a writer appends in one call
    OldLogs,        \* the journals a serve may start over
    Readers,        \* "run" (StreamEvents), "all" (StreamAllEvents), "sidecar"
    OwnRun,         \* the run a "run" client asks for
    NoRun,          \* no attribution yet
    Queue,          \* SUBSCRIBER_QUEUE
    MaxFrame,       \* MAX_FRAME_DELTAS
    MaxLog,         \* bound: length of the log
    MaxDrops,       \* bound: streams a client drops on its side
    MaxFaults       \* bound: reads and folds that fail

Runs == {e.key : e \in {x \in Entries : x.kind = "RunRegistered"}}

ASSUME EventTailAssumption ==
    /\ Batches \subseteq Seq(Entries)
    /\ OldLogs \subseteq Seq(Entries)
    /\ NoRun \notin Runs
    /\ Queue \in Nat \ {0} /\ MaxFrame \in Nat \ {0}
    /\ MaxLog \in Nat /\ MaxDrops \in Nat /\ MaxFaults \in Nat

VARIABLES
    log,            \* the durable entries
    announce,       \* per writer: committed and not yet published, 0 = none
    mark,           \* JournalWatch.head
    shutdown,       \* live_shutdown
    tail,           \* per client: its follower task
    queue,          \* per client: the frames in its channel
    client,         \* per client: what it asked for, its cursor and state
    got,            \* per client: the deltas it printed, in order
    fold,           \* the fold loop, the watermark and run_meta of its sidecar;
                    \* history: the rows lost and whether the attribution is torn
    rows,           \* the rows of the sidecar
    faults          \* history: faults so far

journalVars == <<log, announce, mark>>
streamVars == <<tail, queue, client, got>>
vars == <<log, announce, mark, shutdown, tail, queue, client, got, fold,
          rows, faults>>

-----------------------------------------------------------------------------
(* Entries, runs and deltas *)

Deduped(e) == e.kind \in {"Committed", "Repudiated", "EffectStaged"}

\* entry_to_delta, entry_to_global_delta
Surfaced(target, e) ==
    \/ e.kind \in {"Committed", "Failed", "Repudiated", "EffectStaged"}
    \/ target = "all" /\ e.kind = "RunRegistered"

Registrations(from, to) == {s \in from + 1 .. to : log[s].kind = "RunRegistered"}

Latest(S) == CHOOSE s \in S : \A x \in S : x <= s

\* The attribution after the entries in (from, to], given the one before them.
RunAfter(run, from, to) ==
    LET regs == Registrations(from, to)
    IN  IF regs = {} THEN run ELSE log[Latest(regs)].key

\* The reference: the latest RunRegistered at or below s.
RunAt(s) == RunAfter(NoRun, 0, s)

SurfacedIn(target, from, to) == {s \in from + 1 .. to : Surfaced(target, log[s])}

\* How many members of S are not above n.
Rank(S, n) == Cardinality({x \in S : x <= n})

\* The numbers of S in ascending order.
InOrder(S) == [k \in 1 .. Cardinality(S) |-> CHOOSE s \in S : Rank(S, s) = k]

-----------------------------------------------------------------------------
(* Appending: SqliteJournal::append and append_batch, one transaction each.  A
   transaction that fails is rolled back and leaves nothing behind. *)

Positions(e) == {s \in 1 .. Len(log) : log[s] = e}

\* append_one: the members of the batch that get a seq of their own; a deduped
\* entry that is there, in the log or earlier in the batch, keeps its seq.
Fresh(batch) ==
    {i \in 1 .. Len(batch) :
        Deduped(batch[i]) =>
            /\ Positions(batch[i]) = {}
            /\ \A j \in 1 .. i - 1 : batch[j] # batch[i]}

Staged(batch) ==
    LET order == InOrder(Fresh(batch))
    IN  [k \in DOMAIN order |-> batch[order[k]]]

\* Mutated form: the seq of the batch's last member is announced.
Highest_Last(batch) ==
    LET n == Len(batch)
    IN  IF n \in Fresh(batch) THEN Len(log) + Cardinality(Fresh(batch))
        ELSE IF Positions(batch[n]) # {} THEN Latest(Positions(batch[n]))
        ELSE Len(log) + 1

\* The highest seq among the batch's members: that of the last new one, or, when
\* all are duplicates, an old one.
Highest(batch) ==
    IF Fresh(batch) # {} THEN Len(log) + Cardinality(Fresh(batch))
    ELSE Latest(UNION {Positions(batch[i]) : i \in 1 .. Len(batch)})

\* The commit; the announcement is still to come.
AppendBatch(w, batch) ==
    /\ announce[w] = 0 /\ batch # <<>>
    /\ Len(log) + Cardinality(Fresh(batch)) <= MaxLog
    /\ log' = log \o Staged(batch)
    /\ announce' = [announce EXCEPT ![w] = Highest(batch)]
    /\ UNCHANGED <<mark, shutdown, streamVars, fold, rows, faults>>

AtLeast(a, b) == IF a > b THEN a ELSE b

\* JournalWatch::publish keeps the watermark monotone.
Publish(w) ==
    /\ announce[w] # 0
    /\ mark' = AtLeast(mark, announce[w])
    /\ announce' = [announce EXCEPT ![w] = 0]
    /\ UNCHANGED <<log, shutdown, streamVars, fold, rows, faults>>

-----------------------------------------------------------------------------
(* The follower of a stream: follow_loop and global_follow_loop *)

NoTail == [pc |-> "none", seen |-> 0, cursor |-> 0, head |-> 0, from |-> 0,
           run |-> NoRun]

Frame(deltas, next) == [deltas |-> deltas, next_seq |-> next, status |-> "ok"]
Terminal(status) == [deltas |-> <<>>, next_seq |-> 0, status |-> status]

Listening(c) == client[c].state = "open"

\* check_run_ownership: any registration of the run counts.
Owned(c) ==
    client[c].target = "run" =>
        \E s \in Registrations(0, Len(log)) : log[s].key = OwnRun

\* seed_global_cursor; a run's stream carries no attribution.
Seed(c) == IF client[c].target = "all" THEN RunAt(client[c].since) ELSE NoRun

\* LiveTailer::stream, GlobalLiveTailer::stream_all: the gate or the seed of the
\* attribution, the subscription, then the task is spawned.
Open(c) ==
    /\ client[c].state \in {"idle", "resume"} /\ tail[c].pc = "none"
    /\ IF Owned(c)
       THEN /\ tail' = [tail EXCEPT ![c] =
                  [NoTail EXCEPT !.pc = "start", !.seen = mark,
                                 !.cursor = client[c].since,
                                 !.from = client[c].since,
                                 !.run = Seed(c)]]
            /\ client' = [client EXCEPT ![c].state = "open"]
       ELSE /\ client' = [client EXCEPT ![c].state = "refused"]
            /\ UNCHANGED tail
    /\ queue' = [queue EXCEPT ![c] = <<>>]
    /\ UNCHANGED <<journalVars, shutdown, got, fold, rows, faults>>

\* A stream opened during the shutdown ends at once.
StopAtStart(c) ==
    /\ tail[c].pc = "start" /\ shutdown
    /\ tail' = [tail EXCEPT ![c] = NoTail]
    /\ UNCHANGED <<journalVars, shutdown, queue, client, got, fold, rows, faults>>

Reading(c) ==
    \/ tail[c].pc = "woken"
    \/ tail[c].pc = "start" /\ ~shutdown

Advances(c, head) == head > tail[c].cursor

\* read_head.  The first range is always emitted, a later one only if the head
\* moved past the cursor.
ReadHead(c) ==
    /\ Reading(c)
    /\ LET head == Len(log)
           emits == tail[c].pc = "start" \/ Advances(c, head)
       IN  tail' = [tail EXCEPT ![c].pc = IF emits THEN "send" ELSE "wait",
                                ![c].head = head]
    /\ UNCHANGED <<journalVars, shutdown, queue, client, got, fold, rows, faults>>

\* read_head or the range read fails: the status is sent, the follower returns.
ReadFails(c) ==
    /\ \/ Reading(c)
       \/ tail[c].pc = "send" /\ tail[c].cursor = tail[c].from
    /\ faults < MaxFaults
    /\ faults' = faults + 1
    /\ tail' = [tail EXCEPT ![c].pc = "internal"]
    /\ UNCHANGED <<journalVars, shutdown, queue, client, got, fold, rows>>

Owed(c) == SurfacedIn(client[c].target, tail[c].cursor, tail[c].head)

\* The range is chunked: every frame but the last ends at its last delta, the
\* last one at the head.
LastFrame(c) == Cardinality(Owed(c)) <= MaxFrame

ChunkEnd(c) == InOrder(Owed(c))[MaxFrame]

\* Mutated form: a frame that is not the last claims the head too.
NextSeq_Head(c) == tail[c].head

NextSeq(c) == IF LastFrame(c) THEN tail[c].head ELSE ChunkEnd(c)

\* The attribution of the delta at s: the watermark, advanced over the range.
Stamp(c, s) ==
    IF client[c].target = "all" THEN RunAfter(tail[c].run, tail[c].from, s)
    ELSE NoRun

NextFrame(c) ==
    LET order == InOrder({s \in Owed(c) : LastFrame(c) \/ s <= ChunkEnd(c)})
    IN  Frame([k \in DOMAIN order |-> [seq |-> order[k], run |-> Stamp(c, order[k])]],
              NextSeq(c))

HasSlot(c) == Len(queue[c]) < Queue

\* try_send of one frame of the range: emit_range, emit_global_range.  The
\* frames of a range are a function of the log up to head, which is immutable,
\* so each is built when it is sent.
SendFrame(c) ==
    /\ tail[c].pc = "send" /\ Listening(c)
    /\ IF HasSlot(c)
       THEN /\ queue' = [queue EXCEPT ![c] = Append(@, NextFrame(c))]
            /\ tail' = [tail EXCEPT
                  ![c].cursor = NextSeq(c),
                  ![c].pc = IF LastFrame(c) THEN "wait" ELSE "send",
                  ![c].from = IF LastFrame(c) THEN NextSeq(c) ELSE @,
                  ![c].run = IF LastFrame(c)
                             THEN Stamp(c, tail[c].head) ELSE @]
       ELSE /\ tail' = [tail EXCEPT ![c].pc = "resource_exhausted"]
            /\ UNCHANGED queue
    /\ UNCHANGED <<journalVars, shutdown, client, got, fold, rows, faults>>

\* send of the terminal status waits for a slot, then the follower returns.
SendStatus(c) ==
    /\ tail[c].pc \in {"resource_exhausted", "internal"} /\ Listening(c)
    /\ HasSlot(c)
    /\ queue' = [queue EXCEPT ![c] = Append(@, Terminal(tail[c].pc))]
    /\ tail' = [tail EXCEPT ![c] = NoTail]
    /\ UNCHANGED <<journalVars, shutdown, client, got, fold, rows, faults>>

\* JournalSubscription::changed
Changed(c) ==
    /\ tail[c].pc = "wait" /\ tail[c].seen # mark
    /\ tail' = [tail EXCEPT ![c].pc = "woken", ![c].seen = mark]
    /\ UNCHANGED <<journalVars, shutdown, queue, client, got, fold, rows, faults>>

\* Mutated form: only the client ends a stream.
Ended_ByClient(c) == ~Listening(c)

Ended(c) == shutdown \/ ~Listening(c)

\* The other arms of the select, and a send to a receiver that is gone.
FollowerReturns(c) ==
    /\ \/ tail[c].pc = "wait" /\ Ended(c)
       \/ /\ tail[c].pc \in {"send", "resource_exhausted", "internal"}
          /\ ~Listening(c)
    /\ tail' = [tail EXCEPT ![c] = NoTail]
    /\ UNCHANGED <<journalVars, shutdown, queue, client, got, fold, rows, faults>>

-----------------------------------------------------------------------------
(* The client: follow_live and follow_all_live *)

\* Mutated form: an overflow is an error like any other.
AfterStatus_Error(status) == "stopped"

\* Only a resource_exhausted (CatchupRequired) is answered by a new stream.
AfterStatus(status) ==
    IF status = "resource_exhausted" THEN "resume" ELSE "stopped"

Receive(c) ==
    /\ Listening(c) /\ queue[c] # <<>>
    /\ LET frame == Head(queue[c])
       IN  IF frame.status = "ok"
           THEN /\ got' = [got EXCEPT ![c] = @ \o frame.deltas]
                /\ client' = [client EXCEPT ![c].since = frame.next_seq]
           ELSE /\ client' = [client EXCEPT ![c].state = AfterStatus(frame.status)]
                /\ UNCHANGED got
    /\ queue' = [queue EXCEPT ![c] = Tail(@)]
    /\ UNCHANGED <<journalVars, shutdown, tail, fold, rows, faults>>

\* The stream ended without a status.
StreamEnds(c) ==
    /\ Listening(c) /\ queue[c] = <<>> /\ tail[c].pc = "none"
    /\ client' = [client EXCEPT ![c].state = "stopped"]
    /\ UNCHANGED <<journalVars, shutdown, tail, queue, got, fold, rows, faults>>

\* The client goes away with frames in flight, and may come back later.
Drop(c) ==
    /\ Listening(c) /\ client[c].drops < MaxDrops
    /\ client' = [client EXCEPT ![c].state = "idle", ![c].drops = @ + 1]
    /\ queue' = [queue EXCEPT ![c] = <<>>]
    /\ UNCHANGED <<journalVars, shutdown, tail, got, fold, rows, faults>>

-----------------------------------------------------------------------------
(* A sidecar folded from the journal: CaptureLedger::fold and its loop *)

\* Mutated form: only a registration of the same range is known.
SeedRun_None == NoRun

\* The durable run_meta row.
SeedRun == fold.run

\* The backfill before the task is spawned, a fold after a wakeup, the last one.
AfterFold == [backfill |-> "spawned", woken |-> "wait", final |-> "done"]

\* The statements that run once per fold and whose result is ignored: an error of
\* the read of the watermark counts as 0, one of the read of run_meta as no run,
\* and a failed stamp or watermark write goes unnoticed.
Statements == {"watermark", "seed", "stamp", "last_seq"}

FoldFrom(bad) == IF "watermark" \in bad THEN 0 ELSE fold.wm

\* The Committed and RunRegistered entries of the range have a write of their
\* own, whose result is ignored too; failed is where it fails.
Written(kind, from, failed) ==
    {s \in from + 1 .. Len(log) : log[s].kind = kind} \ failed

\* The rows whose INSERT OR REPLACE succeeds join those that are there; what has
\* no run is then stamped with the attribution at the head.
FoldedRows(bad, failed) ==
    LET from == FoldFrom(bad)
        seed == IF "seed" \in bad THEN NoRun ELSE SeedRun
        last == RunAfter(seed, from, Len(log))
        ins == Written("Committed", from, failed)
        new == {[seq |-> s, run |-> RunAfter(seed, from, s)] : s \in ins}
        kept == {r \in rows : r.seq \notin ins}
    IN  {IF r.run = NoRun /\ "stamp" \notin bad THEN [r EXCEPT !.run = last] ELSE r :
            r \in kept \cup new}

\* run_meta holds the last registration whose write succeeded.
RunMeta(bad, failed) ==
    LET regs == Written("RunRegistered", FoldFrom(bad), failed)
    IN  IF regs = {} THEN fold.run ELSE log[Latest(regs)].key

\* Entries whose INSERT failed while they had no row.
NewlyLost(failed) ==
    {s \in failed : log[s].kind = "Committed" /\ \A r \in rows : r.seq # s}

\* A failure that later folds cannot tell: the attribution is not known, not
\* stored, or stored ahead of the watermark.
Tears(bad, failed) ==
    \/ "seed" \in bad \/ "last_seq" \in bad
    \/ \E s \in failed : log[s].kind = "RunRegistered"

\* One transaction: rows, run_meta and watermark, as far as the statements
\* succeed.
FoldNow(bad, failed) ==
    /\ rows' = FoldedRows(bad, failed)
    /\ fold' = [fold EXCEPT
          !.pc = AfterFold[@],
          !.wm = IF "last_seq" \in bad THEN @ ELSE Len(log),
          !.run = RunMeta(bad, failed),
          !.lost = (@ \ Written("Committed", FoldFrom(bad), failed))
                      \cup NewlyLost(failed),
          !.torn = @ \/ Tears(bad, failed)]

\* Nothing is above the watermark: the fold returns before its transaction.
NothingNew(bad, failed) ==
    /\ bad \subseteq {"watermark"} /\ failed = {}
    /\ fold' = [fold EXCEPT !.pc = AfterFold[@]]
    /\ UNCHANGED rows

FoldStep ==
    /\ fold.pc \in DOMAIN AfterFold
    /\ \E bad \in SUBSET Statements, failed \in SUBSET (1 .. Len(log)) :
          /\ \A s \in failed : /\ s > FoldFrom(bad)
                               /\ log[s].kind \in {"Committed", "RunRegistered"}
          /\ faults' = faults + Cardinality(bad) + Cardinality(failed)
          /\ faults' <= MaxFaults
          /\ IF Len(log) <= FoldFrom(bad) THEN NothingNew(bad, failed)
             ELSE FoldNow(bad, failed)
    /\ UNCHANGED <<journalVars, shutdown, streamVars>>

\* The read of the head or of the range, or the begin or the commit of the
\* transaction fails: the whole fold is skipped.
FoldFails ==
    /\ fold.pc \in DOMAIN AfterFold /\ faults < MaxFaults
    /\ faults' = faults + 1
    /\ fold' = [fold EXCEPT !.pc = AfterFold[@]]
    /\ UNCHANGED <<journalVars, shutdown, streamVars, rows>>

\* The task's first step: journal_signal subscribes.
FoldSubscribes ==
    /\ fold.pc = "spawned"
    /\ fold' = [fold EXCEPT !.pc = "wait", !.seen = mark]
    /\ UNCHANGED <<journalVars, shutdown, streamVars, rows, faults>>

FoldChanged ==
    /\ fold.pc = "wait"
    /\ \/ fold.seen # mark /\ fold' = [fold EXCEPT !.pc = "woken", !.seen = mark]
       \/ shutdown /\ fold' = [fold EXCEPT !.pc = "final"]
    /\ UNCHANGED <<journalVars, shutdown, streamVars, rows, faults>>

\* The stream is over for the server: its follower returned, and its frames are
\* sent or its client is gone.
Drained(c) == tail[c].pc = "none" /\ (Listening(c) => queue[c] = <<>>)

\* RunningGateway::shutdown aborts the task once the streams have drained.
FoldAborted ==
    /\ shutdown /\ fold.pc # "backfill" /\ fold.pc # "done"
    /\ \A c \in Clients : Drained(c)
    /\ fold' = [fold EXCEPT !.pc = "done"]
    /\ UNCHANGED <<journalVars, shutdown, streamVars, rows, faults>>

Shutdown ==
    /\ ~shutdown /\ fold.pc # "backfill"
    /\ shutdown' = TRUE
    /\ UNCHANGED <<journalVars, streamVars, fold, rows, faults>>

-----------------------------------------------------------------------------

\* The streams and the sidecar share nothing but the journal and its watch, so
\* a behaviour follows one kind of reader.
Init ==
    /\ log \in OldLogs
    /\ announce = [w \in Writers |-> 0]
    /\ mark = 0
    /\ shutdown = FALSE
    /\ tail = [c \in Clients |-> NoTail]
    /\ queue = [c \in Clients |-> <<>>]
    /\ \E reader \in Readers, since \in 0 .. Len(log) :
          /\ client = [c \in Clients |->
                [target |-> IF reader = "run" THEN "run" ELSE "all",
                 state |-> IF reader = "sidecar" THEN "absent" ELSE "idle",
                 start |-> since, since |-> since, drops |-> 0]]
          /\ fold = [pc |-> IF reader = "sidecar" THEN "backfill" ELSE "done",
                     seen |-> 0, wm |-> 0, run |-> NoRun,
                     lost |-> {}, torn |-> FALSE]
    /\ got = [c \in Clients |-> <<>>]
    /\ rows = {}
    /\ faults = 0

Follow(c) ==
    \/ StopAtStart(c) \/ ReadHead(c) \/ SendFrame(c) \/ SendStatus(c)
    \/ Changed(c) \/ FollowerReturns(c)

Consume(c) == Receive(c) \/ StreamEnds(c)

Resume(c) == client[c].state = "resume" /\ Open(c)

FoldTask == FoldStep \/ FoldSubscribes \/ FoldChanged

Next ==
    \/ \E w \in Writers : Publish(w) \/ \E batch \in Batches : AppendBatch(w, batch)
    \/ \E c \in Clients : \/ Open(c) \/ Follow(c) \/ ReadFails(c)
                          \/ Consume(c) \/ Drop(c)
    \/ FoldTask \/ FoldFails \/ FoldAborted \/ Shutdown

Spec == Init /\ [][Next]_vars

\* A commit is announced and the tasks of the runtime are polled.  Nothing makes
\* a writer begin, a client open, read or leave, or the operator shut down.
FairSpec ==
    /\ Spec
    /\ \A w \in Writers : WF_vars(Publish(w))
    /\ \A c \in Clients : WF_vars(Follow(c))
    /\ WF_vars(FoldTask)

-----------------------------------------------------------------------------
(* Properties *)

Deltas == [seq : Nat, run : Runs \cup {NoRun}]
FrameType == [deltas : Seq(Deltas), next_seq : Nat,
              status : {"ok", "resource_exhausted", "internal"}]

\* Every variable has its type and a channel never holds more than its bound
\* (live_tail.rs SUBSCRIBER_QUEUE), however far its reader is behind.
TypeOK ==
    /\ log \in Seq(Entries)
    /\ announce \in [Writers -> Nat] /\ mark \in Nat
    /\ shutdown \in BOOLEAN
    /\ tail \in [Clients ->
          [pc : {"none", "start", "send", "wait", "woken", "resource_exhausted",
                 "internal"},
           seen : Nat, cursor : Nat, head : Nat, from : Nat,
           run : Runs \cup {NoRun}]]
    /\ queue \in [Clients -> Seq(FrameType)]
    /\ \A c \in Clients : Len(queue[c]) <= Queue
    /\ client \in [Clients ->
          [target : {"run", "all"},
           state : {"idle", "open", "resume", "stopped", "refused", "absent"},
           start : Nat, since : Nat, drops : 0 .. MaxDrops]]
    /\ got \in [Clients -> Seq(Deltas)]
    /\ fold \in [pc : {"backfill", "spawned", "wait", "woken", "final", "done"},
                 seen : Nat, wm : Nat, run : Runs \cup {NoRun},
                 lost : SUBSET Nat, torn : BOOLEAN]
    /\ rows \subseteq Deltas
    /\ faults \in 0 .. MaxFaults

\* What a client has printed is every surfaced entry of the journal between the
\* cursor it started from and the one it holds, each once and in order, through
\* coalesced wakeups, chunked ranges, overflows, drops and resumed streams
\* (watch.rs: "every committed entry exactly once").
ExactlyOnce ==
    \A c \in Clients :
        [i \in DOMAIN got[c] |-> got[c][i].seq] =
            InOrder(SurfacedIn(client[c].target, client[c].start, client[c].since))

\* Every delta of the global tail is stamped with the run that was registered
\* last at its seq, whichever ranges, streams and resumed cursors it went
\* through (events.rs GlobalCursor, live_tail.rs emit_global_range).
Attributed ==
    \A c \in Clients : client[c].target = "all" =>
        \A i \in DOMAIN got[c] : got[c][i].run = RunAt(got[c][i].seq)

\* Every entry reaches the client once, in order and under its run
\* (live_tail.rs, verbs/events.rs).
Delivered == ExactlyOnce /\ Attributed

NothingToAnnounce == \A w \in Writers : announce[w] <= mark

\* A follower that waits with nothing left to wake it has sent everything up to
\* the head: no commit falls between a read of the head and the wait, and no
\* order of publishes of two writers or mix of old and new entries in a batch
\* hides one (watch.rs publish and changed, live_tail.rs follow_loop).
NoLostWakeup ==
    \A c \in Clients :
        tail[c].pc = "wait" /\ tail[c].seen = mark /\ NothingToAnnounce =>
            tail[c].cursor = Len(log)

CommittedTo(n) == {s \in 1 .. n : log[s].kind = "Committed"}

\* The sidecar misses no Committed entry up to its watermark but those whose own
\* INSERT failed, and holds no other entry.  As long as the attribution could be
\* read and stored and the watermark moved with it, it holds nothing above the
\* watermark, and a row with a registration below it is stamped with the latest
\* one, across folds that split the journal anywhere, folds that fail, refolds
\* from the start and rows left unstamped (capture.rs fold).
RowsTrue ==
    LET seqs == {r.seq : r \in rows}
    IN  /\ CommittedTo(fold.wm) \ fold.lost \subseteq seqs
        /\ seqs \subseteq CommittedTo(Len(log))
        /\ ~fold.torn =>
              /\ seqs = CommittedTo(fold.wm) \ fold.lost
              /\ \A r \in rows : RunAt(r.seq) # NoRun => r.run = RunAt(r.seq)

Following(c) ==
    /\ client[c].state \in {"open", "resume", "stopped"}
    /\ ~shutdown /\ faults = 0

\* The client reads what is sent to it, and resumes when it is told to.
ReadsOn(c) == WF_vars(Consume(c)) /\ WF_vars(Resume(c))

\* A client that was admitted, reads on and does not leave holds the head of the
\* journal in the end, however often it overflows, as long as nothing fails and
\* the server stays up (live_tail.rs emit_range, verbs/events.rs follow_live:
\* "resume - no lost/duplicated delta").
CatchesUp ==
    \A c \in Clients :
        ReadsOn(c) => <>[](Following(c) => client[c].since = Len(log))

\* The follower waits for a slot for its last status, and its client reads
\* nothing.
HeldUp(c) ==
    /\ tail[c].pc \in {"resource_exhausted", "internal"}
    /\ Listening(c) /\ ~HasSlot(c)

\* Once the server shuts down every follower returns for good, whatever it was
\* waiting for and whether its client reads or not; the one exception is a
\* follower whose client leaves its full queue unread while a status is to be
\* sent, a send that does not watch for the shutdown (server.rs
\* RunningGateway::shutdown, live_tail.rs LiveTailer, emit_range).
ShutdownDrains ==
    shutdown ~> [](\A c \in Clients : tail[c].pc = "none" \/ HeldUp(c))
=============================================================================
