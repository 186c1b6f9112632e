-------------------------- MODULE TriggersProofs ---------------------------
(***************************************************************************)
(* Theorems about module Triggers, for any number of triggers, concurrent  *)
(* requests, failures, restarts and settings of the clock.                 *)
(***************************************************************************)
EXTENDS Triggers, TLAPS

-----------------------------------------------------------------------------
(* Facts about the schedule and the calls *)

\* next_fire is strictly after its argument, for an interval and for a crontab.
LEMMA NextFireIsLater ==
    ASSUME NEW s \in Specs, NEW t \in Nat
    PROVE  NextFire(s, t) \in Nat /\ NextFire(s, t) > t
  <1>1. s.kind \in {"interval", "crontab"} /\ s.n \in Nat \ {0}
    BY TriggersAssumption
  <1>2. ASSUME NEW n \in Nat \ {0}
        PROVE  (t \div n + 1) * n \in Nat /\ (t \div n + 1) * n > t
    <2>1. t \div n \in Nat /\ t = n * (t \div n) + (t % n) /\ t % n \in 0 .. (n - 1)
      BY SMT
    <2>2. QED
      BY <2>1, SMT
  <1>3. QED
    BY <1>1, <1>2 DEF NextFire

\* A stored row is a row, and a cron trigger's has a schedule (upsert).
LEMMA UpsertTyped ==
    ASSUME now \in Nat, NEW n \in Names, NEW s \in SpecsOf(n), NEW en \in BOOLEAN
    PROVE  /\ Upsert(n, s, en) \in Row
           /\ n \in Range(CronNames) => Upsert(n, s, en).spec \in Specs
           /\ n \in Range(CronNames) => Upsert(n, s, en).next > now
           /\ Upsert(n, s, en).failures = 0 /\ Upsert(n, s, en).reason = FALSE
           /\ Upsert(n, s, en).enabled = en /\ Upsert(n, s, en).wanted = en
  <1>1. CASE n \in HookNames
    BY <1>1, TriggersAssumption DEF SpecsOf, Upsert, Seed, Row
  <1>2. CASE n \notin HookNames
    BY <1>2, NextFireIsLater DEF SpecsOf, Upsert, Seed, Row
  <1>3. QED
    BY <1>1, <1>2

\* A process that is at a step of submit is in a call.
LEMMA InCall ==
    ASSUME TypeOK, NEW p \in Procs, call[p].pc # "idle"
    PROVE  call[p] \in Call
  BY DEF TypeOK, Idle

\* A call that moves on is a call of the same trigger and key.
LEMMA MovedTyped ==
    ASSUME NEW c \in Call, NEW r \in Nat,
           NEW pc \in {"begin", "bind", "motes", "record", "ok", "err"}
    PROVE  /\ Moved(c, pc, r) \in Call /\ Moved(c, pc, r).pc = pc
           /\ Moved(c, pc, r).key = c.key /\ Moved(c, pc, r).name = c.name
           /\ Moved(c, pc, r).run = r
  BY DEF Moved, Call

-----------------------------------------------------------------------------
(* Type correctness *)

\* The parts of TypeOK that one action changes at a time.
RowsTyped ==
    /\ row \in [Names -> {Absent} \cup Row]
    /\ \A n \in Range(CronNames) : Present(n) => row[n].spec \in Specs

CallsTyped ==
    /\ call \in [Procs -> {Idle} \cup Call]
    /\ \A c \in Clients : call[c].pc \notin {"ok", "err"}

TickerTyped ==
    /\ DueNames \subseteq Range(CronNames)
    /\ \A n \in DueNames : ticker.due[n] \in Row /\ ticker.due[n].spec \in Specs
    /\ ticker.now \in Nat

FiresTyped ==
    /\ DOMAIN fires \subseteq Keys
    /\ \A k \in DOMAIN fires : fires[k] \in Nat

RunsTyped == runs \in Seq([key : Keys, complete : BOOLEAN])

BucketsTyped == bucket \in [HookNames -> {Absent} \cup BucketState]

AcksTyped == acks \subseteq Keys \X Nat

UsedTyped == used \in [Inputs -> Nat]

\* A trigger registered or removed leaves rows well typed (upsert, remove).
LEMMA RowSetTyped ==
    ASSUME RowsTyped, NEW n \in Names, NEW r \in {Absent} \cup Row,
           n \in Range(CronNames) /\ r # Absent => r.spec \in Specs,
           row' = [row EXCEPT ![n] = r]
    PROVE  RowsTyped'
  BY DEF RowsTyped, Present

\* Each result the ticker records in the row of the trigger it served keeps the
\* row's type and its schedule (set_next_fire, clear_fire_failures,
\* record_fire_failure).
LEMMA RowUpdateTyped ==
    ASSUME NEW r \in Row, NEW w \in Nat
    PROVE  /\ Advanced(r, w) \in Row /\ Cleared(r) \in Row /\ Counted(r) \in Row
           /\ Disabled(r) \in Row /\ RecordFireFailure(r) \in Row
           /\ \A q \in {Advanced(r, w), Cleared(r), Counted(r), Disabled(r),
                        RecordFireFailure(r)} :
                 q.spec = r.spec /\ q.wanted = r.wanted
  <1>1. Advanced(r, w) \in Row /\ Advanced(r, w).spec = r.spec
          /\ Advanced(r, w).wanted = r.wanted
    BY DEF Advanced, Row
  <1>2. Cleared(r) \in Row /\ Cleared(r).spec = r.spec /\ Cleared(r).wanted = r.wanted
    BY DEF Cleared, Row
  <1>3. ASSUME NEW q \in Row
        PROVE  /\ Counted(q) \in Row /\ Counted(q).spec = q.spec
               /\ Counted(q).wanted = q.wanted
               /\ Disabled(q) \in Row /\ Disabled(q).spec = q.spec
               /\ Disabled(q).wanted = q.wanted
    <2>1. Counted(q) \in Row
      BY DEF Counted, Row
    <2>2. Counted(q).spec = q.spec /\ Counted(q).wanted = q.wanted
      BY DEF Counted, Row
    <2>3. Disabled(q) \in Row
      BY DEF Disabled, Row
    <2>4. Disabled(q).spec = q.spec /\ Disabled(q).wanted = q.wanted
      BY DEF Disabled, Row
    <2>5. QED
      BY <2>1, <2>2, <2>3, <2>4
  <1>4. RecordFireFailure(r) \in {Counted(r), Disabled(Counted(r))}
    BY DEF RecordFireFailure
  <1>5. /\ RecordFireFailure(r) \in Row /\ RecordFireFailure(r).spec = r.spec
        /\ RecordFireFailure(r).wanted = r.wanted
    BY <1>3, <1>4
  <1>6. QED
    BY <1>1, <1>2, <1>3, <1>5

\* A process's next call, or none, leaves the calls well typed.
LEMMA CallSetTyped ==
    ASSUME CallsTyped, NEW p \in Procs, NEW c \in {Idle} \cup Call,
           p \in Clients => c.pc \notin {"ok", "err"},
           call' = [call EXCEPT ![p] = c]
    PROVE  CallsTyped'
  BY DEF CallsTyped, Procs

\* Going idle is always well typed.
LEMMA EndsTyped ==
    ASSUME CallsTyped, NEW p \in Procs, NEW c \in Call, Ends(p, c)
    PROVE  CallsTyped'
  <1>1. CASE p = Ticker
    BY <1>1, CallSetTyped, TriggersAssumption DEF Ends
  <1>2. CASE p # Ticker
    BY <1>2, CallSetTyped DEF Ends, Idle
  <1>3. QED
    BY <1>1, <1>2

\* A recorded fire keeps the keys typed (record_fire).
LEMMA RecordedTyped ==
    ASSUME NEW k, NEW r
    PROVE  /\ DOMAIN Recorded(k, r) = DOMAIN fires \cup {k}
           /\ \A j \in DOMAIN fires : Recorded(k, r)[j] = fires[j]
           /\ k \notin DOMAIN fires => Recorded(k, r)[k] = r
  BY DEF Recorded

\* TypeOK by its parts, before and after a step.
LEMMA TypeParts ==
    /\ TypeOK <=> /\ now \in Nat /\ RowsTyped /\ CallsTyped /\ TickerTyped
                  /\ FiresTyped /\ RunsTyped /\ BucketsTyped /\ AcksTyped /\ UsedTyped
    /\ TypeOK' <=> /\ now' \in Nat /\ RowsTyped' /\ CallsTyped' /\ TickerTyped'
                   /\ FiresTyped' /\ RunsTyped' /\ BucketsTyped' /\ AcksTyped'
                   /\ UsedTyped'
  BY DEF TypeOK, RowsTyped, CallsTyped, TickerTyped, FiresTyped, RunsTyped,
         BucketsTyped, AcksTyped, UsedTyped

\* What a step leaves alone keeps its type.
LEMMA Frames ==
    /\ RowsTyped /\ row' = row => RowsTyped'
    /\ CallsTyped /\ call' = call => CallsTyped'
    /\ TickerTyped /\ ticker' = ticker => TickerTyped'
    /\ FiresTyped /\ fires' = fires => FiresTyped'
    /\ RunsTyped /\ runs' = runs => RunsTyped'
    /\ BucketsTyped /\ bucket' = bucket => BucketsTyped'
    /\ AcksTyped /\ acks' = acks => AcksTyped'
    /\ UsedTyped /\ used' = used => UsedTyped'
  BY DEF RowsTyped, CallsTyped, TickerTyped, FiresTyped, RunsTyped, BucketsTyped,
         AcksTyped, UsedTyped, Present, DueNames

\* A serve starts well typed.
LEMMA TypeInit == Init => TypeOK
  <1> SUFFICES ASSUME Init
               PROVE  TypeOK
    OBVIOUS
  <1>1. RowsTyped
    <2>1. now \in Nat
      BY DEF Init
    <2>2. /\ row \in [Names -> UNION {Stored(m) : m \in Names}]
          /\ \A n \in Names : row[n] \in Stored(n)
      BY DEF Init
    <2>3. \A n \in Names : \A r \in Stored(n) :
             r \in Row /\ (n \in Range(CronNames) => r.spec \in Specs)
      BY <2>1, UpsertTyped DEF Stored
    <2>4. row \in [Names -> {Absent} \cup Row]
      BY <2>2, <2>3
    <2>5. QED
      BY <2>2, <2>3, <2>4 DEF RowsTyped, Names
  <1>2. CallsTyped
    BY DEF Init, CallsTyped, Idle, Procs
  <1>3. TickerTyped
    BY DEF Init, TickerTyped, NoneDue, DueNames
  <1>4. RunsTyped /\ FiresTyped /\ BucketsTyped /\ AcksTyped /\ UsedTyped /\ now \in Nat
    BY DEF Init, RunsTyped, FiresTyped, BucketsTyped, AcksTyped, UsedTyped
  <1>5. QED
    BY <1>1, <1>2, <1>3, <1>4, TypeParts

\* Inputs are counted in numbers, one at a time.
LEMMA SpendTyped ==
    ASSUME UsedTyped, NEW what \in Inputs, Spend(what)
    PROVE  /\ UsedTyped'
           /\ used'[what] = used[what] + 1
           /\ \A w \in Inputs : w # what => used'[w] = used[w]
  BY DEF Spend, UsedTyped

\* The end of a submit, in error or with an answer.
LEMMA EndingTyped ==
    ASSUME CallsTyped, AcksTyped, NEW p \in Procs, call[p] \in Call
    PROVE  /\ Errs(p) => CallsTyped' /\ AcksTyped'
           /\ \A r \in Nat : Answers(p, r) => CallsTyped' /\ AcksTyped'
  <1>1. call[p].key \in Keys /\ call[p].run \in Nat
    BY DEF Call
  <1>2. \A r \in Nat : Moved(call[p], "ok", r) \in Call /\ Moved(call[p], "err", r) \in Call
    BY MovedTyped
  <1>3. ASSUME Errs(p)
        PROVE  CallsTyped' /\ AcksTyped'
    BY <1>1, <1>2, <1>3, EndsTyped DEF Errs, AcksTyped
  <1>4. ASSUME NEW r \in Nat, Answers(p, r)
        PROVE  CallsTyped' /\ AcksTyped'
    <2>1. CallsTyped'
      BY <1>2, <1>4, EndsTyped DEF Answers
    <2>2. <<call[p].key, r>> \in Keys \X Nat
      BY <1>1
    <2>3. AcksTyped'
      BY <1>4, <2>2 DEF Answers, AcksTyped
    <2>4. QED
      BY <2>1, <2>3
  <1>5. QED
    BY <1>3, <1>4

\* A call that goes on to a step of submit.
LEMMA GoingTyped ==
    ASSUME CallsTyped, NEW p \in Procs, call[p] \in Call,
           NEW r \in Nat, NEW pc \in {"begin", "bind", "motes", "record"},
           call' = [call EXCEPT ![p] = Moved(@, pc, r)]
    PROVE  CallsTyped'
  <1>1. Moved(call[p], pc, r) \in Call /\ Moved(call[p], pc, r).pc = pc
    BY DEF Moved, Call
  <1>2. call' = [call EXCEPT ![p] = Moved(call[p], pc, r)]
    OBVIOUS
  <1>3. QED
    BY <1>1, <1>2, CallSetTyped

\* The steps of submit keep everything well typed.
LEMMA SubmitTyped ==
    ASSUME TypeOK, NEW p \in Procs, Submit(p) \/ SubmitFails(p)
    PROVE  TypeOK'
  <1> USE TypeParts, Frames
  <1>0. call[p] \in Call
    BY InCall
    DEF Submit, SubmitFails, Begin, BindRefused, RegisterRun, SubmitMotes, RecordFire, At
  <1>1. call[p].key \in Keys /\ call[p].run \in Nat
    BY <1>0 DEF Call
  <1>5. CASE Begin(p)
    <2>0. \A k \in DOMAIN fires : fires[k] \in Nat
      BY DEF FiresTyped
    <2>1. CallsTyped' /\ AcksTyped'
      BY <1>0, <1>1, <1>5, <2>0, EndingTyped, GoingTyped DEF Begin, Goto
    <2>2. QED
      BY <1>5, <2>1 DEF Begin
  <1>6. CASE BindRefused(p)
    BY <1>0, <1>6, EndingTyped DEF BindRefused
  <1>7. CASE RegisterRun(p)
    <2>1. Len(runs) + 1 \in Nat
      BY DEF RunsTyped
    <2>2. CallsTyped'
      BY <1>0, <1>7, <2>1, GoingTyped DEF RegisterRun
    <2>3. [key |-> call[p].key, complete |-> FALSE] \in [key : Keys, complete : BOOLEAN]
      BY <1>1
    <2>4. RunsTyped'
      BY <1>7, <2>3 DEF RegisterRun, RunsTyped
    <2>5. QED
      BY <1>7, <2>2, <2>4 DEF RegisterRun
  <1>8. CASE SubmitMotes(p)
    <2>1. CallsTyped'
      BY <1>0, <1>1, <1>8, GoingTyped DEF SubmitMotes, Goto
    <2>2. \A r \in [key : Keys, complete : BOOLEAN] :
              [r EXCEPT !.complete = TRUE] \in [key : Keys, complete : BOOLEAN]
      OBVIOUS
    <2>3. RunsTyped'
      <3> DEFINE R == [key : Keys, complete : BOOLEAN]
      <3>1. runs \in Seq(R)
        BY DEF RunsTyped
      <3>2. runs' = [i \in DOMAIN runs |-> IF i = call[p].run
                        THEN [runs[i] EXCEPT !.complete = TRUE] ELSE runs[i]]
        BY <1>8 DEF SubmitMotes
      <3> HIDE DEF R
      <3>3. \A i \in 1..Len(runs) : runs[i] \in R /\ [runs[i] EXCEPT !.complete = TRUE] \in R
        <4>1. \A i \in 1..Len(runs) : runs[i] \in R
          BY <3>1
        <4>2. QED
          BY <2>2, <4>1 DEF R
      <3>4. runs' \in [1..Len(runs) -> R]
        BY <3>1, <3>2, <3>3
      <3>5. runs' \in Seq(R)
        BY <3>1, <3>4
      <3>6. QED
        BY <3>5 DEF RunsTyped, R
    <2>4. QED
      BY <1>8, <2>1, <2>3 DEF SubmitMotes
  <1>9. CASE RecordFire(p)
    <2>1. /\ DOMAIN fires' = DOMAIN fires \cup {call[p].key}
          /\ \A j \in DOMAIN fires : fires'[j] = fires[j]
          /\ call[p].key \notin DOMAIN fires => fires'[call[p].key] = call[p].run
      BY <1>9, Zenon DEF RecordFire, Recorded
    <2>2. FiresTyped' /\ fires'[call[p].key] \in Nat
      BY <1>1, <2>1 DEF FiresTyped
    <2>3. CallsTyped' /\ AcksTyped'
      BY <1>0, <1>9, <2>2, EndingTyped DEF RecordFire
    <2>4. QED
      BY <1>9, <2>2, <2>3 DEF RecordFire
  <1>10. CASE SubmitFails(p)
    BY <1>0, <1>10, EndingTyped, SpendTyped DEF SubmitFails, Inputs
  <1>11. QED
    BY <1>5, <1>6, <1>7, <1>8, <1>9, <1>10 DEF Submit

\* A row the ticker rewrites keeps its type and its schedule.
LEMMA RowKeptTyped ==
    ASSUME RowsTyped, NEW n \in Names, Present(n), NEW r \in Row, r.spec = row[n].spec,
           row' = [row EXCEPT ![n] = r]
    PROVE  RowsTyped'
  <1>1. n \in Range(CronNames) => r.spec \in Specs
    BY DEF RowsTyped
  <1>2. QED
    BY <1>1, RowSetTyped

\* The ticker goes on to the rest of its snapshot.
LEMMA NextTriggerTyped ==
    ASSUME TickerTyped, NEW n, NextTrigger(n)
    PROVE  /\ TickerTyped' /\ DueNames' = DueNames \ {n} /\ ticker'.now = ticker.now
           /\ \A m \in DueNames' : ticker'.due[m] = ticker.due[m]
  <1>1. DueNames' = DueNames \ {n} /\ ticker'.now = ticker.now
    BY DEF NextTrigger, Restrict, DueNames
  <1>2. \A m \in DueNames \ {n} : ticker'.due[m] = ticker.due[m]
    BY DEF NextTrigger, Restrict
  <1>3. QED
    BY <1>1, <1>2 DEF TickerTyped

\* A bucket that refills and lets a request through stays within its burst
\* (try_acquire).
LEMMA BucketTyped ==
    ASSUME now \in Nat, BucketsTyped, NEW n \in HookNames
    PROVE  /\ Refilled(Bucket(n)) \in BucketState
           /\ Refilled(Bucket(n)).tokens > 0 => Acquire(Refilled(Bucket(n))) \in BucketState
  <1>1. Bucket(n) \in BucketState
    BY TriggersAssumption DEF BucketsTyped, Bucket, BucketState
  <1>2. ASSUME NEW b \in BucketState
        PROVE  Refilled(b) \in BucketState
    <2>1. Elapsed(b) \in Nat
      BY DEF Elapsed, BucketState
    <2>2. \A a \in Nat : a * Refill \in Nat
      BY TriggersAssumption
    <2>3. \A a \in Nat : a \div Period \in Nat
      BY TriggersAssumption
    <2>4. (Elapsed(b) * Refill) \div Period \in Nat
      BY <2>1, <2>2, <2>3
    <2> DEFINE refill == (Elapsed(b) * Refill) \div Period
    <2> HIDE DEF refill
    <2>5. LeastOf(b.tokens + refill, Burst) \in 0..Burst
      BY <2>4, TriggersAssumption DEF LeastOf, BucketState, refill
    <2>6. [b EXCEPT !.tokens = LeastOf(@ + refill, Burst), !.last = now] \in BucketState
      BY <2>5 DEF BucketState
    <2>7. QED
      BY <2>6 DEF Refilled, refill
  <1>3. ASSUME NEW b \in BucketState, b.tokens > 0
        PROVE  Acquire(b) \in BucketState
    <2>1. b.tokens - 1 \in 0..Burst /\ b.admitted + 1 \in Nat
      BY <1>3, TriggersAssumption DEF BucketState
    <2>2. QED
      BY <2>1 DEF Acquire, BucketState
  <1>4. QED
    BY <1>1, <1>2, <1>3

\* Requests keep everything well typed (handle, submit_trigger).
LEMMA RequestTyped ==
    ASSUME TypeOK, NEW c \in Clients, NEW n \in Names, NEW e \in Events,
           \/ SubmitTrigger(c, n, EventKey(e))
           \/ n \in HookNames /\ Webhook(c, n, EventKey(e))
    PROVE  TypeOK'
  <1> USE TypeParts, Frames
  <1>1. c \in Procs /\ "ask" \in Inputs
    BY DEF Procs, Inputs
  <1>2. /\ Entering(n, EventKey(e)) \in Call
        /\ Entering(n, EventKey(e)).pc = "begin"
    BY DEF Entering, Call, EventKey, Keys, EventKeys
  <1>3. call' = [call EXCEPT ![c] = Entering(n, EventKey(e))] => CallsTyped'
    BY <1>1, <1>2, CallSetTyped
  <1>4. CASE SubmitTrigger(c, n, EventKey(e))
    BY <1>1, <1>3, <1>4, SpendTyped DEF SubmitTrigger
  <1>5. CASE n \in HookNames /\ Webhook(c, n, EventKey(e))
    <2>1. BucketsTyped'
      <3>1. \A b \in BucketState : bucket' = [bucket EXCEPT ![n] = b] => BucketsTyped'
        BY <1>5 DEF BucketsTyped
      <3>2. /\ Refilled(Bucket(n)) \in BucketState
            /\ Refilled(Bucket(n)).tokens > 0 => Acquire(Refilled(Bucket(n))) \in BucketState
        BY <1>5, BucketTyped
      <3>3. QED
        BY <1>5, <3>1, <3>2 DEF Webhook
    <2>2. CallsTyped' /\ UsedTyped'
      BY <1>1, <1>3, <1>5, SpendTyped DEF Webhook
    <2>3. QED
      BY <1>5, <2>1, <2>2 DEF Webhook
  <1>6. QED
    BY <1>4, <1>5

\* The clock, the operator and a restart keep everything well typed.
LEMMA OutsideTyped ==
    ASSUME TypeOK,
           \/ ClockForward \/ ClockBack \/ Restart
           \/ \E n \in Names : \E s \in SpecsOf(n), en \in BOOLEAN : Register(n, s, en)
           \/ \E n \in Names : Deregister(n)
    PROVE  TypeOK'
  <1> USE TypeParts, Frames
  <1>0. {"admin", "back", "crash"} \subseteq Inputs
    BY DEF Inputs
  <1>1. CASE ClockForward
    BY <1>1 DEF ClockForward
  <1>2. CASE ClockBack
    BY <1>0, <1>2, SpendTyped DEF ClockBack
  <1>3. CASE Restart
    <2>1. CallsTyped' /\ TickerTyped' /\ BucketsTyped'
      BY <1>3 DEF Restart, CallsTyped, TickerTyped, BucketsTyped, NoneDue, DueNames, Idle, Procs
    <2>2. QED
      BY <1>0, <1>3, <2>1, SpendTyped DEF Restart
  <1>4. ASSUME NEW n \in Names, NEW s \in SpecsOf(n), NEW en \in BOOLEAN, Register(n, s, en)
        PROVE  TypeOK'
    <2>1. RowsTyped'
      BY <1>4, UpsertTyped, RowSetTyped DEF Register
    <2>2. QED
      BY <1>0, <1>4, <2>1, SpendTyped DEF Register
  <1>5. ASSUME NEW n \in Names, Deregister(n)
        PROVE  TypeOK'
    <2>1. RowsTyped'
      BY <1>5, RowSetTyped DEF Deregister
    <2>2. QED
      BY <1>0, <1>5, <2>1, SpendTyped DEF Deregister
  <1>6. QED
    BY <1>1, <1>2, <1>3, <1>4, <1>5

\* What the ticker's answer to a fire does to the rows: the row of the trigger
\* it served is left alone, cleared, counted or disabled.
LEMMA FireSteps ==
    ASSUME TypeOK, FireOk \/ FireFailed
    PROVE  /\ call[Ticker] \in Call /\ Serving \in Names
           /\ \/ row' = row
              \/ Present(Serving) /\ FireOk
                   /\ row' = [row EXCEPT ![Serving] = Cleared(row[Serving])]
              \/ Present(Serving) /\ FireFailed
                   /\ row' = [row EXCEPT ![Serving] = RecordFireFailure(row[Serving])]
              \/ Present(Serving) /\ FireFailed /\ Spend("fault")
                   /\ row' = [row EXCEPT ![Serving] = Counted(row[Serving])]
           /\ used' = used \/ Spend("fault")
  <1>1. call[Ticker] \in Call
    BY InCall DEF FireOk, FireFailed, At, Procs
  <1>2. Serving \in Names
    BY <1>1 DEF Call, Serving
  <1>3. CASE FireOk
    BY <1>1, <1>2, <1>3 DEF FireOk, Present
  <1>4. CASE FireFailed
    BY <1>1, <1>2, <1>4 DEF FireFailed, Present
  <1>5. QED
    BY <1>3, <1>4

\* The ticker's steps keep everything well typed (serve_cron).
LEMMA CronTyped ==
    ASSUME TypeOK, Cron \/ AdvanceFails
    PROVE  TypeOK'
  <1> USE TypeParts, Frames
  <1>0. "fault" \in Inputs /\ Ticker \in Procs
    BY DEF Inputs, Procs
  <1>1. CASE Tick
    <2>1. DOMAIN Snapshot \subseteq Range(CronNames) /\ \A n \in DOMAIN Snapshot : Snapshot[n] = row[n]
      BY DEF Snapshot
    <2>2. \A n \in DOMAIN Snapshot : Present(n) /\ row[n] \in Row /\ row[n].spec \in Specs
      BY DEF Snapshot, IsDue, Fireable, Present, RowsTyped, Names
    <2>3. DueNames' = DOMAIN Snapshot /\ ticker'.due = Snapshot /\ ticker'.now = now
      BY <1>1 DEF Tick, DueNames
    <2>4. TickerTyped'
      BY <2>1, <2>2, <2>3 DEF TickerTyped
    <2>5. QED
      BY <1>1, <2>4 DEF Tick
  <1>2. CASE Advance
    <2>1. PICK n \in DueNames :
              /\ row' = IF row[n] = Absent THEN row
                        ELSE [row EXCEPT ![n] = Advanced(@, Watermark(n))]
              /\ call' = [call EXCEPT ![Ticker] =
                             Entering(n, CronKey(n, ticker.due[n].next))]
      BY <1>2 DEF Advance
    <2>2. n \in Range(CronNames) /\ n \in Names
      BY <2>1 DEF TickerTyped, Names
    <2>3. ticker.due[n] \in Row /\ ticker.due[n].spec \in Specs /\ ticker.now \in Nat
      BY <2>1 DEF TickerTyped
    <2>4. Watermark(n) \in Nat
      BY <2>3, NextFireIsLater DEF Watermark
    <2>5. RowsTyped'
      <3>1. CASE row[n] = Absent
        BY <2>1, <3>1
      <3>2. CASE row[n] # Absent
        <4>1. Present(n) /\ row[n] \in Row
          BY <2>2, <3>2 DEF RowsTyped, Present
        <4>2. row' = [row EXCEPT ![n] = Advanced(row[n], Watermark(n))]
          BY <2>1, <3>2
        <4>3. QED
          BY <2>2, <2>4, <4>1, <4>2, RowUpdateTyped, RowKeptTyped
      <3>3. QED
        BY <3>1, <3>2
    <2>6. Entering(n, CronKey(n, ticker.due[n].next)) \in Call
      <3>1. ticker.due[n].next \in Nat
        BY <2>3 DEF Row
      <3>2. QED
        BY <2>2, <3>1 DEF Entering, Call, CronKey, Keys, CronKeys
    <2>7. CallsTyped'
      BY <1>0, <2>1, <2>6, CallSetTyped, TriggersAssumption
    <2>8. QED
      BY <1>2, <2>5, <2>7 DEF Advance
  <1>3. CASE AdvanceFails
    BY <1>0, <1>3, SpendTyped, NextTriggerTyped DEF AdvanceFails
  <1>4. CASE FireOk \/ FireFailed
    <2>1. RowsTyped'
      <3>1. CASE row' = row
        BY <3>1
      <3>2. CASE row' # row
        <4>1. Present(Serving) /\ Serving \in Names
          BY <1>4, <3>2, FireSteps
        <4>2. row[Serving] \in Row
          BY <4>1 DEF Present, RowsTyped
        <4>3. PICK q \in {Cleared(row[Serving]), Counted(row[Serving]),
                          RecordFireFailure(row[Serving])} :
                     row' = [row EXCEPT ![Serving] = q]
          BY <1>4, <3>2, FireSteps
        <4>4. q \in Row /\ q.spec = row[Serving].spec
          BY <4>2, <4>3, RowUpdateTyped
        <4>5. QED
          BY <4>1, <4>3, <4>4, RowKeptTyped
      <3>3. QED
        BY <3>1, <3>2
    <2>2. CallsTyped'
      <3>1. call' = [call EXCEPT ![Ticker] = Idle] /\ Idle \in {Idle} \cup Call
        BY <1>4 DEF FireOk, FireFailed
      <3>2. QED
        BY <1>0, <3>1, CallSetTyped, TriggersAssumption
    <2>3. UsedTyped'
      BY <1>0, <1>4, FireSteps, SpendTyped
    <2>4. TickerTyped'
      BY <1>4, NextTriggerTyped DEF FireOk, FireFailed
    <2>5. QED
      BY <1>4, <2>1, <2>2, <2>3, <2>4 DEF FireOk, FireFailed
  <1>5. QED
    BY <1>1, <1>2, <1>3, <1>4 DEF Cron

\* Every step keeps everything well typed.
LEMMA TypeStep == TypeOK /\ [Next]_vars => TypeOK'
  <1> SUFFICES ASSUME TypeOK, [Next]_vars
               PROVE  TypeOK'
    OBVIOUS
  <1>1. CASE UNCHANGED vars
    BY <1>1, TypeParts, Frames DEF vars
  <1>2. CASE Next
    <2>0. HookNames \subseteq Names
      BY DEF Names
    <2>1. CASE \E c \in Clients, n \in Names, e \in Events :
                  SubmitTrigger(c, n, EventKey(e))
      <3>1. PICK c \in Clients, n \in Names, e \in Events : SubmitTrigger(c, n, EventKey(e))
        BY <2>1
      <3>2. QED
        BY <3>1, RequestTyped
    <2>2. CASE \E c \in Clients, n \in HookNames, e \in Events : Webhook(c, n, EventKey(e))
      BY <2>0, <2>2, RequestTyped
    <2>3. CASE \E p \in Procs : Submit(p) \/ SubmitFails(p)
      BY <2>3, SubmitTyped
    <2>4. CASE Cron \/ AdvanceFails
      BY <2>4, CronTyped
    <2>5. QED
      BY <1>2, <2>1, <2>2, <2>3, <2>4, OutsideTyped DEF Next
  <1>3. QED
    BY <1>1, <1>2

(* Type correctness: a crontab trigger always has a schedule, no bucket    *)
(* ever holds more than its burst, a client's result is not kept, and what *)
(* is recorded is what the code can write (TriggerRow,                     *)
(* triggers_store.rs:79).                                                  *)
THEOREM TriggersTypeCorrect == Spec => []TypeOK
  BY TypeInit, TypeStep, PTL DEF Spec

-----------------------------------------------------------------------------
(* One answer per event *)

Started(k, i) == i \in RunIds /\ runs[i].key = k
Complete(k, i) == Started(k, i) /\ runs[i].complete

AnswersRecorded == \A a \in acks : a[1] \in DOMAIN fires /\ fires[a[1]] = a[2]

FiresComplete == \A k \in DOMAIN fires : Complete(k, fires[k])

CallStarted(p) ==
    /\ call[p].pc = "motes" => Started(call[p].key, call[p].run)
    /\ call[p].pc = "record" => Complete(call[p].key, call[p].run)

CallsStarted == \A p \in Procs : CallStarted(p)

AnswerInv == TypeOK /\ AnswersRecorded /\ FiresComplete /\ CallsStarted

\* The inductive invariant is enough: two answers to one event are the one
\* recorded run.
LEMMA AnswerEnough == AnswerInv => OneAnswer
  BY DEF AnswerInv, AnswersRecorded, FiresComplete, Complete, Started, OneAnswer

\* Initially no event has an answer.
LEMMA AnswerInit == Init => AnswerInv
  BY TypeInit DEF Init, AnswerInv, AnswersRecorded, FiresComplete, CallsStarted, CallStarted, Idle, Procs

\* Outside submit nothing is recorded, registered or answered, and a call only
\* begins or ends.
LEMMA OutsideSubmit ==
    ASSUME TypeOK, [Next]_vars, \A p \in Procs : ~ Submit(p) /\ ~ SubmitFails(p)
    PROVE  /\ UNCHANGED <<fires, runs, acks>>
           /\ \A p \in Procs : \/ call'[p] = call[p]
                               \/ call'[p].pc \in {"idle", "begin"}
  <1> USE TypeParts DEF CallsTyped
  <1>1. CASE UNCHANGED vars
    BY <1>1 DEF vars
  <1>2. CASE ClockForward \/ ClockBack \/ \E n \in Names : Deregister(n)
    BY <1>2 DEF ClockForward, ClockBack, Deregister
  <1>3. CASE \E n \in Names : \E s \in SpecsOf(n), en \in BOOLEAN : Register(n, s, en)
    BY <1>3 DEF Register
  <1>4. ASSUME NEW c \in Clients, NEW n \in Names, NEW e \in Events,
               SubmitTrigger(c, n, EventKey(e)) \/ Webhook(c, n, EventKey(e))
        PROVE  /\ UNCHANGED <<fires, runs, acks>>
               /\ \A p \in Procs : call'[p] = call[p] \/ call'[p].pc \in {"idle", "begin"}
    <2>1. call' \in {call, [call EXCEPT ![c] = Entering(n, EventKey(e))]}
      BY <1>4 DEF SubmitTrigger, Webhook
    <2>2. Entering(n, EventKey(e)).pc = "begin"
      BY DEF Entering
    <2>3. UNCHANGED <<fires, runs, acks>>
      BY <1>4 DEF SubmitTrigger, Webhook
    <2>4. QED
      BY <2>1, <2>2, <2>3
  <1>5. CASE Tick \/ AdvanceFails
    BY <1>5 DEF Tick, AdvanceFails
  <1>6. CASE Advance
    <2>1. PICK n \in DueNames :
              call' = [call EXCEPT ![Ticker] = Entering(n, CronKey(n, ticker.due[n].next))]
      BY <1>6 DEF Advance
    <2>2. Entering(n, CronKey(n, ticker.due[n].next)).pc = "begin"
      BY DEF Entering
    <2>3. UNCHANGED <<fires, runs, acks>>
      BY <1>6 DEF Advance
    <2>4. QED
      BY <2>1, <2>2, <2>3
  <1>7. CASE FireOk \/ FireFailed
    <2>1. call' = [call EXCEPT ![Ticker] = Idle] /\ UNCHANGED <<fires, runs, acks>>
      BY <1>7 DEF FireOk, FireFailed
    <2>2. QED
      BY <2>1 DEF Idle
  <1>8. CASE Restart
    BY <1>8 DEF Restart, Idle
  <1>9. HookNames \subseteq Names
    BY DEF Names
  <1>10. QED
    BY <1>1, <1>2, <1>3, <1>4, <1>5, <1>6, <1>7, <1>8, <1>9 DEF Next, Cron

\* The runs are numbered from 1.
LEMMA RunsNumbered ==
    ASSUME TypeOK
    PROVE  /\ Len(runs) \in Nat /\ RunIds = 1..Len(runs)
           /\ \A i \in RunIds : runs[i] \in [key : Keys, complete : BOOLEAN]
  <1> DEFINE R == [key : Keys, complete : BOOLEAN]
  <1>1. runs \in Seq(R)
    BY TypeParts DEF RunsTyped
  <1> HIDE DEF R
  <1>2. Len(runs) \in Nat /\ RunIds = 1..Len(runs) /\ \A i \in RunIds : runs[i] \in R
    BY <1>1 DEF RunIds
  <1>3. QED
    BY <1>2 DEF R

\* What submit does to the journal: runs are added and completed, never taken
\* back (register_run, submit_mote).
LEMMA RunsKept ==
    ASSUME TypeOK, NEW p \in Procs, Submit(p) \/ SubmitFails(p)
    PROVE  \A i \in RunIds : /\ i \in RunIds' /\ runs'[i].key = runs[i].key
                             /\ runs[i].complete => runs'[i].complete
  <1> USE TypeParts DEF RunsTyped, RunIds
  <1>1. CASE RegisterRun(p)
    BY <1>1 DEF RegisterRun
  <1>2. CASE SubmitMotes(p)
    <2>1. runs' = [i \in DOMAIN runs |-> IF i = call[p].run
                      THEN [runs[i] EXCEPT !.complete = TRUE] ELSE runs[i]]
      BY <1>2 DEF SubmitMotes
    <2>2. \A i \in RunIds : runs[i] \in [key : Keys, complete : BOOLEAN]
      BY RunsNumbered
    <2>3. QED
      BY <2>1, <2>2
  <1>3. CASE ~ RegisterRun(p) /\ ~ SubmitMotes(p)
    BY <1>3 DEF Submit, SubmitFails, Begin, BindRefused, RecordFire
  <1>4. QED
    BY <1>1, <1>2, <1>3

\* Every step keeps the runs that were started and those that were completed.
LEMMA StartedKept ==
    ASSUME TypeOK, [Next]_vars
    PROVE  \A i \in RunIds : /\ i \in RunIds' /\ runs'[i].key = runs[i].key
                             /\ runs[i].complete => runs'[i].complete
  <1>1. CASE \E p \in Procs : Submit(p) \/ SubmitFails(p)
    BY <1>1, RunsKept
  <1>2. CASE \A p \in Procs : ~ Submit(p) /\ ~ SubmitFails(p)
    BY <1>2, OutsideSubmit DEF RunIds
  <1>3. QED
    BY <1>1, <1>2

\* The calls a step of submit leaves: only the caller's changes.
LEMMA OthersCalls ==
    ASSUME TypeOK, NEW p \in Procs, Submit(p) \/ SubmitFails(p)
    PROVE  /\ call[p] \in Call
           /\ \A q \in Procs : q # p => call'[q] = call[q]
  <1> USE TypeParts DEF CallsTyped
  <1>1. call[p] \in Call
    BY InCall
    DEF Submit, SubmitFails, Begin, BindRefused, RegisterRun, SubmitMotes, RecordFire, At
  <1>2. QED
    BY <1>1 DEF Submit, SubmitFails, Begin, BindRefused, RegisterRun, SubmitMotes, RecordFire,
                Answers, Errs, Ends, Goto

\* A call that ended is at no step between registering and recording.
LEMMA EndedCall ==
    ASSUME TypeOK, NEW p \in Procs, call[p] \in Call, NEW c, Ends(p, c),
           c.pc \in {"ok", "err"}
    PROVE  call'[p].pc \in {"idle", "ok", "err"}
  BY TypeParts DEF Ends, CallsTyped, Idle

\* The invariant is inductive: the run that record_fire returns, its own or the
\* one recorded first, is complete.
LEMMA AnswerStep == AnswerInv /\ [Next]_vars => AnswerInv'
  <1> SUFFICES ASSUME AnswerInv, [Next]_vars
               PROVE  AnswerInv'
    OBVIOUS
  <1>0. TypeOK /\ TypeOK'
    BY TypeStep DEF AnswerInv
  <1>1. ASSUME UNCHANGED <<fires, acks>>
        PROVE  AnswersRecorded' /\ FiresComplete'
    BY <1>0, <1>1, StartedKept
    DEF AnswerInv, AnswersRecorded, FiresComplete, Started, Complete
  <1>2. ASSUME NEW p \in Procs, call'[p] = call[p] \/ call'[p].pc \notin {"motes", "record"}
        PROVE  CallStarted(p)'
    BY <1>0, <1>2, StartedKept DEF AnswerInv, CallsStarted, CallStarted, Started, Complete
  <1>3. CASE \A p \in Procs : ~ Submit(p) /\ ~ SubmitFails(p)
    <2>1. CallsStarted'
      BY <1>0, <1>2, <1>3, OutsideSubmit DEF CallsStarted
    <2>2. QED
      BY <1>0, <1>1, <1>3, <2>1, OutsideSubmit DEF AnswerInv
  <1>4. ASSUME NEW p \in Procs, Submit(p) \/ SubmitFails(p)
        PROVE  AnswerInv'
    <2>0. call[p] \in Call /\ \A q \in Procs : q # p => call'[q] = call[q]
      BY <1>0, <1>4, OthersCalls
    <2>1. ASSUME CallStarted(p)'
          PROVE  CallsStarted'
      BY <1>2, <2>0, <2>1 DEF CallsStarted
    <2>2. ASSUME NEW c, Ends(p, c), c.pc \in {"ok", "err"}
          PROVE  CallsStarted'
      <3>1. call'[p].pc \in {"idle", "ok", "err"}
        BY <1>0, <2>0, <2>2, EndedCall
      <3>2. QED
        BY <2>1, <3>1, <1>2
    <2>3. \A r \in Nat : /\ Moved(call[p], "ok", r).pc = "ok"
                         /\ Moved(call[p], "err", r).pc = "err"
      BY DEF Moved
    <2>4. ASSUME Errs(p)
          PROVE  CallsStarted' /\ acks' = acks
      <3>1. call[p].run \in Nat
        BY <2>0 DEF Call
      <3>2. QED
        BY <2>2, <2>3, <2>4, <3>1 DEF Errs
    <2>5. ASSUME NEW r \in Nat, Answers(p, r)
          PROVE  CallsStarted' /\ acks' = acks \cup {<<call[p].key, r>>}
      BY <2>2, <2>3, <2>5 DEF Answers
    <2>6. CASE Begin(p) \/ BindRefused(p) \/ SubmitFails(p)
      <3>1. CASE Errs(p)
        BY <1>0, <1>1, <2>4, <2>6, <3>1 DEF AnswerInv, Begin, BindRefused, SubmitFails
      <3>2. CASE Begin(p) /\ call[p].key \in DOMAIN fires /\ Answers(p, fires[call[p].key])
        <4>1. fires[call[p].key] \in Nat
          BY <1>0, <3>2, TypeParts DEF FiresTyped
        <4>2. CallsStarted' /\ acks' = acks \cup {<<call[p].key, fires[call[p].key]>>}
          BY <2>5, <3>2, <4>1
        <4>3. fires' = fires
          BY <3>2 DEF Begin
        <4>4. AnswersRecorded'
          BY <3>2, <4>2, <4>3 DEF AnswerInv, AnswersRecorded
        <4>5. FiresComplete'
          BY <1>0, <4>3, StartedKept DEF AnswerInv, FiresComplete, Complete, Started
        <4>6. QED
          BY <1>0, <4>2, <4>4, <4>5 DEF AnswerInv
      <3>3. CASE Begin(p) /\ Goto(p, "bind") /\ UNCHANGED acks
        <4>1. call'[p].pc = "bind"
          BY <1>0, <3>3, TypeParts DEF Goto, Moved, CallsTyped
        <4>2. CallsStarted'
          BY <1>2, <2>1, <4>1
        <4>3. QED
          BY <1>0, <1>1, <3>3, <4>2 DEF AnswerInv, Begin
      <3>4. QED
        BY <2>6, <3>1, <3>2, <3>3 DEF Begin, BindRefused, SubmitFails
    <2>7. CASE RegisterRun(p)
      <3>1. call'[p] = Moved(call[p], "motes", Len(runs) + 1)
        BY <1>0, <2>7, TypeParts DEF RegisterRun, CallsTyped
      <3>2. /\ call'[p].pc = "motes" /\ call'[p].key = call[p].key
            /\ call'[p].run = Len(runs) + 1
        BY <3>1 DEF Moved
      <3>3. Started(call[p].key, call[p].run)'
        <4>1. runs' = Append(runs, [key |-> call[p].key, complete |-> FALSE])
          BY <2>7 DEF RegisterRun
        <4>2. runs \in Seq([key : Keys, complete : BOOLEAN])
          BY <1>0, TypeParts DEF RunsTyped
        <4>3. Len(runs) + 1 \in DOMAIN runs' /\ runs'[Len(runs) + 1].key = call[p].key
          BY <4>1, <4>2
        <4>4. QED
          BY <3>2, <4>3 DEF Started, RunIds
      <3>4. CallsStarted'
        BY <2>1, <3>2, <3>3 DEF CallStarted
      <3>5. QED
        BY <1>0, <1>1, <2>7, <3>4 DEF AnswerInv, RegisterRun
    <2>8. CASE SubmitMotes(p)
      <3>1. Started(call[p].key, call[p].run)
        BY <2>8 DEF SubmitMotes, At, AnswerInv, CallsStarted, CallStarted
      <3>2. call'[p] = Moved(call[p], "record", call[p].run)
        BY <1>0, <2>8, TypeParts DEF SubmitMotes, Goto, CallsTyped
      <3>3. /\ call'[p].pc = "record" /\ call'[p].key = call[p].key
            /\ call'[p].run = call[p].run
        BY <3>2 DEF Moved
      <3>4. runs[call[p].run] \in [key : Keys, complete : BOOLEAN]
        BY <1>0, <3>1, RunsNumbered DEF Started
      <3>5. runs'[call[p].run] = [runs[call[p].run] EXCEPT !.complete = TRUE]
        BY <2>8, <3>1 DEF SubmitMotes, Started, RunIds
      <3>6. runs'[call[p].run].complete = TRUE
        BY <3>4, <3>5
      <3>7. Started(call[p].key, call[p].run)'
        BY <1>0, <3>1, <3>3, StartedKept DEF Started
      <3>8. Complete(call[p].key, call[p].run)'
        BY <3>3, <3>6, <3>7 DEF Complete
      <3>9. CallsStarted'
        BY <2>1, <3>3, <3>8 DEF CallStarted
      <3>10. QED
        BY <1>0, <1>1, <2>8, <3>9 DEF AnswerInv, SubmitMotes
    <2>9. CASE RecordFire(p)
      <3>1. /\ DOMAIN fires' = DOMAIN fires \cup {call[p].key}
            /\ \A j \in DOMAIN fires : fires'[j] = fires[j]
            /\ call[p].key \notin DOMAIN fires => fires'[call[p].key] = call[p].run
        BY <2>9, Zenon DEF RecordFire, Recorded
      <3>2. Complete(call[p].key, call[p].run)
        BY <2>9 DEF RecordFire, At, AnswerInv, CallsStarted, CallStarted
      <3>3. \A k \in DOMAIN fires' : Complete(k, fires'[k])
        BY <3>1, <3>2 DEF AnswerInv, FiresComplete
      <3>4. FiresComplete'
        BY <1>0, <3>3, StartedKept DEF FiresComplete, Complete, Started
      <3>5. fires'[call[p].key] \in Nat
        BY <1>0, <3>1, TypeParts DEF FiresTyped
      <3>6. CallsStarted' /\ acks' = acks \cup {<<call[p].key, fires'[call[p].key]>>}
        BY <2>5, <2>9, <3>5 DEF RecordFire
      <3>7. AnswersRecorded'
        BY <3>1, <3>6 DEF AnswerInv, AnswersRecorded
      <3>8. QED
        BY <1>0, <3>4, <3>6, <3>7 DEF AnswerInv
    <2>10. QED
      BY <1>4, <2>6, <2>7, <2>8, <2>9 DEF Submit
  <1>5. QED
    BY <1>3, <1>4

(* Every Ok answer to one event names the same run, which this event       *)
(* started and whose Motes are all submitted: for any number of concurrent *)
(* requests, whatever fails or crashes (HostTriggerAdmin::submit,          *)
(* trigger_gateway.rs:457; record_fire, triggers_store.rs:414).            *)
THEOREM EventsHaveOneAnswer == Spec => []OneAnswer
  BY AnswerInit, AnswerStep, AnswerEnough, PTL DEF Spec

-----------------------------------------------------------------------------
(* The rate limit *)

\* What a bucket let through and holds is covered by its burst and its refill.
Covered(b) ==
    /\ b.first <= b.last
    /\ b.tokens + b.admitted <= Burst + ((b.last - b.first) * Refill) \div Period

RateInv == TypeOK /\ \A n \in HookNames : bucket[n] # Absent => Covered(bucket[n])

\* The rate invariant gives the bound of the bucket.
LEMMA RateEnough == RateInv => RateBound
  BY DEF RateInv, RateBound, Covered

\* A full bucket is within its bound.
LEMMA RateInit == Init => RateInv
  BY TypeInit DEF Init, RateInv

\* Two refills, each rounded down, are at most one refill of the whole time.
LEMMA RefillsAddUp ==
    ASSUME NEW a \in Nat, NEW b \in Nat
    PROVE  (a * Refill) \div Period + (b * Refill) \div Period
               <= ((a + b) * Refill) \div Period
  <1>1. \A q \in Nat \ {0} : \A x, y \in Nat : (x \div q) + (y \div q) <= (x + y) \div q
    BY SMT
  <1>2. a * Refill \in Nat /\ b * Refill \in Nat /\ (a + b) * Refill = a * Refill + b * Refill
    BY TriggersAssumption
  <1>3. QED
    BY <1>1, <1>2, TriggersAssumption

\* A refill, rounded down, keeps a bucket covered; so does a clock that went
\* back, which refills nothing (try_acquire).
LEMMA RefilledCovered ==
    ASSUME now \in Nat, NEW b \in BucketState, Covered(b)
    PROVE  Covered(Refilled(b))
  <1> DEFINE refill == (Elapsed(b) * Refill) \div Period
  <1>1. CASE refill = 0
    BY <1>1 DEF Refilled
  <1>2. CASE refill # 0
    <2>1. b.last \in Nat /\ b.first \in Nat /\ b.tokens \in Nat /\ b.admitted \in Nat
      BY TriggersAssumption DEF BucketState
    <2>2. now > b.last
      <3>1. Elapsed(b) # 0
        <4>1. (0 * Refill) \div Period = 0
          BY TriggersAssumption
        <4>2. QED
          BY <1>2, <4>1
      <3>2. QED
        BY <2>1, <3>1 DEF Elapsed
    <2>3. Elapsed(b) = now - b.last /\ Elapsed(b) \in Nat
      BY <2>1, <2>2 DEF Elapsed
    <2>4. b.last - b.first \in Nat /\ (b.last - b.first) + Elapsed(b) = now - b.first
      BY <2>1, <2>3 DEF Covered
    <2>5. ((b.last - b.first) * Refill) \div Period + refill
              <= ((now - b.first) * Refill) \div Period
      BY <2>3, <2>4, RefillsAddUp
    <2>6. refill \in Nat
      <3>1. Elapsed(b) * Refill \in Nat
        BY <2>3, TriggersAssumption
      <3>2. QED
        BY <3>1, TriggersAssumption
    <2>7. /\ ((b.last - b.first) * Refill) \div Period \in Int
          /\ ((now - b.first) * Refill) \div Period \in Int
      <3>1. (b.last - b.first) * Refill \in Int /\ (now - b.first) * Refill \in Int
        BY <2>1, TriggersAssumption
      <3>2. QED
        BY <3>1, TriggersAssumption
    <2> DEFINE grown == ((b.last - b.first) * Refill) \div Period
               whole == ((now - b.first) * Refill) \div Period
    <2>8. b.tokens + b.admitted <= Burst + grown
      BY DEF Covered
    <2>9. Refilled(b) = [b EXCEPT !.tokens = LeastOf(@ + refill, Burst), !.last = now]
      BY <1>2 DEF Refilled
    <2> HIDE DEF refill, grown, whole
    <2>10. /\ Refilled(b).tokens = LeastOf(b.tokens + refill, Burst)
           /\ Refilled(b).last = now /\ Refilled(b).first = b.first
           /\ Refilled(b).admitted = b.admitted
      BY <2>9 DEF BucketState
    <2>11. LeastOf(b.tokens + refill, Burst) <= b.tokens + refill
           /\ LeastOf(b.tokens + refill, Burst) \in Nat
      BY <2>1, <2>6, TriggersAssumption DEF LeastOf, refill
    <2>12. grown + refill <= whole /\ grown \in Int /\ whole \in Int /\ refill \in Nat
      BY <2>5, <2>6, <2>7 DEF grown, whole, refill
    <2>13. LeastOf(b.tokens + refill, Burst) + b.admitted <= Burst + whole
      BY <2>1, <2>8, <2>11, <2>12, TriggersAssumption
    <2>14. b.first <= now
      BY <2>1, <2>2 DEF Covered
    <2>15. QED
      BY <2>10, <2>13, <2>14 DEF Covered, whole
  <1>3. QED
    BY <1>1, <1>2

\* A token spent is a request admitted.
LEMMA AcquireCovered ==
    ASSUME NEW b \in BucketState, Covered(b)
    PROVE  Covered(Acquire(b))
  <1>1. /\ Acquire(b).tokens = b.tokens - 1 /\ Acquire(b).admitted = b.admitted + 1
        /\ Acquire(b).last = b.last /\ Acquire(b).first = b.first
    BY DEF Acquire, BucketState
  <1>2. b.tokens \in Int /\ b.admitted \in Int
    BY DEF BucketState
  <1>3. Acquire(b).tokens + Acquire(b).admitted = b.tokens + b.admitted
    BY <1>1, <1>2
  <1>4. QED
    BY <1>1, <1>3 DEF Covered

\* Every step, the clock set back included, keeps the bucket's account.
LEMMA RateStep == RateInv /\ [Next]_vars => RateInv'
  <1> SUFFICES ASSUME RateInv, [Next]_vars
               PROVE  RateInv'
    OBVIOUS
  <1>0. TypeOK /\ TypeOK'
    BY TypeStep DEF RateInv
  <1>1. CASE bucket' = bucket
    BY <1>0, <1>1 DEF RateInv
  <1>2. CASE Restart
    BY <1>0, <1>2 DEF Restart, RateInv
  <1>3. ASSUME NEW c \in Clients, NEW n \in HookNames, NEW k, Webhook(c, n, k)
        PROVE  RateInv'
    <2>1. now \in Nat /\ BucketsTyped
      BY <1>0, TypeParts
    <2>2. Bucket(n) \in BucketState
      BY <2>1, TriggersAssumption DEF BucketsTyped, Bucket, BucketState
    <2>3. Covered(Bucket(n))
      <3>1. CASE bucket[n] # Absent
        BY <3>1 DEF Bucket, RateInv
      <3>2. CASE bucket[n] = Absent
        <4>1. /\ Bucket(n).tokens = Burst /\ Bucket(n).admitted = 0
              /\ Bucket(n).last = now /\ Bucket(n).first = now
          BY <3>2 DEF Bucket
        <4>2. ((now - now) * Refill) \div Period = 0
          BY <2>1, TriggersAssumption
        <4>3. QED
          BY <2>1, <4>1, <4>2, TriggersAssumption DEF Covered
      <3>3. QED
        BY <3>1, <3>2
    <2>4. Refilled(Bucket(n)) \in BucketState /\ Covered(Refilled(Bucket(n)))
      BY <2>1, <2>2, <2>3, BucketTyped, RefilledCovered
    <2>5. Covered(Acquire(Refilled(Bucket(n))))
      BY <2>4, AcquireCovered
    <2>6. bucket' \in {[bucket EXCEPT ![n] = Refilled(Bucket(n))],
                       [bucket EXCEPT ![n] = Acquire(Refilled(Bucket(n)))]}
      BY <1>3 DEF Webhook
    <2>7. \A m \in HookNames : \/ bucket'[m] = bucket[m]
                               \/ bucket'[m] = Refilled(Bucket(n))
                               \/ bucket'[m] = Acquire(Refilled(Bucket(n)))
      BY <2>1, <2>6 DEF BucketsTyped
    <2>8. \A m \in HookNames : bucket'[m] # Absent => Covered(bucket'[m])
      BY <2>4, <2>5, <2>7 DEF RateInv
    <2>9. QED
      BY <1>0, <2>8 DEF RateInv, Covered
  <1>4. ASSUME bucket' # bucket, ~ Restart
        PROVE  \E c \in Clients, n \in HookNames, e \in Events : Webhook(c, n, EventKey(e))
    BY <1>4 DEF Next, vars, ClockForward, ClockBack, Register, Deregister, SubmitTrigger,
       Submit, Begin, BindRefused, RegisterRun, SubmitMotes, RecordFire, SubmitFails,
       Cron, Tick, Advance, FireOk, FireFailed, AdvanceFails
  <1>5. QED
    BY <1>1, <1>2, <1>3, <1>4

(* What a webhook's bucket has let through is at most its burst and the    *)
(* refill of the time it has seen pass: no rounding, no clock set back and *)
(* no number of requests makes a token (try_acquire, webhook.rs:98).       *)
THEOREM BucketsAreBounded == Spec => []RateBound
  BY RateInit, RateStep, RateEnough, PTL DEF Spec

-----------------------------------------------------------------------------
(* The ticker and the trigger it serves *)

\* The ticker serves a row of its snapshot under that row's tick; a client's
\* key is never a tick's.
Serves ==
    call[Ticker] # Idle =>
        /\ Serving \in DueNames
        /\ call[Ticker].key = CronKey(Serving, ticker.due[Serving].next)

ClientsAsk == \A c \in Clients : call[c] # Idle => call[c].key \in EventKeys

TickerInv == TypeOK /\ Serves /\ ClientsAsk

\* Initially the ticker is idle.
LEMMA TickerInit == Init => TickerInv
  BY TypeInit DEF Init, TickerInv, Serves, ClientsAsk, Procs

\* A step of submit keeps its trigger and its key, or ends a client's call.
LEMMA KeyKept ==
    ASSUME TypeOK, NEW p \in Procs, Submit(p) \/ SubmitFails(p)
    PROVE  /\ call[p] # Idle /\ ticker' = ticker
           /\ \/ call'[p] \in Call /\ call'[p].key = call[p].key /\ call'[p].name = call[p].name
              \/ p # Ticker /\ call'[p] = Idle
  <1> USE TypeParts DEF CallsTyped
  <1>1. call[p] \in Call
    BY OthersCalls
  <1>2. call[p].run \in Nat /\ Idle.pc = "idle" /\ call[p].pc # "idle" /\ Len(runs) + 1 \in Nat
    BY <1>1, RunsNumbered DEF Call, Idle
  <1> DEFINE Same == call'[p] \in Call /\ call'[p].key = call[p].key
                        /\ call'[p].name = call[p].name
             Over == p # Ticker /\ call'[p] = Idle
  <1>3. ASSUME NEW r \in Nat, NEW pc \in {"begin", "bind", "motes", "record", "ok", "err"},
               call'[p] = Moved(call[p], pc, r)
        PROVE  Same
    BY <1>1, <1>3 DEF Moved, Call
  <1>4. ASSUME NEW r \in Nat, NEW pc \in {"ok", "err"}, Ends(p, Moved(call[p], pc, r))
        PROVE  Same \/ Over
    <2>1. call'[p] = IF p = Ticker THEN Moved(call[p], pc, r) ELSE Idle
      BY <1>4 DEF Ends
    <2>2. QED
      BY <1>3, <2>1
  <1>5. Errs(p) => Same \/ Over
    BY <1>2, <1>4 DEF Errs
  <1>6. \A r \in Nat : Answers(p, r) => Same \/ Over
    BY <1>4 DEF Answers
  <1>7. \A pc \in {"bind", "record"} : Goto(p, pc) => Same
    BY <1>2, <1>3 DEF Goto
  <1>8. Same \/ Over
    <2>1. CASE Begin(p)
      <3>1. \A k \in DOMAIN fires : fires[k] \in Nat
        BY DEF FiresTyped
      <3>2. QED
        BY <1>5, <1>6, <1>7, <2>1, <3>1 DEF Begin
    <2>2. CASE BindRefused(p) \/ SubmitFails(p)
      BY <1>5, <2>2 DEF BindRefused, SubmitFails
    <2>3. CASE RegisterRun(p)
      BY <1>2, <1>3, <2>3 DEF RegisterRun
    <2>4. CASE SubmitMotes(p)
      BY <1>7, <2>4 DEF SubmitMotes
    <2>5. CASE RecordFire(p)
      <3>1. fires'[call[p].key] \in Nat
        <4>1. TypeOK'
          BY <2>5, SubmitTyped DEF Submit
        <4>2. call[p].key \in DOMAIN fires'
          BY <2>5, Zenon DEF RecordFire, Recorded
        <4>3. QED
          BY <4>1, <4>2 DEF FiresTyped
      <3>2. QED
        BY <1>6, <2>5, <3>1 DEF RecordFire
    <2>6. QED
      BY <2>1, <2>2, <2>3, <2>4, <2>5 DEF Submit
  <1>9. ticker' = ticker
    BY DEF Submit, SubmitFails, Begin, BindRefused, RegisterRun, SubmitMotes, RecordFire
  <1>10. QED
    BY <1>2, <1>8, <1>9

\* Outside submit, what happens to the ticker's call and its snapshot.
LEMMA TickerSteps ==
    ASSUME TypeOK, [Next]_vars, \A p \in Procs : ~ Submit(p) /\ ~ SubmitFails(p)
    PROVE  \/ /\ UNCHANGED ticker /\ call'[Ticker] = call[Ticker]
           \/ /\ Tick /\ call[Ticker] = call'[Ticker]
           \/ /\ Advance
           \/ /\ \E n \in DueNames : NextTrigger(n)
              /\ AdvanceFails /\ call[Ticker] = Idle /\ call'[Ticker] = Idle
           \/ /\ FireOk \/ FireFailed
              /\ NextTrigger(Serving) /\ call'[Ticker] = Idle
           \/ /\ Restart /\ DueNames' = {} /\ call'[Ticker] = Idle
  <1> USE TypeParts DEF CallsTyped
  <1>0. Ticker \in Procs
    BY DEF Procs
  <1>1. CASE UNCHANGED vars
    BY <1>1 DEF vars
  <1>2. CASE ClockForward \/ ClockBack \/ \E n \in Names : Deregister(n)
    BY <1>2 DEF ClockForward, ClockBack, Deregister
  <1>3. CASE \E n \in Names : \E s \in SpecsOf(n), en \in BOOLEAN : Register(n, s, en)
    BY <1>3 DEF Register
  <1>4. ASSUME NEW c \in Clients, NEW n \in Names, NEW e \in Events,
               SubmitTrigger(c, n, EventKey(e)) \/ Webhook(c, n, EventKey(e))
        PROVE  UNCHANGED ticker /\ call'[Ticker] = call[Ticker]
    <2>1. call' \in {call, [call EXCEPT ![c] = Entering(n, EventKey(e))]} /\ c # Ticker
      BY <1>4, TriggersAssumption DEF SubmitTrigger, Webhook
    <2>2. UNCHANGED ticker
      BY <1>4 DEF SubmitTrigger, Webhook
    <2>3. QED
      BY <1>0, <2>1, <2>2
  <1>5. CASE Tick
    BY <1>5 DEF Tick
  <1>6. CASE AdvanceFails
    BY <1>6 DEF AdvanceFails
  <1>7. CASE FireOk \/ FireFailed
    BY <1>0, <1>7 DEF FireOk, FireFailed
  <1>8. CASE Restart
    BY <1>0, <1>8 DEF Restart, NoneDue, DueNames
  <1>9. HookNames \subseteq Names
    BY DEF Names
  <1>10. QED
    BY <1>1, <1>2, <1>3, <1>4, <1>5, <1>6, <1>7, <1>8, <1>9 DEF Next, Cron

\* What Advance does: the first due trigger is entered under its tick.
LEMMA AdvanceStep ==
    ASSUME TypeOK, Advance
    PROVE  /\ call[Ticker] = Idle /\ UNCHANGED <<now, fires, runs, ticker, used>>
           /\ \E n \in DueNames :
                 /\ call' = [call EXCEPT ![Ticker] = call'[Ticker]]
                 /\ call'[Ticker] # Idle /\ call'[Ticker].name = n
                 /\ call'[Ticker].pc = "begin"
                 /\ call'[Ticker].key = CronKey(n, ticker.due[n].next)
                 /\ row' = IF row[n] = Absent THEN row
                           ELSE [row EXCEPT ![n] = Advanced(row[n], Watermark(n))]
                 /\ n \in Range(CronNames) /\ n \in Names
                 /\ ticker.due[n].spec \in Specs /\ ticker.due[n] \in Row
                 /\ ticker.now \in Nat
  <1>0. Ticker \in Procs /\ call \in [Procs -> {Idle} \cup Call]
    BY TypeParts DEF Procs, CallsTyped
  <1>1. PICK n \in DueNames :
              /\ row' = IF row[n] = Absent THEN row
                        ELSE [row EXCEPT ![n] = Advanced(@, Watermark(n))]
              /\ call' = [call EXCEPT ![Ticker] =
                             Entering(n, CronKey(n, ticker.due[n].next))]
    BY DEF Advance
  <1>2. call'[Ticker] = Entering(n, CronKey(n, ticker.due[n].next))
    BY <1>0, <1>1
  <1>3. /\ call'[Ticker].pc = "begin" /\ call'[Ticker].name = n
        /\ call'[Ticker].key = CronKey(n, ticker.due[n].next)
    BY <1>2 DEF Entering
  <1>4. call'[Ticker] # Idle
    BY <1>3 DEF Idle
  <1>5. /\ n \in Range(CronNames) /\ n \in Names
        /\ ticker.due[n].spec \in Specs /\ ticker.due[n] \in Row /\ ticker.now \in Nat
    BY TypeParts DEF TickerTyped, Names
  <1>6. QED
    BY <1>1, <1>2, <1>3, <1>4, <1>5 DEF Advance

\* Every step keeps that the ticker submits under the key of the row it serves.
LEMMA TickerStep == TickerInv /\ [Next]_vars => TickerInv'
  <1> SUFFICES ASSUME TickerInv, [Next]_vars
               PROVE  TickerInv'
    OBVIOUS
  <1>0. TypeOK /\ TypeOK' /\ Ticker \in Procs /\ Clients \subseteq Procs
    BY TypeStep DEF TickerInv, Procs
  <1>1. ASSUME NEW p \in Procs, Submit(p) \/ SubmitFails(p)
        PROVE  Serves' /\ ClientsAsk'
    <2>1. \A q \in Procs : \/ call'[q] = call[q]
                           \/ /\ call[q] # Idle
                              /\ call'[q].key = call[q].key /\ call'[q].name = call[q].name
                           \/ q # Ticker /\ call'[q] = Idle
      BY <1>0, <1>1, OthersCalls, KeyKept
    <2>2. ticker' = ticker
      BY <1>0, <1>1, KeyKept
    <2>3. Serves'
      BY <1>0, <2>1, <2>2 DEF TickerInv, Serves, Serving, DueNames, CronKey
    <2>4. ClientsAsk'
      BY <1>0, <2>1 DEF TickerInv, ClientsAsk
    <2>5. QED
      BY <2>3, <2>4
  <1>2. CASE \A p \in Procs : ~ Submit(p) /\ ~ SubmitFails(p)
    <2>1. Serves'
      <3>1. CASE UNCHANGED ticker /\ call'[Ticker] = call[Ticker]
        BY <3>1 DEF TickerInv, Serves, Serving, DueNames, CronKey
      <3>2. CASE Tick /\ call[Ticker] = call'[Ticker]
        BY <3>2 DEF Tick, TickerInv, Serves
      <3>3. CASE Advance
        BY <1>0, <3>3, AdvanceStep DEF Serves, Serving, DueNames, CronKey
      <3>4. CASE call'[Ticker] = Idle
        BY <3>4 DEF Serves
      <3>5. QED
        BY <1>0, <1>2, <3>1, <3>2, <3>3, <3>4, TickerSteps
    <2>2. ClientsAsk'
      <3>1. ASSUME NEW c \in Clients
            PROVE  \/ call'[c] = call[c] \/ call'[c] = Idle
                   \/ \E n \in Names, e \in Events : call'[c] = Entering(n, EventKey(e))
        <4> USE TypeParts, <1>0 DEF CallsTyped
        <4>0. c # Ticker /\ c \in Procs /\ HookNames \subseteq Names
          BY TriggersAssumption DEF Names
        <4>1. ASSUME NEW d \in Clients, NEW n \in Names, NEW e \in Events,
                     SubmitTrigger(d, n, EventKey(e)) \/ Webhook(d, n, EventKey(e))
              PROVE  call'[c] = call[c] \/ call'[c] = Entering(n, EventKey(e))
          <5>1. call' \in {call, [call EXCEPT ![d] = Entering(n, EventKey(e))]}
            BY <4>1 DEF SubmitTrigger, Webhook
          <5>2. QED
            BY <4>0, <5>1
        <4>2. CASE UNCHANGED call
          BY <4>2
        <4>3. CASE Advance
          BY <4>0, <4>3 DEF Advance
        <4>4. CASE FireOk \/ FireFailed
          BY <4>0, <4>4 DEF FireOk, FireFailed
        <4>5. CASE Restart
          BY <4>0, <4>5 DEF Restart
        <4>6. CASE ClockForward \/ ClockBack \/ (\E n \in Names : Deregister(n))
                     \/ Tick \/ AdvanceFails
                     \/ (\E n \in Names : \E s \in SpecsOf(n), en \in BOOLEAN :
                            Register(n, s, en))
          BY <4>2, <4>6 DEF ClockForward, ClockBack, Deregister, Register, Tick, AdvanceFails
        <4>7. CASE UNCHANGED vars
          BY <4>2, <4>7 DEF vars
        <4>8. QED
          BY <1>2, <4>0, <4>1, <4>3, <4>4, <4>5, <4>6, <4>7 DEF Next, Cron
      <3>2. \A n \in Names, e \in Events : Entering(n, EventKey(e)).key \in EventKeys
        BY DEF Entering, EventKey, EventKeys
      <3>3. QED
        BY <3>1, <3>2 DEF TickerInv, ClientsAsk
    <2>3. QED
      BY <1>0, <2>1, <2>2 DEF TickerInv
  <1>3. QED
    BY <1>0, <1>1, <1>2 DEF TickerInv

-----------------------------------------------------------------------------
(* No trigger stops in silence *)

\* What NoSilentStop says of one row, with f store faults spent.
Shows(r, f) ==
    /\ r.wanted /\ ~ r.enabled => r.reason
    /\ r.reason => ~ r.enabled
    /\ r.enabled /\ DeadLetterMax > 0 => r.failures < DeadLetterMax + f

\* Between its check of the enabled flag and its result, the trigger the ticker
\* serves is enabled, unless the operator has disabled it.
FiresEnabled ==
    /\ call[Ticker].pc \in {"bind", "motes", "record", "ok"}
    /\ Present(Serving) /\ row[Serving].wanted
    => row[Serving].enabled

RowsShow == \A n \in Names : Present(n) => Shows(row[n], used["fault"])

StopInv == TickerInv /\ RowsShow /\ FiresEnabled

\* The invariant gives that no wanted trigger stops in silence.
LEMMA StopEnough == StopInv => NoSilentStop
  BY DEF StopInv, RowsShow, Shows, NoSilentStop

\* Initially no trigger is registered.
LEMMA StopInit == Init => StopInv
  <1> SUFFICES ASSUME Init
               PROVE  StopInv
    OBVIOUS
  <1>1. TickerInv /\ now \in Nat /\ "fault" \in Inputs
    BY TickerInit DEF Init, Inputs
  <1>2. \A n \in Names : \A r \in Stored(n) :
            r.failures = 0 /\ r.reason = FALSE /\ r.enabled = TRUE
    BY <1>1, UpsertTyped DEF Stored
  <1>3. \A n \in Names : row[n] \in Stored(n)
    BY DEF Init
  <1>4. used["fault"] = 0
    BY <1>1 DEF Init
  <1>5. RowsShow
    BY <1>2, <1>3, <1>4, TriggersAssumption DEF RowsShow, Shows
  <1>6. FiresEnabled
    BY DEF Init, FiresEnabled, Idle, Procs
  <1>7. QED
    BY <1>1, <1>5, <1>6 DEF StopInv

\* No fault is ever taken back.
LEMMA FaultsCounted ==
    ASSUME TypeOK, [Next]_vars
    PROVE  /\ used["fault"] \in Nat /\ used'["fault"] \in Nat
           /\ used'["fault"] >= used["fault"]
           /\ Spend("fault") => used'["fault"] = used["fault"] + 1
           /\ \A w \in Inputs : used[w] \in Nat /\ used'[w] >= used[w]
  <1> USE TypeParts
  <1>1. Inputs = {"ask", "admin", "fault", "crash", "back"}
    BY DEF Inputs
  <1>2. TypeOK'
    BY TypeStep
  <1>3. \A w \in Inputs : used[w] \in Nat /\ used'[w] \in Nat
    BY <1>2 DEF UsedTyped
  <1>4. ASSUME NEW what \in Inputs, Spend(what)
        PROVE  \A w \in Inputs : used'[w] >= used[w]
    BY <1>3, <1>4, SpendTyped
  <1>5. \/ used' = used \/ \E what \in Inputs : Spend(what)
    <2>1. CASE FireOk \/ FireFailed
      BY <1>1, <2>1, FireSteps
    <2>2. CASE ~ FireOk /\ ~ FireFailed
      BY <1>1, <2>2 DEF Next, vars, ClockForward, ClockBack, Register, Deregister, SubmitTrigger,
         Webhook, Submit, Begin, BindRefused, RegisterRun, SubmitMotes, RecordFire, SubmitFails,
         Cron, Tick, Advance, AdvanceFails, Restart
    <2>3. QED
      BY <2>1, <2>2
  <1>6. \A w \in Inputs : used'[w] >= used[w]
    BY <1>3, <1>4, <1>5
  <1>7. Spend("fault") => used'["fault"] = used["fault"] + 1
    BY <1>1, SpendTyped
  <1>8. QED
    BY <1>1, <1>3, <1>6, <1>7

\* More faults excuse more failures.
LEMMA ShowsMore ==
    ASSUME NEW r \in Row, NEW f \in Nat, NEW g \in Nat, f <= g, Shows(r, f)
    PROVE  Shows(r, g)
  BY TriggersAssumption DEF Shows, Row

\* The three results the ticker records in a row keep it from stopping in
\* silence: one more failure that is not the last, the last one, which disables
\* with its reason, or a success (record_fire_failure, clear_fire_failures).
LEMMA ShowsAfter ==
    ASSUME NEW r \in Row, NEW f \in Nat, Shows(r, f), NEW w \in Nat
    PROVE  /\ Shows(Advanced(r, w), f)
           /\ Shows(RecordFireFailure(r), f)
           /\ Shows(Counted(r), f + 1)
           /\ (r.wanted => r.enabled) => Shows(Cleared(r), f)
  <1>0. /\ r.failures \in Nat /\ r.enabled \in BOOLEAN
        /\ r.reason \in BOOLEAN /\ r.wanted \in BOOLEAN
    BY DEF Row
  <1>1. Shows(Advanced(r, w), f)
    <2>1. /\ Advanced(r, w).failures = r.failures /\ Advanced(r, w).enabled = r.enabled
          /\ Advanced(r, w).reason = r.reason /\ Advanced(r, w).wanted = r.wanted
      BY DEF Advanced, Row
    <2>2. QED
      BY <2>1 DEF Shows
  <1>2. /\ Counted(r).failures = r.failures + 1 /\ Counted(r).enabled = r.enabled
        /\ Counted(r).reason = r.reason /\ Counted(r).wanted = r.wanted
    BY DEF Counted, Row
  <1>3. Shows(Counted(r), f + 1)
    BY <1>0, <1>2, TriggersAssumption DEF Shows
  <1>4. Shows(RecordFireFailure(r), f)
    <2>1. CASE Disables(r.failures + 1)
      <3>1. Counted(r) \in Row /\ RecordFireFailure(r) = Disabled(Counted(r))
        BY <2>1, RowUpdateTyped DEF RecordFireFailure
      <3>2. Disabled(Counted(r)).enabled = FALSE /\ Disabled(Counted(r)).reason = TRUE
        BY <3>1 DEF Disabled, Row
      <3>3. QED
        BY <3>1, <3>2 DEF Shows
    <2>2. CASE ~ Disables(r.failures + 1)
      <3>1. DeadLetterMax > 0 => r.failures + 1 < DeadLetterMax
        BY <1>0, <2>2, TriggersAssumption DEF Disables
      <3>2. RecordFireFailure(r) = Counted(r)
        BY <2>2 DEF RecordFireFailure
      <3>3. QED
        BY <1>0, <1>2, <3>1, <3>2, TriggersAssumption DEF Shows
    <2>3. QED
      BY <2>1, <2>2
  <1>5. (r.wanted => r.enabled) => Shows(Cleared(r), f)
    <2>1. /\ Cleared(r).failures = 0 /\ Cleared(r).enabled = r.enabled
          /\ Cleared(r).reason = FALSE /\ Cleared(r).wanted = r.wanted
      BY DEF Cleared, Row
    <2>2. QED
      BY <2>1, TriggersAssumption DEF Shows
  <1>6. QED
    BY <1>1, <1>3, <1>4, <1>5

\* What a step may do to a row.
LEMMA RowSteps ==
    ASSUME TypeOK, [Next]_vars, NEW n \in Names
    PROVE  \/ row'[n] = row[n]
           \/ row'[n] = Absent
           \/ UNCHANGED <<now, ticker, call, runs>>
                 /\ \E s \in SpecsOf(n), en \in BOOLEAN : row'[n] = Upsert(n, s, en)
           \/ /\ Advance /\ Present(n) /\ n \in DueNames /\ call'[Ticker].name = n
              /\ Watermark(n) \in Nat /\ row'[n] = Advanced(row[n], Watermark(n))
           \/ /\ Present(n) /\ Serving = n
              /\ \/ FireOk /\ row'[n] = Cleared(row[n])
                 \/ FireFailed /\ row'[n] = RecordFireFailure(row[n])
                 \/ FireFailed /\ Spend("fault") /\ row'[n] = Counted(row[n])
  <1>0. row \in [Names -> {Absent} \cup Row]
    BY TypeParts DEF RowsTyped
  <1>1. CASE row' = row
    BY <1>1
  <1>2. ASSUME NEW m \in Names, NEW s \in SpecsOf(m), NEW en \in BOOLEAN, Register(m, s, en)
        PROVE  \/ row'[n] = row[n]
               \/ /\ \E t \in SpecsOf(n), on \in BOOLEAN : row'[n] = Upsert(n, t, on)
                  /\ UNCHANGED <<now, ticker, call, runs>>
    BY <1>0, <1>2 DEF Register
  <1>3. ASSUME NEW m \in Names, Deregister(m)
        PROVE  row'[n] = row[n] \/ row'[n] = Absent
    BY <1>0, <1>3 DEF Deregister
  <1>4. CASE Advance
    <2>1. PICK m \in DueNames :
             /\ row' = IF row[m] = Absent THEN row
                       ELSE [row EXCEPT ![m] = Advanced(row[m], Watermark(m))]
             /\ call'[Ticker].name = m
             /\ ticker.due[m].spec \in Specs /\ ticker.now \in Nat
      BY <1>4, AdvanceStep
    <2>2. Watermark(m) \in Nat
      BY <2>1, NextFireIsLater DEF Watermark
    <2>3. QED
      BY <1>0, <1>4, <2>1, <2>2 DEF Present
  <1>5. CASE FireOk \/ FireFailed
    BY <1>0, <1>5, FireSteps
  <1>6. \/ row' = row \/ Advance \/ FireOk \/ FireFailed
        \/ \E m \in Names : Deregister(m)
        \/ \E m \in Names : \E s \in SpecsOf(m), en \in BOOLEAN : Register(m, s, en)
    BY DEF Next, vars, ClockForward, ClockBack, SubmitTrigger, Webhook, Submit, Begin,
       BindRefused, RegisterRun, SubmitMotes, RecordFire, SubmitFails, Cron, Tick,
       AdvanceFails, Restart
  <1>7. QED
    BY <1>1, <1>2, <1>3, <1>4, <1>5, <1>6

\* A submit that goes on past its first step saw an enabled trigger there.
LEMMA SubmitSawEnabled ==
    ASSUME TypeOK, NEW p \in Procs, Submit(p) \/ SubmitFails(p),
           call'[p].pc \in {"bind", "motes", "record", "ok"}
    PROVE  /\ row' = row /\ call'[p].name = call[p].name
           /\ \/ call[p].pc \in {"bind", "motes", "record"}
              \/ Fireable(call[p].name)
  <1> USE TypeParts DEF CallsTyped
  <1>1. row' = row
    BY DEF Submit, SubmitFails, Begin, BindRefused, RegisterRun, SubmitMotes, RecordFire
  <1>2. call'[p].name = call[p].name
    BY KeyKept DEF Idle
  <1>3. Errs(p) => call'[p].pc \in {"idle", "err"}
    BY DEF Errs, Ends, Moved, Idle
  <1>4. call[p].pc \in {"bind", "motes", "record"} \/ Fireable(call[p].name)
    BY <1>3 DEF Submit, SubmitFails, Begin, BindRefused, RegisterRun, SubmitMotes, RecordFire, At
  <1>5. QED
    BY <1>1, <1>2, <1>4

\* Every step keeps the failure counters below the limit or the reason shown.
LEMMA StopStep == StopInv /\ [Next]_vars => StopInv'
  <1> SUFFICES ASSUME StopInv, [Next]_vars
               PROVE  StopInv'
    OBVIOUS
  <1>0. TypeOK /\ TypeOK' /\ TickerInv' /\ Ticker \in Procs /\ now \in Nat
    BY TickerStep, TypeStep, TypeParts DEF StopInv, TickerInv, Procs
  <1>1. ASSUME NEW n \in Names, Present(n)'
        PROVE  Shows(row'[n], used'["fault"])
    <2>0. /\ used["fault"] \in Nat /\ used'["fault"] \in Nat
          /\ used["fault"] <= used'["fault"]
          /\ Spend("fault") => used'["fault"] = used["fault"] + 1
      BY <1>0, FaultsCounted
    <2>1. row'[n] \in Row
      BY <1>0, <1>1, TypeParts DEF RowsTyped, Present
    <2>2. Present(n) => Shows(row[n], used["fault"]) /\ row[n] \in Row
      BY <1>0, TypeParts DEF StopInv, RowsShow, RowsTyped, Present
    <2>3. CASE row'[n] = row[n]
      BY <1>1, <2>0, <2>1, <2>2, <2>3, ShowsMore DEF Present
    <2>4. CASE row'[n] = Absent
      BY <1>1, <2>4 DEF Present
    <2>5. CASE \E s \in SpecsOf(n), en \in BOOLEAN : row'[n] = Upsert(n, s, en)
      <3>1. row'[n].failures = 0 /\ row'[n].reason = FALSE /\ row'[n].wanted = row'[n].enabled
        BY <1>0, <2>5, UpsertTyped
      <3>2. QED
        BY <2>0, <3>1, TriggersAssumption DEF Shows
    <2>6. CASE Present(n) /\ Watermark(n) \in Nat /\ row'[n] = Advanced(row[n], Watermark(n))
      BY <2>0, <2>1, <2>2, <2>6, ShowsAfter, ShowsMore
    <2>7. CASE Present(n) /\ Serving = n /\ FireOk /\ row'[n] = Cleared(row[n])
      <3>1. row[n].wanted => row[n].enabled
        BY <2>7 DEF FireOk, At, StopInv, FiresEnabled
      <3>2. QED
        BY <2>0, <2>1, <2>2, <2>7, <3>1, ShowsAfter, ShowsMore
    <2>8. CASE Present(n) /\ row'[n] = RecordFireFailure(row[n])
      BY <2>0, <2>1, <2>2, <2>8, ShowsAfter, ShowsMore
    <2>9. CASE Present(n) /\ Spend("fault") /\ row'[n] = Counted(row[n])
      BY <2>0, <2>1, <2>2, <2>9, ShowsAfter, ShowsMore
    <2>10. QED
      BY <1>0, <2>3, <2>4, <2>5, <2>6, <2>7, <2>8, <2>9, RowSteps
  <1>2. RowsShow'
    BY <1>1 DEF RowsShow, Shows
  <1>3. FiresEnabled'
    <2> SUFFICES ASSUME call'[Ticker].pc \in {"bind", "motes", "record", "ok"},
                        Present(Serving)', row'[Serving'].wanted
                 PROVE  row'[Serving'].enabled
      BY DEF FiresEnabled
    <2>0. Serving' = call'[Ticker].name /\ Serving = call[Ticker].name
      BY DEF Serving
    <2>1. CASE Submit(Ticker) \/ SubmitFails(Ticker)
      <3>1. /\ row' = row /\ Serving' = Serving
            /\ call[Ticker].pc \in {"bind", "motes", "record"} \/ Fireable(Serving)
        BY <1>0, <2>0, <2>1, SubmitSawEnabled
      <3>2. QED
        BY <3>1 DEF StopInv, FiresEnabled, Fireable, Present
    <2>2. CASE ~ Submit(Ticker) /\ ~ SubmitFails(Ticker)
      <3>1. call'[Ticker] = call[Ticker] \/ call'[Ticker].pc \in {"idle", "begin"}
        <4>1. CASE \E p \in Procs : Submit(p) \/ SubmitFails(p)
          BY <1>0, <2>2, <4>1, OthersCalls
        <4>2. CASE \A p \in Procs : ~ Submit(p) /\ ~ SubmitFails(p)
          BY <1>0, <4>2, OutsideSubmit
        <4>3. QED
          BY <4>1, <4>2
      <3>2. call'[Ticker] = call[Ticker] /\ Serving' = Serving
        BY <2>0, <3>1
      <3>3. call[Ticker] \in Call /\ Serving \in Names
        <4>1. call[Ticker] \in Call
          BY <1>0, <3>2, InCall
        <4>2. QED
          BY <2>0, <4>1 DEF Call
      <3>4. row'[Serving] # Absent
        BY <3>2 DEF Present
      <3>5. CASE row'[Serving] = row[Serving]
        BY <3>2, <3>4, <3>5 DEF StopInv, FiresEnabled, Present
      <3>6. CASE \E s \in SpecsOf(Serving), en \in BOOLEAN :
                    row'[Serving] = Upsert(Serving, s, en)
        BY <1>0, <3>2, <3>3, <3>6, UpsertTyped
      <3>7. ~ Advance
        BY <1>0, <3>2, <3>3, AdvanceStep
      <3>8. ~ FireOk /\ ~ FireFailed
        <4>1. (FireOk \/ FireFailed) => call'[Ticker] = Idle
          BY <1>0, TypeParts DEF FireOk, FireFailed, CallsTyped
        <4>2. call'[Ticker] # Idle
          BY DEF Idle
        <4>3. QED
          BY <4>1, <4>2
      <3>9. QED
        BY <1>0, <3>3, <3>4, <3>5, <3>6, <3>7, <3>8, RowSteps
    <2>3. QED
      BY <2>1, <2>2
  <1>4. QED
    BY <1>0, <1>2, <1>3 DEF StopInv

(* No trigger stops in silence: one the operator asked for that is         *)
(* disabled shows its reason, a reason is shown on no enabled trigger, and *)
(* a trigger that stays enabled has failed fewer times in a row than the   *)
(* limit, or than the limit and the store faults (serve_cron, cron.rs:83;  *)
(* record_fire_failure, triggers_store.rs:343).                            *)
THEOREM TriggersStopAloud == Spec => []NoSilentStop
  BY StopInit, StopStep, StopEnough, PTL DEF Spec

-----------------------------------------------------------------------------
(* A cron tick starts at most one run *)

\* The tick of trigger n at t has started a run.
Ran(n, t) == \E i \in RunIds : runs[i].key = CronKey(n, t)

TickIsRunning(n) == call[Ticker] # Idle /\ Serving = n

(* While the clock only moves forward, the watermarks order the ticks.     *)
TickerIsPast ==
    /\ DueNames # {} => ticker.now <= now
    /\ \A n \in DueNames : ticker.due[n].next <= ticker.now

WatermarkMoved ==
    call[Ticker] # Idle /\ Present(Serving) =>
        ticker.due[Serving].next < row[Serving].next

TickIsFresh ==
    call[Ticker].pc \in {"begin", "bind"} => ~ Ran(Serving, ticker.due[Serving].next)

RunIsPast(n, t) ==
    /\ t <= now
    /\ DueNames # {} => t <= ticker.now
    /\ Present(n) => t < row[n].next
    /\ n \in DueNames /\ ~ TickIsRunning(n) => t < ticker.due[n].next

RunsArePast == \A n \in Range(CronNames), t \in Nat : Ran(n, t) => RunIsPast(n, t)

ForwardInv == TickerIsPast /\ WatermarkMoved /\ TickIsFresh /\ RunsArePast

(* While no submit fails or dies, the recorded keys tell the ticks apart.  *)
BindIsFresh == call[Ticker].pc = "bind" => call[Ticker].key \notin DOMAIN fires

RunIsSettled(i) ==
    \/ runs[i].key \in DOMAIN fires
    \/ call[Ticker].pc \in {"motes", "record"} /\ call[Ticker].run = i

SettledInv ==
    BindIsFresh /\ \A i \in RunIds : IsCronKey(runs[i].key) => RunIsSettled(i)

NoSetback == used["back"] = 0
NoFailure == used["fault"] + used["crash"] = 0

TicksDistinct ==
    \A i, j \in RunIds : i # j /\ IsCronKey(runs[i].key) => runs[i].key # runs[j].key

CronInv ==
    /\ AnswerInv /\ TickerInv
    /\ NoSetback => ForwardInv
    /\ NoFailure => SettledInv
    /\ NoSetback \/ NoFailure => TicksDistinct

\* The invariant gives one run per tick.
LEMMA CronEnough == CronInv => CronOnce
  BY DEF CronInv, CronOnce, NoSetback, NoFailure, TicksDistinct

\* Initially no tick has started a run.
LEMMA CronInit == Init => CronInv
  <1> SUFFICES ASSUME Init
               PROVE  CronInv
    OBVIOUS
  <1>1. AnswerInv /\ TickerInv
    BY AnswerInit, TickerInit
  <1>2. RunIds = {} /\ DueNames = {} /\ call[Ticker] = Idle /\ Idle.pc = "idle"
    BY DEF Init, RunIds, DueNames, NoneDue, Procs, Idle
  <1>3. ForwardInv
    BY <1>2 DEF ForwardInv, TickerIsPast, WatermarkMoved, TickIsFresh, RunsArePast, Ran
  <1>4. SettledInv /\ TicksDistinct
    BY <1>2 DEF SettledInv, BindIsFresh, TicksDistinct
  <1>5. QED
    BY <1>1, <1>3, <1>4 DEF CronInv

\* Keys tell ticks from events, and one tick from another.
LEMMA KeysDiffer ==
    /\ \A k \in EventKeys : ~ IsCronKey(k)
    /\ \A n, t : IsCronKey(CronKey(n, t))
    /\ \A n, m, t, u : CronKey(n, t) = CronKey(m, u) => n = m /\ t = u
  BY DEF EventKeys, IsCronKey, CronKey

\* What a step may do to the journal: a run is registered under its call's key.
LEMMA RunsGrow ==
    ASSUME TypeOK, [Next]_vars
    PROVE  /\ \A i \in RunIds : i \in RunIds' /\ runs'[i].key = runs[i].key
           /\ \/ RunIds' = RunIds
              \/ \E p \in Procs :
                    /\ RegisterRun(p) /\ call'[p].run = Len(runs) + 1
                    /\ call'[p].pc = "motes"
                    /\ RunIds' = RunIds \cup {Len(runs) + 1} /\ Len(runs) + 1 \notin RunIds
                    /\ runs'[Len(runs) + 1].key = call[p].key
  <1>1. \A i \in RunIds : i \in RunIds' /\ runs'[i].key = runs[i].key
    BY StartedKept
  <1>2. CASE \E p \in Procs : RegisterRun(p)
    <2>1. PICK p \in Procs : RegisterRun(p)
      BY <1>2
    <2>2. runs' = Append(runs, [key |-> call[p].key, complete |-> FALSE])
      BY <2>1 DEF RegisterRun
    <2>3. runs \in Seq([key : Keys, complete : BOOLEAN])
      BY TypeParts DEF RunsTyped
    <2>4. /\ RunIds' = RunIds \cup {Len(runs) + 1} /\ Len(runs) + 1 \notin RunIds
          /\ runs'[Len(runs) + 1].key = call[p].key
      BY <2>2, <2>3 DEF RunIds
    <2>5. call'[p] = Moved(call[p], "motes", Len(runs) + 1)
      BY <2>1, TypeParts DEF RegisterRun, CallsTyped
    <2>6. QED
      BY <1>1, <2>1, <2>4, <2>5 DEF Moved
  <1>3. CASE \A p \in Procs : ~ RegisterRun(p)
    <2>1. CASE \E p \in Procs : Submit(p) \/ SubmitFails(p)
      BY <1>1, <1>3, <2>1 DEF Submit, SubmitFails, Begin, BindRefused, SubmitMotes, RecordFire,
                              RunIds
    <2>2. CASE \A p \in Procs : ~ Submit(p) /\ ~ SubmitFails(p)
      BY <1>1, <2>2, OutsideSubmit DEF RunIds
    <2>3. QED
      BY <1>1, <2>1, <2>2
  <1>4. QED
    BY <1>2, <1>3

\* Only the ticker starts the run of a tick, and it is the tick it serves.
LEMMA RanGrows ==
    ASSUME TickerInv, [Next]_vars, NEW n, NEW t, Ran(n, t)'
    PROVE  \/ Ran(n, t)
           \/ /\ RegisterRun(Ticker) /\ call'[Ticker].pc = "motes"
              /\ n = Serving /\ t = ticker.due[Serving].next
  <1>0. TypeOK
    BY DEF TickerInv
  <1>1. PICK i \in RunIds' : runs'[i].key = CronKey(n, t)
    BY DEF Ran, CronKey
  <1>2. CASE i \in RunIds
    BY <1>0, <1>1, <1>2, RunsGrow DEF Ran
  <1>3. CASE i \notin RunIds
    <2>1. PICK p \in Procs : RegisterRun(p) /\ call'[p].pc = "motes" /\ call[p].key = CronKey(n, t)
      BY <1>0, <1>1, <1>3, RunsGrow
    <2>2. call[p] # Idle
      BY <2>1 DEF RegisterRun, At, Idle
    <2>3. p = Ticker
      BY <2>1, <2>2, KeysDiffer DEF TickerInv, ClientsAsk, Procs
    <2>4. call[Ticker].key = CronKey(Serving, ticker.due[Serving].next)
      BY <2>2, <2>3 DEF TickerInv, Serves
    <2>5. QED
      BY <2>1, <2>3, <2>4, KeysDiffer
  <1>4. QED
    BY <1>2, <1>3

\* The results of a fire leave the watermark alone.
LEMMA WatermarkKept ==
    ASSUME NEW r \in Row
    PROVE  /\ Cleared(r).next = r.next /\ Counted(r).next = r.next
           /\ RecordFireFailure(r).next = r.next
           /\ \A w : Advanced(r, w).next = w
  <1>1. Cleared(r).next = r.next /\ Counted(r).next = r.next
    BY DEF Cleared, Counted, Row
  <1>2. Counted(r) \in Row
    BY RowUpdateTyped, 0 \in Nat
  <1>3. \A q \in Row : Disabled(q).next = q.next
    BY DEF Disabled, Row
  <1>4. \A w : Advanced(r, w).next = w
    BY DEF Advanced, Row
  <1>5. QED
    BY <1>1, <1>2, <1>3, <1>4 DEF RecordFireFailure

\* The clock only goes back when it is set back.
LEMMA ClockSteps ==
    ASSUME TypeOK, [Next]_vars, used'["back"] = 0
    PROVE  used["back"] = 0 /\ now' >= now /\ now \in Nat /\ now' \in Nat
  <1>0. used["back"] \in Nat /\ used'["back"] >= used["back"]
    BY FaultsCounted DEF Inputs
  <1>1. used["back"] = 0
    BY <1>0
  <1>2. now \in Nat /\ now' \in Nat
    BY TypeStep, TypeParts
  <1>3. ~ ClockBack
    <2>1. ClockBack => used'["back"] = used["back"] + 1
      BY TypeParts, SpendTyped DEF ClockBack, Inputs
    <2>2. QED
      BY <1>1, <2>1
  <1>4. now' = now \/ ClockForward
    BY <1>3 DEF Next, vars, Register, Deregister, SubmitTrigger, Webhook, Submit, Begin,
       BindRefused, RegisterRun, SubmitMotes, RecordFire, SubmitFails, Cron, Tick, Advance,
       FireOk, FireFailed, AdvanceFails, Restart
  <1>5. now' >= now
    BY <1>2, <1>4 DEF ClockForward
  <1>6. QED
    BY <1>1, <1>2, <1>5

\* A step of submit leaves the clock, the rows and the snapshot alone, and the
\* ticker at the tick it serves.
LEMMA SubmitLeaves ==
    ASSUME TypeOK, NEW p \in Procs, Submit(p) \/ SubmitFails(p)
    PROVE  /\ UNCHANGED <<now, row, ticker>>
           /\ DueNames' = DueNames
           /\ call[Ticker] # Idle <=> call'[Ticker] # Idle
           /\ call[Ticker] # Idle => Serving' = Serving
           /\ call'[Ticker].pc \in {"begin", "bind"} =>
                call[Ticker].pc \in {"begin", "bind"} /\ ~ RegisterRun(Ticker)
  <1>0. Ticker \in Procs
    BY DEF Procs
  <1>1. UNCHANGED <<now, row, ticker>>
    BY DEF Submit, SubmitFails, Begin, BindRefused, RegisterRun, SubmitMotes, RecordFire
  <1>2. CASE p # Ticker
    <2>1. call'[Ticker] = call[Ticker]
      BY <1>0, <1>2, OthersCalls
    <2>2. ~ RegisterRun(Ticker) \/ call'[Ticker].pc = "motes"
      BY <1>0, TypeParts DEF RegisterRun, CallsTyped, Moved
    <2>3. QED
      BY <1>1, <2>1, <2>2 DEF Serving, DueNames
  <1>3. CASE p = Ticker
    <2>1. call[Ticker] # Idle /\ call'[Ticker] \in Call /\ call'[Ticker].name = call[Ticker].name
      BY <1>3, KeyKept
    <2>2. call'[Ticker] # Idle
      BY <2>1 DEF Call, Idle
    <2>3. ASSUME call'[Ticker].pc \in {"begin", "bind"}
          PROVE  call[Ticker].pc \in {"begin", "bind"} /\ ~ RegisterRun(Ticker)
      <3> USE TypeParts DEF CallsTyped
      <3>1. ~ RegisterRun(Ticker) /\ ~ SubmitMotes(Ticker)
        BY <1>0, <2>3 DEF RegisterRun, SubmitMotes, Goto, Moved
      <3>2. ~ Errs(Ticker)
        BY <1>0, <2>3 DEF Errs, Ends, Moved
      <3>3. \A r : ~ Answers(Ticker, r)
        BY <1>0, <2>3 DEF Answers, Ends, Moved
      <3>4. QED
        BY <1>3, <3>1, <3>2, <3>3 DEF Submit, SubmitFails, Begin, BindRefused, RecordFire, At
    <2>4. QED
      BY <1>1, <2>1, <2>2, <2>3 DEF Serving, DueNames
  <1>4. QED
    BY <1>2, <1>3

\* While the clock moves forward, submit keeps the order of the ticks.
LEMMA ForwardSubmit ==
    ASSUME TickerInv, ForwardInv, [Next]_vars, now \in Nat,
           NEW p \in Procs, Submit(p) \/ SubmitFails(p)
    PROVE  ForwardInv'
  <1>0. TypeOK
    BY DEF TickerInv
  <1>1. /\ UNCHANGED <<now, row, ticker>> /\ DueNames' = DueNames
        /\ call[Ticker] # Idle <=> call'[Ticker] # Idle
        /\ call[Ticker] # Idle => Serving' = Serving
        /\ call'[Ticker].pc \in {"begin", "bind"} =>
             call[Ticker].pc \in {"begin", "bind"} /\ ~ RegisterRun(Ticker)
    BY <1>0, SubmitLeaves
  <1>2. TickerIsPast'
    BY <1>1 DEF ForwardInv, TickerIsPast
  <1>3. WatermarkMoved'
    BY <1>1 DEF ForwardInv, WatermarkMoved, Present
  <1>4. TickIsFresh'
    <2> SUFFICES ASSUME call'[Ticker].pc \in {"begin", "bind"},
                        Ran(Serving, ticker.due[Serving].next)'
                 PROVE  FALSE
      BY DEF TickIsFresh
    <2>1. call[Ticker] # Idle /\ Serving' = Serving /\ ticker' = ticker
      BY <1>1 DEF Idle
    <2>2. Ran(Serving, ticker.due[Serving].next)
      <3>1. PICK i \in RunIds' :
               runs'[i].key = CronKey(Serving, ticker.due[Serving].next)
        BY <2>1 DEF Ran, CronKey
      <3>2. CASE i \in RunIds
        BY <1>0, <3>1, <3>2, RunsGrow DEF Ran
      <3>3. CASE i \notin RunIds
        <4>1. PICK q \in Procs : RegisterRun(q) /\ call[q].key = runs'[i].key
          BY <1>0, <3>3, RunsGrow
        <4>2. q = Ticker
          BY <3>1, <4>1, KeysDiffer DEF RegisterRun, At, Idle, TickerInv, ClientsAsk, Procs
        <4>3. QED
          BY <1>1, <4>1, <4>2
      <3>4. QED
        BY <3>2, <3>3
    <2>3. QED
      BY <1>1, <2>2 DEF ForwardInv, TickIsFresh
  <1>5. RunsArePast'
    <2> SUFFICES ASSUME NEW n \in Range(CronNames), NEW t \in Nat, Ran(n, t)'
                 PROVE  RunIsPast(n, t)'
      BY DEF RunsArePast
    <2>1. CASE Ran(n, t)
      <3>1. RunIsPast(n, t)
        BY <2>1 DEF ForwardInv, RunsArePast
      <3>2. QED
        BY <1>1, <3>1 DEF RunIsPast, Present, TickIsRunning
    <2>2. CASE RegisterRun(Ticker) /\ n = Serving /\ t = ticker.due[Serving].next
      <3>1. call[Ticker] # Idle /\ n \in DueNames
        BY <2>2 DEF RegisterRun, At, Idle, TickerInv, Serves
      <3>2. ticker.now \in Nat
        BY <1>0, TypeParts DEF TickerTyped
      <3>3. t <= ticker.now /\ ticker.now <= now
        BY <2>2, <3>1 DEF ForwardInv, TickerIsPast
      <3>4. t <= now
        BY <3>2, <3>3
      <3>5. Present(n) => t < row[n].next
        BY <2>2, <3>1 DEF ForwardInv, WatermarkMoved
      <3>6. TickIsRunning(n)'
        BY <1>1, <2>2, <3>1 DEF TickIsRunning
      <3>7. QED
        BY <1>1, <3>3, <3>4, <3>5, <3>6 DEF RunIsPast, Present
    <2>3. QED
      BY <2>1, <2>2, RanGrows
  <1>6. QED
    BY <1>2, <1>3, <1>4, <1>5 DEF ForwardInv

\* Where a step outside submit leaves a watermark: where it was, past the clock,
\* or, of the trigger the ticker enters, past the ticker's clock.
LEMMA WatermarkSteps ==
    ASSUME TypeOK, [Next]_vars, NEW n \in Range(CronNames), Present(n)'
    PROVE  \/ Present(n) /\ row'[n].next = row[n].next
           \/ UNCHANGED <<now, ticker, call, runs>> /\ row'[n].next > now
           \/ /\ Advance /\ n \in DueNames /\ call'[Ticker].name = n
              /\ row'[n].next > ticker.now
  <1>0. n \in Names /\ now \in Nat /\ row'[n] # Absent
    BY TypeParts DEF Names, Present
  <1>1. Present(n) => row[n] \in Row
    BY <1>0, TypeParts DEF RowsTyped, Present
  <1>2. CASE row'[n] = row[n]
    BY <1>0, <1>2 DEF Present
  <1>3. CASE /\ UNCHANGED <<now, ticker, call, runs>>
             /\ \E s \in SpecsOf(n), en \in BOOLEAN : row'[n] = Upsert(n, s, en)
    BY <1>0, <1>3, UpsertTyped
  <1>4. CASE /\ Advance /\ Present(n) /\ n \in DueNames /\ call'[Ticker].name = n
             /\ row'[n] = Advanced(row[n], Watermark(n))
    <2>1. ticker.due[n].spec \in Specs /\ ticker.now \in Nat
      BY <1>4, TypeParts DEF TickerTyped
    <2>2. Watermark(n) > ticker.now
      BY <2>1, NextFireIsLater DEF Watermark
    <2>3. row'[n].next = Watermark(n)
      BY <1>1, <1>4, WatermarkKept
    <2>4. QED
      BY <1>4, <2>2, <2>3
  <1>5. CASE /\ Present(n)
             /\ row'[n] \in {Cleared(row[n]), RecordFireFailure(row[n]), Counted(row[n])}
    BY <1>1, <1>5, WatermarkKept
  <1>6. QED
    BY <1>0, <1>2, <1>3, <1>4, <1>5, RowSteps

\* While the clock moves forward, every other step keeps the order of the ticks.
LEMMA ForwardOutside ==
    ASSUME TickerInv, ForwardInv, [Next]_vars, now \in Nat, now' \in Nat, now' >= now,
           \A p \in Procs : ~ Submit(p) /\ ~ SubmitFails(p)
    PROVE  ForwardInv'
  <1>0. TypeOK /\ TypeOK' /\ TickerTyped /\ Ticker \in Procs
    BY TypeStep, TypeParts DEF TickerInv, Procs
  <1>1. \A n, t : Ran(n, t)' <=> Ran(n, t)
    BY <1>0, OutsideSubmit DEF Ran, RunIds, CronKey
  <1> DEFINE Kept == UNCHANGED ticker /\ call'[Ticker] = call[Ticker]
             Dropped(m) == NextTrigger(m) /\ call'[Ticker] = Idle
                              /\ (call[Ticker] = Idle \/ Serving = m)
  <1>2. \/ Kept \/ Advance
        \/ Tick /\ call[Ticker] = call'[Ticker]
        \/ \E m : Dropped(m)
        \/ DueNames' = {} /\ call'[Ticker] = Idle
    BY <1>0, TickerSteps
  <1>3. /\ ticker.now \in Nat
        /\ \A n \in DueNames : n \in Range(CronNames) /\ ticker.due[n].next \in Nat
    BY <1>0 DEF TickerTyped, Row
  <1>4. ASSUME Tick
        PROVE  /\ DueNames = {} /\ ticker'.now = now /\ now' = now /\ row' = row
               /\ \A n \in DueNames' : /\ n \in Range(CronNames) /\ Present(n)
                                       /\ ticker'.due[n].next = row[n].next
                                       /\ row[n].next <= now
    <2>1. DueNames' = DOMAIN Snapshot /\ ticker'.due = Snapshot /\ ticker'.now = now
      BY <1>4 DEF Tick, DueNames
    <2>2. \A n \in DOMAIN Snapshot : Snapshot[n] = row[n] /\ IsDue(n) /\ n \in Range(CronNames)
      BY DEF Snapshot
    <2>3. QED
      BY <1>4, <2>1, <2>2 DEF Tick, IsDue, Fireable, Present
  <1>5. \A m : Dropped(m) => /\ DueNames' = DueNames \ {m} /\ ticker'.now = ticker.now
                             /\ \A n \in DueNames' : ticker'.due[n] = ticker.due[n]
    BY <1>0, NextTriggerTyped
  <1>6. Kept => DueNames' = DueNames /\ Serving' = Serving
    BY DEF DueNames, Serving
  <1>7. Advance => /\ DueNames' = DueNames /\ ticker' = ticker /\ now' = now
                   /\ call[Ticker] = Idle /\ call'[Ticker] # Idle /\ Serving' \in DueNames
                   /\ call'[Ticker].pc = "begin"
    BY <1>0, AdvanceStep DEF DueNames, Serving
  <1>8. call[Ticker] # Idle => Serving \in DueNames
    BY DEF TickerInv, Serves
  <1> HIDE DEF Kept, Dropped
  <1>9. TickerIsPast'
    <2>1. CASE Kept \/ Advance
      BY <1>3, <1>6, <1>7, <2>1 DEF ForwardInv, TickerIsPast, Kept
    <2>2. CASE Tick
      BY <1>4, <2>2 DEF TickerIsPast
    <2>3. CASE \E m : Dropped(m)
      BY <1>3, <1>5, <2>3 DEF ForwardInv, TickerIsPast
    <2>4. CASE DueNames' = {}
      BY <2>4 DEF TickerIsPast
    <2>5. QED
      BY <1>2, <2>1, <2>2, <2>3, <2>4
  <1>10. WatermarkMoved'
    <2> SUFFICES ASSUME call'[Ticker] # Idle, Present(Serving)'
                 PROVE  ticker'.due[Serving'].next < row'[Serving'].next
      BY DEF WatermarkMoved
    <2>1. CASE Kept
      <3>1. call[Ticker] # Idle /\ Serving' = Serving /\ Serving \in DueNames /\ ticker' = ticker
        BY <1>6, <1>8, <2>1 DEF Kept
      <3>2. Serving \in Range(CronNames) /\ ticker.due[Serving].next \in Nat
             /\ ticker.due[Serving].next <= ticker.now /\ ticker.now <= now /\ ticker.now \in Nat
        BY <1>3, <3>1 DEF ForwardInv, TickerIsPast
      <3>3. Present(Serving) => ticker.due[Serving].next < row[Serving].next
        BY <3>1 DEF ForwardInv, WatermarkMoved
      <3>4. row'[Serving] \in Row
        BY <1>0, <3>1, <3>2, TypeParts DEF RowsTyped, Present, Names
      <3>5. row'[Serving].next \in Nat
        BY <3>4 DEF Row
      <3>6. ~ Advance
        BY <1>7, <3>1
      <3>7. Present(Serving)' /\ row'[Serving] # Absent
        BY <3>1 DEF Present
      <3>8. \/ Present(Serving) /\ row'[Serving].next = row[Serving].next
            \/ row'[Serving].next > now
        <4> DEFINE s == Serving
        <4>1. s \in Range(CronNames) /\ row'[s] # Absent
          BY <3>2, <3>7
        <4> HIDE DEF s
        <4>2. \/ Present(s) /\ row'[s].next = row[s].next
              \/ row'[s].next > now
          <5>1. ASSUME NEW n \in Range(CronNames), row'[n] # Absent
                PROVE  \/ Present(n) /\ row'[n].next = row[n].next
                       \/ row'[n].next > now
            BY <1>0, <3>6, <5>1, WatermarkSteps DEF Present
          <5>2. QED
            BY <4>1, <5>1 DEF Present
        <4>3. QED
          BY <4>2 DEF s
      <3>9. QED
        BY <3>1, <3>2, <3>3, <3>5, <3>8
    <2>2. CASE Advance
      <3>1. PICK n \in DueNames :
              /\ call'[Ticker].name = n /\ n \in Names /\ n \in Range(CronNames)
              /\ row' = IF row[n] = Absent THEN row
                        ELSE [row EXCEPT ![n] = Advanced(row[n], Watermark(n))]
              /\ ticker.due[n].spec \in Specs
        BY <1>0, <2>2, AdvanceStep
      <3>2. row \in [Names -> {Absent} \cup Row]
        BY <1>0, TypeParts DEF RowsTyped
      <3>3. Serving' = n /\ ticker' = ticker
        BY <1>7, <2>2, <3>1 DEF Serving
      <3>4. row[n] # Absent
        BY <3>1, <3>3 DEF Present
      <3>5. row'[n].next = Watermark(n)
        BY <3>1, <3>2, <3>4, WatermarkKept
      <3>6. Watermark(n) \in Nat /\ Watermark(n) > ticker.now
        BY <1>3, <3>1, NextFireIsLater DEF Watermark
      <3>7. ticker.due[n].next <= ticker.now /\ ticker.due[n].next \in Nat
        BY <1>3, <3>1 DEF ForwardInv, TickerIsPast
      <3>8. QED
        BY <1>3, <3>3, <3>5, <3>6, <3>7
    <2>3. CASE Tick /\ call[Ticker] = call'[Ticker]
      BY <1>4, <1>8, <2>3
    <2>4. QED
      BY <1>2, <2>1, <2>2, <2>3 DEF Dropped
  <1>11. TickIsFresh'
    <2> SUFFICES ASSUME call'[Ticker].pc \in {"begin", "bind"}
                 PROVE  ~ Ran(Serving', ticker'.due[Serving'].next)
      BY <1>1 DEF TickIsFresh, Ran, CronKey
    <2>0. call'[Ticker] # Idle
      BY DEF Idle
    <2>1. CASE Kept
      BY <1>6, <2>1 DEF Kept, ForwardInv, TickIsFresh
    <2>2. CASE Advance
      <3>1. Serving' \in DueNames /\ ticker' = ticker /\ ~ TickIsRunning(Serving')
        BY <1>7, <2>2 DEF TickIsRunning
      <3>2. \A n \in DueNames : ~ TickIsRunning(n) => ~ Ran(n, ticker.due[n].next)
        BY <1>3 DEF ForwardInv, RunsArePast, RunIsPast
      <3>3. QED
        BY <3>1, <3>2
    <2>3. CASE Tick /\ call[Ticker] = call'[Ticker]
      BY <1>4, <1>8, <2>0, <2>3
    <2>4. QED
      BY <1>2, <2>0, <2>1, <2>2, <2>3 DEF Dropped
  <1>12. RunsArePast'
    <2> SUFFICES ASSUME NEW n \in Range(CronNames), NEW t \in Nat, Ran(n, t)'
                 PROVE  RunIsPast(n, t)'
      BY DEF RunsArePast
    <2>1. RunIsPast(n, t)
      BY <1>1 DEF ForwardInv, RunsArePast
    <2>2. t <= now' /\ t <= now
      BY <2>1 DEF RunIsPast
    <2>3. DueNames' # {} => t <= ticker'.now
      BY <1>2, <1>4, <1>5, <1>6, <1>7, <2>1, <2>2 DEF RunIsPast, Kept
    <2>4. ASSUME row'[n] # Absent
          PROVE  t < row'[n].next
      <3>1. n \in Names /\ row'[n] \in Row
        BY <1>0, <2>4, TypeParts DEF RowsTyped, Names
      <3>2. row'[n].next \in Nat
        BY <3>1 DEF Row
      <3>3. \/ Present(n) /\ row'[n].next = row[n].next
            \/ row'[n].next > now
            \/ n \in DueNames /\ row'[n].next > ticker.now
        BY <1>0, <2>4, WatermarkSteps DEF Present
      <3>4. QED
        BY <1>3, <2>1, <2>2, <3>2, <3>3 DEF RunIsPast
    <2>5. ASSUME n \in DueNames', ~ TickIsRunning(n)'
          PROVE  t < ticker'.due[n].next
      <3>1. CASE Kept
        BY <1>6, <2>1, <2>5, <3>1 DEF Kept, RunIsPast, TickIsRunning
      <3>2. CASE Advance
        BY <1>7, <2>1, <2>5, <3>2 DEF RunIsPast, TickIsRunning
      <3>3. CASE Tick
        BY <1>4, <2>1, <2>5, <3>3 DEF RunIsPast
      <3>4. CASE \E m : Dropped(m)
        BY <1>5, <2>1, <2>5, <3>4 DEF RunIsPast, TickIsRunning, Dropped
      <3>5. QED
        BY <1>2, <2>5, <3>1, <3>2, <3>3, <3>4
    <2>6. QED
      BY <2>2, <2>3, <2>4, <2>5 DEF RunIsPast, Present
  <1>13. QED
    BY <1>9, <1>10, <1>11, <1>12 DEF ForwardInv

\* What a step of submit does to the ticker's call and to the recorded fires.
LEMMA SubmitSettles ==
    ASSUME TickerInv, NEW p \in Procs, Submit(p)
    PROVE  /\ DOMAIN fires \subseteq DOMAIN fires'
           /\ \A k \in DOMAIN fires' \ DOMAIN fires : k = call[p].key
           /\ RecordFire(p) => call[p].key \in DOMAIN fires'
           /\ call'[Ticker].pc = "bind" =>
                IF p = Ticker THEN call[p].key \notin DOMAIN fires /\ fires' = fires
                ELSE call'[Ticker] = call[Ticker]
           /\ call[Ticker].pc \in {"motes", "record"} =>
                \/ RecordFire(Ticker) /\ p = Ticker
                \/ call'[Ticker].pc \in {"motes", "record"}
                      /\ call'[Ticker].run = call[Ticker].run
  <1> USE TypeParts DEF CallsTyped
  <1>0. TypeOK /\ Ticker \in Procs
    BY DEF TickerInv, Procs
  <1>1. RecordFire(p) => DOMAIN fires' = DOMAIN fires \cup {call[p].key}
    BY Zenon DEF RecordFire, Recorded
  <1>2. ~ RecordFire(p) => fires' = fires
    BY DEF Submit, Begin, BindRefused, RegisterRun, SubmitMotes
  <1>3. ASSUME p # Ticker
        PROVE  call'[Ticker] = call[Ticker]
    BY <1>0, <1>3, OthersCalls
  <1>4. ASSUME p = Ticker, call'[Ticker].pc = "bind"
        PROVE  call[p].key \notin DOMAIN fires /\ fires' = fires
    <2>1. ~ RegisterRun(p) /\ ~ SubmitMotes(p)
      BY <1>0, <1>4 DEF RegisterRun, SubmitMotes, Goto, Moved
    <2>2. ~ Errs(p)
      BY <1>0, <1>4 DEF Errs, Ends, Moved
    <2>3. \A r : ~ Answers(p, r)
      BY <1>0, <1>4 DEF Answers, Ends, Moved
    <2>4. QED
      BY <2>1, <2>2, <2>3 DEF Submit, Begin, BindRefused, RecordFire
  <1>5. ASSUME p = Ticker, call[Ticker].pc \in {"motes", "record"}, ~ RecordFire(Ticker)
        PROVE  call'[Ticker].pc = "record" /\ call'[Ticker].run = call[Ticker].run
    <2>1. SubmitMotes(p)
      BY <1>5 DEF Submit, Begin, BindRefused, RegisterRun, At
    <2>2. QED
      BY <1>0, <1>5, <2>1 DEF SubmitMotes, Goto, Moved
  <1>6. QED
    BY <1>1, <1>2, <1>3, <1>4, <1>5

\* While nothing fails, a tick's run is recorded before the ticker goes on.
LEMMA SettledStep ==
    ASSUME TickerInv, AnswerInv, SettledInv, [Next]_vars,
           \A p \in Procs : ~ SubmitFails(p), ~ Restart
    PROVE  SettledInv'
  <1>0. TypeOK /\ TypeOK' /\ Ticker \in Procs /\ Idle.pc = "idle"
    BY TypeStep DEF TickerInv, Procs, Idle
  <1>1. CASE \A p \in Procs : ~ Submit(p)
    <2>1. UNCHANGED <<fires, runs>>
      BY <1>0, <1>1, OutsideSubmit
    <2>2. \/ call'[Ticker] = call[Ticker]
          \/ call'[Ticker].pc \in {"idle", "begin"} /\ call[Ticker].pc \notin {"motes", "record"}
      <3>1. Advance => call[Ticker] = Idle /\ call'[Ticker].pc = "begin"
        BY <1>0, AdvanceStep
      <3>2. FireOk \/ FireFailed => call[Ticker].pc \in {"ok", "err"}
        BY DEF FireOk, FireFailed, At
      <3>3. QED
        BY <1>0, <1>1, <3>1, <3>2, TickerSteps
    <2>3. QED
      BY <2>1, <2>2 DEF SettledInv, BindIsFresh, RunIsSettled, RunIds
  <1>2. ASSUME NEW p \in Procs, Submit(p)
        PROVE  SettledInv'
    <2>1. /\ DOMAIN fires \subseteq DOMAIN fires'
          /\ \A k \in DOMAIN fires' \ DOMAIN fires : k = call[p].key
          /\ RecordFire(p) => call[p].key \in DOMAIN fires'
          /\ call'[Ticker].pc = "bind" =>
               IF p = Ticker THEN call[p].key \notin DOMAIN fires /\ fires' = fires
               ELSE call'[Ticker] = call[Ticker]
          /\ call[Ticker].pc \in {"motes", "record"} =>
               \/ RecordFire(Ticker) /\ p = Ticker
               \/ call'[Ticker].pc \in {"motes", "record"}
                     /\ call'[Ticker].run = call[Ticker].run
      BY <1>2, SubmitSettles
    <2>2. call[p] # Idle /\ (p # Ticker => ~ IsCronKey(call[p].key))
      <3>1. call[p] # Idle
        BY <1>0, <1>2, KeyKept
      <3>2. QED
        BY <3>1, KeysDiffer DEF TickerInv, ClientsAsk, Procs
    <2>3. call[Ticker] # Idle => IsCronKey(call[Ticker].key)
      BY KeysDiffer DEF TickerInv, Serves
    <2>4. BindIsFresh'
      <3> SUFFICES ASSUME call'[Ticker].pc = "bind"
                   PROVE  call'[Ticker].key \notin DOMAIN fires'
        BY DEF BindIsFresh
      <3>1. CASE p = Ticker
        <4>1. call'[Ticker].key = call[Ticker].key
          BY <1>0, <1>2, <3>1, KeyKept
        <4>2. QED
          BY <2>1, <3>1, <4>1
      <3>2. CASE p # Ticker
        <4>1. call'[Ticker] = call[Ticker] /\ call[Ticker] # Idle
          BY <1>0, <2>1, <3>2
        <4>2. QED
          BY <2>1, <2>2, <2>3, <3>2, <4>1 DEF SettledInv, BindIsFresh
      <3>3. QED
        BY <3>1, <3>2
    <2>5. ASSUME NEW i \in RunIds', IsCronKey(runs'[i].key)
          PROVE  RunIsSettled(i)'
      <3>1. CASE i \in RunIds
        <4>0. runs'[i].key = runs[i].key
          BY <1>0, <3>1, RunsGrow
        <4>1. RunIsSettled(i)
          BY <2>5, <3>1, <4>0 DEF SettledInv
        <4>2. CASE runs[i].key \in DOMAIN fires
          BY <2>1, <4>0, <4>2 DEF RunIsSettled
        <4>3. CASE call[Ticker].pc \in {"motes", "record"} /\ call[Ticker].run = i
          <5>1. CASE RecordFire(Ticker) /\ p = Ticker
            <6>1. runs[i].key = call[Ticker].key
              BY <1>0, <4>3, <5>1
              DEF RecordFire, At, AnswerInv, CallsStarted, CallStarted, Complete, Started
            <6>2. QED
              BY <2>1, <4>0, <5>1, <6>1 DEF RunIsSettled
          <5>2. QED
            BY <2>1, <4>3, <5>1 DEF RunIsSettled
        <4>4. QED
          BY <4>1, <4>2, <4>3 DEF RunIsSettled
      <3>2. CASE i \notin RunIds
        <4>1. PICK q \in Procs : /\ RegisterRun(q) /\ call'[q].run = Len(runs) + 1
                                 /\ call'[q].pc = "motes"
                                 /\ i = Len(runs) + 1 /\ runs'[i].key = call[q].key
          BY <1>0, <3>2, RunsGrow
        <4>2. call[q] # Idle
          BY <1>0, <4>1 DEF RegisterRun, At
        <4>3. q = Ticker
          BY <2>5, <4>1, <4>2, KeysDiffer DEF TickerInv, ClientsAsk, Procs
        <4>4. QED
          BY <4>1, <4>3 DEF RunIsSettled
      <3>3. QED
        BY <3>1, <3>2
    <2>6. QED
      BY <2>4, <2>5 DEF SettledInv, IsCronKey
  <1>3. QED
    BY <1>1, <1>2

\* The invariant is inductive in each of the two regimes, and in both a tick the
\* ticker starts is one that has not run.
LEMMA CronStep == CronInv /\ [Next]_vars => CronInv'
  <1> SUFFICES ASSUME CronInv, [Next]_vars
               PROVE  CronInv'
    OBVIOUS
  <1>0. TypeOK /\ TickerInv /\ TickerInv' /\ AnswerInv /\ AnswerInv' /\ Ticker \in Procs
    BY AnswerStep, TickerStep DEF CronInv, TickerInv, Procs
  <1>1. /\ \A w \in Inputs : used[w] \in Nat /\ used'[w] >= used[w]
        /\ Inputs = {"ask", "admin", "fault", "crash", "back"}
        /\ \A w \in Inputs : used'[w] \in Nat
    <2>1. TypeOK'
      BY <1>0, TypeStep
    <2>2. QED
      BY <1>0, <2>1, FaultsCounted, TypeParts DEF UsedTyped, Inputs
  <1>2. (NoSetback' => NoSetback) /\ (NoFailure' => NoFailure)
    BY <1>1 DEF NoSetback, NoFailure
  <1>3. NoSetback' => ForwardInv'
    <2> SUFFICES ASSUME NoSetback'
                 PROVE  ForwardInv'
      OBVIOUS
    <2>1. ForwardInv
      BY <1>2 DEF CronInv
    <2>2. now \in Nat /\ now' \in Nat /\ now' >= now
      BY <1>0, ClockSteps DEF NoSetback
    <2>3. QED
      BY <1>0, <2>1, <2>2, ForwardSubmit, ForwardOutside
  <1>4. NoFailure' => SettledInv'
    <2> SUFFICES ASSUME NoFailure'
                 PROVE  SettledInv'
      OBVIOUS
    <2>1. SettledInv
      BY <1>2 DEF CronInv
    <2>2. \A w \in {"fault", "crash"} : ~ Spend(w)
      <3>1. ASSUME NEW w \in {"fault", "crash"}, Spend(w)
            PROVE  FALSE
        <4>1. w \in Inputs
          BY <1>1, <3>1
        <4>2. used'[w] = used[w] + 1
          BY <1>0, <3>1, <4>1, SpendTyped, TypeParts
        <4>3. QED
          BY <1>1, <3>1, <4>1, <4>2 DEF NoFailure
      <3>2. QED
        BY <3>1
    <2>3. (\A p \in Procs : ~ SubmitFails(p)) /\ ~ Restart
      BY <2>2 DEF SubmitFails, Restart
    <2>4. QED
      BY <1>0, <2>1, <2>3, SettledStep
  <1>5. NoSetback' \/ NoFailure' => TicksDistinct'
    <2> SUFFICES ASSUME NoSetback' \/ NoFailure'
                 PROVE  TicksDistinct'
      OBVIOUS
    <2>1. TicksDistinct
      BY <1>2 DEF CronInv
    <2>2. \A i \in RunIds : i \in RunIds' /\ runs'[i].key = runs[i].key
      BY <1>0, RunsGrow
    <2>3. CASE RunIds' = RunIds
      BY <2>1, <2>2, <2>3 DEF TicksDistinct
    <2>4. ASSUME NEW p \in Procs, NEW new, RegisterRun(p), RunIds' = RunIds \cup {new},
                 new \notin RunIds, runs'[new].key = call[p].key
          PROVE  TicksDistinct'
      <3>1. ASSUME IsCronKey(call[p].key), NEW i \in RunIds
            PROVE  runs[i].key # call[p].key
        <4>1. call[p] # Idle
          BY <2>4 DEF RegisterRun, At, Idle
        <4>2. p = Ticker
          BY <3>1, <4>1, KeysDiffer, <1>0 DEF TickerInv, ClientsAsk, Procs
        <4>3. call[p].key = CronKey(Serving, ticker.due[Serving].next)
          BY <1>0, <4>1, <4>2 DEF TickerInv, Serves
        <4>4. CASE NoSetback
          BY <2>4, <4>2, <4>3, <4>4
          DEF CronInv, ForwardInv, TickIsFresh, RegisterRun, At, Ran
        <4>5. CASE NoFailure
          BY <2>4, <3>1, <4>2, <4>5
          DEF CronInv, SettledInv, BindIsFresh, RunIsSettled, RegisterRun, At
        <4>6. QED
          BY <1>2, <4>4, <4>5
      <3>2. \A i, j \in RunIds' : i # j /\ IsCronKey(runs'[i].key) =>
                                     runs'[i].key # runs'[j].key
        BY <2>1, <2>2, <2>4, <3>1 DEF TicksDistinct
      <3>3. QED
        BY <3>2 DEF TicksDistinct, IsCronKey
    <2>5. QED
      BY <1>0, <2>3, <2>4, RunsGrow
  <1>6. QED
    BY <1>0, <1>3, <1>4, <1>5 DEF CronInv

(* A cron tick starts at most one run: while the clock only moves forward, *)
(* whatever fails or crashes, by the watermark moved before the submit;    *)
(* and while no submit fails or dies half way, however the clock is set    *)
(* back and the schedules re-registered, by the recorded key (serve_cron,  *)
(* cron.rs:47).                                                            *)
THEOREM TicksRunOnce == Spec => []CronOnce
  BY CronInit, CronStep, CronEnough, PTL DEF Spec

=============================================================================
