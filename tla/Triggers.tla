------------------------------ MODULE Triggers ------------------------------
(***************************************************************************)
(* Triggers of the gateway: an event (a cron tick, a webhook request or a  *)
(* SubmitTrigger call) starts one run of a recipe, App or workflow.        *)
(*                                                                         *)
(*   triggers_store.rs   `row` (table triggers), `fires` (trigger_fires)   *)
(*   trigger_gateway.rs  register, deregister and submit, the one path     *)
(*                       every event takes; a submit is one process whose  *)
(*                       awaits are its steps (`call`)                     *)
(*   cron.rs             the ticker, one task (`ticker`, `call[Ticker]`)   *)
(*   webhook.rs          the ingress and its token buckets (`bucket`)      *)
(*   schedule.rs         next_fire                                         *)
(*                                                                         *)
(* triggers.db and the journal survive a restart; calls, the ticker's      *)
(* snapshot of the due rows and the buckets do not.  The clock is the      *)
(* wall clock (SystemTime), which may be set back.                         *)
(***************************************************************************)
EXTENDS Integers, Sequences, Functions

CONSTANTS
    CronNames,       \* the cron triggers, in name order (a sequence)
    HookNames,       \* the webhook triggers
    Events,          \* the idempotency keys clients send
    Clients,         \* concurrent webhook and SubmitTrigger requests
    Specs,           \* schedules an operator may register
    DeadLetterMax,   \* KX_TRIGGER_DEADLETTER_MAX; 0 never disables
    Burst, Refill, Period,  \* a bucket: Burst tokens, Refill per Period of time
    Horizon,         \* bound: the last instant of the clock
    MaxUsed,         \* bounds: requests, registrations, faults, crashes, ...
    MaxInputs        \* bound: all of these together

Ticker == "cron"
Inputs == {"ask", "admin", "fault", "crash", "back"}

ASSUME TriggersAssumption ==
    /\ CronNames \in Seq(Range(CronNames))
    /\ Range(CronNames) \cap HookNames = {}
    /\ Ticker \notin Clients
    /\ DeadLetterMax \in Nat
    /\ MaxUsed \in [Inputs -> Nat]
    /\ Burst \in Nat \ {0} /\ Refill \in Nat \ {0} /\ Period \in Nat \ {0}
    /\ Horizon \in Nat
    /\ Specs \subseteq [kind : {"interval", "crontab"}, n : Nat \ {0}]

VARIABLES
    now,      \* the wall clock
    row,      \* row[n]: trigger n's row of triggers.db, or Absent
    fires,    \* trigger_fires: the run recorded under each idempotency key
    runs,     \* the journal: the runs registered, in order
    ticker,   \* cron task: the due rows it has still to serve and its `now`
    call,     \* call[p]: the submit that process p is in, or Idle
    bucket,   \* bucket[n]: the token bucket of webhook trigger n, or Absent
    acks,     \* history: <<key, run>> of every submit that returned Ok
    used      \* how much of each bound is spent

vars == <<now, row, fires, runs, ticker, call, bucket, acks, used>>

Names == Range(CronNames) \cup HookNames
Procs == Clients \cup {Ticker}
Absent == [absent |-> TRUE]
Idle == [pc |-> "idle"]

(* submit's key: the caller's, which all triggers share (one derived from  *)
(* the trigger and the payload is one no other trigger's caller uses), and *)
(* the ticker's, which names the tick it serves.                           *)
EventKey(e) == <<"event", e>>
CronKey(n, t) == <<"cron", n, t>>
IsCronKey(k) == k[1] = "cron"

(* The next fire strictly after t. *)
NextFire(s, t) ==
    IF s.kind = "interval" THEN t + s.n ELSE (t \div s.n + 1) * s.n

SpecsOf(n) == IF n \in HookNames THEN {Absent} ELSE Specs

Seed(n, s) == IF n \in HookNames THEN 0 ELSE NextFire(s, now)

Spend(what) ==
    /\ used[what] < MaxUsed[what]
    /\ SumFunction(used) < MaxInputs
    /\ used' = [used EXCEPT ![what] = @ + 1]

-----------------------------------------------------------------------------
(* The clock. *)

ClockForward ==
    /\ now < Horizon
    /\ now' = now + 1
    /\ UNCHANGED <<row, fires, runs, ticker, call, bucket, acks, used>>

ClockBack ==
    /\ Spend("back")
    /\ \E t \in 0..(now - 1) : now' = t
    /\ UNCHANGED <<row, fires, runs, ticker, call, bucket, acks>>

-----------------------------------------------------------------------------
(* The operator.  `wanted` is history: whether the operator asked for the  *)
(* trigger to be enabled.                                                  *)

Upsert(n, s, en) ==
    [spec |-> s, enabled |-> en, next |-> Seed(n, s), failures |-> 0,
     reason |-> FALSE, wanted |-> en]

Stored(n) == {Upsert(n, s, TRUE) : s \in SpecsOf(n)}

NoneDue == [due |-> [n \in {} |-> Absent], now |-> 0]

(* A serve starts with the triggers an earlier one registered. *)
Init ==
    /\ now = 0
    /\ row \in {r \in [Names -> UNION {Stored(n) : n \in Names}] :
                   \A n \in Names : r[n] \in Stored(n)}
    /\ fires = [k \in {} |-> 0]
    /\ runs = << >>
    /\ ticker = NoneDue
    /\ call = [p \in Procs |-> Idle]
    /\ bucket = [n \in HookNames |-> Absent]
    /\ acks = {}
    /\ used = [w \in Inputs |-> 0]

Register(n, s, en) ==
    /\ Spend("admin")
    /\ row' = [row EXCEPT ![n] = Upsert(n, s, en)]
    /\ UNCHANGED <<now, fires, runs, ticker, call, bucket, acks>>

Deregister(n) ==
    /\ row[n] # Absent
    /\ Spend("admin")
    /\ row' = [row EXCEPT ![n] = Absent]
    /\ UNCHANGED <<now, fires, runs, ticker, call, bucket, acks>>

-----------------------------------------------------------------------------
(* submit, one step per await.  A process that finishes is Idle again; the *)
(* ticker keeps the result until it has acted on it.                       *)

Entering(n, k) == [pc |-> "begin", name |-> n, key |-> k, run |-> 0]

At(p, pc) == call[p].pc = pc

\* The call c further on, with the run r registered.
Moved(c, pc, r) == [pc |-> pc, name |-> c.name, key |-> c.key, run |-> r]

Goto(p, pc) == call' = [call EXCEPT ![p] = Moved(@, pc, @.run)]

Ends(p, c) == call' = [call EXCEPT ![p] = IF p = Ticker THEN c ELSE Idle]

Answers(p, r) ==
    /\ acks' = acks \cup {<<call[p].key, r>>}
    /\ Ends(p, Moved(call[p], "ok", r))

Errs(p) == Ends(p, Moved(call[p], "err", call[p].run)) /\ UNCHANGED acks

Fireable(n) == row[n] # Absent /\ row[n].enabled

\* Mutated form: no dedup pre-check.
Begin_NoPrecheck(p) ==
    /\ At(p, "begin")
    /\ \/ ~ Fireable(call[p].name) /\ Errs(p)
       \/ Fireable(call[p].name) /\ Goto(p, "bind") /\ UNCHANGED acks
    /\ UNCHANGED <<now, row, fires, runs, ticker, bucket, used>>

(* The row is read, the enabled flag and the dedup pre-check decide. *)
Begin(p) ==
    /\ At(p, "begin")
    /\ \/ ~ Fireable(call[p].name) /\ Errs(p)
       \/ /\ Fireable(call[p].name)
          /\ call[p].key \in DOMAIN fires
          /\ Answers(p, fires[call[p].key])
       \/ /\ Fireable(call[p].name)
          /\ call[p].key \notin DOMAIN fires
          /\ Goto(p, "bind")
          /\ UNCHANGED acks
    /\ UNCHANGED <<now, row, fires, runs, ticker, bucket, used>>

(* The target is authored or bound, and the run is registered; a grant or  *)
(* a ReAct seed this serve cannot honour is refused.                       *)
BindRefused(p) ==
    /\ At(p, "bind")
    /\ Errs(p)
    /\ UNCHANGED <<now, row, fires, runs, ticker, bucket, used>>

RegisterRun(p) ==
    /\ At(p, "bind")
    /\ runs' = Append(runs, [key |-> call[p].key, complete |-> FALSE])
    /\ call' = [call EXCEPT ![p] = Moved(@, "motes", Len(runs) + 1)]
    /\ UNCHANGED <<now, row, fires, ticker, bucket, acks, used>>

SubmitMotes(p) ==
    /\ At(p, "motes")
    /\ runs' = [runs EXCEPT ![call[p].run] = [@ EXCEPT !.complete = TRUE]]
    /\ Goto(p, "record")
    /\ UNCHANGED <<now, row, fires, ticker, bucket, acks, used>>

\* Mutated form: INSERT OR REPLACE.
Recorded_Replace(k, r) ==
    [j \in DOMAIN fires \cup {k} |-> IF j = k THEN r ELSE fires[j]]

(* INSERT OR IGNORE: the first run recorded under a key stays. *)
Recorded(k, r) ==
    [j \in DOMAIN fires \cup {k} |-> IF j \in DOMAIN fires THEN fires[j] ELSE r]

RecordFire(p) ==
    /\ At(p, "record")
    /\ fires' = Recorded(call[p].key, call[p].run)
    /\ Answers(p, fires'[call[p].key])
    /\ UNCHANGED <<now, row, runs, ticker, bucket, used>>

(* The store or the coordinator refuses a step; `?` returns the error and  *)
(* leaves what the earlier steps did.                                      *)
SubmitFails(p) ==
    /\ call[p].pc \in {"begin", "bind", "motes", "record"}
    /\ Spend("fault")
    /\ Errs(p)
    /\ UNCHANGED <<now, row, fires, runs, ticker, bucket>>

Submit(p) == \/ Begin(p) \/ BindRefused(p) \/ RegisterRun(p) \/ SubmitMotes(p)
             \/ RecordFire(p)

-----------------------------------------------------------------------------
(* The clients. *)

SubmitTrigger(c, n, k) ==
    /\ call[c] = Idle
    /\ Spend("ask")
    /\ call' = [call EXCEPT ![c] = Entering(n, k)]
    /\ UNCHANGED <<now, row, fires, runs, ticker, bucket, acks>>

(* `first` and `admitted` are history: when the bucket was made, and how   *)
(* many requests it has let through.                                       *)
Bucket(n) == IF bucket[n] # Absent THEN bucket[n]
             ELSE [tokens |-> Burst, last |-> now, first |-> now, admitted |-> 0]

LeastOf(a, b) == IF a < b THEN a ELSE b

Elapsed(b) == IF now > b.last THEN now - b.last ELSE 0

\* Mutated form: the refill does not move the bucket's clock.
Refilled_KeepLast(b) ==
    [b EXCEPT !.tokens = LeastOf(@ + (Elapsed(b) * Refill) \div Period, Burst)]

Refilled(b) ==
    LET refill == (Elapsed(b) * Refill) \div Period
    IN  IF refill = 0 THEN b
        ELSE [b EXCEPT !.tokens = LeastOf(@ + refill, Burst), !.last = now]

Acquire(b) == [b EXCEPT !.tokens = @ - 1, !.admitted = @ + 1]

(* A webhook request: looked up, rate limited, read and authenticated,     *)
(* then submitted.  A refused or oversized body has spent its token.       *)
Webhook(c, n, k) ==
    /\ call[c] = Idle
    /\ Fireable(n)
    /\ Spend("ask")
    /\ LET b == Refilled(Bucket(n))
       IN  \/ /\ b.tokens = 0
              /\ bucket' = [bucket EXCEPT ![n] = b]
              /\ UNCHANGED call
           \/ /\ b.tokens > 0
              /\ bucket' = [bucket EXCEPT ![n] = Acquire(b)]
              /\ \/ call' = [call EXCEPT ![c] = Entering(n, k)]
                 \/ UNCHANGED call
    /\ UNCHANGED <<now, row, fires, runs, ticker, acks>>

-----------------------------------------------------------------------------
(* The cron ticker. *)

IsDue(n) == Fireable(n) /\ row[n].next <= now

(* due_cron: the rows of the enabled cron triggers at or past their        *)
(* watermark.  A scan that finds none, or fails, changes nothing.          *)
Snapshot == [n \in {m \in Range(CronNames) : IsDue(m)} |-> row[n]]

DueNames == DOMAIN ticker.due

Tick ==
    /\ DueNames = {}
    /\ DOMAIN Snapshot # {}
    /\ ticker' = [due |-> Snapshot, now |-> now]
    /\ UNCHANGED <<now, row, fires, runs, call, bucket, acks, used>>

(* The due rows are served in the order of their names. *)
IsFirst(n) ==
    \E i \in DOMAIN CronNames :
        /\ CronNames[i] = n /\ n \in DueNames
        /\ \A j \in 1..(i - 1) : CronNames[j] \notin DueNames

NextTrigger(n) ==
    ticker' = [due |-> Restrict(ticker.due, DueNames \ {n}), now |-> ticker.now]

(* What set_next_fire stores: the watermark of the snapshot's schedule. *)
Watermark(n) == NextFire(ticker.due[n].spec, ticker.now)

Advanced(r, t) == [r EXCEPT !.next = t]

(* The watermark is advanced before the submit.  An UPDATE of a row that   *)
(* is gone succeeds and the submit will not find it.                       *)
Advance ==
    /\ call[Ticker] = Idle
    /\ \E n \in DueNames :
          /\ IsFirst(n)
          /\ row' = IF row[n] = Absent THEN row
                    ELSE [row EXCEPT ![n] = Advanced(@, Watermark(n))]
          /\ call' = [call EXCEPT ![Ticker] =
                         Entering(n, CronKey(n, ticker.due[n].next))]
    /\ UNCHANGED <<now, fires, runs, ticker, bucket, acks, used>>

AdvanceFails ==
    /\ call[Ticker] = Idle
    /\ Spend("fault")
    /\ \E n \in DueNames : IsFirst(n) /\ NextTrigger(n)
    /\ UNCHANGED <<now, row, fires, runs, call, bucket, acks>>

Serving == call[Ticker].name

Cleared(r) == [r EXCEPT !.failures = 0, !.reason = FALSE]

(* The fire succeeded: the counter the snapshot saw is cleared. *)
FireOk ==
    /\ At(Ticker, "ok")
    /\ LET failed == ticker.due[Serving].failures > 0
       IN  \/ /\ row' = IF failed /\ row[Serving] # Absent
                        THEN [row EXCEPT ![Serving] = Cleared(@)] ELSE row
              /\ UNCHANGED used
           \/ failed /\ Spend("fault") /\ UNCHANGED row
    /\ NextTrigger(Serving)
    /\ call' = [call EXCEPT ![Ticker] = Idle]
    /\ UNCHANGED <<now, fires, runs, bucket, acks>>

\* Mutated form: one failure too many is allowed.
Disables_Over(failures) == DeadLetterMax > 0 /\ failures > DeadLetterMax

Disables(failures) == DeadLetterMax > 0 /\ failures >= DeadLetterMax

Counted(r) == [r EXCEPT !.failures = @ + 1]

Disabled(r) == [r EXCEPT !.enabled = FALSE, !.reason = TRUE]

RecordFireFailure(r) ==
    IF Disables(r.failures + 1) THEN Disabled(Counted(r)) ELSE Counted(r)

\* Mutated form: the error ends the task.
FireFailed_Ends == At(Ticker, "err") /\ UNCHANGED vars

(* The fire failed: counted, and at the limit disabled, in two updates of  *)
(* which each may fail.                                                    *)
FireFailed ==
    /\ At(Ticker, "err")
    /\ \/ /\ row' = IF row[Serving] = Absent THEN row
                    ELSE [row EXCEPT ![Serving] = RecordFireFailure(@)]
          /\ UNCHANGED used
       \/ /\ row[Serving] # Absent
          /\ row' \in {row, [row EXCEPT ![Serving] = Counted(@)]}
          /\ Spend("fault")
    /\ NextTrigger(Serving)
    /\ call' = [call EXCEPT ![Ticker] = Idle]
    /\ UNCHANGED <<now, fires, runs, bucket, acks>>

(* The process dies, or is shut down, and a new one opens triggers.db. *)
Restart ==
    /\ Spend("crash")
    /\ ticker' = NoneDue
    /\ call' = [p \in Procs |-> Idle]
    /\ bucket' = [n \in HookNames |-> Absent]
    /\ UNCHANGED <<now, row, fires, runs, acks>>

-----------------------------------------------------------------------------
Cron == Tick \/ Advance \/ FireOk \/ FireFailed

Next ==
    \/ ClockForward
    \/ ClockBack
    \/ \E n \in Names : \E s \in SpecsOf(n), en \in BOOLEAN : Register(n, s, en)
    \/ \E n \in Names : Deregister(n)
    \/ \E c \in Clients, n \in Names, e \in Events : SubmitTrigger(c, n, EventKey(e))
    \/ \E c \in Clients, n \in HookNames, e \in Events : Webhook(c, n, EventKey(e))
    \/ \E p \in Procs : Submit(p)
    \/ \E p \in Procs : SubmitFails(p)
    \/ Cron
    \/ AdvanceFails
    \/ Restart

Spec == Init /\ [][Next]_vars

(* The ticker task runs: its interval fires, and every await of its submit *)
(* returns (the binder, the coordinator and SQLite answer).                *)
LiveSpec == Spec /\ WF_vars(Cron) /\ WF_vars(Submit(Ticker))
-----------------------------------------------------------------------------
Present(n) == row[n] # Absent
RunIds == DOMAIN runs

CronKeys == {"cron"} \X Range(CronNames) \X Nat
EventKeys == {"event"} \X Events
Keys == EventKeys \cup CronKeys

Row == [spec : Specs \cup {Absent}, enabled : BOOLEAN, next : Nat,
        failures : Nat, reason : BOOLEAN, wanted : BOOLEAN]
Call == [pc : {"begin", "bind", "motes", "record", "ok", "err"},
         name : Names, key : Keys, run : Nat]
BucketState == [tokens : 0..Burst, last : Nat, first : Nat, admitted : Nat]

(* Rows, fires, calls and buckets hold what the code can write: a crontab  *)
(* trigger has a schedule, a request a key of its kind, a result is kept   *)
(* for the ticker only and while its row is being served, and a bucket     *)
(* never holds more than its burst (TriggerRow, triggers_store.rs:79;      *)
(* WebhookRateLimiter, webhook.rs:83).                                     *)
TypeOK ==
    /\ now \in Nat
    /\ row \in [Names -> {Absent} \cup Row]
    /\ \A n \in Range(CronNames) : Present(n) => row[n].spec \in Specs
    /\ DOMAIN fires \subseteq Keys
    /\ \A k \in DOMAIN fires : fires[k] \in Nat
    /\ runs \in Seq([key : Keys, complete : BOOLEAN])
    /\ DueNames \subseteq Range(CronNames)
    /\ \A n \in DueNames : ticker.due[n] \in Row /\ ticker.due[n].spec \in Specs
    /\ ticker.now \in Nat
    /\ call \in [Procs -> {Idle} \cup Call]
    /\ \A c \in Clients : call[c].pc \notin {"ok", "err"}
    /\ bucket \in [HookNames -> {Absent} \cup BucketState]
    /\ acks \subseteq Keys \X Nat
    /\ used \in [Inputs -> Nat]

(* Every Ok answer to one event names the same run, and that run was       *)
(* started by this event and has all its Motes submitted: whichever of two *)
(* concurrent submits loses the race to record_fire, whatever failed or    *)
(* crashed before, and however often the event is replayed                 *)
(* (trigger_gateway.rs:457, triggers_store.rs:414).                        *)
OneAnswer ==
    /\ \A a, b \in acks : a[1] = b[1] => a[2] = b[2]
    /\ \A a \in acks : runs[a[2]].key = a[1] /\ runs[a[2]].complete

(* A cron tick starts at most one run.  The watermark moved before the     *)
(* submit is enough by itself while the clock only moves forward, whatever *)
(* fails or crashes; the recorded key is enough by itself when the clock   *)
(* is set back and a schedule re-registered, as long as no submit failed   *)
(* or died half way (cron.rs:47).                                          *)
CronOnce ==
    used["back"] = 0 \/ used["fault"] + used["crash"] = 0 =>
        \A i, j \in RunIds :
            i # j /\ IsCronKey(runs[i].key) => runs[i].key # runs[j].key

(* No trigger stops in silence: one the operator asked for that is not     *)
(* enabled shows the reason, a reason is only shown on a disabled trigger, *)
(* and a trigger that stays enabled has failed fewer times in a row than   *)
(* the dead-letter limit, or than the limit and the store faults that kept *)
(* an update from being written (cron.rs:83, triggers_store.rs:343).       *)
NoSilentStop ==
    \A n \in Names : Present(n) =>
        /\ row[n].wanted /\ ~ row[n].enabled => row[n].reason
        /\ row[n].reason => ~ row[n].enabled
        /\ row[n].enabled /\ DeadLetterMax > 0 =>
              row[n].failures < DeadLetterMax + used["fault"]

(* What a bucket has let through and still holds is at most its burst and  *)
(* the refill of the time it has seen pass: neither the remainder dropped  *)
(* by the integer division nor a clock set back makes tokens               *)
(* (webhook.rs:98).                                                        *)
RateBound ==
    \A n \in HookNames : bucket[n] # Absent =>
        bucket[n].tokens + bucket[n].admitted <=
            Burst + ((bucket[n].last - bucket[n].first) * Refill) \div Period

(* A due trigger is served: the ticker moves its watermark past the clock, *)
(* or it is disabled or removed.  A fire that fails, a watermark that      *)
(* cannot be written, a submit that is slow and a restart delay it and     *)
(* never wedge the task (cron.rs:33).                                      *)
DueIsServed ==
    \A n \in Range(CronNames) : IsDue(n) ~> ~ IsDue(n)
=============================================================================
