----------------------------- MODULE MCTriggers -----------------------------
(* Triggers on a small instance: one cron and one webhook trigger, two     *)
(* concurrent requests for one event, an interval and a crontab schedule.  *)
EXTENDS Triggers

CONSTANTS c1, c2, e1

MCCronNames == <<"nightly">>
MCHookNames == {"push"}
MCSpecs == {[kind |-> "interval", n |-> 1], [kind |-> "crontab", n |-> 2]}
MCMaxUsed == [ask |-> 2, admin |-> 1, fault |-> 1, crash |-> 1, back |-> 1]
=============================================================================
