------------------------------- MODULE MCTail -------------------------------
(* Instances of EventTail: a journal with two runs. *)
EXTENDS EventTail

Reg(run) == [kind |-> "RunRegistered", key |-> run]
Com(key) == [kind |-> "Committed", key |-> key]

AllEntries == {Reg("r1"), Reg("r2"), Com("x"), Com("y")}

\* A registration, which a run's stream does not surface, and a batch that may
\* end in a duplicate or hold nothing else.
SomeBatches == {<<Reg("r2")>>, <<Com("y"), Com("x")>>}

\* A fresh journal, and one an earlier serve left behind.
SomeOldLogs == {<<>>, <<Reg("r1"), Com("x")>>}
=============================================================================
