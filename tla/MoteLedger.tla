---------------------------- MODULE MoteLedger -----------------------------
(***************************************************************************)
(* What the runtime promises about the fate of each Mote, whichever driver *)
(* runs it: a Mote is open until it is either committed, once and after    *)
(* its inputs, or given up for good; a commit can only be withdrawn by a   *)
(* repudiation, which takes every trusted downstream result with it.       *)
(***************************************************************************)
CONSTANTS Motes, Parents, NonCascade

VARIABLE status

Status == {"open", "committed", "failed", "repudiated"}

LedgerInit == status = [m \in Motes |-> "open"]

CommitMote(m) ==
    /\ status[m] = "open"
    /\ \A p \in Parents[m] : status[p] \in {"committed", "repudiated"}
    /\ status' = [status EXCEPT ![m] = "committed"]

FailMote(m) ==
    /\ status[m] = "open"
    /\ status' = [status EXCEPT ![m] = "failed"]

\* Withdraw the committed Motes of S.  No trusted consumer of theirs is left.
RepudiateMotes(S) ==
    /\ \A m \in S : status[m] = "committed"
    /\ \A p \in S, c \in Motes :
          /\ p \in Parents[c]
          /\ <<p, c>> \notin NonCascade
          /\ status[c] = "committed"
          => c \in S
    /\ status' = [m \in Motes |-> IF m \in S THEN "repudiated" ELSE status[m]]

LedgerNext ==
    \/ \E m \in Motes : CommitMote(m) \/ FailMote(m)
    \/ \E S \in SUBSET Motes : RepudiateMotes(S)

LedgerSpec == LedgerInit /\ [][LedgerNext]_status

=============================================================================
