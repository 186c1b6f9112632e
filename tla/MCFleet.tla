------------------------------ MODULE MCFleet ------------------------------
(* Small workflows for module Fleet. *)
EXTENDS Fleet, TLC

Nil == "none"

\* One Mote of each kind of interest, alone.
OneMote == {"a"}
TwoMotes == {"a", "b"}
ThreeMotes == {"a", "b", "c"}

Unlinked(M) == [m \in M |-> {}]
OneAlone == Unlinked(OneMote)
NoCritics1 == [m \in OneMote |-> Nil]
NoCritics2 == [m \in TwoMotes |-> Nil]

\* a feeds b.
Chain2 == ("a" :> {}) @@ ("b" :> {"a"})

\* a feeds b and c; c judges a.
Judged == ("a" :> {}) @@ ("b" :> {"a"}) @@ ("c" :> {"a"})
CriticC == ("a" :> Nil) @@ ("b" :> Nil) @@ ("c" :> "a")

AllPure1 == [m \in OneMote |-> "Pure"]
AllStaged1 == [m \in OneMote |-> "Staged"]
AllDirect1 == [m \in OneMote |-> "Direct"]
PurePure == ("a" :> "Pure") @@ ("b" :> "Pure")
StagedStaged == ("a" :> "Staged") @@ ("b" :> "Staged")
DirectPurePure == ("a" :> "Direct") @@ ("b" :> "Pure") @@ ("c" :> "Pure")

NoEdges == {}
WorkerSymmetry == Permutations(Workers)

=============================================================================
