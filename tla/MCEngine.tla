------------------------------ MODULE MCEngine ------------------------------
(* Small workflows for module Engine. *)
EXTENDS Engine, TLC

Nil == "none"

ThreeMotes == {"a", "b", "c"}
OrderABC == <<"a", "b", "c">>
NoEdges == {}

\* a feeds b and c; c judges a.
Judged == ("a" :> {}) @@ ("b" :> {"a"}) @@ ("c" :> {"a"})
CriticC == ("a" :> Nil) @@ ("b" :> Nil) @@ ("c" :> "a")
DirectStagedPure == ("a" :> "Direct") @@ ("b" :> "Staged") @@ ("c" :> "Pure")

=============================================================================
