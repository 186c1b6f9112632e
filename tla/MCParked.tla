------------------------------ MODULE MCParked ------------------------------
(* Small workflows for module ParkedSteps. *)
EXTENDS ParkedSteps, TLC

Nil == "none"
NoEdges == {}
Over(M, v) == [m \in M |-> v]

\* A conditional c with a wait w as its one arm and a plain step e as the other,
\* joined by the policied step j with two attempts.
BranchSteps == {"c", "w", "e", "j"}
BranchMotes == BranchSteps \cup {"j1", "j2"}
BranchOrder == <<"w", "e", "j", "c", "j1", "j2">>
BranchParents == [Over(BranchMotes, {}) EXCEPT !["w"] = {"c"}, !["e"] = {"c"},
                                               !["j"] = {"w", "e"}]
BranchCritics == Over(BranchMotes, Nil)
BranchArms == [Over(BranchMotes, Nil) EXCEPT !["w"] = "then", !["e"] = "else"]
NoData == Over(BranchMotes, {})
FlakyWait == {<<"wait", "w">>, <<"fire", "w">>}
BranchAttempts == "j" :> <<"j1", "j2">>

\* A step a and the wait w behind it; the wait passes a's result on.
WaitSteps == {"a", "w"}
WaitOrder == <<"a", "w">>
WaitParents == ("a" :> {}) @@ ("w" :> {"a"})
WaitCritics == Over(WaitSteps, Nil)
WaitArms == Over(WaitSteps, Nil)
NoAttempts == Over({}, <<>>)

=============================================================================
