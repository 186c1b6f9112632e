------------------------------- MODULE MCReact -------------------------------
(* Instances of ReactChain: what the turns of the model may propose. *)
EXTENDS ReactChain

Answer == [calls |-> <<>>, refused |-> FALSE]
Refusal == [calls |-> <<>>, refused |-> TRUE]
Proposal(calls) == [calls |-> calls, refused |-> FALSE]

\* An answer, a refused proposal, the gated write, and a retrieval alone or
\* together with the write.
AllOutputs == {Answer, Refusal, Proposal(<<"write">>), Proposal(<<"retrieve">>),
               Proposal(<<"retrieve", "write">>)}
=============================================================================
