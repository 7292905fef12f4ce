------------------------- MODULE MCGatewayDispatch -------------------------
EXTENDS GatewayDispatch, TLC

CONSTANTS w1, w2, p1, p2

\* Two connectors of one project, or one in each of two.
SameHome  == [w \in Workers |-> p1]
OtherHome == [w \in Workers |-> IF w = w1 THEN p1 ELSE p2]

\* Every launch mode is in one of the two.
ProcessAndKeys == <<"process", "send_keys">>
ExecAndProcess == <<"exec", "process">>

\* Goroutines are interchangeable, and so are two connectors of one project.
Interchangeable == Permutations(Requests) \cup Permutations(Workers)

=============================================================================
