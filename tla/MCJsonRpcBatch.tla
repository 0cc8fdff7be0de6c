--------------------------- MODULE MCJsonRpcBatch ---------------------------
EXTENDS JsonRpcBatch
CONSTANTS c1, c2, n1, n2, q1
TwoCalls == {c1, c2}
TwoBoots == {n1, n2}
OneProbe == {q1}
None == {}
OneOrTwo == {1, 2}
OnlyTwo == {2}
\* All but n2 fit a batch together, as far as BatchMaxSize goes; n2 only alone.
Sizes == [r \in Requests |-> IF r = n2 THEN 30 ELSE 10]
AllReplies == {"result", "error", "missing"}
=============================================================================
