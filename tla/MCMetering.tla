------------------------------ MODULE MCMetering ------------------------------
EXTENDS Metering, TLC

\* Labs land on two nodes in turn.
McNodeOf == [l \in Labs |-> (l % 2) + 1]
=============================================================================
