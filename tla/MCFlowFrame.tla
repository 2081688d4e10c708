---------------------------- MODULE MCFlowFrame ----------------------------
EXTENDS FlowFrame, TLC

\* No flow is special: the tables are searched by key, never by order.
FlowSymmetry == Permutations(FlowIds)
=============================================================================
