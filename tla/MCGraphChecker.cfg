\* Every graph of graph_checker_test.cc, every visiting order.
CONSTANTS
    FlowUnits <- MCFlowUnits
    Cases <- MCCases
SPECIFICATION Spec
INVARIANT VerdictAsTested
\* The checker stops once Build has its status.
CHECK_DEADLOCK FALSE
