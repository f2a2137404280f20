\* Spec 4.5's match-node table against the GetSetMatchNode test.
CONSTANTS
    FlowUnits <- MCFlowUnits
    Cases <- MCMatchCase
SPECIFICATION Spec
INVARIANT MatchNodeAsTested
CHECK_DEADLOCK FALSE
