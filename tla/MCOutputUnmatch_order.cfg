CONSTANTS
    s1 = s1
    s2 = s2
    p1 = p1
    p2 = p2
    NoIndex = NoIndex
    Sessions <- MCSessions
    InputPorts <- MCInputPorts
    Script <- MCScriptTwoChild

SPECIFICATION Spec

INVARIANT DeliveredInArrivalOrder
