CONSTANTS
    s1 = s1
    s2 = s2
    p1 = p1
    p2 = p2
    Sessions <- MCOneSession
    InputPorts <- MCInputPorts
    Script <- MCScript

SPECIFICATION Spec

INVARIANT ErrorReported
