\* Recv(-1) read as blocking: one session, the refinement with liveness.
CONSTANTS
    s1 = s1
    s2 = s2
    p1 = p1
    p2 = p2
    Sessions <- MCOneSession
    InputPorts <- MCInputPorts
    Script <- MCScript

SPECIFICATION SpecBlocking

PROPERTY ImplementsSessionChannel

\* The receive loop may wait forever, which is the case under study.
CHECK_DEADLOCK FALSE
