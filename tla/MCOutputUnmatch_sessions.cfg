\* Two sessions sharing the node's ports and session_cache_map_.
CONSTANTS
    s1 = s1
    s2 = s2
    p1 = p1
    p2 = p2
    NoIndex = NoIndex
    Sessions <- MCTwoSessions
    InputPorts <- MCInputPorts
    Script <- ShortScript

SPECIFICATION Spec
SYMMETRY SessionSymmetry

INVARIANT NoLostOutput
INVARIANT ErrorReported
