----------------------------- MODULE MCPipeline -----------------------------
(***************************************************************************)
(* Pipeline for TLC: two sessions and two ports.  On p1 the caller sends   *)
(* two data buffers, so order through both nodes is observable; on p2 a    *)
(* data buffer and, after Close, the session's end flag, which must not    *)
(* come out.                                                               *)
(***************************************************************************)
EXTENDS Pipeline

CONSTANTS s1, s2, p1, p2

MCSessions == {s1, s2}
MCOneSession == {s1}
MCInputPorts == <<p1, p2>>

Data    == [end |-> FALSE, placeholder |-> FALSE]
EndFlag == [end |-> TRUE,  placeholder |-> FALSE]

MCScript ==
    [p \in {p1, p2} |->
        IF p = p1
        THEN << [id |-> 1, err |-> FALSE, idx |-> Data],
                [id |-> 2, err |-> FALSE, idx |-> Data] >>
        ELSE << [id |-> 3, err |-> TRUE,  idx |-> Data],
                [id |-> 4, err |-> FALSE, idx |-> EndFlag] >>]
\* For the two-session run: one port carrying two data buffers and the
\* session's end flag.
MCOnePort == <<p1>>

MCScriptShort ==
    [p \in {p1} |-> MCScript[p1] \o << [id |-> 4, err |-> FALSE, idx |-> EndFlag] >>]

\* The two sessions run the same script, so they are interchangeable.
SessionSymmetry == Permutations({s1, s2})
=============================================================================
