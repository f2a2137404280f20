---------------------------- MODULE MCMatchOutput ----------------------------
(***************************************************************************)
(* MatchOutput for TLC: two sessions and an OutputVirtualNode with two     *)
(* input ports.  Port p1 carries a placeholder that carries an error and   *)
(* the session's end flag; port p2 two data buffers.  Two                  *)
(* sessions let one session's abandoned buffers sit in front of, or        *)
(* behind, the other's live ones; the liveness and the violation runs use  *)
(* one session.                                                            *)
(***************************************************************************)
EXTENDS MatchOutput

CONSTANTS s1, s2, p1, p2

\* The two sessions run the same script, so they are interchangeable.
SessionSymmetry == Permutations({s1, s2})

MCSessions == {s1, s2}
MCOneSession == {s1}
MCInputPorts == <<p1, p2>>

Data == [end |-> FALSE, placeholder |-> FALSE]
Placeholder == [end |-> FALSE, placeholder |-> TRUE]
EndFlag == [end |-> TRUE, placeholder |-> FALSE]

MCScript ==
    [p \in {p1, p2} |->
        IF p = p1
        THEN << [id |-> 1, err |-> TRUE,  idx |-> Placeholder],
                [id |-> 2, err |-> FALSE, idx |-> EndFlag] >>
        ELSE << [id |-> 3, err |-> FALSE, idx |-> Data],
                [id |-> 4, err |-> FALSE, idx |-> Data] >>]
=============================================================================
