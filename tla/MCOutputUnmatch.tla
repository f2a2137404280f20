--------------------------- MODULE MCOutputUnmatch ---------------------------
(***************************************************************************)
(* OutputUnmatch for TLC: two sessions, an OutputUnmatchVirtualNode with   *)
(* two input ports.  Port p1 carries the session's depth-0 stream: a data  *)
(* buffer with an error, a placeholder, a second data buffer and the       *)
(* session's end flag.  Port p2 sits behind an expand: it carries depth-1  *)
(* child streams, c1 (a data buffer and its end, inheriting from a      *)
(* depth-0 data buffer) and c2 (only the end flag, inheriting from the     *)
(* session's depth-0 end flag), so only c2's end marks p2 as ended.        *)
(***************************************************************************)
EXTENDS OutputUnmatch

CONSTANTS s1, s2, p1, p2

MCSessions == {s1}
MCInputPorts == <<p1, p2>>

Idx0(st, end, ph) ==
    [stream |-> st, end |-> end, placeholder |-> ph, depth |-> 0,
     from |-> NoIndex]
Idx1(st, end, parent) ==
    [stream |-> st, end |-> end, placeholder |-> FALSE, depth |-> 1,
     from |-> parent]

RootData == Idx0("r", FALSE, FALSE)
RootEnd  == Idx0("r", TRUE, FALSE)

DepthZeroScript ==
    << [id |-> 1, err |-> TRUE,  idx |-> RootData],
       [id |-> 2, err |-> FALSE, idx |-> Idx0("r", FALSE, TRUE)],
       [id |-> 3, err |-> FALSE, idx |-> RootData],
       [id |-> 4, err |-> FALSE, idx |-> RootEnd] >>

ExpandScript ==
    << [id |-> 5, err |-> FALSE, idx |-> Idx1("c1", FALSE, RootData)],
       [id |-> 7, err |-> FALSE, idx |-> Idx1("c1", TRUE, RootData)],
       [id |-> 8, err |-> FALSE, idx |-> Idx1("c2", TRUE, RootEnd)] >>

MCScript == [p \in {p1, p2} |-> IF p = p1 THEN DepthZeroScript
                                          ELSE ExpandScript]
\* The expand emits a second data-bearing child stream c3, descended from
\* the second depth-0 data buffer, before the closing c2.
TwoChildScript ==
    << [id |-> 5, err |-> FALSE, idx |-> Idx1("c1", FALSE, RootData)],
       [id |-> 7, err |-> FALSE, idx |-> Idx1("c1", TRUE, RootData)],
       [id |-> 9, err |-> FALSE, idx |-> Idx1("c3", FALSE, RootData)],
       [id |-> 10, err |-> FALSE, idx |-> Idx1("c3", TRUE, RootData)],
       [id |-> 8, err |-> FALSE, idx |-> Idx1("c2", TRUE, RootEnd)] >>

\* Two sessions over the shortest stream pair: on p1 a data buffer with an
\* error and the end flag, on p2 the expand's closing child end flag.
MCTwoSessions == {s1, s2}

ShortScript == [p \in {p1, p2} |->
    IF p = p1 THEN << [id |-> 1, err |-> TRUE,  idx |-> RootData],
                      [id |-> 4, err |-> FALSE, idx |-> RootEnd] >>
              ELSE << [id |-> 8, err |-> FALSE, idx |-> Idx1("c2", TRUE, RootEnd)] >>]

SessionSymmetry == Permutations({s1, s2})

MCScriptTwoChild == [p \in {p1, p2} |-> IF p = p1 THEN <<>> ELSE TwoChildScript]
=============================================================================
