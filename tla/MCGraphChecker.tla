--------------------------- MODULE MCGraphChecker ---------------------------
(***************************************************************************)
(* The checker run on every graph of graph_checker_test.cc, in every       *)
(* order of visiting its nodes.                                            *)
(***************************************************************************)
EXTENDS GraphChecker

T == INSTANCE GraphCheckerTests

MCFlowUnits == T!FlowUnits
\* Spec 4.6: cycles are permitted only through declared loop nodes.  No
\* test builds one that is not, so one is added: b and c feed each other.
CycleWithoutLoop ==
    [name   |-> "CycleWithoutLoop",
     nodes  |-> ("a" :> "test_0_1" @@ "b" :> "test_2_1" @@ "c" :> "test_1_1"),
     edges  |-> {<<"a", "Out_1", "b", "In_1">>, <<"b", "Out_1", "c", "In_1">>,
                 <<"c", "Out_1", "b", "In_2">>},
     expect |-> "BADCONF"]

MCCases == T!AllCases \cup {CycleWithoutLoop}

\* The graph of GetSetMatchNode alone.
MCMatchCase == {T!GetSetMatchNode}

\* Spec 4.5's table of match nodes (a collapse takes the match node of the
\* expand it closes; a node with one predecessor takes that predecessor's)
\* gives every node of GetSetMatchNode the match node the test expects.
MatchNodeAsTested ==
    verdict = "OK" =>
        \A n \in Nodes : SpecMatchNode(n) = T!GetSetMatchNodeExpect[n]
=============================================================================
