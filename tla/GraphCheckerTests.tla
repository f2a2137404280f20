-------------------------- MODULE GraphCheckerTests --------------------------
(***************************************************************************)
(* The graphs of graph_checker_test.cc and the status each test expects   *)
(* from Graph::Build.  A graph is [name, nodes, edges, expect]: nodes maps *)
(* a node name to its flowunit, or to "input" / "output" for a virtual    *)
(* node; an edge is <<src, out port, dst, in port>>, a virtual node's     *)
(* single port being "Out" or "In".  FlowUnits is the mock flowunit table *)
(* of GraphCheckerTest::SetUp; the flow type and StreamSameCount it also  *)
(* sets are left out, as no rule of the checker reads them.              *)
(***************************************************************************)
EXTENDS TLC

\* A flowunit description: its input ports, output ports and kind (from
\* SetConditionType, SetOutputType and SetLoopType).
Desc(ins, outs, kind) == [in |-> ins, out |-> outs, kind |-> kind]

\* GraphCheckerTest::SetUp.
FlowUnits ==
    "test_0_1" :> Desc(<<>>, <<"Out_1">>, "normal")
    @@ "test_0_2" :> Desc(<<>>, <<"Out_1", "Out_2">>, "normal")
    @@ "test_3_0" :> Desc(<<"In_1", "In_2", "In_3">>, <<>>, "normal")
    @@ "test_2_0" :> Desc(<<"In_1", "In_2">>, <<>>, "normal")
    @@ "test_1_0" :> Desc(<<"In_1">>, <<>>, "normal")
    @@ "test_1_1_normal" :> Desc(<<"In_1">>, <<"Out_1">>, "normal")
    @@ "test_1_1" :> Desc(<<"In_1">>, <<"Out_1">>, "normal")
    @@ "stream_1_1" :> Desc(<<"In_1">>, <<"Out_1">>, "normal")
    @@ "condition_1_3" :> Desc(<<"In_1">>, <<"Out_1", "Out_2", "Out_3">>, "condition")
    @@ "condition_1_2" :> Desc(<<"In_1">>, <<"Out_1", "Out_2">>, "condition")
    @@ "collapse_1_1" :> Desc(<<"In_1">>, <<"Out_1">>, "collapse")
    @@ "collapse_2_1" :> Desc(<<"In_1", "In_2">>, <<"Out_1">>, "collapse")
    @@ "expand_1_1" :> Desc(<<"In_1">>, <<"Out_1">>, "expand")
    @@ "expand_1_2" :> Desc(<<"In_1">>, <<"Out_1", "Out_2">>, "expand")
    @@ "test_1_2" :> Desc(<<"In_1">>, <<"Out_1", "Out_2">>, "normal")
    @@ "test_1_2_normal" :> Desc(<<"In_1">>, <<"Out_1", "Out_2">>, "normal")
    @@ "test_3_1" :> Desc(<<"In_1", "In_2", "In_3">>, <<"Out_1">>, "normal")
    @@ "test_2_1" :> Desc(<<"In_1", "In_2">>, <<"Out_1">>, "normal")
    @@ "test_loop" :> Desc(<<"In_1">>, <<"Out_1", "Out_2">>, "loop")
    @@ "test_loop_invalid" :> Desc(<<"In_1", "In_2">>, <<"Out_1", "Out_2">>, "loop")
    @@ "test_1_1_stream" :> Desc(<<"In_1">>, <<"Out_1">>, "normal")

VirtualNode_NormalFlow ==
    [name   |-> "VirtualNode_NormalFlow",
     nodes  |-> ("input1" :> "input" @@ "output1" :> "output"
                @@ "b" :> "test_1_1"),
     edges  |-> {<<"input1", "Out", "b", "In_1">>,
                <<"b", "Out_1", "output1", "In">>},
     expect |-> "OK"]

VirtualNode_MatchAtVirtualInput ==
    [name   |-> "VirtualNode_MatchAtVirtualInput",
     nodes  |-> ("input1" :> "input" @@ "input2" :> "input"
                @@ "b" :> "test_1_1" @@ "c" :> "test_1_1"
                @@ "d" :> "test_2_0"),
     edges  |-> {<<"input1", "Out", "b", "In_1">>,
                <<"input2", "Out", "c", "In_1">>,
                <<"b", "Out_1", "d", "In_1">>, <<"c", "Out_1", "d", "In_2">>},
     expect |-> "OK"]

VirtualNode_MatchMultiInputOutput ==
    [name   |-> "VirtualNode_MatchMultiInputOutput",
     nodes  |-> ("input1" :> "input" @@ "input2" :> "input"
                @@ "output1" :> "output" @@ "output2" :> "output"
                @@ "b" :> "test_1_1" @@ "c" :> "test_1_1"),
     edges  |-> {<<"input1", "Out", "b", "In_1">>,
                <<"input2", "Out", "c", "In_1">>,
                <<"b", "Out_1", "output1", "In">>,
                <<"c", "Out_1", "output2", "In">>},
     expect |-> "OK"]

SinglePortMatch_SingleOutPortLinkMultiInPort ==
    [name   |-> "SinglePortMatch_SingleOutPortLinkMultiInPort",
     nodes  |-> ("a" :> "test_0_1" @@ "b" :> "test_1_1" @@ "c" :> "test_1_1"
                @@ "d" :> "test_2_0"),
     edges  |-> {<<"a", "Out_1", "b", "In_1">>,
                <<"a", "Out_1", "c", "In_1">>, <<"b", "Out_1", "d", "In_1">>,
                <<"c", "Out_1", "d", "In_2">>},
     expect |-> "OK"]

SinglePortNotMatch_SingleOutPortLinkSingleInPort ==
    [name   |-> "SinglePortNotMatch_SingleOutPortLinkSingleInPort",
     nodes  |-> ("a" :> "test_0_1" @@ "b" :> "test_1_1" @@ "c" :> "test_1_1"
                @@ "d" :> "test_1_0"),
     edges  |-> {<<"a", "Out_1", "b", "In_1">>,
                <<"a", "Out_1", "c", "In_1">>, <<"b", "Out_1", "d", "In_1">>,
                <<"c", "Out_1", "d", "In_1">>},
     expect |-> "BADCONF"]

MuliPortMatch_MultiOutPortLinkMultiInPort ==
    [name   |-> "MuliPortMatch_MultiOutPortLinkMultiInPort",
     nodes  |-> ("a" :> "test_0_2" @@ "b" :> "test_1_1" @@ "c" :> "test_1_1"
                @@ "d" :> "test_2_1" @@ "e" :> "test_1_1"
                @@ "f" :> "test_1_0"),
     edges  |-> {<<"a", "Out_1", "b", "In_1">>,
                <<"a", "Out_2", "c", "In_1">>, <<"b", "Out_1", "d", "In_1">>,
                <<"c", "Out_1", "d", "In_2">>, <<"d", "Out_1", "e", "In_1">>,
                <<"e", "Out_1", "f", "In_1">>},
     expect |-> "OK"]

MuliPortNotMatch_MultiOutPortLinkSingleInPort ==
    [name   |-> "MuliPortNotMatch_MultiOutPortLinkSingleInPort",
     nodes  |-> ("a" :> "test_0_2" @@ "b" :> "test_1_1" @@ "c" :> "test_1_1"
                @@ "d" :> "test_1_0"),
     edges  |-> {<<"a", "Out_1", "b", "In_1">>,
                <<"a", "Out_2", "c", "In_1">>, <<"b", "Out_1", "d", "In_1">>,
                <<"c", "Out_1", "d", "In_1">>},
     expect |-> "BADCONF"]

ConditionMatch_OneInPortThreeOutPort ==
    [name   |-> "ConditionMatch_OneInPortThreeOutPort",
     nodes  |-> ("a" :> "test_0_1" @@ "b" :> "condition_1_3"
                @@ "c" :> "test_1_1" @@ "d" :> "test_1_1"
                @@ "e" :> "test_1_1" @@ "f" :> "test_1_0"),
     edges  |-> {<<"a", "Out_1", "b", "In_1">>,
                <<"b", "Out_1", "c", "In_1">>, <<"b", "Out_2", "d", "In_1">>,
                <<"b", "Out_3", "e", "In_1">>, <<"c", "Out_1", "f", "In_1">>,
                <<"d", "Out_1", "f", "In_1">>, <<"e", "Out_1", "f", "In_1">>},
     expect |-> "OK"]

ConditionMatch_OutConditionInMultiPort ==
    [name   |-> "ConditionMatch_OutConditionInMultiPort",
     nodes  |-> ("a" :> "test_0_2" @@ "b" :> "condition_1_2"
                @@ "c" :> "test_1_1" @@ "d" :> "test_1_1"
                @@ "e" :> "test_2_1" @@ "f" :> "test_1_0"),
     edges  |-> {<<"a", "Out_1", "b", "In_1">>,
                <<"a", "Out_2", "e", "In_2">>, <<"b", "Out_1", "c", "In_1">>,
                <<"b", "Out_2", "d", "In_1">>, <<"d", "Out_1", "e", "In_1">>,
                <<"c", "Out_1", "e", "In_1">>, <<"e", "Out_1", "f", "In_1">>},
     expect |-> "OK"]

ConditionMatch_MutiConditionInSinglePort ==
    [name   |-> "ConditionMatch_MutiConditionInSinglePort",
     nodes  |-> ("a" :> "test_0_1" @@ "b" :> "condition_1_2"
                @@ "c" :> "condition_1_2" @@ "d" :> "test_1_1"
                @@ "e" :> "test_1_1" @@ "f" :> "test_1_0"),
     edges  |-> {<<"a", "Out_1", "b", "In_1">>,
                <<"b", "Out_1", "c", "In_1">>, <<"b", "Out_2", "d", "In_1">>,
                <<"d", "Out_1", "e", "In_1">>, <<"c", "Out_1", "e", "In_1">>,
                <<"c", "Out_2", "e", "In_1">>, <<"e", "Out_1", "f", "In_1">>},
     expect |-> "BADCONF"]

ConditionNotMatch_AllOutPortLinkDifferenceInPort ==
    [name   |-> "ConditionNotMatch_AllOutPortLinkDifferenceInPort",
     nodes  |-> ("a" :> "test_0_1" @@ "b" :> "condition_1_3"
                @@ "c" :> "test_1_1" @@ "d" :> "test_1_1"
                @@ "e" :> "test_1_1" @@ "f" :> "test_2_0"),
     edges  |-> {<<"a", "Out_1", "b", "In_1">>,
                <<"b", "Out_1", "c", "In_1">>, <<"b", "Out_2", "d", "In_1">>,
                <<"b", "Out_3", "e", "In_1">>, <<"c", "Out_1", "f", "In_1">>,
                <<"d", "Out_1", "f", "In_1">>, <<"e", "Out_1", "f", "In_2">>},
     expect |-> "BADCONF"]

ConditionNotMatch_MultiOutPortLinkInPort ==
    [name   |-> "ConditionNotMatch_MultiOutPortLinkInPort",
     nodes  |-> ("a" :> "test_0_1" @@ "b" :> "condition_1_2"
                @@ "c" :> "test_1_1" @@ "d" :> "test_1_1"
                @@ "e" :> "test_1_1" @@ "f" :> "test_3_0"),
     edges  |-> {<<"a", "Out_1", "b", "In_1">>,
                <<"b", "Out_1", "c", "In_1">>, <<"b", "Out_1", "d", "In_1">>,
                <<"b", "Out_2", "e", "In_1">>, <<"c", "Out_1", "f", "In_1">>,
                <<"d", "Out_1", "f", "In_2">>, <<"e", "Out_1", "f", "In_3">>},
     expect |-> "BADCONF"]

ConditionNotMatch_SinglePortConditionNotMatch ==
    [name   |-> "ConditionNotMatch_SinglePortConditionNotMatch",
     nodes  |-> ("a" :> "test_0_1" @@ "b" :> "condition_1_3"
                @@ "c" :> "test_2_1" @@ "d" :> "test_1_0"),
     edges  |-> {<<"a", "Out_1", "b", "In_1">>,
                <<"b", "Out_1", "c", "In_1">>, <<"b", "Out_2", "c", "In_2">>,
                <<"b", "Out_3", "d", "In_1">>, <<"c", "Out_1", "d", "In_1">>},
     expect |-> "BADCONF"]

ConditionMatch_SinglePortMatch ==
    [name   |-> "ConditionMatch_SinglePortMatch",
     nodes  |-> ("a" :> "test_0_1" @@ "b" :> "condition_1_2"
                @@ "c" :> "test_2_1" @@ "d" :> "test_1_0"),
     edges  |-> {<<"a", "Out_1", "b", "In_1">>,
                <<"b", "Out_1", "c", "In_1">>, <<"b", "Out_1", "c", "In_2">>,
                <<"b", "Out_2", "d", "In_1">>, <<"c", "Out_1", "d", "In_1">>},
     expect |-> "OK"]

LoopMatch_LoopSelf ==
    [name   |-> "LoopMatch_LoopSelf",
     nodes  |-> ("a" :> "test_0_1" @@ "b" :> "test_loop"
                @@ "c" :> "test_1_0"),
     edges  |-> {<<"a", "Out_1", "b", "In_1">>,
                <<"b", "Out_1", "b", "In_1">>, <<"b", "Out_2", "c", "In_1">>},
     expect |-> "OK"]

LoopMatch_LoopHasNode ==
    [name   |-> "LoopMatch_LoopHasNode",
     nodes  |-> ("a" :> "test_0_1" @@ "b" :> "test_loop"
                @@ "c" :> "test_1_1_normal" @@ "d" :> "test_1_0"),
     edges  |-> {<<"a", "Out_1", "b", "In_1">>,
                <<"b", "Out_1", "c", "In_1">>, <<"c", "Out_1", "b", "In_1">>,
                <<"b", "Out_2", "d", "In_1">>},
     expect |-> "OK"]

LoopNotMatch_OverHierarchyLink ==
    [name   |-> "LoopNotMatch_OverHierarchyLink",
     nodes  |-> ("a" :> "test_0_1" @@ "b" :> "test_loop"
                @@ "c" :> "test_1_2_normal" @@ "d" :> "test_2_0"),
     edges  |-> {<<"a", "Out_1", "b", "In_1">>,
                <<"b", "Out_1", "c", "In_1">>, <<"c", "Out_1", "b", "In_1">>,
                <<"b", "Out_2", "d", "In_1">>, <<"c", "Out_2", "d", "In_2">>},
     expect |-> "BADCONF"]

ExpandCollapseMatch_NormalFlow ==
    [name   |-> "ExpandCollapseMatch_NormalFlow",
     nodes  |-> ("a" :> "test_0_1" @@ "b" :> "expand_1_1"
                @@ "c" :> "test_1_1" @@ "d" :> "collapse_1_1"
                @@ "e" :> "test_1_0"),
     edges  |-> {<<"a", "Out_1", "b", "In_1">>,
                <<"b", "Out_1", "c", "In_1">>, <<"c", "Out_1", "d", "In_1">>,
                <<"d", "Out_1", "e", "In_1">>},
     expect |-> "OK"]

ExpandCollapseMatch_OnlyExpand ==
    [name   |-> "ExpandCollapseMatch_OnlyExpand",
     nodes  |-> ("a" :> "test_0_1" @@ "b" :> "expand_1_1"
                @@ "c" :> "test_1_0"),
     edges  |-> {<<"a", "Out_1", "b", "In_1">>,
                <<"b", "Out_1", "c", "In_1">>},
     expect |-> "OK"]

ExpandCollapseNotMatch_OnlyCollapse ==
    [name   |-> "ExpandCollapseNotMatch_OnlyCollapse",
     nodes  |-> ("a" :> "test_0_1" @@ "b" :> "collapse_1_1"
                @@ "c" :> "test_1_0"),
     edges  |-> {<<"a", "Out_1", "b", "In_1">>,
                <<"b", "Out_1", "c", "In_1">>},
     expect |-> "BADCONF"]

ExpandCollapseMatch_OverMatchArch ==
    [name   |-> "ExpandCollapseMatch_OverMatchArch",
     nodes  |-> ("a" :> "test_0_1" @@ "b" :> "expand_1_1"
                @@ "c" :> "test_1_2" @@ "d" :> "test_1_1"
                @@ "e" :> "test_1_1" @@ "f" :> "test_2_1"
                @@ "g" :> "collapse_1_1" @@ "h" :> "test_1_0"),
     edges  |-> {<<"a", "Out_1", "b", "In_1">>,
                <<"b", "Out_1", "c", "In_1">>, <<"c", "Out_1", "d", "In_1">>,
                <<"c", "Out_2", "e", "In_1">>, <<"d", "Out_1", "f", "In_1">>,
                <<"e", "Out_1", "f", "In_2">>, <<"f", "Out_1", "g", "In_1">>,
                <<"g", "Out_1", "h", "In_1">>},
     expect |-> "OK"]

ExpandCollapseNotMatch_ExpandInMatchArch ==
    [name   |-> "ExpandCollapseNotMatch_ExpandInMatchArch",
     nodes  |-> ("a" :> "test_0_1" @@ "b" :> "expand_1_1"
                @@ "c" :> "test_1_2" @@ "d" :> "expand_1_1"
                @@ "e" :> "expand_1_1" @@ "f" :> "test_2_1"
                @@ "g" :> "collapse_1_1" @@ "h" :> "test_1_0"),
     edges  |-> {<<"a", "Out_1", "b", "In_1">>,
                <<"b", "Out_1", "c", "In_1">>, <<"c", "Out_1", "d", "In_1">>,
                <<"c", "Out_2", "e", "In_1">>, <<"d", "Out_1", "f", "In_1">>,
                <<"e", "Out_1", "f", "In_2">>, <<"f", "Out_1", "g", "In_1">>,
                <<"g", "Out_1", "h", "In_1">>},
     expect |-> "BADCONF"]

ExpandCollapseMatch_ExpandIsMatchNode ==
    [name   |-> "ExpandCollapseMatch_ExpandIsMatchNode",
     nodes  |-> ("a" :> "test_0_1" @@ "b" :> "expand_1_2"
                @@ "c" :> "test_1_1" @@ "d" :> "test_1_1"
                @@ "e" :> "collapse_2_1" @@ "f" :> "test_1_0"),
     edges  |-> {<<"a", "Out_1", "b", "In_1">>,
                <<"b", "Out_1", "c", "In_1">>, <<"b", "Out_2", "d", "In_1">>,
                <<"c", "Out_1", "e", "In_1">>, <<"d", "Out_1", "e", "In_2">>,
                <<"e", "Out_1", "f", "In_1">>},
     expect |-> "OK"]

ExpandCollapseMatch_MultiOutputExpandDirectConnectCollapse ==
    [name   |-> "ExpandCollapseMatch_MultiOutputExpandDirectConnectCollapse",
     nodes  |-> ("a" :> "test_0_1" @@ "b" :> "expand_1_2"
                @@ "d" :> "collapse_2_1" @@ "e" :> "test_1_0"),
     edges  |-> {<<"a", "Out_1", "b", "In_1">>,
                <<"b", "Out_1", "d", "In_1">>, <<"b", "Out_2", "d", "In_2">>,
                <<"d", "Out_1", "e", "In_1">>},
     expect |-> "OK"]

ExpandCollapseMatch_CollapseIsMatchNode ==
    [name   |-> "ExpandCollapseMatch_CollapseIsMatchNode",
     nodes  |-> ("a" :> "test_0_1" @@ "b" :> "expand_1_1"
                @@ "c" :> "test_1_2" @@ "d" :> "test_1_1"
                @@ "e" :> "test_1_1" @@ "f" :> "collapse_2_1"
                @@ "g" :> "test_1_0"),
     edges  |-> {<<"a", "Out_1", "b", "In_1">>,
                <<"b", "Out_1", "c", "In_1">>, <<"c", "Out_1", "d", "In_1">>,
                <<"c", "Out_2", "e", "In_1">>, <<"d", "Out_1", "f", "In_1">>,
                <<"e", "Out_1", "f", "In_2">>, <<"f", "Out_1", "g", "In_1">>},
     expect |-> "OK"]

ExpandCollapseNotMatch_CollapseIsMatchNode ==
    [name   |-> "ExpandCollapseNotMatch_CollapseIsMatchNode",
     nodes  |-> ("a" :> "test_0_1" @@ "c" :> "test_1_2" @@ "d" :> "test_1_1"
                @@ "e" :> "test_1_1" @@ "f" :> "collapse_2_1"
                @@ "g" :> "test_1_0"),
     edges  |-> {<<"a", "Out_1", "c", "In_1">>,
                <<"c", "Out_1", "d", "In_1">>, <<"c", "Out_2", "e", "In_1">>,
                <<"d", "Out_1", "f", "In_1">>, <<"e", "Out_1", "f", "In_2">>,
                <<"f", "Out_1", "g", "In_1">>},
     expect |-> "BADCONF"]

ExpandCollapseNotMatch_CollapseInMatchArch ==
    [name   |-> "ExpandCollapseNotMatch_CollapseInMatchArch",
     nodes  |-> ("a" :> "test_0_1" @@ "c" :> "test_1_2" @@ "d" :> "test_1_1"
                @@ "e" :> "collapse_1_1" @@ "f" :> "test_2_1"
                @@ "g" :> "test_1_0"),
     edges  |-> {<<"a", "Out_1", "c", "In_1">>,
                <<"c", "Out_1", "d", "In_1">>, <<"c", "Out_2", "e", "In_1">>,
                <<"d", "Out_1", "f", "In_1">>, <<"e", "Out_1", "f", "In_2">>,
                <<"f", "Out_1", "g", "In_1">>},
     expect |-> "BADCONF"]

ExpandCollapseNotMatch_CollapseInMatchArch_SinglePathMatch ==
    [name   |-> "ExpandCollapseNotMatch_CollapseInMatchArch_SinglePathMatch",
     nodes  |-> ("a" :> "test_0_1" @@ "c" :> "expand_1_2"
                @@ "d" :> "test_1_1" @@ "e" :> "collapse_1_1"
                @@ "f" :> "test_2_1" @@ "g" :> "test_1_0"),
     edges  |-> {<<"a", "Out_1", "c", "In_1">>,
                <<"c", "Out_1", "d", "In_1">>, <<"c", "Out_2", "e", "In_1">>,
                <<"d", "Out_1", "f", "In_1">>, <<"e", "Out_1", "f", "In_2">>,
                <<"f", "Out_1", "g", "In_1">>},
     expect |-> "BADCONF"]

ExpandCollapseNotMatch_OneExpandMultiCollapse ==
    [name   |-> "ExpandCollapseNotMatch_OneExpandMultiCollapse",
     nodes  |-> ("a" :> "test_0_1" @@ "c" :> "expand_1_2"
                @@ "d" :> "collapse_1_1" @@ "e" :> "collapse_1_1"
                @@ "f" :> "test_2_1" @@ "g" :> "test_1_0"),
     edges  |-> {<<"a", "Out_1", "c", "In_1">>,
                <<"c", "Out_1", "d", "In_1">>, <<"c", "Out_2", "e", "In_1">>,
                <<"d", "Out_1", "f", "In_1">>, <<"e", "Out_1", "f", "In_2">>,
                <<"f", "Out_1", "g", "In_1">>},
     expect |-> "OK"]

ExpandCollapseMatch_MultiArch ==
    [name   |-> "ExpandCollapseMatch_MultiArch",
     nodes  |-> ("a" :> "test_0_1" @@ "b" :> "expand_1_2"
                @@ "c" :> "expand_1_1" @@ "d" :> "expand_1_1"
                @@ "e" :> "collapse_1_1" @@ "f" :> "collapse_1_1"
                @@ "g" :> "collapse_2_1" @@ "h" :> "test_1_0"),
     edges  |-> {<<"a", "Out_1", "b", "In_1">>,
                <<"b", "Out_1", "c", "In_1">>, <<"b", "Out_2", "d", "In_1">>,
                <<"c", "Out_1", "e", "In_1">>, <<"d", "Out_1", "f", "In_1">>,
                <<"e", "Out_1", "g", "In_1">>, <<"f", "Out_1", "g", "In_2">>,
                <<"g", "Out_1", "h", "In_1">>},
     expect |-> "OK"]

ExpandCollapseNotMatch_OverHierarchyLink_FromOutToIn ==
    [name   |-> "ExpandCollapseNotMatch_OverHierarchyLink_FromOutToIn",
     nodes  |-> ("a" :> "test_0_2" @@ "b" :> "expand_1_1"
                @@ "c" :> "test_2_1" @@ "d" :> "collapse_1_1"
                @@ "e" :> "test_1_0"),
     edges  |-> {<<"a", "Out_1", "b", "In_1">>,
                <<"a", "Out_2", "c", "In_2">>, <<"b", "Out_1", "c", "In_1">>,
                <<"c", "Out_1", "d", "In_1">>, <<"d", "Out_1", "e", "In_1">>},
     expect |-> "BADCONF"]

ExpandCollapseNotMatch_OverHierarchyLink_FromInToOut ==
    [name   |-> "ExpandCollapseNotMatch_OverHierarchyLink_FromInToOut",
     nodes  |-> ("a" :> "test_0_1" @@ "b" :> "expand_1_1"
                @@ "c" :> "test_1_2" @@ "d" :> "collapse_1_1"
                @@ "e" :> "test_2_0"),
     edges  |-> {<<"a", "Out_1", "b", "In_1">>,
                <<"b", "Out_1", "c", "In_1">>, <<"c", "Out_1", "d", "In_1">>,
                <<"c", "Out_2", "e", "In_2">>, <<"d", "Out_1", "e", "In_1">>},
     expect |-> "BADCONF"]

ConditionNotMatch_OverHierarchyLink_FromOutToIn ==
    [name   |-> "ConditionNotMatch_OverHierarchyLink_FromOutToIn",
     nodes  |-> ("a" :> "test_0_2" @@ "b" :> "condition_1_2"
                @@ "c" :> "test_2_1" @@ "d" :> "test_1_1"
                @@ "e" :> "test_1_1" @@ "f" :> "test_1_0"),
     edges  |-> {<<"a", "Out_1", "b", "In_1">>,
                <<"a", "Out_2", "c", "In_2">>, <<"b", "Out_1", "c", "In_1">>,
                <<"b", "Out_2", "d", "In_1">>, <<"c", "Out_1", "e", "In_1">>,
                <<"d", "Out_1", "e", "In_1">>, <<"e", "Out_1", "f", "In_1">>},
     expect |-> "BADCONF"]

ConditionNotMatch_OverHierarchyLink_FromInToOut ==
    [name   |-> "ConditionNotMatch_OverHierarchyLink_FromInToOut",
     nodes  |-> ("a" :> "test_0_1" @@ "b" :> "condition_1_2"
                @@ "c" :> "test_1_2" @@ "d" :> "test_1_1"
                @@ "e" :> "test_1_1" @@ "f" :> "test_1_0"),
     edges  |-> {<<"a", "Out_1", "b", "In_1">>,
                <<"b", "Out_1", "c", "In_1">>, <<"b", "Out_2", "d", "In_1">>,
                <<"c", "Out_1", "e", "In_1">>, <<"c", "Out_2", "f", "In_1">>,
                <<"d", "Out_1", "e", "In_1">>, <<"e", "Out_1", "f", "In_1">>},
     expect |-> "BADCONF"]

ConditionNotAddition_MultiConditionLinkSameOut ==
    [name   |-> "ConditionNotAddition_MultiConditionLinkSameOut",
     nodes  |-> ("a" :> "test_0_1" @@ "b" :> "condition_1_2"
                @@ "c" :> "condition_1_2" @@ "d" :> "test_1_1"
                @@ "e" :> "test_1_1" @@ "f" :> "test_1_0"),
     edges  |-> {<<"a", "Out_1", "b", "In_1">>,
                <<"b", "Out_1", "c", "In_1">>, <<"b", "Out_2", "d", "In_1">>,
                <<"c", "Out_1", "e", "In_1">>, <<"c", "Out_2", "d", "In_1">>,
                <<"d", "Out_1", "e", "In_1">>, <<"e", "Out_1", "f", "In_1">>},
     expect |-> "BADCONF"]

ConditionNotAddition_EndifAndInOtherMultiPort ==
    [name   |-> "ConditionNotAddition_EndifAndInOtherMultiPort",
     nodes  |-> ("a" :> "test_0_2" @@ "b" :> "condition_1_2"
                @@ "c" :> "test_1_1" @@ "d" :> "test_2_0"),
     edges  |-> {<<"a", "Out_1", "b", "In_1">>,
                <<"a", "Out_2", "d", "In_1">>, <<"b", "Out_1", "c", "In_1">>,
                <<"b", "Out_2", "d", "In_2">>, <<"c", "Out_1", "d", "In_2">>},
     expect |-> "OK"]

ConditionMatch_EndifAndCollapseInOnePort ==
    [name   |-> "ConditionMatch_EndifAndCollapseInOnePort",
     nodes  |-> ("a" :> "test_0_1" @@ "b" :> "condition_1_2"
                @@ "c" :> "test_1_1" @@ "d" :> "expand_1_2"
                @@ "e" :> "condition_1_2" @@ "f" :> "collapse_2_1"
                @@ "h" :> "test_1_0"),
     edges  |-> {<<"a", "Out_1", "b", "In_1">>,
                <<"b", "Out_1", "c", "In_1">>, <<"b", "Out_2", "d", "In_1">>,
                <<"c", "Out_1", "d", "In_1">>, <<"d", "Out_1", "f", "In_1">>,
                <<"d", "Out_2", "e", "In_1">>, <<"e", "Out_1", "f", "In_2">>,
                <<"e", "Out_2", "f", "In_2">>, <<"f", "Out_1", "h", "In_1">>},
     expect |-> "OK"]

ConditionAddition_ConditionInExpandCollapse ==
    [name   |-> "ConditionAddition_ConditionInExpandCollapse",
     nodes  |-> ("a" :> "test_0_1" @@ "b" :> "expand_1_2"
                @@ "c" :> "condition_1_2" @@ "d" :> "collapse_2_1"
                @@ "e" :> "test_1_0"),
     edges  |-> {<<"a", "Out_1", "b", "In_1">>,
                <<"b", "Out_1", "c", "In_1">>, <<"b", "Out_2", "d", "In_2">>,
                <<"c", "Out_1", "d", "In_1">>, <<"c", "Out_2", "d", "In_1">>,
                <<"d", "Out_1", "e", "In_1">>},
     expect |-> "OK"]

BranchCollapseMatch ==
    [name   |-> "BranchCollapseMatch",
     nodes  |-> ("a" :> "test_0_1" @@ "b" :> "expand_1_1"
                @@ "c" :> "collapse_1_1" @@ "d" :> "test_1_1"
                @@ "e" :> "test_2_0"),
     edges  |-> {<<"a", "Out_1", "b", "In_1">>,
                <<"b", "Out_1", "c", "In_1">>, <<"c", "Out_1", "d", "In_1">>,
                <<"d", "Out_1", "e", "In_1">>, <<"c", "Out_1", "e", "In_2">>},
     expect |-> "OK"]

ConditionMatch_SinglePortLinkMultiPortThroughNode ==
    [name   |-> "ConditionMatch_SinglePortLinkMultiPortThroughNode",
     nodes  |-> ("httpserver_sync_receive" :> "test_0_1"
                @@ "param_analysis" :> "condition_1_2"
                @@ "my_nv_image_decoder" :> "test_1_1"
                @@ "image_resolution_judge" :> "condition_1_2"
                @@ "color_tranpose_1" :> "test_1_1"
                @@ "padding" :> "test_1_1" @@ "normalize" :> "test_1_1"
                @@ "face_detetc_infer" :> "test_1_2"
                @@ "face_detect_post" :> "test_3_1"
                @@ "face_condition" :> "condition_1_2" @@ "g" :> "test_1_0"),
     edges  |-> {<<"httpserver_sync_receive", "Out_1", "param_analysis", "In_1">>,
                <<"param_analysis", "Out_1", "my_nv_image_decoder", "In_1">>,
                <<"param_analysis", "Out_2", "image_resolution_judge", "In_1">>,
                <<"my_nv_image_decoder", "Out_1", "image_resolution_judge", "In_1">>,
                <<"image_resolution_judge", "Out_1", "face_detect_post", "In_1">>,
                <<"image_resolution_judge", "Out_1", "color_tranpose_1", "In_1">>,
                <<"color_tranpose_1", "Out_1", "padding", "In_1">>,
                <<"padding", "Out_1", "normalize", "In_1">>,
                <<"normalize", "Out_1", "face_detetc_infer", "In_1">>,
                <<"face_detetc_infer", "Out_1", "face_detect_post", "In_2">>,
                <<"face_detetc_infer", "Out_2", "face_detect_post", "In_3">>,
                <<"face_detect_post", "Out_1", "face_condition", "In_1">>,
                <<"image_resolution_judge", "Out_2", "face_condition", "In_1">>,
                <<"face_condition", "Out_1", "g", "In_1">>,
                <<"face_condition", "Out_2", "g", "In_1">>},
     expect |-> "OK"]

GetSetMatchNode ==
    [name   |-> "GetSetMatchNode",
     nodes  |-> ("a" :> "test_0_1" @@ "b" :> "expand_1_1"
                @@ "c" :> "condition_1_2" @@ "d" :> "test_1_1"
                @@ "e" :> "collapse_1_1" @@ "f" :> "test_1_0"),
     edges  |-> {<<"a", "Out_1", "b", "In_1">>,
                <<"b", "Out_1", "c", "In_1">>, <<"c", "Out_1", "d", "In_1">>,
                <<"c", "Out_2", "d", "In_1">>, <<"d", "Out_1", "e", "In_1">>,
                <<"e", "Out_1", "f", "In_1">>},
     expect |-> "OK"]

\* Every test of the suite.
AllCases == {VirtualNode_NormalFlow, VirtualNode_MatchAtVirtualInput,
    VirtualNode_MatchMultiInputOutput,
    SinglePortMatch_SingleOutPortLinkMultiInPort,
    SinglePortNotMatch_SingleOutPortLinkSingleInPort,
    MuliPortMatch_MultiOutPortLinkMultiInPort,
    MuliPortNotMatch_MultiOutPortLinkSingleInPort,
    ConditionMatch_OneInPortThreeOutPort,
    ConditionMatch_OutConditionInMultiPort,
    ConditionMatch_MutiConditionInSinglePort,
    ConditionNotMatch_AllOutPortLinkDifferenceInPort,
    ConditionNotMatch_MultiOutPortLinkInPort,
    ConditionNotMatch_SinglePortConditionNotMatch,
    ConditionMatch_SinglePortMatch, LoopMatch_LoopSelf, LoopMatch_LoopHasNode,
    LoopNotMatch_OverHierarchyLink, ExpandCollapseMatch_NormalFlow,
    ExpandCollapseMatch_OnlyExpand, ExpandCollapseNotMatch_OnlyCollapse,
    ExpandCollapseMatch_OverMatchArch,
    ExpandCollapseNotMatch_ExpandInMatchArch,
    ExpandCollapseMatch_ExpandIsMatchNode,
    ExpandCollapseMatch_MultiOutputExpandDirectConnectCollapse,
    ExpandCollapseMatch_CollapseIsMatchNode,
    ExpandCollapseNotMatch_CollapseIsMatchNode,
    ExpandCollapseNotMatch_CollapseInMatchArch,
    ExpandCollapseNotMatch_CollapseInMatchArch_SinglePathMatch,
    ExpandCollapseNotMatch_OneExpandMultiCollapse,
    ExpandCollapseMatch_MultiArch,
    ExpandCollapseNotMatch_OverHierarchyLink_FromOutToIn,
    ExpandCollapseNotMatch_OverHierarchyLink_FromInToOut,
    ConditionNotMatch_OverHierarchyLink_FromOutToIn,
    ConditionNotMatch_OverHierarchyLink_FromInToOut,
    ConditionNotAddition_MultiConditionLinkSameOut,
    ConditionNotAddition_EndifAndInOtherMultiPort,
    ConditionMatch_EndifAndCollapseInOnePort,
    ConditionAddition_ConditionInExpandCollapse, BranchCollapseMatch,
    ConditionMatch_SinglePortLinkMultiPortThroughNode, GetSetMatchNode}

\* GetSetMatchNode: the match node each node of its graph must have.
GetSetMatchNodeExpect ==
    "a" :> "null" @@ "b" :> "null" @@ "c" :> "null" @@ "d" :> "c"
    @@ "e" :> "b" @@ "f" :> "null"
=============================================================================
