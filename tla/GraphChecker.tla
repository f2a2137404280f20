---------------------------- MODULE GraphChecker ----------------------------
(***************************************************************************)
(* The static check Graph::Build runs before scheduling (spec 4.6) and the *)
(* match-node assignment (spec 4.5).  The checker is not in the           *)
(* repository; it is modelled from the algorithm of spec 4.6: nodes are    *)
(* visited in a topological order (cycles only through loop nodes), each   *)
(* node gets a hierarchy stack, openers push and closers pop, edges must   *)
(* agree on their stacks, and the branches of a condition may meet only    *)
(* all together on one input port (its endif).  The visiting order is left *)
(* open: every ready node may be visited next, so a run covers every       *)
(* topological order of every graph.                                       *)
(*                                                                         *)
(* A stack is a sequence of tokens <<opener, tag>>: <<c, port>> for the    *)
(* branch of condition c leaving on port, <<x, "expand">> below expand x,  *)
(* <<l, "loop">> in the body of loop node l (its first output port).       *)
(***************************************************************************)
EXTENDS Naturals, Sequences, FiniteSets, SequencesExt, Graphs

CONSTANTS
    FlowUnits,   \* flowunit name -> [in, out, kind]
    Cases        \* the graphs to build, each [name, nodes, edges, expect]

VARIABLES
    g,           \* the graph being built
    inStack,     \* node -> the hierarchy stack of its input, once visited
    verdict      \* "running", then the status Build returns

vars == <<g, inStack, verdict>>

Nodes == DOMAIN g.nodes

\* The kind and ports of a node; a virtual node has one port.
Kind(n) == IF g.nodes[n] \in {"input", "output"} THEN g.nodes[n]
           ELSE FlowUnits[g.nodes[n]].kind
InPortsOf(n)  == CASE g.nodes[n] = "input"  -> <<>>
                   [] g.nodes[n] = "output" -> <<"In">>
                   [] OTHER -> FlowUnits[g.nodes[n]].in
OutPortsOf(n) == CASE g.nodes[n] = "input"  -> <<"Out">>
                   [] g.nodes[n] = "output" -> <<>>
                   [] OTHER -> FlowUnits[g.nodes[n]].out

NodeGraph == [node |-> Nodes, edge |-> {<<e[1], e[3]>> : e \in g.edges}]

\* An edge that returns into a loop node from its own body.
IsBackEdge(e) == Kind(e[3]) = "loop" /\ e[1] \in Descendants(NodeGraph, e[3])

ForwardIn(n, p) == {e \in g.edges : e[3] = n /\ e[4] = p /\ ~IsBackEdge(e)}

\* Every node feeding n, except through a loop's back edge, is visited.
Ready(n) ==
    /\ n \notin DOMAIN inStack
    /\ \A e \in g.edges : e[3] = n /\ ~IsBackEdge(e) => e[1] \in DOMAIN inStack

\* The stack of what a visited node sends on one of its output ports.
OutStack(n, port) ==
    LET s == inStack[n] IN
    CASE Kind(n) = "condition" -> Append(s, <<n, port>>)
      [] Kind(n) = "expand"    -> Append(s, <<n, "expand">>)
      [] Kind(n) = "collapse"  -> Front(s)
      [] Kind(n) = "loop" /\ port = OutPortsOf(n)[1] -> Append(s, <<n, "loop">>)
      [] OTHER -> s

EdgeStack(e) == OutStack(e[1], e[2])

\* Several edges meet on one input port only as the endif of a condition:
\* one edge per branch of a single condition, over the same stack.
IsEndif(E) ==
    \E c \in Nodes :
        /\ Kind(c) = "condition"
        /\ \A e \in E : EdgeStack(e) # <<>> /\ Last(EdgeStack(e))[1] = c
        /\ {Last(EdgeStack(e)) : e \in E} = {<<c, q>> : q \in ToSet(OutPortsOf(c))}
        /\ Cardinality(E) = Len(OutPortsOf(c))
        /\ Cardinality({Front(EdgeStack(e)) : e \in E}) = 1

\* Mutation: several edges on one port are rejected only when they disagree.
PortBadAgreeing(n, p) ==
    LET E == ForwardIn(n, p)
    IN  Cardinality(E) > 1 /\ Cardinality({EdgeStack(e) : e \in E}) # 1 /\ ~IsEndif(E)

\* Several edges on one input port that are not the endif of a condition.
PortBad(n, p) ==
    LET E == ForwardIn(n, p) IN Cardinality(E) > 1 /\ ~IsEndif(E)

\* The stack of a linked input port: an endif closes its condition's branch.
PortStack(n, p) ==
    LET E == ForwardIn(n, p)
        s == EdgeStack(CHOOSE e \in E : TRUE)
    IN  IF IsEndif(E) THEN Front(s) ELSE s

\* Visit a ready node: its linked ports must match and agree; a collapse
\* must close an expand; an output virtual node must be at depth 0.  The
\* first violation ends the build with BADCONF.
Visit(n) ==
    /\ verdict = "running"
    /\ Ready(n)
    /\ LET linked == {p \in ToSet(InPortsOf(n)) : ForwardIn(n, p) # {}}
           bad    == \E p \in linked : PortBad(n, p)
           ps     == {PortStack(n, p) : p \in linked}
           s      == IF ps = {} THEN <<>> ELSE CHOOSE x \in ps : TRUE
           ok == /\ ~bad
                 /\ Cardinality(ps) <= 1
                 /\ Kind(n) = "collapse" => s # <<>> /\ Last(s)[2] = "expand"
                 /\ Kind(n) = "output" => s = <<>>
       IN  IF ok THEN /\ inStack' = inStack @@ (n :> s)
                      /\ UNCHANGED verdict
                 ELSE /\ verdict' = "BADCONF"
                      /\ UNCHANGED inStack
    /\ UNCHANGED g

\* Every node visited: a loop's body must return at the loop's level.
Finish ==
    /\ verdict = "running"
    /\ DOMAIN inStack = Nodes
    /\ verdict' = IF \A e \in g.edges :
                        IsBackEdge(e) => EdgeStack(e) = OutStack(e[3], OutPortsOf(e[3])[1])
                  THEN "OK" ELSE "BADCONF"
    /\ UNCHANGED <<g, inStack>>

\* No node is ready: a cycle that does not go through a loop node.
RejectCycle ==
    /\ verdict = "running"
    /\ DOMAIN inStack # Nodes
    /\ \A n \in Nodes : ~Ready(n)
    /\ verdict' = "BADCONF"
    /\ UNCHANGED <<g, inStack>>

Init ==
    /\ g \in Cases
    /\ inStack = <<>>
    /\ verdict = "running"

Next == (\E n \in Nodes : Visit(n)) \/ Finish \/ RejectCycle

Spec == Init /\ [][Next]_vars /\ WF_vars(Next)

(***************************************************************************)
(* Match nodes (spec 4.5, the table as written)                            *)
(***************************************************************************)
\* The expand a collapse closes: the owner of the top of its stack.
OpenerOf(n) == Last(inStack[n])[1]

\* The output ports feeding n.
Preds(n) == {<<e[1], e[2]>> : e \in UNION {ForwardIn(n, p) : p \in ToSet(InPortsOf(n))}}

Openers == {n \in Nodes : Kind(n) \in {"condition", "expand"}}

\* The deepest opener upstream of (or equal to) every predecessor.
DeepestCommonOpener(n) ==
    LET common == {o \in Openers :
                     \A q \in Preds(n) : o \in Ancestors(NodeGraph, q[1]) \cup {q[1]}}
    IN  IF common = {} THEN "null"
        ELSE CHOOSE o \in common : \A o2 \in common : o2 \in Ancestors(NodeGraph, o) \cup {o}

RECURSIVE SpecMatchNode(_)
SpecMatchNode(n) ==
    CASE Preds(n) = {} \/ Kind(n) \in {"input", "condition", "expand"} -> "null"
      [] Kind(n) = "collapse" -> SpecMatchNode(OpenerOf(n))
      [] Cardinality(Preds(n)) = 1 -> SpecMatchNode((CHOOSE q \in Preds(n) : TRUE)[1])
      [] OTHER -> DeepestCommonOpener(n)

(***************************************************************************)
(* Properties                                                              *)
(***************************************************************************)
\* Whatever order the checker visits the nodes in, Build returns the status
\* each graph of graph_checker_test.cc expects.
VerdictAsTested == verdict # "running" => verdict = g.expect
=============================================================================
