------------------------------ MODULE Pipeline ------------------------------
(***************************************************************************)
(* The smallest graph of spec 2: input1 -> output1.  The caller sends      *)
(* buffers through its ExternalDataMap into the extern ports of the        *)
(* InputVirtualNode (virtual_node.cc:25-99); the node's Run drains every   *)
(* extern port and forwards the batch on the output port of the same       *)
(* name, whose edge ends at the OutputVirtualNode's input port of that     *)
(* name; the OutputVirtualNode (MatchOutput.tla) delivers to the caller.   *)
(* The two nodes' Runs, the caller and the session flags interleave.       *)
(* The composition is shown to implement SessionChannel.                   *)
(***************************************************************************)
EXTENDS Session, Naturals, Sequences, SequencesExt

CONSTANTS InputPorts, Script

VARIABLES
    sent,       \* sent[s][p]: how much of Script[p] the caller has sent
    extq,       \* extq[p]: the InputVirtualNode's extern port p
    ipc,        \* where the InputVirtualNode's Run is
    iIdx,       \* the port its current loop is at
    icache,     \* icache[p]: ports_data_cache of the current Run
    \* The OutputVirtualNode, as in MatchOutput; inq[p] is the queue of
    \* its input port p, fed by the InputVirtualNode's output port p.
    inq, pc, portIdx, pend, cur, errTaken, delivered, userError, errorSet

MO == INSTANCE MatchOutput

Ports == MO!Ports

inVars  == <<extq, ipc, iIdx, icache>>
outVars == <<inq, pc, portIdx, pend, cur, errTaken, delivered, userError, errorSet>>
vars == <<sessionVars, sent, inVars, outVars>>

\* ExternalDataMap::Send by the caller, who holds its SessionIO: data
\* before Close, and after Close the session's end flag.
Push(s, p) ==
    /\ ioLive[s]
    /\ sent[s][p] < Len(Script[p])
    /\ LET b == MO!Buf(s, Script[p][sent[s][p] + 1])
       IN  /\ b.idx.end <=> closed[s]
           /\ extq' = [extq EXCEPT ![p] = Append(@, b)]
    /\ sent' = [sent EXCEPT ![s][p] = @ + 1]
    /\ UNCHANGED <<sessionVars, ipc, iIdx, icache, outVars>>

(***************************************************************************)
(* InputVirtualNode::Run                                                   *)
(***************************************************************************)
InRunStart ==
    /\ ipc = "idle"
    /\ ipc' = "recv"
    /\ iIdx' = 1
    /\ UNCHANGED <<sessionVars, sent, extq, icache, outVars>>

\* Mutation: the extern queue is read with Front and never popped.
InRecvPortNoPop ==
    /\ ipc = "recv"
    /\ LET p == InputPorts[iIdx]
       IN  /\ icache' = [icache EXCEPT ![p] = extq[p]]
           /\ UNCHANGED extq
    /\ ipc'  = IF iIdx = Len(InputPorts) THEN "send" ELSE "recv"
    /\ iIdx' = IF iIdx = Len(InputPorts) THEN 1 ELSE iIdx + 1
    /\ UNCHANGED <<sessionVars, sent, outVars>>

\* port->Recv(data_cache, -1): the whole extern queue, in one batch.  After
\* the last extern port the send loop starts.
InRecvPort ==
    /\ ipc = "recv"
    /\ LET p == InputPorts[iIdx]
       IN  /\ icache' = [icache EXCEPT ![p] = extq[p]]
           /\ extq' = [extq EXCEPT ![p] = <<>>]
    /\ ipc'  = IF iIdx = Len(InputPorts) THEN "send" ELSE "recv"
    /\ iIdx' = IF iIdx = Len(InputPorts) THEN 1 ELSE iIdx + 1
    /\ UNCHANGED <<sessionVars, sent, outVars>>

\* Mutation: the empty-batch test is inverted, so a non-empty batch is
\* skipped and goes out of scope with the Run.
InSendPortSkipInverted ==
    /\ ipc = "send"
    /\ LET p == InputPorts[iIdx]
       IN  /\ inq' = IF icache[p] # <<>> THEN inq
                      ELSE [inq EXCEPT ![p] = @ \o icache[p]]
           /\ icache' = [icache EXCEPT ![p] = <<>>]
    /\ ipc'  = IF iIdx = Len(InputPorts) THEN "idle" ELSE "send"
    /\ iIdx' = IF iIdx = Len(InputPorts) THEN 1 ELSE iIdx + 1
    /\ UNCHANGED <<sessionVars, sent, extq, pc, portIdx, pend, cur,
                   errTaken, delivered, userError, errorSet>>

\* port->Send(data_cache) on the output port of the same name, skipped
\* when the batch is empty; the Run returns after the last port.
InSendPort ==
    /\ ipc = "send"
    /\ LET p == InputPorts[iIdx]
       IN  /\ inq' = [inq EXCEPT ![p] = @ \o icache[p]]
           /\ icache' = [icache EXCEPT ![p] = <<>>]
    /\ ipc'  = IF iIdx = Len(InputPorts) THEN "idle" ELSE "send"
    /\ iIdx' = IF iIdx = Len(InputPorts) THEN 1 ELSE iIdx + 1
    /\ UNCHANGED <<sessionVars, sent, extq, pc, portIdx, pend, cur,
                   errTaken, delivered, userError, errorSet>>

InStep == InRunStart \/ InRecvPort \/ InSendPort

OutStep == MO!NodeStep /\ UNCHANGED <<sent, inVars>>

Init ==
    /\ SessionInit
    /\ sent = [s \in Sessions |-> [p \in Ports |-> 0]]
    /\ extq = [p \in Ports |-> <<>>]
    /\ ipc = "idle"
    /\ iIdx = 1
    /\ icache = [p \in Ports |-> <<>>]
    /\ MO!Init

Next ==
    \/ \E s \in Sessions, p \in Ports : Push(s, p)
    \/ SessionNext /\ UNCHANGED <<sent, inVars, outVars>>
    \/ InStep
    \/ OutStep

\* The scheduler keeps running both virtual nodes.
Spec == Init /\ [][Next]_vars /\ WF_vars(InStep) /\ WF_vars(OutStep)

(***************************************************************************)
(* Port::Recv(.., -1) read as "block until data" (spec 9 leaves open       *)
(* whether -1 polls or blocks): the receive loop waits on an empty extern  *)
(* port.                                                                   *)
(***************************************************************************)
InRecvPortBlocking == InRecvPort /\ extq[InputPorts[iIdx]] # <<>>

InStepBlocking == InRunStart \/ InRecvPortBlocking \/ InSendPort

NextBlocking ==
    \/ \E s \in Sessions, p \in Ports : Push(s, p)
    \/ SessionNext /\ UNCHANGED <<sent, inVars, outVars>>
    \/ InStepBlocking
    \/ OutStep

SpecBlocking ==
    Init /\ [][NextBlocking]_vars /\ WF_vars(InStepBlocking) /\ WF_vars(OutStep)

(***************************************************************************)
(* Properties                                                              *)
(***************************************************************************)
\* The valid buffers of s in a queue, oldest first.
ValidOf(s, q) == SelectSeq(q, LAMBDA b : b.sess = s /\ MO!IsValid(b))

\* Refinement mapping: what is in flight for s on p, oldest first: the match
\* stream the OutputVirtualNode holds, its input port, the InputVirtualNode's
\* batch and its extern port.
InFlightOn(s, p) ==
    (IF s \in DOMAIN pend THEN ValidOf(s, pend[s][p]) ELSE <<>>)
    \o ValidOf(s, inq[p]) \o ValidOf(s, icache[p]) \o ValidOf(s, extq[p])

InFlight == [s \in Sessions |-> [p \in Ports |-> InFlightOn(s, p)]]

SC == INSTANCE SessionChannel WITH chan <- InFlight, got <- delivered

\* The graph implements the per-session FIFO channel of SessionChannel:
\* each delivery is the oldest valid buffers in flight on each port, only
\* an aborted or abandoned session loses buffers, and a live session with
\* buffers in flight is eventually served.
ImplementsSessionChannel == SC!Spec

\* The valid buffers the caller has sent for s on p, in order.
ValidSent(s, p) ==
    ValidOf(s, [i \in 1..sent[s][p] |-> MO!Buf(s, Script[p][i])])

\* The channel's contents, stated of the graph's state: what the caller got
\* is a prefix of what it sent, what is in flight is a suffix, and for a
\* session neither aborted nor abandoned the two together are all of it.
\* EraseInvalidData, the skips in OutputVirtualNode::Run and the batches of
\* InputVirtualNode::Run are what could reorder, duplicate or lose.
ChannelIntact ==
    \A s \in Sessions, p \in Ports :
        /\ IsPrefix(delivered[s][p], ValidSent(s, p))
        /\ IsSuffix(InFlightOn(s, p), ValidSent(s, p))
        /\ ioLive[s] /\ ~abort[s] =>
              delivered[s][p] \o InFlightOn(s, p) = ValidSent(s, p)
=============================================================================
