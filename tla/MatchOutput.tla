----------------------------- MODULE MatchOutput -----------------------------
(***************************************************************************)
(* OutputVirtualNode (virtual_node.cc): the graph output that hands        *)
(* matched data back to the caller.  Upstream nodes append buffers of      *)
(* several sessions to its input ports while it runs, and the caller's     *)
(* thread aborts, closes and lets go of sessions at any time.  One Run:    *)
(* EraseInvalidData drops, port by port, the queued heads whose session    *)
(* has no SessionIO left; the InputMatchStreamManager groups what is       *)
(* queued into match streams; each match stream of a session that is      *)
(* neither aborted nor abandoned is filtered (no end flags, no             *)
(* placeholders), pushed to the SessionIO, and the last error of its valid *)
(* buffers is set.                                                         *)
(*                                                                         *)
(* The InputMatchStreamManager is not in the repository.  At an output     *)
(* node every buffer is at depth 0 (spec 4.6 rule 7), so with in_order =   *)
(* true and gather_all = false (lines 126-127) it is modelled by its       *)
(* contract in spec 4.4: it takes what the ports hold and emits one match  *)
(* stream per session, each port's buffers in arrival order.               *)
(***************************************************************************)
EXTENDS Session, Naturals, Sequences, SequencesExt, Functions, TLC

CONSTANTS
    InputPorts,    \* input_ports_ of the node, in vector order
    Script         \* Script[p]: what the upstream sends on p for each session,
                   \* as records [id, err, idx] with idx [end, placeholder]

Ports == ToSet(InputPorts)

Buf(s, t) == [sess |-> s, id |-> t.id, err |-> t.err, idx |-> t.idx]
Templates == UNION {ToSet(Script[p]) : p \in Ports}
Buffers == {Buf(s, t) : s \in Sessions, t \in Templates}

\* What the filter of Run lets through to the caller.
IsValid(b) == ~b.idx.end /\ ~b.idx.placeholder

VARIABLES
    sent,       \* sent[s][p]: how much of Script[p] the upstream has sent for s
    inq,        \* inq[p]: the queue of input port p (queue_size_ = -1)
    pc,         \* where the node's Run is
    portIdx,    \* the port EraseInvalidData is at
    pend,       \* match streams generated and not yet handled: session -> data
    cur,        \* the session whose match stream Run is handling
    errTaken,   \* history: the node took a buffer with an error for s
    delivered,  \* delivered[s][p]: the buffers pushed to s's SessionIO under p
    userError,  \* the value of the last SetLastError on s's SessionIO
    errorSet    \* history: SetLastError was ever called with an error for s

nodeVars == <<pc, portIdx, pend, cur, errTaken>>
userVars == <<delivered, userError, errorSet>>
vars == <<sessionVars, sent, inq, nodeVars, userVars>>

Send(s, p) ==
    /\ sent[s][p] < Len(Script[p])
    /\ LET b == Buf(s, Script[p][sent[s][p] + 1])
       IN  /\ b.idx.end => closed[s]
           /\ inq' = [inq EXCEPT ![p] = Append(@, b)]
    /\ sent' = [sent EXCEPT ![s][p] = @ + 1]
    /\ UNCHANGED <<sessionVars, nodeVars, userVars>>

(***************************************************************************)
(* EraseInvalidData                                                        *)
(***************************************************************************)
\* Mutation: the loop's condition is inverted and pops the live heads.
RECURSIVE InvalidRunInverted(_)
InvalidRunInverted(q) ==
    IF q # <<>> /\ ioLive[Head(q).sess] THEN 1 + InvalidRunInverted(Tail(q)) ELSE 0

\* The length of the run of heads whose session has no SessionIO.
RECURSIVE InvalidRun(_)
InvalidRun(q) ==
    IF q # <<>> /\ ~ioLive[Head(q).sess] THEN 1 + InvalidRun(Tail(q)) ELSE 0

\* One port of the loop: pop heads until one has a live SessionIO.
ErasePort ==
    /\ pc = "erase"
    /\ portIdx <= Len(InputPorts)
    /\ LET p == InputPorts[portIdx]
           n == InvalidRun(inq[p])
       IN  /\ inq' = [inq EXCEPT ![p] = SubSeq(@, n + 1, Len(@))]
           /\ errTaken' = [s \in Sessions |-> errTaken[s] \/
                              \E i \in 1..n : inq[p][i].sess = s /\ inq[p][i].err]
    /\ portIdx' = portIdx + 1
    /\ UNCHANGED <<sessionVars, sent, pc, pend, cur, userVars>>

(***************************************************************************)
(* OutputVirtualNode::Run                                                  *)
(***************************************************************************)
RunStart ==
    /\ pc = "idle"
    /\ pc' = "erase"
    /\ portIdx' = 1
    /\ UNCHANGED <<sessionVars, sent, inq, pend, cur, errTaken, userVars>>

\* Mutation: the manager does not split the ports' data by session.
SessionDataUngrouped(s) == [p \in Ports |-> inq[p]]

\* The match stream the manager builds for s: each port's buffers of s,
\* in arrival order (in_order = true).
SessionData(s) == [p \in Ports |-> SelectSeq(inq[p], LAMBDA b : b.sess = s)]

\* GenInputMatchStreamData: one match stream per session present; a session
\* without buffers has no match stream (the buffer_count == 0 skip).
GenMatchStreamData ==
    /\ pc = "erase"
    /\ portIdx > Len(InputPorts)
    /\ LET present == {s \in Sessions : \E p \in Ports :
                          \E i \in DOMAIN inq[p] : inq[p][i].sess = s}
       IN  pend' = [s \in present |-> SessionData(s)]
    /\ errTaken' = [s \in Sessions |-> errTaken[s] \/
                       \E p \in Ports : \E i \in DOMAIN inq[p] :
                           inq[p][i].sess = s /\ inq[p][i].err]
    /\ inq' = [p \in Ports |-> <<>>]
    /\ pc' = "deliver"
    /\ UNCHANGED <<sessionVars, sent, portIdx, cur, userVars>>

\* Mutation: the skip tests IsClosed instead of IsAbort.
SkipSessionClosed(s) == closed[s] \/ ~ioLive[s]

\* A match stream is not delivered when its session is aborted or its
\* caller released the SessionIO (lines 175-189).
SkipSession(s) == abort[s] \/ ~ioLive[s]

\* The loop reaches a match stream (the list's order is the manager's):
\* skipped, or the session's SessionIO taken for the push.
VisitMatchStream(s) ==
    /\ pc = "deliver"
    /\ s \in DOMAIN pend
    /\ IF SkipSession(s)
       THEN /\ pend' = Restrict(pend, DOMAIN pend \ {s})
            /\ UNCHANGED <<pc, cur>>
       ELSE /\ pc' = "push"
            /\ cur' = s
            /\ UNCHANGED pend
    /\ UNCHANGED <<sessionVars, sent, inq, portIdx, errTaken, userVars>>

\* The filter of lines 192-213: valid buffers per port.
ValidOutput(data) == [p \in Ports |-> SelectSeq(data[p], IsValid)]

\* last_error: whether a valid buffer of the match stream has an error.
GroupError(data) == \E p \in Ports : \E i \in DOMAIN data[p] :
                        IsValid(data[p][i]) /\ data[p][i].err

PushMatchStream ==
    /\ pc = "push"
    /\ delivered' = [delivered EXCEPT ![cur] =
                        [p \in Ports |-> @[p] \o ValidOutput(pend[cur])[p]]]
    /\ userError' = [userError EXCEPT ![cur] = GroupError(pend[cur])]
    /\ errorSet' = [errorSet EXCEPT ![cur] = @ \/ GroupError(pend[cur])]
    /\ pend' = Restrict(pend, DOMAIN pend \ {cur})
    /\ pc' = "deliver"
    /\ UNCHANGED <<sessionVars, sent, inq, portIdx, cur, errTaken>>

EndRun ==
    /\ pc = "deliver"
    /\ DOMAIN pend = {}
    /\ pc' = "idle"
    /\ UNCHANGED <<sessionVars, sent, inq, portIdx, pend, cur, errTaken, userVars>>

NodeStep ==
    \/ RunStart \/ ErasePort \/ GenMatchStreamData
    \/ \E s \in Sessions : VisitMatchStream(s)
    \/ PushMatchStream \/ EndRun

Init ==
    /\ SessionInit
    /\ sent = [s \in Sessions |-> [p \in Ports |-> 0]]
    /\ inq = [p \in Ports |-> <<>>]
    /\ pc = "idle"
    /\ portIdx = 1
    /\ pend = <<>>
    /\ cur = CHOOSE s \in Sessions : TRUE
    /\ errTaken = [s \in Sessions |-> FALSE]
    /\ delivered = [s \in Sessions |-> [p \in Ports |-> <<>>]]
    /\ userError = [s \in Sessions |-> FALSE]
    /\ errorSet = [s \in Sessions |-> FALSE]

Next ==
    \/ \E s \in Sessions, p \in Ports : Send(s, p)
    \/ SessionNext /\ UNCHANGED <<sent, inq, nodeVars, userVars>>
    \/ NodeStep

Spec == Init /\ [][Next]_vars /\ WF_vars(NodeStep)

(***************************************************************************)
(* Properties                                                              *)
(***************************************************************************)
\* The type of every variable; a match stream holds its own session's
\* buffers only.
TypeOK ==
    /\ SessionTypeOK
    /\ sent \in [Sessions -> [Ports -> Nat]]
    /\ inq \in [Ports -> Seq(Buffers)]
    /\ pc \in {"idle", "erase", "deliver", "push"}
    /\ DOMAIN pend \subseteq Sessions
    /\ \A s \in DOMAIN pend :
          pend[s] \in [Ports -> Seq({b \in Buffers : b.sess = s})]
    /\ cur \in Sessions
    /\ errTaken \in [Sessions -> BOOLEAN]
    /\ delivered \in [Sessions -> [Ports -> Seq(Buffers)]]
    /\ userError \in [Sessions -> BOOLEAN]
    /\ errorSet \in [Sessions -> BOOLEAN]

ValidSentOn(s, p) ==
    SelectSeq([i \in 1..sent[s][p] |-> Buf(s, Script[p][i])], IsValid)

DeliveredOn(s, p) == delivered[s][p]

\* Each port's valid buffers reach the caller once each and in the order
\* the upstream sent them, although EraseInvalidData removes other
\* sessions' buffers from between them.
DeliveredInArrivalOrder ==
    \A s \in Sessions, p \in Ports :
        IsPrefix(DeliveredOn(s, p), ValidSentOn(s, p))

\* Between Runs, every valid buffer sent for a session that is neither
\* aborted nor abandoned has been pushed or still waits in its port:
\* EraseInvalidData never pops a live head and Run skips no live session.
NoLostOutput ==
    pc = "idle" =>
        \A s \in Sessions, p \in Ports :
            ioLive[s] /\ ~abort[s] =>
                \A i \in DOMAIN ValidSentOn(s, p) :
                    LET b == ValidSentOn(s, p)[i]
                    IN  Contains(DeliveredOn(s, p), b) \/ Contains(inq[p], b)

\* The spec (sections 3 and 7): an error riding on a buffer is propagated
\* to the caller through SetLastError.  Between Runs, every session that is
\* neither aborted nor abandoned and one of whose buffers the node took
\* with an error has been told of an error.
ErrorReported ==
    pc = "idle" =>
        \A s \in Sessions :
            (ioLive[s] /\ ~abort[s] /\ errTaken[s])
                => errorSet[s]

\* The spec (section 5) and Session::Abort: once a session is aborted,
\* nothing more is delivered to its SessionIO.
NoDeliveryAfterAbort ==
    [][\A s \in Sessions :
          delivered'[s] # delivered[s] => ~abort[s]]_vars
=============================================================================
