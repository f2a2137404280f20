---------------------------- MODULE OutputUnmatch ----------------------------
(***************************************************************************)
(* OutputUnmatchVirtualNode and its SessionUnmatchCache (virtual_node.cc). *)
(*                                                                         *)
(* The node owns one input port per graph output that is not matched      *)
(* across ports.  Upstream nodes append buffers of several sessions to     *)
(* these ports concurrently with the node's Run; the caller's thread       *)
(* aborts sessions, closes them and drops its SessionIO at any time.  One  *)
(* Run drains every input port in vector order, files each buffer into its *)
(* session's cache (skipping aborted sessions), then visits every cached   *)
(* session: if the caller still holds the SessionIO it sets the cache's    *)
(* last error and pushes one slice per PopCache until NODATA; the cache is *)
(* dropped once every port has seen its session-level end flag or the      *)
(* session is aborted.  Run is split at the points where other threads can *)
(* act between its statements; the PopCache loop pushes one slice a step.  *)
(***************************************************************************)
EXTENDS Session, Naturals, Sequences, SequencesExt, Functions, TLC

CONSTANTS
    InputPorts,    \* input_ports_ of the node, in vector order
    Script,        \* Script[p]: what the upstream sends on port p for each
                   \* session, as records [id, err, idx] whose idx is the
                   \* IndexInfo [stream, end, placeholder, depth, from]
    NoIndex        \* InheritFrom of a depth-0 IndexInfo

Ports == ToSet(InputPorts)

\* The Buffer that the upstream sends on behalf of session s.
Buf(s, t) == [sess |-> s, id |-> t.id, err |-> t.err, idx |-> t.idx]

Templates == UNION {ToSet(Script[p]) : p \in Ports}
Buffers == {Buf(s, t) : s \in Sessions, t \in Templates}
StreamIds == {t.idx.stream : t \in Templates}

\* The walk of CacheBuffer up InheritFrom to the depth-0 IndexInfo.
RECURSIVE RootIndex(_)
RootIndex(idx) == IF idx.depth = 0 THEN idx ELSE RootIndex(idx.from)

\* A buffer the caller gets to see: neither an end flag nor a placeholder.
IsValid(b) == ~b.idx.end /\ ~b.idx.placeholder

VARIABLES
    sent,       \* sent[s][p]: how much of Script[p] the upstream has sent for s
    inq,        \* inq[p]: the queue of input port p (queue_size_ = -1)
    cache,      \* session_cache_map_: session -> SessionUnmatchCache
    pc,         \* where the node's Run is
    portIdx,    \* the input port the receive loop is at
    todo,       \* sessions the delivery loop has still to visit
    cur,        \* the session the delivery loop is at
    holdIO,     \* the loop's local io != nullptr for cur
    delivered,  \* delivered[s]: the OutputBufferLists pushed to s's SessionIO
    userError,  \* whether the last SetLastError on s's SessionIO was an error
    erased,     \* history: sessions whose cache the node has dropped
    errTaken    \* history: the node cached a buffer with an error for s

nodeVars == <<cache, pc, portIdx, todo, cur, holdIO, erased, errTaken>>
userVars == <<delivered, userError>>
vars == <<sessionVars, sent, inq, nodeVars, userVars>>

(***************************************************************************)
(* SessionUnmatchCache.  streams[p] is port_streams_map_[p], a map from    *)
(* stream to the buffers cached for it; portEnd is port_end_flag_map_.     *)
(***************************************************************************)
NewCache ==
    [streams   |-> [p \in Ports |-> <<>>],
     portEnd   |-> [p \in Ports |-> FALSE],
     lastError |-> FALSE]

\* Mutation: last_error_ is assigned from every buffer, without the
\* HasError test.
CacheBufferNoErrorGuard(c, p, b) ==
    LET bucket == c.streams[p]
        st     == b.idx.stream
    IN  [c EXCEPT
            !.lastError  = b.err,
            !.streams[p] = IF st \in DOMAIN bucket
                           THEN [bucket EXCEPT ![st] = Append(@, b)]
                           ELSE bucket @@ (st :> <<b>>),
            !.portEnd[p] = @ \/ (b.idx.end /\ RootIndex(b.idx).end)]

CacheBuffer(c, p, b) ==
    LET bucket == c.streams[p]
        st     == b.idx.stream
    IN  [c EXCEPT
            !.lastError  = @ \/ b.err,
            !.streams[p] = IF st \in DOMAIN bucket
                           THEN [bucket EXCEPT ![st] = Append(@, b)]
                           ELSE bucket @@ (st :> <<b>>),
            !.portEnd[p] = @ \/ (b.idx.end /\ RootIndex(b.idx).end)]

GetLastError(c) == c.lastError

AllPortStreamEnd(c) == \A p \in Ports : c.portEnd[p]

\* Mutation: the session's end is checked without its abort flag.
SessionOverNoAbort(c, s) == AllPortStreamEnd(c)

\* OutputUnmatchVirtualNode::Run drops a session's cache when this holds.
SessionOver(c, s) == AllPortStreamEnd(c) \/ abort[s]

\* PopCache returns NODATA when no port has a stream left.
CacheEmpty(c) == \A p \in Ports : DOMAIN c.streams[p] = {}

\* The stream port_streams.begin() yields on each port that has one.  The
\* map is keyed by std::shared_ptr<Stream>, so which stream comes first is
\* fixed by the build (pointer order or hash), not by arrival: any may.
FirstStreams(c) ==
    LET busy == {p \in Ports : DOMAIN c.streams[p] # {}}
    IN  {f \in [busy -> StreamIds] : \A p \in busy : f[p] \in DOMAIN c.streams[p]}

\* Mutation: PopCache filters end flags but lets placeholders through.
PopOutputKeepPlaceholders(c, f) ==
    [p \in Ports |-> IF p \in DOMAIN f
                     THEN SelectSeq(c.streams[p][f[p]], LAMBDA b : ~b.idx.end)
                     ELSE <<>>]

\* The OutputBufferList PopCache fills: the valid buffers of the popped
\* stream, and an empty list for a port that has none left.
PopOutput(c, f) ==
    [p \in Ports |-> IF p \in DOMAIN f
                     THEN SelectSeq(c.streams[p][f[p]], IsValid)
                     ELSE <<>>]

PopRest(c, f) ==
    [c EXCEPT !.streams =
        [p \in Ports |-> IF p \in DOMAIN f
                         THEN Restrict(c.streams[p], DOMAIN c.streams[p] \ {f[p]})
                         ELSE c.streams[p]]]

(***************************************************************************)
(* The upstream.  It sends each session's script on every port in order;   *)
(* the buffers descended from the session's closing end flag exist only    *)
(* once the caller has closed the session.  It may stop at any time, and   *)
(* buffers already in flight still arrive after an abort.                  *)
(***************************************************************************)
Send(s, p) ==
    /\ sent[s][p] < Len(Script[p])
    /\ LET b == Buf(s, Script[p][sent[s][p] + 1])
       IN  /\ RootIndex(b.idx).end => closed[s]
           /\ inq' = [inq EXCEPT ![p] = Append(@, b)]
    /\ sent' = [sent EXCEPT ![s][p] = @ + 1]
    /\ UNCHANGED <<sessionVars, nodeVars, userVars>>

(***************************************************************************)
(* OutputUnmatchVirtualNode::Run                                           *)
(***************************************************************************)
RunStart ==
    /\ pc = "idle"
    /\ pc' = "recv"
    /\ portIdx' = 1
    /\ UNCHANGED <<sessionVars, sent, inq, cache,  todo, cur, holdIO,
                   erased, errTaken, userVars>>

\* Mutation: buffers of aborted sessions are cached like any other.
FileBufferIgnoringAbort(m, p, b) ==
    IF b.sess \in DOMAIN m
    THEN [m EXCEPT ![b.sess] = CacheBuffer(@, p, b)]
    ELSE m @@ (b.sess :> CacheBuffer(NewCache, p, b))

\* Filing one received buffer: skipped when its session is aborted,
\* otherwise cached, in a new SessionUnmatchCache if the session has none.
FileBuffer(m, p, b) ==
    IF abort[b.sess] THEN m
    ELSE IF b.sess \in DOMAIN m
    THEN [m EXCEPT ![b.sess] = CacheBuffer(@, p, b)]
    ELSE m @@ (b.sess :> CacheBuffer(NewCache, p, b))

\* Mutation: the loop breaks, instead of continuing, at the first buffer
\* of an aborted session, and the rest of the batch is lost.
FileBatchBreak(m, p, q) ==
    LET stop == {i \in DOMAIN q : abort[q[i].sess]}
        n    == IF stop = {} THEN Len(q) ELSE Min(stop) - 1
    IN  FoldLeft(LAMBDA m2, b : FileBuffer(m2, p, b), m, SubSeq(q, 1, n))

\* The loop over one received batch, filing its buffers in order.
FileBatch(m, p, q) == FoldLeft(LAMBDA m2, b : FileBuffer(m2, p, b), m, q)

\* in_port->Recv(buffers, -1) takes everything queued on the port, and the
\* loop over it files every buffer.  The flags it reads can change between
\* two buffers, but an abort that lands mid-batch ends the same way as one
\* just after it, so the batch is one step.
RecvPort ==
    /\ pc = "recv"
    /\ portIdx <= Len(InputPorts)
    /\ LET p == InputPorts[portIdx]
       IN  /\ cache' = FileBatch(cache, p, inq[p])
           /\ inq' = [inq EXCEPT ![p] = <<>>]
           /\ errTaken' = [s \in Sessions |-> errTaken[s] \/
                             (~abort[s] /\ \E i \in DOMAIN inq[p] :
                                              inq[p][i].sess = s /\ inq[p][i].err)]
    /\ portIdx' = portIdx + 1
    /\ UNCHANGED <<sessionVars, sent, pc, todo, cur, holdIO, erased, userVars>>

EndRecv ==
    /\ pc = "recv"
    /\ portIdx > Len(InputPorts)
    /\ pc' = "deliver"
    /\ todo' = DOMAIN cache
    /\ UNCHANGED <<sessionVars, sent, inq, cache, portIdx,  cur, holdIO,
                   erased, errTaken, userVars>>

\* The loop over session_cache_map_ reaches s (the map's order is
\* unspecified): it takes the SessionIO and, if there is one, sets the
\* cache's last error on it.
\* Mutation: the loop keeps its iterator on the session it visits (the
\* erase of line 385 without iter = ...).
VisitSessionKeepIter(s) ==
    /\ pc = "deliver"
    /\ s \in todo
    /\ cur' = s
    /\ holdIO' = ioLive[s]
    /\ userError' = IF ioLive[s]
                    THEN [userError EXCEPT ![s] = GetLastError(cache[s])]
                    ELSE userError
    /\ pc' = "pop"
    /\ UNCHANGED <<sessionVars, sent, inq, cache, portIdx, todo, erased, errTaken,
                   delivered>>

VisitSession(s) ==
    /\ pc = "deliver"
    /\ s \in todo
    /\ todo' = todo \ {s}
    /\ cur' = s
    /\ holdIO' = ioLive[s]
    /\ userError' = IF ioLive[s]
                    THEN [userError EXCEPT ![s] = GetLastError(cache[s])]
                    ELSE userError
    /\ pc' = "pop"
    /\ UNCHANGED <<sessionVars, sent, inq, cache, portIdx,  erased, errTaken,
                   delivered>>

\* One turn of while (PopCache(...) != NODATA) PushGraphOutputBuffer(...).
PopStep ==
    /\ pc = "pop"
    /\ holdIO
    /\ ~CacheEmpty(cache[cur])
    /\ \E f \in FirstStreams(cache[cur]) :
          /\ delivered' = [delivered EXCEPT
                              ![cur] = Append(@, PopOutput(cache[cur], f))]
          /\ cache' = [cache EXCEPT ![cur] = PopRest(@, f)]
    /\ UNCHANGED <<sessionVars, sent, inq, pc, portIdx, todo, cur,
                   holdIO, erased, errTaken, userError>>

\* PopCache returned NODATA (or there was no SessionIO): drop the cache if
\* every port has ended or the session is aborted.
FinishSession ==
    /\ pc = "pop"
    /\ ~holdIO \/ CacheEmpty(cache[cur])
    /\ IF SessionOver(cache[cur], cur)
       THEN /\ cache' = Restrict(cache, DOMAIN cache \ {cur})
            /\ erased' = erased \cup {cur}
       ELSE UNCHANGED <<cache, erased>>
    /\ pc' = "deliver"
    /\ UNCHANGED <<sessionVars, sent, inq, portIdx, todo, cur, holdIO, errTaken,
                   userVars>>

EndRun ==
    /\ pc = "deliver"
    /\ todo = {}
    /\ pc' = "idle"
    /\ UNCHANGED <<sessionVars, sent, inq, cache, portIdx, todo, cur,
                   holdIO, erased, errTaken, userVars>>

NodeStep ==
    \/ RunStart \/ RecvPort \/ EndRecv
    \/ \E s \in Sessions : VisitSession(s)
    \/ PopStep \/ FinishSession \/ EndRun

Init ==
    /\ SessionInit
    /\ sent = [s \in Sessions |-> [p \in Ports |-> 0]]
    /\ inq = [p \in Ports |-> <<>>]
    /\ cache = <<>>
    /\ pc = "idle"
    /\ portIdx = 1
    /\ todo = {}
    /\ cur = CHOOSE s \in Sessions : TRUE
    /\ holdIO = FALSE
    /\ delivered = [s \in Sessions |-> <<>>]
    /\ userError = [s \in Sessions |-> FALSE]
    /\ erased = {}
    /\ errTaken = [s \in Sessions |-> FALSE]

Next ==
    \/ \E s \in Sessions, p \in Ports : Send(s, p)
    \/ SessionNext /\ UNCHANGED <<sent, inq, nodeVars, userVars>>
    \/ NodeStep

\* The scheduler keeps running the node; nothing forces the upstream or the
\* caller to act.
Spec == Init /\ [][Next]_vars /\ WF_vars(NodeStep)

(***************************************************************************)
(* Properties                                                              *)
(***************************************************************************)
TypeOK ==
    /\ SessionTypeOK
    /\ sent \in [Sessions -> [Ports -> Nat]]
    /\ inq \in [Ports -> Seq(Buffers)]
    /\ DOMAIN cache \subseteq Sessions
    /\ \A s \in DOMAIN cache :
          /\ cache[s].portEnd \in [Ports -> BOOLEAN]
          /\ cache[s].lastError \in BOOLEAN
          /\ \A p \in Ports :
                /\ DOMAIN cache[s].streams[p] \subseteq StreamIds
                /\ \A st \in DOMAIN cache[s].streams[p] :
                      cache[s].streams[p][st] \in Seq(Buffers)
    /\ pc \in {"idle", "recv", "deliver", "pop"}
    /\ todo \subseteq DOMAIN cache
    /\ cur \in Sessions
    /\ delivered \in [Sessions -> Seq([Ports -> Seq(Buffers)])]
    /\ userError \in [Sessions -> BOOLEAN]
    /\ erased \subseteq Sessions
    /\ errTaken \in [Sessions -> BOOLEAN]

\* The buffers of s sent on p that the caller is meant to see, in order.
ValidSentOn(s, p) ==
    SelectSeq([i \in 1..sent[s][p] |-> Buf(s, Script[p][i])], IsValid)

\* Everything pushed to s's SessionIO under port p, in push order.
DeliveredOn(s, p) ==
    FlattenSeq([k \in DOMAIN delivered[s] |-> delivered[s][k][p]])

AllSent(s) == \A p \in Ports : sent[s][p] = Len(Script[p])

\* Between Runs, every valid buffer sent for a session that is neither
\* aborted nor abandoned by its caller has been pushed to its SessionIO or
\* still waits in the port: no cache is dropped, and no PopCache loop stops,
\* with such a buffer inside, and the skip of an aborted session's buffers
\* in a received batch loses no other session's.
NoLostOutput ==
    pc = "idle" =>
        \A s \in Sessions, p \in Ports :
            ioLive[s] /\ ~abort[s] =>
                \A i \in DOMAIN ValidSentOn(s, p) :
                    LET b == ValidSentOn(s, p)[i]
                    IN  Contains(DeliveredOn(s, p), b) \/ Contains(inq[p], b)

\* Once the node has dropped a session's cache (all ports ended, or the
\* session aborted), no later buffer creates a new one: a re-created cache
\* would never see the end flags again and would stay in
\* session_cache_map_ for good.
NoCacheResurrection == erased \cap DOMAIN cache = {}

\* A session that is aborted, or whose upstream has sent everything down to
\* the session's end flags, eventually leaves session_cache_map_ for good.
SessionCacheReleased ==
    \A s \in Sessions :
        (abort[s] \/ AllSent(s)) ~> [](s \notin DOMAIN cache)

\* The spec (section 5) and Session::Abort ("abort session imediately"):
\* once a session is aborted, nothing more is delivered to its SessionIO.
NoDeliveryAfterAbort ==
    [][\A s \in Sessions :
          Len(delivered'[s]) > Len(delivered[s]) => ~abort[s]]_vars

\* The spec (section 4.3): PopCache takes the oldest stream of each port,
\* so the caller sees each port's valid buffers in arrival order.
DeliveredInArrivalOrder ==
    \A s \in Sessions, p \in Ports :
        IsPrefix(DeliveredOn(s, p), ValidSentOn(s, p))

\* The spec (sections 3 and 7): an error riding on a buffer reaches the
\* caller through SetLastError.  Between Runs, a session whose caller still
\* holds its SessionIO and one of whose buffers the node cached with an
\* error (data, placeholder or end flag alike) has the error set now: the
\* cache's last_error_ is set before the PopCache loop and never cleared
\* by a later buffer, and no later SetLastError of this node overwrites it.
ErrorReported ==
    pc = "idle" => \A s \in Sessions : ioLive[s] /\ errTaken[s] => userError[s]

\* Refinement mapping: the valid buffers of s and stream st in flight on
\* p, oldest first: those cached in s's SessionUnmatchCache, then those
\* still queued on the port.
InFlightOn(s, p, st) ==
    LET mine(b) == b.sess = s /\ b.idx.stream = st /\ IsValid(b)
        cached  == IF s \in DOMAIN cache /\ st \in DOMAIN cache[s].streams[p]
                   THEN cache[s].streams[p][st] ELSE <<>>
    IN  SelectSeq(cached, mine) \o SelectSeq(inq[p], mine)

InFlight == [s \in Sessions |-> [p \in Ports |-> [st \in StreamIds |->
                InFlightOn(s, p, st)]]]

UC == INSTANCE UnmatchChannel WITH
        chan <- InFlight,
        got  <- [s \in Sessions |-> [p \in Ports |-> DeliveredOn(s, p)]]

\* The node implements UnmatchChannel: every group it pushes takes, on each
\* port, the oldest buffers in flight of one stream, whatever order the
\* cache map and port_streams hand them out in; only an aborted or
\* abandoned session loses buffers; and a live session with buffers in
\* flight is eventually served.
ImplementsUnmatchChannel == UC!Spec
=============================================================================
