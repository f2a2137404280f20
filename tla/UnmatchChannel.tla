--------------------------- MODULE UnmatchChannel ---------------------------
(***************************************************************************)
(* What an OutputUnmatchVirtualNode promises the caller (spec 4.3, 5 and   *)
(* 8): per session, port and stream, a FIFO channel from the upstream to   *)
(* the SessionIO.  Unlike SessionChannel, streams of one port are not      *)
(* ordered against each other.  Each delivery is one group that, on each   *)
(* port, takes the oldest buffers of one stream.  End flags and            *)
(* placeholders never come out.  A session that is aborted or whose caller *)
(* let go may lose any of what is in flight; a live one is eventually      *)
(* served.                                                                 *)
(***************************************************************************)
EXTENDS Session, Naturals, Sequences, SequencesExt, FiniteSetsExt

CONSTANTS
    InputPorts,    \* the node's input ports, in vector order
    Script,        \* Script[p]: what the upstream sends on p for each session
    NoIndex        \* InheritFrom of a depth-0 IndexInfo

Ports == ToSet(InputPorts)

Buf(s, t) == [sess |-> s, id |-> t.id, err |-> t.err, idx |-> t.idx]

Templates == UNION {ToSet(Script[p]) : p \in Ports}
StreamIds == {t.idx.stream : t \in Templates}

RECURSIVE RootIndex(_)
RootIndex(idx) == IF idx.depth = 0 THEN idx ELSE RootIndex(idx.from)

IsValid(b) == ~b.idx.end /\ ~b.idx.placeholder

VARIABLES
    sent,   \* sent[s][p]: how much of Script[p] the upstream has sent for s
    chan,   \* chan[s][p][st]: the valid buffers of stream st in flight
    got     \* got[s][p]: what the caller's SessionIO received on p

vars == <<sessionVars, sent, chan, got>>

\* The upstream sends the next buffer; those descended from the session's
\* closing end flag only once the caller has closed the session.
Push(s, p) ==
    /\ sent[s][p] < Len(Script[p])
    /\ LET b == Buf(s, Script[p][sent[s][p] + 1])
       IN  /\ RootIndex(b.idx).end => closed[s]
           /\ chan' = IF IsValid(b)
                      THEN [chan EXCEPT ![s][p][b.idx.stream] = Append(@, b)]
                      ELSE chan
    /\ sent' = [sent EXCEPT ![s][p] = @ + 1]
    /\ UNCHANGED <<sessionVars, got>>

\* A bound on any channel's length: the valid buffers of one stream that the
\* upstream can send on a port.
MaxLen == Max({Len(SelectSeq(Script[p], LAMBDA t : t.idx.stream = x /\ IsValid(t))) :
                  p \in Ports, x \in StreamIds})

\* One group reaches s's caller: on each port, the n[p] oldest buffers of
\* the stream st[p].
Deliver(s) ==
    \E st \in [Ports -> StreamIds], n \in [Ports -> 0..MaxLen] :
        /\ \A p \in Ports : n[p] <= Len(chan[s][p][st[p]])
        /\ \E p \in Ports : n[p] > 0
        /\ got' = [got EXCEPT ![s] =
                     [p \in Ports |-> @[p] \o SubSeq(chan[s][p][st[p]], 1, n[p])]]
        /\ chan' = [chan EXCEPT ![s] =
                     [p \in Ports |-> [x \in StreamIds |->
                        IF x = st[p]
                        THEN SubSeq(chan[s][p][x], n[p] + 1, Len(chan[s][p][x]))
                        ELSE chan[s][p][x]]]]
        /\ UNCHANGED <<sessionVars, sent>>

\* The valid buffers in flight for sessions that are aborted or abandoned.
Droppable ==
    {b \in UNION {ToSet(chan[s][p][x]) : s \in Sessions, p \in Ports, x \in StreamIds} :
        abort[b.sess] \/ ~ioLive[b.sess]}

\* Any of them are discarded, from anywhere in their streams.
Drop ==
    \E D \in SUBSET Droppable :
        /\ D # {}
        /\ chan' = [s \in Sessions |-> [p \in Ports |-> [x \in StreamIds |->
                      SelectSeq(chan[s][p][x], LAMBDA b : b \notin D)]]]
        /\ UNCHANGED <<sessionVars, sent, got>>

\* Delivery the caller can count on: to a session still live.
ServeLive(s) == ~abort[s] /\ ioLive[s] /\ Deliver(s)

Init ==
    /\ SessionInit
    /\ sent = [s \in Sessions |-> [p \in Ports |-> 0]]
    /\ chan = [s \in Sessions |-> [p \in Ports |-> [x \in StreamIds |-> <<>>]]]
    /\ got  = [s \in Sessions |-> [p \in Ports |-> <<>>]]

Next ==
    \/ \E s \in Sessions, p \in Ports : Push(s, p)
    \/ \E s \in Sessions : Deliver(s)
    \/ Drop
    \/ SessionNext /\ UNCHANGED <<sent, chan, got>>

Spec == Init /\ [][Next]_vars /\ \A s \in Sessions : WF_vars(ServeLive(s))
=============================================================================
