--------------------------- MODULE SessionChannel ---------------------------
(***************************************************************************)
(* What a graph of an InputVirtualNode wired to an OutputVirtualNode       *)
(* promises the caller (spec 2, 4.1, 4.2 and 5): per session and port, a   *)
(* FIFO channel from ExternalDataMap::Send to the SessionIO.  End flags    *)
(* and placeholders never come out; the valid buffers come out in the      *)
(* order they went in, in groups (one PushGraphOutputBuffer per match      *)
(* stream).  A session that is aborted or whose caller let go may lose     *)
(* what is in flight; a live one is eventually served.                    *)
(***************************************************************************)
EXTENDS Session, Naturals, Sequences, SequencesExt, FiniteSetsExt

CONSTANTS
    InputPorts,    \* the graph's port names, in vector order
    Script         \* Script[p]: what the caller sends on p for each session

Ports == ToSet(InputPorts)

Buf(s, t) == [sess |-> s, id |-> t.id, err |-> t.err, idx |-> t.idx]

IsValid(b) == ~b.idx.end /\ ~b.idx.placeholder

VARIABLES
    sent,   \* sent[s][p]: how much of Script[p] the caller has sent for s
    chan,   \* chan[s][p]: the valid buffers in flight, oldest first
    got     \* got[s][p]: what the caller's SessionIO received on p

vars == <<sessionVars, sent, chan, got>>

\* ExternalDataMap::Send of the next buffer while the caller holds its
\* SessionIO: data only before Close, the session's end flag only after it.
Push(s, p) ==
    /\ ioLive[s]
    /\ sent[s][p] < Len(Script[p])
    /\ LET b == Buf(s, Script[p][sent[s][p] + 1])
       IN  /\ b.idx.end <=> closed[s]
           /\ chan' = IF IsValid(b)
                      THEN [chan EXCEPT ![s][p] = Append(@, b)]
                      ELSE chan
    /\ sent' = [sent EXCEPT ![s][p] = @ + 1]
    /\ UNCHANGED <<sessionVars, got>>

\* A bound on any channel's length: what the caller can send on a port.
MaxLen == Max({Len(Script[p]) : p \in Ports})

\* What remains of chan[s][p] once its n oldest buffers are gone.
After(s, p, n) == SubSeq(chan[s][p], n + 1, Len(chan[s][p]))

\* One group reaches the caller: a prefix of each port's channel.
Deliver(s) ==
    \E n \in [Ports -> 0..MaxLen] :
        /\ \A p \in Ports : n[p] <= Len(chan[s][p])
        /\ \E p \in Ports : n[p] > 0
        /\ got' = [got EXCEPT ![s] =
                     [p \in Ports |-> @[p] \o SubSeq(chan[s][p], 1, n[p])]]
        /\ chan' = [chan EXCEPT ![s] = [p \in Ports |-> After(s, p, n[p])]]
        /\ UNCHANGED <<sessionVars, sent>>

\* The oldest buffers in flight of sessions that are aborted or abandoned
\* are discarded, several sessions' in one step.
Drop ==
    \E n \in [Sessions \X Ports -> 0..MaxLen] :
        /\ \A s \in Sessions, p \in Ports :
              /\ n[s, p] <= Len(chan[s][p])
              /\ n[s, p] > 0 => abort[s] \/ ~ioLive[s]
        /\ \E s \in Sessions, p \in Ports : n[s, p] > 0
        /\ chan' = [s \in Sessions |-> [p \in Ports |-> After(s, p, n[s, p])]]
        /\ UNCHANGED <<sessionVars, sent, got>>

\* Delivery the caller can count on: to a session still live.
ServeLive(s) == ~abort[s] /\ ioLive[s] /\ Deliver(s)

Init ==
    /\ SessionInit
    /\ sent = [s \in Sessions |-> [p \in Ports |-> 0]]
    /\ chan = [s \in Sessions |-> [p \in Ports |-> <<>>]]
    /\ got  = [s \in Sessions |-> [p \in Ports |-> <<>>]]

Next ==
    \/ \E s \in Sessions, p \in Ports : Push(s, p)
    \/ \E s \in Sessions : Deliver(s)
    \/ Drop
    \/ SessionNext /\ UNCHANGED <<sent, chan, got>>

Spec == Init /\ [][Next]_vars /\ \A s \in Sessions : WF_vars(ServeLive(s))
=============================================================================
