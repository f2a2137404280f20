# TLA+ models of the modelbox virtual nodes, sessions and graph checker

This directory holds TLA+ models of the parts of modelbox in this repository,
with TLC configurations that check them. The repository contains
`engine/virtual_node.cc`, two headers (`session.h`,
`external_data_simple.h`) and the unit tests of the graph checker
(`graph_checker_test.cc`). `spec.md` describes the wider engine.

## 1. Inventory

### Components

| Component | Source | State it keeps | Operations |
|---|---|---|---|
| Session | `session.h` | `closed_`, `abort_` (atomics), weak `io_handle_` to the caller's SessionIO, `error_` | `Close`, `Abort`, `SetSessionIO`, `GetSessionIO`, `SetError` |
| SessionManager | `session.h` (declaration only) | mutex-guarded map id → weak session | `CreateSession`, `DeleteSession`, `GetSessions` |
| InputVirtualNode | `virtual_node.cc:25-99` | `extern_ports_` (one in-port per output port, capacity `queue_size_external`), output ports | `Init`, `Open`, `GetDevice`, `Run` (drain every extern port, send the batch on the output port of the same name) |
| OutputVirtualNode | `virtual_node.cc:101-235` | input ports, an `InputMatchStreamManager` (in order, not gather-all) | `Init`, `EraseInvalidData`, `Run` (match, skip aborted or abandoned sessions, filter end flags and placeholders, push, set last error) |
| SessionUnmatchCache | `virtual_node.cc:237-324` | per port: map stream → buffers; per port: end flag; last error | `CacheBuffer`, `PopCache`, `AllPortStreamEnd`, `GetLastError` |
| OutputUnmatchVirtualNode | `virtual_node.cc:326-407` | map session → SessionUnmatchCache | `Run` (drain all ports into caches, deliver every cache, drop ended or aborted ones) |
| InputMatchStreamManager | not in the repository (spec 4.4) | per-port buffered data per sub-stream | `GenInputMatchStreamData` |
| GraphChecker and match nodes | not in the repository; tests in `graph_checker_test.cc` | none (a pure check over the graph) | `Build` → `OK` / `BADCONF`; `GetMatchNode` |
| ExternalDataSimple | `external_data_simple.h` (declaration only) | per-port queue of results | `PushData`, `GetResult`, `Close` |

### How they interact

The caller's thread owns the SessionIO (an `ExternalDataMap`) and pushes
buffers into the InputVirtualNode's extern ports. The scheduler runs each
node's `Run` on a worker pool, so the virtual nodes run concurrently with
the caller and with the upstream nodes that append to their input ports.
The only state shared across threads is the ports (multi-producer FIFOs)
and the Session: the caller sets `abort_` and `closed_` and can drop its
SessionIO at any time, which the nodes see as `GetSessionIO() == nullptr`.
The output nodes call back into the SessionIO (`PushGraphOutputBuffer`,
`SetLastError`). Each buffer carries its lineage (an IndexInfo: stream,
end flag, placeholder flag, depth and the IndexInfo it inherits from).

### What is hard

* Every `Run` reads the session flags and the SessionIO at one point and
  acts on them later, while the caller can abort, close or let go in
  between (state read before use, check-then-act).
* Session-level end is detected from lineage: an end flag whose depth-0
  ancestor is itself an end flag. A child stream's end inheriting from a
  data buffer must not end the port.
* The unmatched-output cache keeps streams in a map keyed by
  `shared_ptr<Stream>`; which stream `PopCache` takes first is the map's
  order, not arrival order.
* A cache is freed only when every port has ended or the session is
  aborted; anything that makes a port's end flag go missing, or creates a
  cache after it was freed, keeps it forever.
* `EraseInvalidData` drops port heads of sessions whose caller has gone,
  port by port, while the caller can let go between two ports.
* Errors ride on buffers and are reduced to one `SetLastError` per
  delivery; the two output nodes reduce differently (the unmatch cache
  counts errors on end flags and placeholders, the matched output does not).

### Properties that make each component correct

* OutputUnmatchVirtualNode: each stream's data reaches the caller once, in
  order; nothing of a live session is lost; a freed cache is never
  re-created; every ended or aborted session's cache is eventually freed;
  nothing is delivered after an abort (spec 5); each port's data in
  arrival order (spec 4.3); every error it cached for a session the caller
  holds stays set on the SessionIO.
* OutputVirtualNode: data of a live session is delivered once and in
  arrival order per port, never an end flag or placeholder; a live head
  is never erased; every error a delivered group carries is reported.
* InputVirtualNode + OutputVirtualNode: what the caller sends at depth 0
  comes back in order (a per-session FIFO channel).
* GraphChecker: accepts exactly the test graphs the unit tests expect to
  pass, and every accepted graph has a unique match node per node.

## 2. Plan

Modules, in the order they are written (most important behaviour first):

1. `Session.tla` — the session flags and the caller's handle, extended by
   every node module. **Done.**
2. `OutputUnmatch.tla` + `MCOutputUnmatch.tla` — SessionUnmatchCache and
   OutputUnmatchVirtualNode::Run against concurrent senders and caller.
   **Done (sitting 1).**
3. `MatchOutput.tla` — OutputVirtualNode: `EraseInvalidData`, `Run`, over
   an abstract InputMatchStreamManager (spec-modelled: at an output node
   every buffer is at depth 0, so one match stream per session). Runs:
   ordering/completeness (pass), error reporting of end flags and
   placeholders (violation expected), abort window (violation expected).
   **Done (sitting 1).**
4. `Pipeline.tla` — InputVirtualNode composed with OutputVirtualNode, and
   `SessionChannel.tla`, an abstract per-session FIFO; the pipeline is
   shown to implement it with `INSTANCE SessionChannel WITH ...` checked
   as a PROPERTY. **Done (sitting 1).**
5. `GraphChecker.tla` — the static rules of spec 4.6 and the match-node
   assignment of 4.5 as (RECURSIVE) operators over a graph; an MC module
   holding every graph of `graph_checker_test.cc` with its expected status
   checks that the operators agree with the tests, and the GetSetMatchNode
   expectations. **Done (sitting 1)**, as a state machine that visits the
   nodes in every topological order.
6. A two-session run of OutputUnmatch with shorter scripts, to cover the
   order in which `session_cache_map_` is walked. **Done (sitting 1)**: `unmatch_sessions`.
7. Error reporting of the OutputUnmatchVirtualNode (`GetLastError`, the
   sticky `last_error_`), against the OutputVirtualNode's per-group
   reduction. **Done (sitting 2)**: `ErrorReported` in `unmatch_sessions`.

## 3. Modules and runs

### Session.tla

State: `closed`, `abort` (the atomics), `ioLive` (whether the weak
`io_handle_` still resolves). Actions: `Close`, `Abort`, `ReleaseIO` (the
caller drops its SessionIO; it never comes back). The bodies of
`Session::Close` and `Abort` are not in the repository; they follow the
header comments.

### OutputUnmatch.tla (OutputUnmatchVirtualNode, SessionUnmatchCache)

State: the upstream's progress `sent`, the input port queues `inq`,
`cache` (session_cache_map_; each cache is `streams[p]` = port_streams_map_,
`portEnd` = port_end_flag_map_, `lastError`), the node's program counter
and loop variables, and what the caller observed (`delivered`,
`userError`). `erased` (dropped caches) and `errTaken` (the node cached
an errored buffer of the session) are history variables: no action reads them.

`Run` is split where other threads can act between its statements:
`RunStart`; `RecvPort` (Recv(-1) of one port and the filing loop; an abort
landing inside the batch ends the same as one just after it);
`EndRecv`; `VisitSession` (takes the SessionIO, sets the last error);
`PopStep` (one PopCache and push); `FinishSession` (the erase check of
line 382); `EndRun`. `FirstStreams` is the nondeterministic
`port_streams.begin()`. The upstream (`Send`, spec-modelled) sends a fixed
script per port; buffers descended from the session's end flag only
after `Close`.

MCOutputUnmatch: one session, ports `p1` (depth-0 stream: errored data,
placeholder, data, end flag) and `p2` (behind an expand: child `c1` with
data and its end inheriting from a data buffer, child `c2` whose end
inherits from the session's end flag). These cover a child end that must
not end the port, a session-level end reached only through lineage, two
streams on one port, filtering of placeholders and end flags, and errors.
One session keeps that run near two minutes. Sessions share the node's
ports (one `Recv` batch mixes them) and the walk of the cache map.
`unmatch_sessions` runs two sessions (symmetric) over a short script: on
`p1` an errored data buffer and the end flag, on `p2` the closing child
end. A `break` in place of the `continue` that skips an aborted session's
buffer (line 353) loses the rest of the batch.
`ErrorReported` says that, between Runs, a session whose caller still holds
the SessionIO has an error set if the node ever cached an errored buffer
of it. Unlike the OutputVirtualNode (`match_error_report`), this node reads
the error in `CacheBuffer` (line 246), before any filtering. So an errored
end flag or placeholder is reported too. `last_error_` is never cleared, so
a later `SetLastError` (line 376) with an error-free group cannot overwrite
it. Setting `last_error_` from every buffer, without the `HasError` test,
breaks it: in the short script the errored data buffer is followed by the
clean end flag in the same cache. With one session that
changes nothing, since the rest of the batch is skipped anyway. With two
it loses the other session's output, and `NoLostOutput` catches it.

`UnmatchChannel` is what the node promises its caller: per session, port
and stream a FIFO `chan` of the valid buffers in flight. `Push` is the
upstream's send. `Deliver(s)` is one group: on each port, the oldest
buffers of one stream. `Drop` is any in-flight buffers of aborted or
abandoned sessions, from anywhere in their streams, because `FileBuffer`
skips an aborted session's queued buffers while its cached ones stay.
Weak fairness is on delivery to live sessions. The refinement mapping
`InFlightOn(s, p, st)` is the cached bucket of `st`, then the port's
queue, both filtered to the valid buffers of `s` and `st`. `got` is what
was pushed to the SessionIO. `unmatch_safety` checks `UC!Spec` on the
one-session script, liveness included: per-stream order, no loss for a
live session and eventual delivery all follow from it. `MaxLen`, the
abstract bound on a channel, is the most valid buffers of one stream the
script has on a port, which is what a channel can hold. Order across the streams of one port is not
promised (see `unmatch_stream_order`).

| Run | Properties | Result |
|---|---|---|
| `unmatch_safety` | `TypeOK`, `NoCacheResurrection`, `SessionCacheReleased`, `ImplementsUnmatchChannel` | pass (168,517 states, about 2 min) |
| `unmatch_sessions` | `NoLostOutput`, `ErrorReported` | pass (921,309 states, about 25 s) |
| `unmatch_abort_delivery` | `NoDeliveryAfterAbort` | violation: data cached before the abort is pushed after it |
| `unmatch_stream_order` | `DeliveredInArrivalOrder` (script with two data child streams) | violation: map order, not arrival order |

### MatchOutput.tla (OutputVirtualNode)

State: `sent` and `inq` as above; the node's `pc`, the port `portIdx`
that `EraseInvalidData` is at, `pend` (the match streams of this Run that
are not yet handled, session → port → buffers) and `cur` (the one being
pushed); what the caller observed (`delivered`, concatenated per port,
`userError`); and two history variables, `errTaken` (the node took a
buffer of the session that carried an error) and `errorSet` (`SetLastError`
was ever called with an error).

Actions: `RunStart`; `ErasePort` (lines 137-148 for one port: the run of
heads whose SessionIO is gone is popped; releasing a SessionIO between
two ports is an interleaving); `GenMatchStreamData` (the manager, by its
contract: `SessionData(s)` per session present, each port in arrival
order; the buffer-count-0 skip is the absence of a stream);
`VisitMatchStream(s)` (lines 166-189: skipped when `SkipSession`, else
taken for the push; the list's order is any order); `PushMatchStream`
(lines 190-215: filter, push, `SetLastError`); `EndRun`.

MCMatchOutput: sessions `s1`, `s2` with the same script; port `p1` an
errored placeholder and the end flag, `p2` two data buffers. Two sessions
let a released session's heads sit in front of a live one's, and two data
buffers on a port make order observable. The sessions are interchangeable,
so the safety run uses symmetry; the violation runs use `s1` alone. The
node's liveness (every live session's output is eventually pushed) is
checked through `pipeline_refinement`, where this module is the output
node and `SessionChannel`'s fairness is part of the property.

| Run | Properties | Result |
|---|---|---|
| `match_safety` | `TypeOK`, `DeliveredInArrivalOrder`, `NoLostOutput` | pass (1,672,730 states, about 70 s) |
| `match_error_report` | `ErrorReported` | violation: an error on a placeholder or end flag is filtered out with the buffer and never reaches `SetLastError` |
| `match_abort_delivery` | `NoDeliveryAfterAbort` | violation: an abort between the check at line 175 and the push at line 214 is not seen |

### SessionChannel.tla and Pipeline.tla (InputVirtualNode, the graph input -> output)

`SessionChannel` is what the smallest graph promises its caller: per
session and port a FIFO `chan` of the valid buffers in flight and what
the caller `got`. `Push` (ExternalDataMap::Send: data before `Close`, the
end flag after it, only while the caller holds its SessionIO; end flags
and placeholders do not enter the channel), `Deliver(s)` (a prefix of
each port's channel, one group), `Drop` (oldest buffers of aborted or
abandoned sessions). Weak fairness on `ServeLive(s)`: delivery to a
session neither aborted nor abandoned.

`Pipeline` composes the caller (`Push` into the extern ports `extq`), the
InputVirtualNode (`InRunStart`, `InRecvPort`: Recv(-1) of one extern port
into `icache` = ports_data_cache, `InSendPort`: the batch onto the output
port, which is the OutputVirtualNode's input port of the same name) and
the OutputVirtualNode, taken as `MO == INSTANCE MatchOutput` over the
same variables (`OutStep == MO!NodeStep`). The refinement mapping
`InFlight[s][p]` is the valid buffers of `s`, oldest first, in the match
stream the output node holds, its input port, the input node's batch and
the extern port; `got` is `delivered`.

MCPipeline: `pipeline_refinement` has one session, ports `p1` (two data
buffers) and `p2` (an errored data buffer, then the end flag) and checks
`SC!Spec`, liveness included. The abstract actions are evaluated through
the mapping on every step, which is too slow with two sessions, so
`pipeline_sessions` uses two sessions (symmetric) on one port (two data
buffers and the end flag) and checks `ChannelIntact`: the same content
statement as a state invariant (prefix delivered, suffix in flight,
nothing lost while live).

| Run | Properties | Result |
|---|---|---|
| `pipeline_refinement` | `ImplementsSessionChannel` | pass (46,284 states) |
| `pipeline_sessions` | `ChannelIntact` | pass (1,160,551 states, about 90 s) |
| `pipeline_blocking_recv` | `ImplementsSessionChannel` under `SpecBlocking` | violation: see below |

Finding (`pipeline_blocking_recv`): spec 9 leaves open whether
`Port::Recv(.., -1)` polls or blocks forever. `SpecBlocking` reads it as
blocking: `InRecvPortBlocking` waits for data on the current extern port.
The counterexample has the caller send both of its `p2` buffers and close
the session without sending on `p1`. The Run then waits on `p1` forever,
and `p2`'s data buffer never reaches the SessionIO. The InputVirtualNode is
correct only if `-1` polls, as spec 5 says. The cfg turns off deadlock
checking, because the Run waiting forever is the case being studied.

### GraphChecker.tla (the static check of Graph::Build, and match nodes)

The checker is not in the repository, so `GraphChecker` models the
algorithm of spec 4.6, and the tests of `graph_checker_test.cc` are what it
is checked against. The state is the graph `g` being built (one of
`Cases`), `inStack` (the hierarchy stack of each node visited so far) and
`verdict`. A stack holds tokens `<<opener, tag>>`: a condition pushes
`<<c, port>>` on each output port, an expand pushes `<<x, "expand">>`, a
collapse pops (its top must be an expand's), a loop pushes
`<<l, "loop">>` on its first output port (its body), and other nodes pass
the stack through. Edges into a loop from its own descendants are back
edges and do not count for the order.

* `Visit(n)`: any ready node, so every topological order is explored. An
  input port fed by several edges is accepted only as the endif of one
  condition (`IsEndif`: one edge per branch, over one stack), and gets
  the condition's outer stack. All linked ports must agree. An output
  virtual node must be at depth 0. The first violation sets `BADCONF`.
* `Finish`: all nodes visited, and every back edge returns at its loop's
  body level; else `BADCONF`.
* `RejectCycle`: nothing is ready, so there is a cycle that is not through a
  loop node (spec 4.6: "cycles permitted only via declared loop nodes").
* `SpecMatchNode`: the match-node table of spec 4.5 as a RECURSIVE
  operator.

`GraphCheckerTests` transcribes the mock flowunits of
`GraphCheckerTest::SetUp` (ports and kind; the flow type and
`StreamSameCount` are read by no rule) and the 41 test graphs with the
status each expects. `MCGraphChecker` adds one graph that no test builds:
a cycle without a loop node.

| Run | Properties | Result |
|---|---|---|
| `graph_checker_tests` | `VerdictAsTested`: every graph gets the tested status in every visiting order | pass (322 states) |
| `match_node_table` | `MatchNodeAsTested` | violation: see below |

Finding (`match_node_table`): GetSetMatchNode (`a -> expand b -> condition
c => d -> collapse e -> f`) expects `e` to have match node `b` and `f` to
have none. By the table a collapse takes `MatchNode(OpenerOf)`, which is
null for the expand `b`. If the collapse took its opener instead, `f`
(whose single predecessor is `e`) would get `b`. The table says what
`d` gets (`c`) but no reading of it gives both `e` and `f`.

Fairness (all node modules): weak fairness on the node's steps only. The scheduler keeps
running a node (spec 2: the virtual nodes run on every tick); nothing
obliges the upstream or the caller to act, so `SessionCacheReleased` is
stated from the point where the session is aborted or everything is sent.
In `Pipeline` each virtual node has its own weak fairness, because the
scheduler runs both. `GraphChecker` is checked for safety only. Build
always ends, but that follows from the graphs being finite.

## 4. Not modelled

The repository holds `virtual_node.cc` and two headers. Everything in
`virtual_node.cc` that changes state is an action of a module. What is
left is either stateless or has no body to translate:

* SessionManager (`session.h:85-101`): only the declaration. Spec 5 and 9
  say that `sessions_` is a mutex-guarded map of weak pointers and that
  `GetSessions()` filters expired entries. A model would be a locked map
  whose properties restate those two sentences. It would also need a rule
  for who holds a Session's strong references, and the repository does
  not say. No virtual node calls it.
* ExternalDataSimple (`external_data_simple.h`): only the declaration. Its
  `GetResult` over a per-port `std::queue` and an `ExternalDataMap` has
  no body, and the spec does not describe it.
* Session's `SetError`/`GetError` and `SessionContext`: no bodies, and
  no virtual node reads them. Session's flags and caller handle are
  modelled (`Session.tla`).
* `GetDevice` (three copies) and `Open`: `GetDevice` is a device lookup
  with logging. `Open` returns OK. Neither keeps state in this code.
  `DeviceManager::CreateDevice` is not in the repository.
* InputMatchStreamManager beyond its depth-0 contract (sub-stream
  matching, gather-all): not in the repository.
* Port capacities and `Port::Send`'s status: the virtual nodes use
  `queue_size_ = -1` (unbounded). The extern ports' `queue_size_external`
  is configuration read through `GetUint64`. Its default of -1 is the
  usual "unbounded" value. So a rejected `Send` (line 96) cannot happen
  in the model, and that hazard has no property. A bounded downstream
  port (spec line 205) could reject it, but Port is not in the repository.
* The matched output node's `SetLastError(nullptr)` after an error-free
  group (line 215): spec 7 describes this per-group reduction as the
  design. Nothing in the repository states a promise it breaks.

Instance sizes: `SessionChannel`'s refinement is checked with one
session. The same refinement with two sessions on one port (safety only,
under symmetry) takes about 11 minutes (1,160,551 states). So
`pipeline_sessions` checks the same content as the invariant
`ChannelIntact`, in about 90 s.
