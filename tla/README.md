# Verification of mytelnet

mytelnet downloads a file over HTTP with a TCP of its own: it builds Ethernet,
IPv4 and TCP headers itself and sends and receives frames through libpcap. This
directory holds TLA+ models of the program, configurations that check them with
TLC, and proofs checked by TLAPS. Line numbers refer to `src/`.

## Inventory

| Component | State | Operations | Talks to |
|---|---|---|---|
| **TCP connection** (`tcp_stack.cpp:378-839`, `943-1053`) | `current_connection_` (state, ports, `seq_num`, `ack_num`), `data_queue_`, both under `mutex_` | `connect`, `wait_for_connection`, `send_data`, `wait_for_data`, `close_connection`; `process_packet` | application thread calls the first five; the capture thread calls `process_packet`; both inject frames |
| **Life of a TcpStack** (`53-145`, `232-376`) | `pcap_handle_`, `should_stop_`, the capture thread | constructor, `initialize`, the capture loop, `~TcpStack` | polls libpcap; calls `process_packet` |
| **HttpClient** (`http_client.cpp:1-131`) | `response_buffer_`, `current_callback_`, the output file | `get`, `download_file`, `close`, `~HttpClient` | calls TcpStack in a fixed order |
| **HTTP parser / builder** (`http_client.cpp:133-228`) | none | `parse_http_response`, `build_http_request` | called by `get` |
| **main** (`mytelnet.cpp`) | host, port, path, interface | argument parsing, the local file's name, `initialize`, `download_file`, `close` | HttpClient |
| **Parsers** (`ethernet_parser`, `ipv4_parser`, `tcp_parser`) | none | field extraction, IP checksum test | the capture loop |
| **Header builders, checksums** (`tcp_stack.cpp:841-941`, `ipv4_parser.h`, `tcp_parser.h`) | the static IP identifier | `build_*_header`, `calculate_*_checksum` | `send_tcp_packet` |
| **Packet, ProtocolLayer** | a list of layers, per frame | `add_layer`, `find_layer` | the capture loop |
| **Interface discovery** (`147-230`, `mytelnet.cpp:1-52`) | MAC and IP addresses | `get_local_mac_and_ip`, `get_gateway_mac` | libpcap, at start only |
| **Server and network** (external) | a TCP and an HTTP server | RFC 793 reception, response, retransmission; loss, duplication, reordering | the wire |

What is hard here:

- **Two threads, one connection.** The application thread retransmits SYNs, sends
  data and closes; the capture thread acknowledges, answers FINs and changes the
  state. Both send segments, both advance `seq_num`, either may send the FIN.
- **Check, then wait.** Both waits release `mutex_` between looking at the shared
  state and looking at the clock; a packet may arrive in between.
- **Partial failure.** Any `pcap_inject` may fail; some callers undo or skip what
  follows, some do not look. A pcap error stops the capture thread silently.
- **A permissive receiver.** Sequence and acknowledgement numbers of what arrives
  are not compared with anything; PSH decides whether data is taken; SYN+ACKs from
  other ports and RSTs from other hosts match the connection.
- **Shutdown.** The connection is closed up to four times (`get`, `main`,
  `~HttpClient`, `~TcpStack`), then the thread is stopped, joined, and only then
  the handle closed.
- **Wrap-around** of 32-bit sequence numbers, of the 16-bit IP identifier and of
  one's complement sums, and a network that loses, duplicates and reorders.
- **Pieces.** The response arrives cut anywhere, `get` parses everything received so
  far again with each piece, and has to say when there is enough. Frames arrive with
  padding and options, and lengths in three headers say what is data.

What makes each part correct: for the *connection*, that the segments sent form one
well-formed, gap-free TCP conversation, that the state says truthfully what was
sent, accepted and reported, that it only moves forward, and that the queue hands
on what was accepted, in order; for the *stack's life*, that the handle is never
polled after it was closed and that destruction ends; for the *program*, that it
ends whatever happens, leaves no connection open, agrees with the server on
sequence numbers, delivers the response in order and, on a good link, succeeds; for
*HttpClient and main*, that what is reported and saved is what the server sent,
wherever it was cut and whichever call fails; for *frames*, that a receiver accepts
what is injected and that `process_packet` gets what was sent. The full list of hazards, each at its line with the properties aimed at it, is
`hazards` in `PROJECT.json`.

## Modules

| Module | Built on | Instance for TLC, proofs |
|---|---|---|
| TcpSegment | | |
| TcpStack | TcpSegment | proofs in TcpStackProofs |
| TcpService | | |
| TcpStackService | TcpStack; refines TcpService | MCTcpStack |
| CaptureThread | | CaptureThread itself; proofs in MyTelnetProofs |
| HttpMessage, CommandLine, HttpClient | each on the one before | proofs in HttpProofs |
| HttpOverTcp | HttpClient over TcpService | MCHttp; proofs in HttpOverTcpProofs |
| TcpServer | TcpSegment | |
| MyTelnet | HttpClient over TcpStack, CaptureThread, TcpServer | proofs in MyTelnetProofs, MyTelnetDelivery |
| MyTelnetOverTcp | MyTelnet, TcpStackService; refines HttpOverTcp | MCMyTelnet; proofs in MyTelnetRefinement |
| FrameBytes, FrameLink | the second on the first | MCFrame; proofs in FrameProofs |

**TcpSegment**: a TCP segment as the stack sees it, 32-bit addition (`Plus`, modulo
`SeqMod`), the sequence numbers a segment takes (`Consumed`).

**TcpStack**: the class. Every public operation holds `mutex_` for one critical
section, so one critical section is one action. A wait is a small loop of actions:

| Code | Actions |
|---|---|
| `connect` | `Connect`; `ConnectFilterFails` for the early return |
| `wait_for_connection` | `WaitForConnection`, then `ConnectionEstablished` / `ConnectionPending` / `RetransmitSyn` under the lock, `KeepWaitingForConnection` / `ConnectionTimeout` outside it |
| `send_data` | `SendData` |
| `wait_for_data` | `WaitForData`, `TakeData` / `NoDataYet` under the lock, `KeepWaitingForData` / `DataTimeout` outside it |
| `close_connection` | `CloseConnection`, its three cases as disjuncts |
| `process_packet` | one action per branch, and `PacketIgnored` |
| `send_tcp_packet` | `AfterSend`, `WireAfter`: part of every action that sends, with a failing injection as an alternative |

`call` is where the application thread is inside TcpStack. The history variables
`tx`, `rx` and `events` record what was injected, accepted and reported since the
last `connect`; no guard reads them. Callbacks are recorded as events: the
repository registers none. `remote_seq_num`, `window_size`, `last_activity` and the
two unused buffers are left out because nothing reads them back.

**CaptureThread**: `initialize`, the rounds of `capture_thread_func` and
`~TcpStack`. `should_stop_` is a plain `bool` written by two threads; the loop
makes an external call between two reads, so a read sees the old or the new value.

**TcpServer** (external): the peer. It checks sequence and acknowledgement numbers
as a TCP must, answers one request in segments that end at `SegmentEnds`, and
closes. There are no RSTs from the client's kernel, as the README of the program has
the user drop them.

**TcpService**: what TcpStack promises the code above it, in seven steps: a
connection opens, is open, closes and is closed; chunks are queued while it is open
and taken from the front; each callback comes with the change it reports.
**TcpStackService** maps TcpStack to it (`PhaseOf` of the state, `data_queue`,
`events`).

**HttpMessage**: `parse_http_response` and `build_http_request` as functions on
sequences of characters. The characters the parser looks for (CR, LF, blank, colon,
slash) are themselves; a word it never looks into, such as a numeral, a version or a
name, is one character. `std::stoi` yields a number or throws.

**CommandLine**: the pass of `main` over its arguments as a recursive function, with `stoi` and the
cast to 16 bits for the port, and the name of the local file.

**HttpClient**: `main`, `download_file`, `get` and the two destructors as the order of
their calls, `pc`. Each action is one call together with what the code does with
its result before the next one, and the result is the action's parameter, so that
the same actions serve twice:

- **HttpOverTcp** conjoins them with the steps of TcpService, on which they may fail
  at any point, and with a server that sends any of a set of answers, cut into
  chunks anywhere. `IsStatusLine`, `FieldName` and the like define an answer's parts
  from the answer, not from the parser.
- **MyTelnet** is the whole program: the actions of HttpClient conjoined with those
  of TcpStack and CaptureThread, a server and a network. `Faults` selects what the
  network and libpcap may do, `MaxFaults` how often. `Timely` says that the client's
  and the server's timers are long against the network and the scheduler: they fire
  only when nothing is under way and the waiting thread has seen everything there is.
  Without it a timer may fire at any moment.

**MyTelnetOverTcp** maps MyTelnet to HttpOverTcp: what the server has sent is what the
connection has accepted, and the rest of TCP disappears.

**FrameBytes**: `build_ethernet_header`, `build_ip_header`, `build_tcp_header`, both
checksums, the three parsers, `Packet::find_layer` and what `process_packet` reads
from the layers, with bytes and 16-bit words at their real width. **FrameLink**: a
frame on its way, injected by the stack or sent by a conforming host, with padding
and with one byte damaged, up to the call of `process_packet`. TcpStack and MyTelnet
start from there: their segments are the values `SegmentIn` yields.

**MCTcpStack, MCMyTelnet, MCHttp, MCFrame**: the instances for TLC.

## Runs

| Run | Configuration | Result |
|---|---|---|
| `stack_safety` | `MCTcpStack.cfg` | pass: `TypeOK`, `WireOrder`, `WireContiguous`, `QueueOrder`, `DataFromPeer`, `CallbackOrder`, `Lifecycle`, `Forward`, `ImplementsService` |
| `capture` | `MCCapture.cfg` | pass: `CaptureTypeOK`, `NoPollAfterClose`, `DestructionEnds` |
| `ideal` | `MCIdeal.cfg` | pass: `ProgramTypeOK`, `InOrderDelivery`, `AcknowledgedIsQueued`, `InStep`, `Succeeds`, `ImplementsHttpOverTcp` |
| `lossy` | `MCLossy.cfg` | pass: `HandshakeAgrees`, `HandshakeRecovers` |
| `faulty` | `MCFaulty.cfg` | pass: `NothingLeftOpen`, `Terminates` |
| `http` | `MCHttp.cfg` | pass: `HttpTypeOK`, `ReportIsAnswer`, `OutcomeIsAnswers`, `FileIsAnswer`, `SavedHere`, `DownloadEnds` |
| `frame` | `MCFrame.cfg` | pass: `LinkTypeOK`, `InjectedVerifies`, `CapturedIsSent`, `BadHeaderDropped` |
| `syn_again` | `MCSynAgain.cfg` | `HandshakeAgrees` violated |
| `unpushed` | `MCUnpushed.cfg` | `AcknowledgedIsQueued` violated |
| `last_ack` | `MCLastAck.cfg` | `FinalAckCoversFin` violated |
| `truncated` | `MCTruncated.cfg` | `DownloadComplete` violated |
| `last_header` | `MCLastHeader.cfg` | `AllHeadersReported` violated |

*stack_safety* takes TcpStack alone: operations in any order, any packet of 14 at
any moment (the server's, another port of the server's host, another host), to two
servers, with injections that may fail. *Bounds:* sequence numbers modulo 4 with an
initial number of 2, so every conversation wraps; one retry of the SYN; a state
constraint of 4 segments sent and 2 accepted **per connection** and 2 chunks in the
queue, with any number of connections one after the other. Four segments are enough for a
retransmitted SYN, the ACK, data and the FIN, or the ACK, data's ACK, and the two
segments that answer a FIN; the constraint prunes successors, it does not disable
actions, and the properties of this run are safety properties. Two chunks let the
queue hold two of one connection, or one left over from the previous connection.

*capture* uses the program's batch of 10 packets.

*ideal*, *lossy* and *faulty* are the whole program with a response of ten
characters (`HTTP/1.1 200 ok`, the two line ends, a body of one character) in three
segments: one cut lies inside the empty line (*ideal*, *lossy*) or inside the status
line (*faulty*), the other before the body. The initial sequence numbers make both
sides wrap (`SeqMod = 64`, more than the numbers either side uses, so that numbers
stay distinguishable). *ideal*: no faults, the server pushes every segment, the FIN
rides on the last segment or follows it, 3 SYN retries. The body is never waited for
when the header is complete, so `Succeeds` speaks of the header. *lossy*: one segment
lost anywhere, one retransmission by the server. *faulty*: one loss, duplication,
reordering or pcap error, timers that fire at any moment; one SYN retry and one
packet per round, because more only repeat the same interleavings; the network
guarantees nothing, so segments may also simply never arrive, which covers any number
of losses at the end of a run. A repeated or overtaken piece of the status line makes
`std::stoi` throw here, so the program also ends as `aborted`, and `NothingLeftOpen`
speaks of the other end.

*http* has six answers: header fields with upper case, blanks, a repeated name, no
colon or a second one; a body that looks like an empty line; a message that starts
with a blank; a status line without a second blank; a code that is no number. Six
command lines: a path to a file, a path that ends in a slash, a port that does not
fit, `-i` at the end, and the three that end the program at once. At most one chunk
waits (`MaxQueue = 1`): chunks are taken one at a time and in order, so a longer queue
changes the moment a chunk is cut off from the answer and nothing else, and one chunk
may hold any number of characters. *ideal* maps to HttpOverTcp with a longer queue.

*frame* has every kind of segment the stack sends, with sequence numbers at both ends
of the range, payloads of 0, 1, 2 and 7 bytes, and addresses that are all ones and
make every sum carry; peers with and without IP and TCP options; the identifier from
65534 over 0 to 1. Padding and damage are single; a byte is damaged in its lowest and
its highest bit. The lowest half of the first IP byte, the header's length, is not
damaged: the parser checks only that the header fits, and the models of the length
fields would have to leave the frame.

Deadlock is not checked in the program's, the `http` and the capture runs: the program
exits.

The five violations are disagreements between the code and its comments or messages:

- `syn_again`: `tcp_stack.cpp:471` says it sends the SYN *again*; it sends a SYN with
  the next sequence number. If the first SYN+ACK and the second SYN are lost and the
  server repeats its SYN+ACK, the client is established one number ahead of the
  server, and the request never fits. With a single loss the server resets its
  half-open connection and the handshake recovers: that is what *lossy* shows.
- `unpushed`: `:681` acknowledges "the data"; the number it sends also covers
  segments without PSH, which `:670` drops.
- `last_ack`: `:769` waits for "the final ACK"; any segment with the ACK flag will
  do, so a duplicate of the server's FIN closes the connection before the client's
  FIN has arrived.
- `truncated`: `mytelnet.cpp:149` says that the download is complete; `get` stops at
  the first buffer that holds the header, and a body in a segment of its own is never
  waited for. The file is empty.
- `last_header`: `http_client.cpp:192` parses the header fields; the string it looks
  through ends before the last field's line end, so the last one is never stored.

### Fairness

`ThreadsRun` is weak fairness of the application thread and of the capture thread:
their loops sleep and poll, they never block on anything but `mutex_`, which is held
for bounded sections, and `join`, whose guard is in the action. `TimersFire` is
strong fairness of the retransmission and of the two timeouts: a wait alternates
between the shared state and the clock, and the clock advances, so a wait that keeps
looking finds the interval elapsed. (Every call of `wait_for_data` starts its own
interval; the response is finite, so a wait that comes back to the clock for ever is
one call.) `ProgramSpec` assumes nothing else: `Terminates`
holds without any assumption on network or server. `ConnectedSpec` adds that
segments which are not lost arrive (strong fairness of `CapturePacket`: the capture
thread is between rounds again and again) and that the server answers.
`CaptureSpec` assumes that the capture thread runs and that `join` and `pcap_close`
return. `HttpSpec` assumes weak fairness of `Main` only: every call of the application
returns, which is what `Terminates` shows of TcpStack; nothing is assumed of the server
or of the connection.

### Refinement

`ImplementsService` (run `stack_safety`) says that TcpStack, with whatever calls,
packets, failing injections and expiring timers, takes only the steps of TcpService.
It constrains what no invariant of a single variable does: that the state, the queue
and the callbacks change together. `ImplementsHttpOverTcp` (run `ideal`) says that the
program with two threads, segments and a server takes only the steps of the program
over TcpService: what *http* assumes of TCP, for many answers and every cut, is what
MyTelnet does for the answer and the cuts of *ideal*. It is the safety part only, and it holds on a link without faults: a segment
that is duplicated or overtaken is queued as it comes, which HttpOverTcp does not
allow. *faulty* covers those.

## Proofs

Eight modules hold theorems, all checked by TLAPS. They hold for every value of the
constants: any hosts, ports, payloads and sets of packets, any retry limit, any size
of the sequence space, any response and any way to cut it, any number of faults, any
command line, any bytes in a header's fields.

| Module | Theorem | Statement |
|---|---|---|
| TcpStackProofs | `TypeCorrect` | `Spec => []TypeOK` |
| | `LifecycleHolds` | `Spec => []Lifecycle` |
| | `WireOrderHolds` | `Spec => []WireOrder` |
| | `WireContiguousHolds` | `Spec => []WireContiguous` |
| | `DataFromPeerHolds` | `Spec => []DataFromPeer` |
| | `QueueOrderHolds` | `Spec => []QueueOrder` |
| | `CallbackOrderHolds` | `Spec => []CallbackOrder` |
| | `OnlyForward` | `Spec => Forward` |
| | `Implementation` | `Spec => ImplementsService` |
| HttpOverTcpProofs | `HttpTypeCorrect` | `HttpSpec => []HttpTypeOK` |
| | `SavedHereHolds` | `HttpSpec => []SavedHere` |
| MyTelnetProofs | `CaptureTypeCorrect` | `CaptureSpec => []CaptureTypeOK` |
| | `NoPollAfterCloseHolds` | `CaptureSpec => []NoPollAfterClose` |
| | `ProgramTypeCorrect` | `ProgramSpec => []ProgramTypeOK` |
| | `PartsInProgram` | `ProgramSpec =>` the invariants of TcpStack and of the capture thread |
| | `NothingLeftOpenHolds` | `ProgramSpec => []NothingLeftOpen`, if `InjectResults = {TRUE}` |
| MyTelnetDelivery | `InOrderDeliveryHolds` | `ProgramSpec => []InOrderDelivery`, if `OrderlyLink` |
| | `AcknowledgedIsQueuedHolds` | `ProgramSpec => []AcknowledgedIsQueued`, if `OrderlyLink` |
| | `InStepHolds` | `ProgramSpec => []InStep`, if `OrderlyLink` and `Unhurried` |
| MyTelnetRefinement | `ImplementsHttpOverTcpHolds` | `ProgramSpec => ImplementsHttpOverTcp`, if `OrderlyLink` |
| FrameProofs | `LinkTypeCorrect` | `LinkSpec => []LinkTypeOK` |
| | `InjectedVerifiesHolds` | `LinkSpec => []InjectedVerifies` |
| | `CapturedIsSentHolds` | `LinkSpec => []CapturedIsSent` |
| | `BadHeaderDroppedHolds` | `LinkSpec => []BadHeaderDropped` |

FirstOrderInduction and HttpProofs hold the lemmas the others rest on.

### Assumptions

Only the modules' own: `SeqModAssumption`, `StackAssumption`, `BatchAssumption`,
`CharAssumption`, `ArgumentAssumption`, `AnswerAssumption` and `ChunkAssumption` of
HttpOverTcp, `ServerAssumption`, `ProgramAssumption`, `MacAssumption` and
`LinkAssumption`. They give the constants the types
their comments state. What goes beyond a type: `ArgumentAssumption` says what holds of
the code's own constants, that the default port fits its 16 bits and that the two names the
program falls back to (`index.html`, `download.dat`) are not empty and hold no slash;
`ChunkAssumption`, that every piece of an answer is a chunk; `LinkAssumption`, that a
segment with its headers fits the 65535 bytes the length field of an IP datagram can say
(`build_ip_header` takes the length as a `uint16_t`, and the program sends nothing but one
short request), that the options of other hosts are what a header can hold, whole words and
at most 40 bytes, and that damage changes the byte it hits. TLC evaluates all of them
in the runs.

Five theorems have a hypothesis of their own. `NothingLeftOpenHolds`: `pcap_inject`
accepts every frame. It is needed: `close_connection` leaves the state
ESTABLISHED when the FIN is refused, and the destructor does not try again. Run
*faulty* checks the property under the same condition.

`InOrderDeliveryHolds`, `AcknowledgedIsQueuedHolds` and `ImplementsHttpOverTcpHolds`:
`OrderlyLink`. The network loses, duplicates and reorders nothing, the server sets PSH
on every segment and has none to repeat. Each part is
needed, because `process_packet` queues the payload of any segment with PSH and ACK,
wherever it belongs in the stream, and drops the others: *unpushed* shows a loss, and
a repeated or overtaken segment is queued as it comes (which is why *faulty* does not
check the property). Run *ideal* is such a link. The theorems allow more than that run
does: pcap errors, injections that are refused, and timers that fire at any moment.

`InStepHolds` needs `Unhurried` as well: the timers are long against the link, and
`pcap_inject` accepts every frame. A timer that fires early, or an ACK of the handshake
that is refused, sends a second SYN, which has a sequence number of its own: *syn_again*
and *lossy* show what comes of that. Run *ideal* satisfies both hypotheses.

### TcpStack

`TypeOK` is inductive; the content is that `Plus` wraps into range, that a branch of
`process_packet` always has a connection to work on, and that the retry counter keeps
its bound although failed sends are not counted.

The two properties of the wire are not inductive: whether a segment may follow those
already sent depends on the state of the connection, e.g. that no FIN was sent while
it is ESTABLISHED. `Lifecycle` ties the state to the history, and `WireInvariant ==
Lifecycle /\ WireOrder /\ WireContiguous` is inductive given `TypeOK`. The argument: a
connection *fits* its wire when `seq_num` is where the wire ends; one call of
`send_tcp_packet` that *may follow* keeps it fitting, whether or not the injection
fails (`SendStep`, from `OrderedAppend` and `ContiguousAppend`); a bare ACK may always
follow, a SYN only in SYN_SENT, data and FIN only in ESTABLISHED; then one lemma per
operation and per branch of `process_packet`, and two sends in a row for the answer to
a FIN.

For what is delivered, the proof sorts the steps by what they do to connection, queue, accepted
segments and callbacks: nothing, a segment sent, a handshake confirmed, a payload
queued or taken, the conversation closing, completed, given up, or a new connection.
Each operation and each branch of `process_packet` is of one of these kinds
(`CloseKind`, `SendKind`, ...), and each property is then proved once per kind.
`DataFromPeer` needs that `connect` empties the history together with replacing the
connection; `QueueOrder`, that it does not empty the queue, so the queue ends with
what this connection accepted and starts with what the last one left; `CallbackOrder`
needs `Lifecycle`, which says that nothing was reported before ESTABLISHED and no close
before the end. `Implementation` maps the same kinds to the steps of TcpService.

All step lemmas are about `AnyStep`, resp. `LaterStep`, a step of TcpStack on *any* segment with any
data, not only on those the run's constants offer. This is what lets the program use
them, where packets come from the network.

### The capture thread

`NoPollAfterClose` is not inductive: `CaptureInvariant` adds `Running`: while the thread
is in its loop the handle is open and the destructor is not past its `join`. Any
`MaxPacketsPerLoop` will do.

### Program, HTTP

`HttpOverTcp` and `MyTelnet` use the same actions of HttpClient with different callees,
so what a step of `main` keeps is proved once, in HttpProofs, for any result of the
call. `AppInvariant` is `ClientTypeOK` with two additions: `Written`, that there is
a file, and text in it, from its creation to the end of the reception (chunks are appended to it), and
`NamedHere`, that the local name holds no slash (it is what follows the last one) and is
not empty. That an argument list is read into typed values, and that text splits and joins
into text, are inductions over sequences.

The installed provers cannot instantiate the library's induction theorems, whose
parameter is an operator. FirstOrderInduction proves what is needed of them in first-order
form: a non-empty set of numbers has a least element, a set of numbers closed under
successor contains all, and a step that can always be taken can be taken n times. The
proofs about recursive functions (`ArgumentsRead`, the folds of the header fields, the sums and carries of a checksum) cite
these instead.

`ProgramInvariant` is the conjunction of the invariants of TcpStack, of the capture
thread and of HttpClient, of the server's and the network's types, and `Unconnected`
(before the first `connect` there is nothing to send, queue or report). Every step of
the program is a step of each part or leaves the part alone (`ProgramIsLater`,
`ProgramIsCapture`, `ProgramIsApp`), so the parts' lemmas carry over; what is left to
prove is where they meet: that the segments put on the network are those appended to
`tx`, that the network gives back only what was put on it, and that the server answers
typed segments with typed segments. The properties of TcpStack and of the capture
thread follow for the program (`PartsInProgram`).

`NothingLeftOpen` needs two more facts. `FinOrOpen`: a connection that was reported has
sent a FIN or is still ESTABLISHED, because the only two ways out of ESTABLISHED send
one (`FinGoesOut`) and what was sent stays sent (`LaterGrowsWire`). `Resting`: once
`~TcpStack` has closed, the state is CLOSED or past the FIN, because
`close_connection` leaves no other (`CloseUnopens`) and nothing but `connect` opens
one again, which the application can no longer call.

`InOrderDelivery` relates two ends that never compare sequence numbers, so its invariant
has none. `Pieces(s, a, b)` says that the sequence `s` of texts is the response from
position `a + 1` to `b`, cut somehow. `Stream`: for some `a` and `b`, the application has
read the first `a` characters, `data_queue_` is the pieces from `a` to `b`, and what
the server has said and has not arrived yet is the pieces from `b` to where the server
is. The last part holds only while the client may still take data (`Awaited`): after it
has closed, `process_packet` drops what comes, and the pieces no longer join, but none
is queued either. `Respond` adds a piece at the end of the last sequence, a captured
packet moves one to the queue, `TakeData` one to the buffer, where it is joined to the
text. That a captured piece is queued and not dropped needs
`Ends` (the connection, the server and every segment under way agree on the four-tuple,
which a SYN+ACK cannot change because its port is the server's); that nothing of the
stream arrives, and is dropped, before the connection is ESTABLISHED needs `Asked` (the
server says nothing before a request, and a request is sent on an ESTABLISHED connection
only). `PiecesFlatten` then turns the pieces into a prefix.

`AcknowledgedIsQueued` does compare numbers: what the server reads off an
acknowledgement (`Covers`) with what the client has accepted. The client keeps no record
of the stream, so the invariant keeps one for it: a *ledger* `P`, where `P[i]` says how
far into the response the server has come with its segment `i` (`Ledger`; `Marked` says
that the segment's number and payload agree with it). When the first `k` segments have
arrived, the accepted payloads are the pieces up to `P[k]`, and the connection's
`ack_num`, the `ack` of every segment the client has sent, the SYN aside, and the
server's own `acked` cover no more than that (`UpTo(P[k])`). Capturing segment `k + 1`
moves the client from `P[k]` to `P[k + 1]`, and everything it sends then carries the new
number (`Carries`); the FIN counts as one position more (`Within`). The numbers wrap: `Plus`
is addition modulo `SeqMod`, so a response longer than `SeqMod` can be acknowledged with
a number that covers less, never more (`CoversPart`). That is why the property holds for
every `SeqMod`, and why `FirstOrderInduction` also proves the facts on division it
needs.

`InStep` takes the acknowledgement number from the same ledger: in ESTABLISHED it is
that of position `P[k]` exactly (`Exactly`), and when nothing is under way `k` is the
last segment. The sequence number takes following the handshake (`Handshake`): before the client is
connected there is one SYN on the wire, and it or its answer is under way. So the wire
is not quiet, no timer fires, and no second SYN goes out; the answer connects the client
at once because its ACK is not refused. From then on the server expects what follows
the segments that have arrived (`Expected`): no later segment carries SYN
(`SynsFirst`), and `WireContiguous` has each start where the one before it ended, so the
server takes all of them in order.

`ImplementsHttpOverTcp` puts the kinds of steps and the ledger together. Both programs
call the same operators of HttpClient, HttpMessage and CommandLine through two
instances; that they compute the same (`SameParser`, `SameCalls`, ...) is a matter of
their definitions, no induction. A call of the application, and a packet that brings no
data, is of a kind TcpStackProofs has mapped to TcpService already. The rest is in the
data. `RequestOnce`: the server knows the request only if it is on the wire, where only
`send_data` puts it and only when it returns true. A data segment is one entry of the
ledger: what has been accepted is the response up to `P[k]`, so HttpOverTcp has sent
that much, and the segment holds the characters up to `P[k + 1]`. When the FIN arrives,
the ledger stands at the end of the response, so the server of HttpOverTcp has sent
everything when it closes. HttpOverTcp bounds its queue (`MaxQueue`) and MyTelnet does
not: no chunk is empty (`NoEmptyChunk`), so there are never more of them than the
response has characters (`QueueShort`).

### Frames

`LinkInv`, the inductive invariant of FrameLink, says what a frame on its way still is:
until it is damaged it is `Genuine`, that is, what some sender would have produced for
`sent`, padded or not; afterwards it differs from a genuine frame in one byte, and not in the
first of the IP header (`Means`). A frame the stack injected is besides just what the
receiver's sums are to be taken over (`InjectedAt`), and after the capture `handed` is what
the parsers make of the frame. One lemma per action; the rest of the work is about bytes.

- *Sums.* `SumFunction` is taken as a running sum, so that the sum of two sequences is the
  sum of the sums when the first has an even length, and two sequences that differ in one
  byte have sums that differ by that byte, times 256 or not (`SumsDiffer`).
- *Carries.* `AddCarries` yields the remainder modulo 65535, with 65535 itself for a
  positive multiple of it; it stays within 16 bits however often it carries. Adding the
  complement of this to the sum gives a multiple of 65535, which is what a receiver tests.
- *Builders.* `IpBytesAre` and `TcpBytesAre` say word by word what a header holds;
  `DatagramBuilt` and `Verified` put the checksums into them. The stack's own frames and those of
  other hosts end in the same description (`FrameOfIs`, `PeerFrameIs`). The stack computes
  its TCP checksum from three parts and the receiver from one; the parts meet at even
  positions because the pseudo header and every TCP header have an even length.
- *Parsers.* `GenuineHanded`: each parser accepts a genuine frame, finds the layer behind
  the header's length and the total length, and reads each word where it was written; the
  five flags come back out of their bits (`FlagBitsIs`).
- *Damage.* `DamagedHeader`: if the byte is outside the checksum field, the sum over the
  header changes by more than 0 and less than 65535 either way, so its remainder changes and
  the checksum no longer matches; if it is in the field, the sum without the field
  stays and the field does not. Behind the header anything may come out, but it is still a segment
  (`DamagedBehind`), or nothing.

### Model-checked only

- `HandshakeAgrees`: it holds for one loss and not for two (*syn_again*), so a proof would
  be about the number of faults, over every order of losses and timeouts the handshake
  can meet. Without faults it is part of `InStep`.
- `ReportIsAnswer`, `OutcomeIsAnswers`, `FileIsAnswer`: what `parse_http_response` computes
  for every text; its recursive definitions would have to be unrolled with
  FirstOrderInduction step by step.
- All liveness: `Terminates`, `Succeeds`, `HandshakeRecovers`, `DestructionEnds`,
  `DownloadEnds`. Fairness and ENABLED are out of the prover's reach.

No module declares a RECURSIVE operator.

## Not modelled

- Real time: intervals have elapsed or not. 3 s, 5 s, 10 s and 30 s appear only as
  "may fire", or as "fires when nothing is under way"; how many retries fit into a
  timeout is not checked.
- A TCP checksum damaged on the way: `TcpParser` does not compare it, so what
  `process_packet` gets is unspecified then; `BadHeaderDropped` speaks of the IP header
  only. IP fragments, which the parser does not tell from whole datagrams, and length
  fields that contradict the frame. Requests longer than a segment.
- White space and signs in front of a number (`stoi` skips them), tabs, and the
  locale of `tolower`.
- A write to the local file that fails: the code looks at the stream only when it
  opens it.
- Handlers: `set_on_connected` and the other two are never called in the repository, so
  a handler that calls back into TcpStack (and would lock `mutex_` twice) cannot occur.
  The moments of the callbacks are `events`.
- Data races on values that are only printed, and libpcap's own state (`connect`
  installs a filter while the capture thread polls).
- Interface, address and gateway discovery: queries of the operating system at the
  start, of which only success or failure matters afterwards (`InitializeSucceeds`,
  `InitializeFails`). The accessors and printing members of the parsers that nothing
  but debug output uses.

## Plan

1. *Done:* TcpSegment, TcpStack, CaptureThread, TcpServer, MyTelnet; type correctness
   and the wire invariant proved.
2. *Done:* HttpMessage, CommandLine, HttpClient, HttpOverTcp; FrameBytes, FrameLink; the
   abstract TcpService and the two refinements.
3. *Done:* `DataFromPeer`, `QueueOrder`, `CallbackOrder`, `Forward`, that each step of
   TcpStack is a step of TcpService or none; `NoPollAfterClose` for any batch size; the
   types of HttpOverTcp and of MyTelnet; `NothingLeftOpen`; `InOrderDelivery` end to end.
4. *Done:* `AcknowledgedIsQueued` and `InStep`, with the ledger; the refinement of HttpOverTcp by the
   whole program; the four invariants of FrameLink.
5. Proofs left: what of `FileIsAnswer` and `ReportIsAnswer` can be had without unrolling
   the parser.
