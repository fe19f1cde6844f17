# TLA+ models of Flow-IPC's structured channel

`ipc::transport::struc` layers *structured* messages (capnp bodies, optional
native handle, requests and responses, log-in) over an unstructured
`transport::Channel` of one or two pipes. This directory holds TLA+ models of
that layer, the TLC configurations that check them, and TLAPS proofs.
Paths below are relative to `src/src/ipc/transport/struc/`.

## 1. Inventory

### Components, their state and operations

| Component | State | Operations |
|---|---|---|
| `sync_io::Channel`, structured layer (`sync_io/channel.hpp` 3335-5055) | `m_phase`, `m_session_token`, `m_phase_log_in_started`, `m_snd_msg_next_id`, `m_rcv_msg_next_id`, `m_rcv_reassembly_q`, `m_rcv_pending_msgs`, `m_rcv_expecting_msg_map`, `m_rcv_expecting_response_map`, the two unexpected-response handlers, `m_channel_err_code_or_ok`, `m_sync_io_handlers` | `send`, `async_request`, `expect_msg(s)`, `expect_log_in_request`, `undo_expect_*`, `set_/unset_*_handler`, `async_end_sending`, `rcv_struct_new_msg_in` and its helpers, `handlers_post`, `handlers_poll` |
| `sync_io::Channel`, unstructured layer (same file, 2402-3332 and 4361-4680) | `m_started_ops`, `m_proto_neg_err_code_or_ok`, the two `Protocol_negotiator`s, per in-pipe `Msg_in_pipe` (`m_incomplete_msg`, `m_n_segs_left_after_this_read`, `m_target_blob`, `m_target_hndl`) | `start_ops`, `start_and_poll`, `send_proto_neg`, `send_core`, the read of a notice, of a lead blob, of a continuation blob |
| `struc::Channel`, asynchronous wrapper (`channel.hpp`, `channel.cpp`) | thread W and its task queue, `m_mutex`, `m_sync_op_mutex`, `m_sync_op_state`, `m_sync_op_state_id`, `m_snd_end_sending_on_done_func_or_empty` | every API of the above under `m_mutex`, `sync_request` with timeout, `start`, destructor |
| `Msg_out`, `Msg_in` and their `_impl`s (`msg.hpp`, `detail/`) | builder or reader, handle, "deserialized" flags | store a handle, serialize, add a segment, deserialize metadata then body |
| Heap serializers (`serializer.hpp`, `heap_serializer.*`, `heap_fixed_builder_capnp_msg_builder.*`) | list of segment blobs | allocate or grow segments, emit, add an input segment, deserialize |
| Error codes, schema, `Channel_base` | none (types and constants) | |
| Tests (`test/`, `src/test/basic/link_test`) | none | exercise construction and one exchange |

### How they interact

Two peers, `cli` and `srv`, each own one end of a `transport::Channel`, which is
external: reliable FIFO pipes, a graceful-close that follows what was sent on
each pipe, and failure. The user of `sync_io::Channel` runs it from one thread:
it calls APIs, and its event loop reports a pipe to be readable, upon which the
channel reads a blob, may complete a message, updates its maps, posts handlers
and finally runs them with `handlers_poll()`. A handler may call any API. The
wrapper `struc::Channel` is such a user, with thread W for event loop and a lock
for many user threads. A channel talks back on its own in one case: an
unexpected response makes it send an internal message.

### What is hard, and what must hold

* **Races of the pipes.** A message with a handle takes the handles pipe and any
  other the blobs pipe, so sequence numbers arrive with gaps; the reassembly
  queue closes them. Nothing may be lost, repeated or reordered, for good.
* **Batches of handlers.** Closing a gap posts several handlers, and each may
  change the expectations the later ones were posted under.
* **Caching.** An unexpected notification waits until a call asks for its kind;
  waiting messages and later ones must not pass each other.
* **Responses.** A response goes to the request that wants it, once for a one-off
  request; any other is reported to both users.
* **Log-in.** The token goes from server to client in the response; each side may
  send and accept one particular message until then.
* **Errors.** The first error hoses the channel for good. It is emitted exactly
  once, by the call that met it or through the on-error handler, and afterwards
  nothing happens - yet the error must be emitted.
* **Framing.** A message is a lead blob and a counted run of continuation blobs;
  a failure between two of them must not make later blobs be misread. A peer
  looks at no message before it has settled on a protocol version it speaks.
* **Threads** (wrapper). A response that races its timeout, an error that races a
  `sync_request()`, handlers still queued in the destructor.
* **Messages that live on.** An out-message may be changed, moved, destroyed or sent
  again while copies of it are on their way; it owns a native handle, whose number
  the OS reuses once it is closed. Its segments are sized before it is known through
  which pipe they go.

`PROJECT.json` lists each hazard with its line and the properties about it.

## 2. Plan

The order is by what matters most: the structured layer decides what users see.

1. **Done**: `StructChannel` + `StructChannelProps` (structured layer of two
   peers), abstract specification `OrderedPipe`, runs, and the first proofs.
2. **Done**: `Framing` + `FramingProps` (blobs and negotiation), abstract
   specification `WholePipe`. It justifies the unit `StructChannel` works with: a
   message that comes out of a pipe whole, in order and once.
3. **Done**: `AsyncChannel` + `AsyncChannelProps` (the wrapper over an abstract
   core that calls handlers under the lock: user threads, thread W, `sync_request()`
   with timeout and late answer, `async_end_sending()`, the destructor), abstract
   specification `RequestReply`, and its proofs, the refinement included.
4. **Done**: `Message` + `MessageProps` (out-messages, in-messages and heap
   serialization: segments that are allocated, grow, are emitted and collected; the
   handle a message owns), and its proofs.
5. **Done**: proofs of what is on the way, of order and of reports
   (`StructFlow_proofs`, `StructOrder_proofs`, `StructReports_proofs`) and of the
   streams of blobs (`FramingStream_proofs`), both refinements included.
6. **Done**: the proof of `HandlersInOrder`, now put in terms of the places of the
   calls among all that were made. Left to TLC, for good: liveness.

## 3. The modules

| Module | What it is |
|---|---|
| `StructChannel` | the structured layer, two peers, one or two pipes |
| `StructChannelProps` | its properties, fairness, and the mapping to `OrderedPipe` |
| `OrderedPipe` | abstract: what a channel promises its two users |
| `MCStructChannel` | workloads for TLC |
| `StructChannel_proofs` | TLAPS proofs: types, log-in, errors |
| `StructFlow_proofs` | ... from the call that sends to the step that accepts; a peer's thread |
| `StructOrder_proofs` | ... the order in which messages are handed over; `OrderedPipe` |
| `StructReports_proofs` | ... responses: who wants them and who is told if nobody does |
| `Framing` | the unstructured layer: notices and blobs, two peers |
| `FramingProps` | its properties and the mapping to `WholePipe` |
| `WholePipe` | abstract: pipes of whole messages |
| `MCFraming` | instances for TLC |
| `Framing_proofs` | TLAPS proofs: types, negotiation |
| `FramingStream_proofs` | ... the blobs on a wire, laid out against the messages; `WholePipe` |
| `AsyncChannel` | the asynchronous wrapper of one channel, its threads and its user |
| `AsyncChannelProps` | its properties and the mapping to `RequestReply` |
| `RequestReply` | abstract: requests that end once, an error that is told once |
| `MCAsyncChannel` | workloads for TLC |
| `AsyncChannel_proofs` | TLAPS proofs |
| `Message` | out-messages, their segments and handles, and how they are received |
| `MessageProps` | its properties |
| `MCMessage` | instance for TLC |
| `Message_proofs` | TLAPS proofs |

The models stand side by side. `Framing` shows that a pipe carries whole messages,
which `StructChannel` takes for granted; `StructChannel` shows what the core tells
its user, a part of which is the core of `AsyncChannel`; `Message` shows that the
segments `Framing` counts hold what was in the message when it was sent.

Definitions under a comment *Mutation:* are variants with a plausible bug. No
specification uses them; `PROJECT.json` says which property rejects which.

### StructChannel and the code

Variables carry the code's state one to one (the comment beside each names the
member). `m_rcv_expecting_msg_map` and `m_rcv_expecting_response_map` are each two
sets, of one-off and open-ended entries. `net[p][k]` is the content of pipe `k`
towards `p`; `log[p]` is a history of everything `p`'s user was told, through a
handler or as the result of a call; `sent[p]` a history of what `p` handed to the
transport.

`mode[p]` is the program counter of the peer's one thread. A received message is
processed in one step (`ReceiveNext`, `ReceiveEarly`, `ReceiveInternal`,
`ReceiveBad`), the loop at the end of `rcv_struct_new_msg_in()` takes a step per
message (`Flush`), and `handlers_poll()` a step per handler (`Fire`), because
between two handlers the user may call any API. In `flush` and `drain` the thread
is inside the library and no API can be called.

Abstractions: a message body is its top-level union value (`which`); a session
token is a model value; whether a message bears a handle is only the choice of
its pipe, any pipe with two; the metadata text of an internal message is left
out. `send_core()` is one step here and blob by blob in `Framing`.
`TransportError`s are one value. Message IDs are unbounded naturals: 64 bits do
not overflow.

The user at a peer is nondeterministic within `Api[p]`, up to `MaxOut[p]` sends.
Only calls whose contract holds are made: a response is to a message the user has
been handed (`Held`), `undo_expect_responses()` is given an ID that
`async_request()` returned, and `sync_io::Channel` is used by one thread.

### Framing and the code

Each peer's chain for in-pipe `k` is at `step[p][k]`: `off`, `notice`, `lead`,
`cont` or `stop`. `ReadNotice` is `rcv_on_async_read_proto_neg_msg()`, `ReadLead`
and `ReadCont` the two `Rcv_next_step` handlers; each includes obtaining the next
segment, which `MayRefuse` allows to fail. `onErr` says whether the error was only
posted or has been told, since `start_and_poll()` posts without polling. A peer may
run another build, with other protocol versions (`Builds`). Of the structured
layer it keeps the ID counter, the internal messages (`Inform`, a lead blob
without a body), and nothing else: what a message says is `StructChannel`'s.

### AsyncChannel and the code

The core's variables are those of `StructChannel` for one peer, reduced to what the
wrapper can tell apart: one kind of notification, one in-pipe (`wire`), a log-in
that is over. The wrapper's are its members (the comment beside each names them),
`tasks` for what `m_worker.post()` has queued, `run[r]` for the handlers thread W or
the destructor's finisher is in, and `pc[t]` for where thread `t` is in
`sync_request()`. `emitted`, `fired`, `told` and `answer` are histories.

A section under `m_mutex` is one step. The public calls are `Start`, `ExpectMsg`,
`ExpectMsgs`, `UndoExpectMsgs`, `UndoExpectResponses`, `SetHandler`, `Send(mode)`
(`send()` and both forms of `async_request()`), `EndSending`; a handler may make any
of them, from within the destructor too (`CanCall`). `start()` takes two steps,
`Start` and `StartReturns`, because the core may read several messages in between
with the lock held. `Read` is the core in thread W, which calls the wrapper's
handlers; these post the user's. `sync_request()` is `SyncCalled` (waiting for
`m_sync_op_mutex`), `SyncSends` or `SyncFails` (both locks held), `SyncWakes` (the
promise or the time), `SyncReturns` (locked again, when a result may have come after
all). `RunCall`, `RunError`, `RunEnd` are W's tasks, `HandlerReturns` the end of a
handler, during which W takes nothing else. `DtorBegins`, `WorkerJoined`, `PollEnds`
and `DtorEnds` are the destructor, which the contract forbids while a thread is in
`sync_request()`.

### Message and the code

`state`, `segs` and `hndl` are the objects of class `Msg_out`: not there, blank
(moved-from) or a message, with its builder's segments and its handle. A segment has
its capacity, the words in use and the size of its `Blob`, which
`emit_segment_blobs()` sets and which a later emission must set again. `Create`,
`Store`, `Grow`, `Move` (construction and assignment), `Destroy` are its operations;
`Grown` is what capnp does with `allocateSegment()`; `Send` is `send_core()`, which
emits, refuses leaves that are too large and puts a lead blob and the segments on
the wire. `ReadLead` and `ReadCont` are `Msg_in` collecting them. `open`, `mine` and
`nDesc` are the handles of the process: what the OS has opened under a number and
which of them the user still holds. `leaf` and `sent` are histories.

## 4. Runs

All bounds are in the `.cfg` files and `MC*` modules. Deadlock checking is off
throughout: users may simply stop calling, and bounded workloads end.

| Run | Instance | What it shows |
|---|---|---|
| `OnePipe` | 1 pipe, 2 kinds, 3 notifications one way and 1 back, both transports may fail, close | `NotificationsInOrder`, `WaitingIsUnexpected`, `CloseCutsNothingOff`, `SilentAfterError` |
| `TwoPipeRequests` | 2 pipes, 2 requests (one-off or open-ended), 3 responses, undo, soft-error handlers | `NoFalseBlame`, `ResponsesWanted`, `ResponsesInOrder`, `RemoteReportsTrue`, refinement of `OrderedPipe` |
| `OnePipeLogIn` | master channel, 1 pipe, 2 kinds, 2 messages each way, a server that also makes requests too soon, a client whose requests may fail or come after its `async_end_sending()` | `TypeOK`, `LogInAgreement`, `NoFalseBlame`, `IdsFresh` |
| `TwoPipeFaults` | 2 pipes, 2 tokens (equal or not), failing out-pipes of the server, close by both, `undo_expect_msgs()` by the server | `ErrorEmittedOnce`, `ExactlyOnePlace`, `NothingAcrossSessions`, `HosedIsInert` |
| `TwoPipeLive` | 2 pipes, 2 messages and 1 (unexpected) response, close, faults, fairness | `EventuallyAccepted`, `EventuallyEmitted`, `EventuallyInformed` |
| `FramingTwoPipes` | 2 pipes, 2 messages of up to 2 segments, with or without handle, 2 pairs of builds (overlapping, disjoint), client's pipes fail, refusing reader | `TypeOK`, `SegmentsAddUp`, `NegotiatedFirst`, `NeverMisread`, refinement of `WholePipe` |
| `AsyncRequests` | 2 threads in `sync_request()`, one untimed, 3 calls and 2 messages sent; 3 answers or errors from the peer; `send()`, 2 `async_end_sending()`, destructor | `TypeOK`, `ErrorToldOnce`, `OwnAnswer`, `EndSendingCalledOnce`, `WaitEnds`, refinement of `RequestReply` |
| `AsyncHandlers` | 1 thread in `sync_request()`, every other call but `send()` and `async_end_sending()`, 2 messages of any kind from the peer, destructor | `HandlersInOrder`, `HandlersSerial`, `HandlersFire`, `ErrorTold` |
| `Messages` | 2 objects, 2 handle numbers, limits of 3.5 and 2.5 words, objects of up to 3 words, messages of up to 4, 2 sends | `TypeOK`, `ReceivedAsSent`, `FitsThePipe`, `OnlyLeavesAreTooBig`, `HandlesHeldOnce` |

Why the bounds are enough for what is asked: three messages over two pipes give
every shape of a gap (none, one behind, two behind, closed in one or two steps)
and a burst of three handlers; two kinds tell "same kind" from "another kind";
two requests and three responses give a second response to a one-off request, a
response after an undo, and responses to different requests crossing. Two
segments tell "first of several", "last" and "only". Two threads and three calls give
a request that times out, one that takes its place, and its late answer; three
arrivals add a second answer and the error. Limits that are no multiple of a word,
and that differ, make rounding and the choice between them visible; objects of one,
two and three words fit together, fill a segment, and exceed it. In `TwoPipeFaults` the
tokens are interchangeable, and symmetric; no liveness property is checked with
symmetry.

The properties and the abstract specifications are explained where they are
defined. `ExactlyOnePlace` is the central one: each message sent is on the wire,
in the reassembly queue, cached, in a posted handler or with the user, in exactly
one of these while the channel is good and at most one afterwards. `ErrorToldOnce` is
its like for the wrapper: the error that hosed the channel has been told, or is in a
task, or was left with the `sync_request()` that waits, in exactly one of these.

### Fairness

`FairSpec` assumes weak fairness of: the user's `start_and_poll()`, each read
step of a readable pipe, and the thread's own steps (`Flush`, `Fire`). The first
is the user's part of the contract. The second is the `sync_io` pattern: the
channel asks for a wait, and the event loop must report the event. The third is
the thread running on. Nothing is assumed about sends, expectations, closes or
failures: the user need not do them. Liveness is stated up to "or the channel is
hosed", because a hosed channel promises nothing but its error.

`FairSpec` of `AsyncChannel` assumes weak fairness of what the OS schedules: W reads
and runs its tasks, a thread in `sync_request()` goes on (its time passes, if it has
one), the finisher runs, and the user's handlers return, which they must for W to go
on. Nothing is assumed about the peer or about what the user calls.

### Disagreements between code and documentation

Three runs exhibit behaviour that contradicts what the repository says; each is
expected to be violated. `PROJECT.json` quotes the lines.

| Run | Property | What happens |
|---|---|---|
| `NoticeLost` | `EventuallyTold` | The failure to send the negotiation notice is promoted by `start_and_poll()`, posted and never polled: the user is never told. |
| `TwoPipeLogIn` | `NoFalseBlame` | With two pipes the message after the log-in response can overtake it, and the client hosed by it is told that the other side misbehaved. |
| `SyncWaits` | `ErrorWakes` | A `sync_request()` without a timeout waits for ever when the error is met by another thread's `send()`: that call alone is told. `WaitEnds` is what does hold. |

The others have no run of their own. In the core (`sync_io/channel.hpp`):

* *Mismatched log-in* (4886). `expect_log_in_request()` that meets a cached request
  of another kind hoses the channel; its on-error handler is posted and not polled.
* *Close of one pipe* (4692). With two pipes the graceful-close of one hoses the
  receiver while the other still has messages. `OnePipe` shows that with one pipe
  it does not; with `Pipe = {"blobs", "handles"}` the same run violates
  `CloseCutsNothingOff`.
* *Order within a batch* (3660). A handler early in a batch calls `expect_msg()` and
  is handed a cached message before the handler of an earlier message of that kind
  has run: `NotificationsInOrder`, in the same way.
* *Refused request.* In `SRV_LOG_IN` an `async_request()` that is not a response
  leaves its response expectation behind when it is refused and its ID is taken
  back (4289 against 4327). `RequestRefused` models it; `ResponsesWanted` fails on
  the instance of `OnePipeLogIn`.
* *Same list.* `expect_msgs()` does not clear the user's list when nothing is
  cached (4872). With `KeepsList = TRUE` a user is handed a message twice.
* *Setting handlers* succeeds on a hosed channel (4996-5055).
* *Batch after an error* (3651). If a handler's `send()` hoses the channel, handlers
  posted behind it still run: with two pipes `SilentAfterError` fails.

In the wrapper (`channel.hpp`):

* *Late response* (2409). A response that comes after its `sync_request()` timed out
  is dropped; no unexpected-response handler hears of it, on either side.
* *Handlers in the destructor* (1779). The destructor calls the handlers still
  queued. `HandlersInOrder` states what it does.
* *Handlers after an error* (2144). What is posted to W is called though a `send()`
  has hosed the channel by then.
* *Refused before told* (1950). The core refuses calls from the moment of the error,
  the user is told by a task posted to W.

In the messages: `store_native_handle_or_null()` leaves its argument alone when it is
the handle stored (`msg.hpp` 1038); `emit_serialization()` appends, it does not
replace (`msg.hpp` 1062); `~Msg_in()` never closes the handle, nor can the user when
the message never reached one (`msg.hpp` 1135); `allocateSegment()` rounds down and
takes the larger (`heap_fixed_builder_capnp_msg_builder.cpp` 112).

## 5. Proofs

`StructChannel_proofs` proves, for every number and value of messages, kinds and
tokens, for one pipe or two, any workload and any set of failing transports, with
the constants constrained by `ConstantsAssumption` only:

* `TypeCorrect`: `Spec => []TypeOK`. The inductive invariant is
  `TypeInv == TypeOK /\ PostedIsThere`: `handlers_poll()` takes the head of the
  posted handlers, which has a type only because a thread that is in `drain` or
  `user` has one left. The step is split by groups of variables that change
  together and by action.
* `HosedIsInertAlways`: `Spec => HosedIsInert`, an action property. It needs the
  invariant that a thread flushing its reassembly queue has a good channel: the
  loop itself does not look at the error.
* `WaitingIsUnexpectedAlways`: `Spec => []WaitingIsUnexpected`. A message is
  cached only if no expectation exists, and the calls that register one empty the
  cache of that kind; `expect_log_in_request()` is the delicate case, and
  `expect_msg()` registers nothing if it takes a cached message.
* `LogInAgreementAlways`: `Spec => []LogInAgreement`. The invariant `Authentic`
  says what the wire may carry: until the server is logged in no message with a
  token is on its way to the client, and every token on the wire or held by a
  peer is the server's. Without that, a client that takes the token of whatever
  arrives could not be shown to agree with the server.

* `NothingAcrossSessionsAlways`: `Spec => []NothingAcrossSessions`. With
  `Authentic`, every message that reaches a channel of another session fails the
  token check, internal ones included (`ForeignIsBad`). The invariant
  `ForeignQuiet` adds that such a channel has nothing to hand over: no message in
  reassembly, waiting or in the user's list, and no handler posted but the one of
  the error that hosed it.
* `ErrorEmittedOnceAlways`: `Spec => []ErrorEmittedOnce`, which is inductive given
  the types. The lemmas `ErrorsAppend`, `ErrorsTail` and `ErrorsEmit` say where the
  errors are among the events when one is posted, run, or messages are returned;
  what remains is that each of the four places that hose a channel looks at
  `m_channel_err_code_or_ok` first.

`StructFlow_proofs`, `StructOrder_proofs` and `StructReports_proofs`, each of which
extends the one before it, go on under the same assumptions. Their invariants are
stacked, each the one below and what it adds:

| Invariant | What it adds |
|---|---|
| `ThreadInv` | `TypeInv` and `FlushIsGood`; the error is emitted once and last (`ErrorIsLast`); with one pipe no handler but the one being run is posted (`OneAtATime`) |
| `FlowInv` | `Numbered`: messages sent have the IDs 1, 2, ... and the next is fresh. `FlowOn`: what is on the pipes and in reassembly are the messages sent and not yet accepted, as they were sent, on each pipe in order, on no two pipes; while the receiver is good none is missing (`Whole`) |
| `BlameBase` | `Authentic`; `Known`: whatever is posted, waiting or handed over was accepted |
| `LogInInv` | `RequestTokens`, `ClientStart`, `ServerStart`: what a log-in is made of on one pipe; nobody is blamed |
| `OrderBase` | `Sorted`: handlers are posted, and messages wait, by rising ID, and a response handed over precedes those posted |
| `PlaceInv` | `Placed`: an ID accepted is handed over, posted or waits under one kind, in one of these; only that at which the channel was hosed may be in none |
| `ClassInv` | `WaitingIsUnexpected`; `Classes`: a notification waits under its own kind; `PostedClears`: where one is posted none of its kind waits, nor will during the flush; handed over in order, without gaps (`ClassOrder`) |
| `PipeInv` | no more was sent than the workload allows |
| `ReportInv` | on `BlameBase`: `Credible`. Every report heard or on its way is of a response found unexpected, and reports come with rising IDs, those heard before those on the way (`Heard`, `NoticesRise`) |
| `WantedInv` | on `OrderBase`: `Registered`: an expectation of a response belongs to a request that was sent with it. `Answered`: a response posted or handed over belongs to a request that expects responses; if it is one-off its expectation is gone and there is no other response |

A step is not looked at action by action in each of these proofs. `UserMoveNext`
shows once that a step does to a peer's handlers, list of events and maps one of
eight things (`UserMove`: nothing, an error told by a call, messages returned, hosed,
informed of a report, a list kept, a message accepted, a handler run), `WireMoveNext`, `SndMoveNext` and `RspMoveNext` say
the same of the pipes, of sending and of response expectations; the preservation lemmas
go by these cases.

* `ResponsesInOrderAlways`, `RemoteReportsTrueAlways`: without any hypothesis.
* `SilentAfterOnError`: nothing follows the on-error handler, one pipe or two.
  `SilentAfterErrorAlways` adds the errors that calls return, under `~TwoPipes`: with
  two, a handler that meets an error by its `send()` has others behind it.
* `CloseCutsNothingOffAlways`, under `~TwoPipes`: with two the close of one hoses the
  receiver while the other still has messages.
* `NoFalseBlameAlways`, under `~(LogIn /\ TwoPipes)`, the one case the run
  `TwoPipeLogIn` shows to be violated.
* `IdsFreshAlways`: without any hypothesis, the requests that fail, come after
  `async_end_sending()` or are refused included. `IdsFreshOnceLoggedIn` follows: for a
  peer that is not in `SRV_LOG_IN` the next ID has no expectation.
* `ResponsesWantedButOne`: on any channel, for every request but the first message of a
  server that may call `async_request()` in log-in. `ResponsesWantedAlways` is the
  property itself, under `NoEarlyRequest`: no such calls. The exception here and in
  `IdsFresh` is *Refused request* above.
* `ExactlyOnePlaceAlways`, under `~KeepsList`: a user that passes to `expect_msgs()` the
  list of an earlier call may be handed a message twice (*Same list* above).
* `NotificationsInOrderAlways` and the refinement `ImplementsOrderedPipeAlways`, under
  `~KeepsList` and `NoOneOffs`: with two pipes `expect_msg()` is not used (*Order
  within a batch* above). `expect_msgs()` and log-in need no such restriction.

Each hypothesis names a case in which the code does not keep the property, as the
entries of section 4 say; the runs' instances that check these properties satisfy
them.

`Framing_proofs` proves, for any builds of the two peers, any number of messages
and of segments, and any set of failing transports:

* `TypeCorrect`: `Spec => []TypeOK`. A chain that collects blobs keeps its type
  only because a notice is never met after the first blob: the invariant `Framed`
  says that the first blob on a wire not yet read is the other peer's notice and
  that all others belong to messages. It needs `Starting`: a peer that reads has
  sent its own notices, hence what it sends in answer comes behind them.
* `NegotiatedFirstAlways`: `Spec => []NegotiatedFirst`, with the invariant
  `Agreed`: what a peer has negotiated is the lower of the two newest versions, and
  it speaks that version of both protocols if its channel is good, a chain is past
  the notice or a message was looked at. This covers both orders in which the
  notices of two pipes may be read. It is a promise of one side: the notice says
  only the newest version a peer speaks, so a client may read messages of a server
  that has dropped the client's version. That server refuses the client's notice.
* `NegotiatedAlike`: if both peers look at messages they have settled on the same
  version, and for either protocol there is a version both speak.

`FramingStream_proofs` goes on: `NeverMisreadAlways`, `SegmentsAddUpAlways` and
`FramingImplementsWholePipe`, without any hypothesis. The inductive invariant `FlowInv`
joins `NeverMisread` and `StreamInv`: as long as a chain reads there is a function `pos`
from the messages sent on its pipe to their places among the blobs still on the
wire (`Carried`), negative for the one the chain has begun (`Reads`). The message sent
last may have been cut; then the sender is hosed and its transport broken, so
nothing will ever come behind it (`Dead`). That is why no later blob can be taken
for a continuation, which `NeverMisread` alone could not show.

`AsyncChannel_proofs` proves, for any set of threads, any of them without a timeout,
any part of the API, any peer and any bounds:

* `TypeCorrect`, `ErrorToldOnceAlways`, `OwnAnswerAlways`, `HandlersSerialAlways`,
  `EndSendingCalledOnceAlways`, `HandlersInOrderAlways`: the invariants of the two
  runs. One inductive invariant `IInv` serves them all. `TasksCall`
  and `RunsCall`: a task of handlers has one to call, and none is that of an error
  or an end, so that only `RunError` and `RunEnd` tell these. `SyncInv`: who holds
  `m_sync_op_mutex` waits, `m_sync_op_state` is its, and an expectation registered by
  an earlier `sync_request()` has an earlier number, so a late response is told from
  one that is due. `ErrorInv`: by who met it, the error is nowhere, told, in exactly
  one posted task, or the result of the operation that is on. `SerialInv`: the
  finisher begins when W is out of its handlers, and ends when no task is left.
  `EndInv`: by how far the close is, the completion handler is saved, or its task
  posted, or it was called.
  `LineInv`: the calls decided upon are laid out one behind the other: first those
  made (`Made`), then those the runner's task has left (`GoesOn`), then those of the
  tasks posted, for which a function `pos` says where each begins (`InLine`). Posting
  a task extends `pos`, taking one shifts it.
* `Implements`: `Spec => ImplementsRequestReply`. Every step of the wrapper is a step
  of `RequestReply` or leaves its variables alone; `SyncReturns` is the step that
  needs `IInv`, to know that the result is the response to its own request or the
  error that is due and untold.

`Message_proofs` proves, for any number of objects and handles, any word size and
any two limits no smaller than a word:

* `HandlesHeldOnceAlways`, with the invariant that an object that is no message has
  neither segments nor a handle: else `Create` would drop one.
* `OnlyLeavesAreTooBigAlways`: `SegsOk` says that every segment is within the limit,
  or holds one object and is full, and that one segment is as large as the largest
  object. `WordsFit` carries it from words to bytes: what fits by count of words
  rounded down fits by size, and conversely, which rounding up would break.
* `FitsThePipeAlways`, since no segment is empty and none is larger than the
  smaller limit.
* `ReceivedAsSentAlways`: `ReceivedAsSent` alone is not inductive, as it says nothing
  of the wire. `StreamInv` adds that what has been read of a message agrees with what
  was sent, that the wire goes on with the rest of it, and then carries the messages
  that were sent after it, one behind the other: there is a function `pos` from these
  to their places (`Placed`). Sending extends it by one (`PlacedSend`), reading a
  blob shifts it (`PlacedShift`).

Model-checked only: liveness and everything that rests on fairness, which the
provers do not handle (`EventuallyAccepted`, `EventuallyEmitted`,
`EventuallyInformed`, `WaitEnds`, `HandlersFire`, `ErrorTold`). Every other property
of the passing runs is a theorem.

## 6. Not modelled

* The owned `transport::Channel`, `Protocol_negotiator`, capnp and the thread loop,
  which are other modules of Flow-IPC or third-party; they appear as this code uses
  them.
* Malformed input: blobs a peer running this code cannot produce. A peer of another
  build, another session's peer, and a transport that fails are modelled.
* `replace_event_wait_handles()`, which comes before `start_ops()` and keeps no
  state of the protocol.
* In `AsyncChannel`: what `StructChannel` covers (log-in, several kinds, two
  in-pipes), and the wrap-around of `m_sync_op_state_id` after 2^32 calls of
  `sync_request()` (`MaxSync` is below that).
* In `Message`: what words a segment holds, space for a frame (this code asks for
  none), orphans of capnp, and assignment of a message to itself.
* The assertion in `handlers_post()` that with one pipe at most one handler waits
  (3629): a `Struct_reader` that refuses after a message has posted its handler could
  break it, but `Framing` has the refusals and `StructChannel` the handlers, and the
  heap reader never refuses.
* Contents of message bodies, logging, metadata text, pretty-printing.
* Memory limits, except a `Struct_reader` that refuses a segment.
* SHM serialization: other repositories provide it behind the same concept.
