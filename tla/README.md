# robobus in TLA+

robobus connects the boards of a robot over CAN.  This directory models the parts
of it that carry its logic, checks them with TLC on small instances and proves
the results that matter most with TLAPS for every instance.

Paths below are relative to `src/lib/bus/include/robobus` (network, ...) and
`src/lib/runtime/include/robobus` (runtime, coroutine, internal, ...).

## The system

| component | state | operations | hard because |
| --- | --- | --- | --- |
| control stream (`network/cstream.hpp`) | two state codes per half, cached data, ok and new-data flags | PutTxData, FeedRxData, LoadRxControlData, Tick | frames lost and repeated, two frames per message that may be lost singly, client slots re-enter it |
| its CAN binding (`network/cstream_can.hpp`) | four message ids | OnRx, FeedTxData, Tick | the result of `can_->Send` is ignored |
| MultiUpdatable (`internal/multi_updatable.hpp`) | need flag, timer, value | Update, Reset, Tick | Reset against a re-entrant Update; the timer left at 0 |
| Signal (`internal/signal.hpp`) | list of slots | Connect, Fire | slots run inside the handler that fires |
| enumeration (`network/interface/enumerate_interface.hpp`) | id manager, waiter | scan, advertise, assign, AwaitEnumerated | broadcast, random tags, no retry, interrupts against coroutines |
| queries (same file) | two collecting encoders per device, the locals of three coroutines | QueryDevice, QueryInterface, QueryStr and their responders | indices shared by all queriers, chunks, a reply is known by its opcode only |
| interface search (same file) | one list of results | FindInterface, kFindInterface, kInterfaceReference | a window of 100 ms, late answers |
| device (`network/device/device.hpp`) | state, address, tag, table of interfaces | transitions, IsToSelf, AddInterface | the tag is never cleared; 0 stands for no address |
| network core (`network/core.hpp`, `network_can.hpp`, `*message_id.hpp`) | none | dispatch, packing of ids | 8-bit fields |
| synchronous receive (`network/interface/interface.hpp`) | queue of 4 waiting coroutines | ReceiveAwait, HandleRxMixin | matching by opcode only, a slot freed twice |
| event loop (`runtime/loop.hpp`, `sleep.hpp`, `time_context.hpp`) | queue of 64 resume requests | RequestResumeAt, ScheduleResumeInstantly, Run | drops when full, called from interrupts, stops when empty |
| lazy resumer (`runtime/lazy_resumer.hpp`) | one waiter, one value | await, Resume | spins for ever without a waiter |
| coroutines (`coroutine/*.hpp`) | continuation, value, done | await, return, resume | completion before or after the await |
| console interpreter (`console/interpreter.hpp`) | 256-byte line, cursor, escape state | one byte in | the ends of the buffer |
| monitor (`monitor/*.hpp`) | linked list of entries, ring of 12 lines | AddEntry, RemoveEntry, log, a frame | RemoveEntry copies objects and leaves the tail; a frame reads a destroyed copy of the log |
| contexts, IRP and name interfaces | almost none | formatting, sending | nothing a model would tell |

How they interact.  CAN calls `OnRx`; the core asks `Device::IsToSelf` and calls
the interface's `HandleRx`, which first wakes a coroutine that waits for the
opcode and otherwise runs `HandleRxAsync`.  `HandleRxAsync` sends frames, changes
the device and resumes waiters through the event loop.  A control stream on CAN
has its own `OnRx` and two message ids per direction; it calls its client through
signals.  There are no threads but the debug one; the two contexts are the main
loop and, according to `runtime/lazy_resumer.hpp`, interrupts.

What makes each part correct: the control stream delivers each message once and
in order and says tx_ok only after that; no two devices get one address and every
device gets one; a coroutine that waits is resumed, once, with its value; a reply
reaches the query it answers; the loop runs what it was given when it is due; the
line editor and the entry list do what their abstract counterparts do.

## Modules

| module | models | role |
| --- | --- | --- |
| `MultiUpdatable` | `internal/multi_updatable.hpp` | the retransmission clock, instantiated by ControlStream |
| `ControlStreamState` | `ControlStreamState::MixCode` | the real arithmetic at a scaled width |
| `ControlStream` | `cstream.hpp` and `cstream_can.hpp` | two ends, the bus between them, and their clients |
| `ReliableStream` | nothing: abstract | what a control stream promises |
| `ControlStreamInvariant` | nothing: invariant | the inductive invariant |
| `ControlStreamProofs` | nothing: proofs | of a client that waits for tx_ok |
| `ControlStreamFreeProofs` | nothing: proofs | of any client, with an invariant of its own |
| `MCControlStream` | nothing: instances | |
| `Enumeration` | handshake, `AwaitEnumerated`, `Device`, `DeviceIDManager` | any number of nodes on one bus |
| `EnumerationInvariant`, `EnumerationProofs`, `MCEnumeration` | as above | |
| `EventLoop` | `runtime/loop.hpp`, `sleep.hpp`, `lazy_resumer.hpp` | coroutines, the loop that runs them, interrupts |
| `EventLoopProofs`, `MCEventLoop` | nothing: proofs, instances | |
| `P2PMessageID` | `message_id.hpp`, `p2p_message_id.hpp` | the packing of ids, used by DeviceQuery |
| `SyncReceive` | `SyncRxMixin` of `interface.hpp` | the wait queue, operators used by DeviceQuery |
| `DeviceQuery` | queries, search, their responders | composes SyncReceive, the ids, Device and its table of interfaces |
| `DeviceDirectory` | nothing: abstract | what a query promises |
| `DeviceQueryProofs`, `MCDeviceQuery` | nothing: proofs, instances | |
| `Coroutines` | `coroutine/*.hpp` | promises, awaiters and the stack they nest on |
| `CoroutinesProofs`, `MCCoroutines` | nothing: proofs, instances | |
| `LineEditor`, `LogMonitor` | `console/interpreter.hpp`, `monitor/srobo1_log.hpp` | operators on the records that Viewer holds |
| `Viewer` | `monitor/bus.hpp`, `monitor/viewer.hpp` | composes the list of entries, the log and the editor |
| `Console` | nothing: abstract | what the screen shows |
| `ViewerProofs`, `MCViewer` | nothing: proofs, instances | |
| `SequenceFacts` | nothing: lemmas | stacks and queues, induction and recursion, used by the proofs of the queries, the coroutines, the loop and the monitor |

An operator named `X_Y` stands before the operator `X` and is a fault X could have
had (`Expires_Exactly`: `== 0` for `<= 0`); the models do not use it.  PROJECT.json
pairs each with the property that notices it.

### ControlStream

Per end `n`: the inbound half (`prevState` = previous_state_v, `calcState` =
calculated_state_, `rxOk`, `hasNew`, `rxData`, `hIv` = state_validate, `hIf` =
state_feedback), the outbound half (`hOv` = state_validate_, `hOf` =
state_feedback_, `txData`, `txOk`) and the three MultiUpdatables.  Each handler is
an action.  LoadRxControlData calls both halves with a client slot (rx_data)
between them and another (tx_ok) after the second, and the client may call
PutTxData in either: it is split there into LoadRxControlData, SetStateFeedback
and TxOkReturns, and `stage` says where it is.  No other handler of the same end
runs meanwhile.

The bus is a FIFO per CAN id and receiving end that holds QueueCap frames and drops
the rest, as the controller does when the ignored result of Send says so.
LoseData and LoseCtrl drop any frame.  Frames of the two ids overtake each
other.  The timer counts ticks: `TimeoutTicks` is 10 ms in calls of Tick; the
float rounding is left out.  RD16 is external, so the checksum is a CONSTANT;
MixCode is a CONSTANT in ControlStream and, in the instances, the code's formula
at 8 bits with 4-bit checksums (32 and 16 in the code).

The client: `AwaitOk` says whether it waits for tx_ok before it puts again. `put`,
`got`, `chain` and `busy` record what it saw; no handler reads them.

What the model shows about the code, beyond its properties: the second and every
later message is accepted only after a retransmission of its data whenever the
data arrives before the control frame, because calculated_state_ was computed
from the code before last; tx_ok is fired again for every later control frame and
even before the first message; the state updatables are never reset, so control
frames repeat for ever; is_ok_value_ never stops a check, since each caller clears
it first.  A client that overwrites a message that is not confirmed can leave the
receiver one code behind, and then nothing more is accepted until the codes meet
again: Answered is claimed only for a client that waits.

### Enumeration

Per node: `state`, `self`, `tag` of its Device, `nextId` of its DeviceIDManager,
`found` (OnDeviceFound) and the coroutine in AwaitEnumerated.  A CAN frame reaches
all nodes at once and the handlers of one frame touch only their own node, so
HandleScan, HandleAdvertise and HandleAssign each run the handlers of all nodes
that hear the frame; on a lossy bus any of them may miss it.  Frames in `bus`
wait in their senders' mailboxes and win arbitration in any order.  A frame's
`by` and `no` tell transmissions apart and no handler reads them.

AwaitEnumerated tests the state, then suspends, and handlers run between any two
steps of a coroutine: no source says which context `OnRx` is called in, and
lazy_resumer.hpp names interrupts.  On a device that has its address it ends without
suspending, so its frame is gone when the caller asks the promise: `await` is
"undefined" from then on, and nothing is claimed of what it returns.  `Waiter` are the
nodes whose application calls it.  Restart is a power cycle of a device: everything is in RAM.  Root does
not restart, and the one application that calls FindEnumeratedDevices is in
`Scanner`: both are decided outside this repository.  Addresses are scaled from
256 to `2 * Half`, tags are the upper half, Broadcast is the last.

The handshake opcodes are never awaited through ReceiveAwait, so they always reach
HandleRxAsync; the interface at port 0 is the only one a handshake frame
addresses.

### EventLoop

`list` is resume_list_lifo_ (a FIFO in spite of its name), `finished` is
task_finished_, `handles`, `popped` and `left` are the locals of ProcessResumeList,
`now` is what Tick() last read from `clock`; per resumer `waiter`, `handle` and
`value`.  ProcessResumeList is split into Top, Size, Pop, Sort, Scanned and Resume because an
interrupt may push a request between any two of them; await_suspend is split into
Await and Suspend for the same reason, and so is `if (await_ready()) Resume(v)` in a
coroutine, into Ask, Test, HandOver and Clear.  In an interrupt Resume is one step
(Interrupt).  `ByTask` and `ByIsr` say which awaiters are resumed where.  A Resume that
finds no waiter spins for ever ("spins").  A coroutine runs from Resume to its next
co_await or its end, and no step of the loop comes between.
Coroutines are the application's: they do whatever co_await allows.
`Nano::collection::Queue` is outside `src/`; its Push on a full queue, which only
loop.hpp:56 could meet, is taken to drop like the tested ones, and NothingDropped
says that it does not come to that; all its operations are taken to be atomic.
`for` in a request, `wake`, `early`, `interrupted` and `readNothing` record what
happened; no step reads them.  The callers in `src/` ask await_ready before they call
Resume, and so does Ask.

What the model shows beyond its properties: Run() returns although a coroutine waits
for an interrupt, when nobody sleeps at the same time, and also when an interrupt
resumes somebody after the pass found the list empty, who may then sleep for good.
StopsIdle and Woken make an exception of the interrupt in the last pass; no source
says that there should be none, and RootContext::Run() simply returns.

### DeviceQuery

Per node: `interfaces` of its Device (without null ones), the two encoders
`collected_interfaces` and `collected_strings`, `wait_queue`, the list
`find_interface_results` and the coroutine of a search.  Per call of Query: a
record with the locals of QueryDevice, QueryInterface and QueryStr, of which one
is innermost; `at` is the ReceiveAwait it waits in.  A reply resumes that coroutine
inside HandleRxMixin and it runs, through the ends of QueryStr and QueryInterface,
to the next ReceiveAwait: one step (Proceed of After).  The node is removed before
and once more when ReceiveAwait goes on, and by then the coroutine has not yet
asked for the next one, so that the second removal finds nothing (Removed).
Handlers of requests answer at once: HandleQueryDevice lists the unordered map in
any order.  `at` is "undefined" when ReceiveAwait found no node (it ends at once,
and `co_await` then asks a promise that final_suspend has destroyed) and when a
chunk would be written behind its string.

A byte of a message is scaled to Width values and a chunk to Chunk characters; the
length bytes, the empty string, the odd last chunk and the cast of indices are
computed as in the code.  Short and Counted say which devices fit these bytes.  Ids
are packed and unpacked by P2PMessageID at their full width.  Every node's enumerate interface is at Port, as InterfaceCANTx assumes: it
sends to the port it is at.  Frames to different nodes and of different senders
overtake each other; a node's application awaits each call before the next, unless
Concurrent.  A search goes on after its 100 ms at any time, whatever is still on the
bus (WakeUp).  `known` is what the device had when it was asked, `missed` what had not
answered a search when it ended; no handler reads them.  Each node searches once: a
second search would clear the list and get the late answers of the first.

### Coroutines

`stack` is the C++ stack of coroutines: whoever calls or resumes one has it on top
until it suspends or ends, since initial_suspend and final_suspend never suspend.
Return() is split into Return (mark the promise), Callback (one turn of its loop)
and Destroy, because the waiters run inside it and call, await and resume others.
`is_finished` and `on_return_callbacks` are the promise's, `returned` counts the
turns; `waiter_available`, `handle` and `return_value` are those of each
ImmediacyAwaiter, whose Resume runs the waiter before it returns.  What suspends
otherwise is woken from outside (Wake), which EventLoop details.  Task awaits what
`Awaits` lists.  Premises, from the callers in the repository: nobody resumes an
ImmediacyAwaiter without a waiter (a breakpoint) or awaits one that has a waiter,
and a coroutine is awaited before it has ended.

### Viewer, LineEditor, LogMonitor

`head`, `tail` and `next` are the linked list, and `text` says whose name and text an
object holds: RemoveEntry of an entry that is not the first copies the successor over
it, with its link (Overwrite), and tail_ stays at the successor.  Removing the last of
several, or an object that is not on the list, reads through nullptr (Stray):
`undefined`, and nothing follows.  An entry is added once, with a null link, and
removed once.  LogMonitor's ring is an array with two positions; LineEditor's record
is the Interpreter: buffer, length, cursor and escape state, one operator per
function.  The shifts of the buffer are written as one function each, at the code's
bounds.  A frame of the viewer prints and handles one key, without a co_await, and is
one step; what it prints is a function of the state (Entries, Texts, Lines,
BeforeCursor, FromCursor, command) that the refinement compares with Console.

`garbage` are the parts of a frame that may have been read from memory that is not
theirs: the log in every frame, because the loop over its lines outlives the copy that
GetLogMonitor() returned, and the command once a submitted line fills command_buf and
leaves no terminator.  Console allows garbage there and nowhere else.

A key of the model stands for its byte; both line ends are Enter.  Keys are typed while
there is room for them.

## Runs

The instances switch TLC's deadlock check off: puts, scans, restarts, queries and calls
are bounded, and an instance stops when they are used up; Viewer stops when its
behaviour is undefined.

| run | question | bounds |
| --- | --- | --- |
| ControlStreamDuplex | exactly once, in order, retransmitted until taken, with both ends sending? (TypeOK, IInv, InOrder, RetransmitsUntilTaken) | 2 and 1 messages of 2 payloads, queues of 1, timeout 1 |
| ControlStreamFree | what survives a client that overwrites? (OnlyWhatWasPut, RetransmitsUntilTaken) | 3 messages one way, queues of 2, timeout 1 |
| ControlStreamLive | is every message confirmed, and is the abstract stream implemented? (Answered, ImplementsReliableStream) | 2 messages one way, queues of 1, timeout 2 |
| ControlStreamZero | is a message taken when it is given up, whatever its checksum? (TakenWhenReset, violated) | 1 message each way, a payload with checksum 0 |
| EnumerationLossy | unique addresses under loss, restarts, handlers between any two steps? (TypeOK, IInv, UniqueIds, ReturnsOwnId) | 2 devices, 8 addresses, 2 scans, 1 restart each |
| EnumerationLossless | does one scan reach all and wake all, whatever the tags? Is what OnDeviceFound said true in the end? (AnswerUnderway, FoundAreDevices, Enumerated, Awaited) | 3 devices, tags that may clash or equal Broadcast, 2 scans |
| EventLoop | is anybody resumed twice, dropped, late or left behind when interrupts come between any two steps? (TypeOK, ResumedOnce, NothingDropped, OnTime, StopsIdle, Woken) | 3 coroutines, a resumer for coroutines and one for interrupts, as many places as coroutines, time up to 2 |
| EventLoopHandle | is the handle real when an interrupt resumes? (RealHandle, violated) | 2 coroutines |
| DeviceQuery | does a query return what the device had at one moment, whoever else asks, searches or adds? (TypeOK, NeverUndefined, Underway, FoundAll, ImplementsDirectory) | 3 nodes, 2 queries of one of them, 1 search, 1 interface added; bytes of 4 values, chunks of 2, one slot |
| DeviceQueryMixed | and two queries of one node at once? (AnswersOfDevice, violated) | 2 queries of 2 devices, four slots |
| Coroutines | is anybody resumed while it runs or is gone, or forgotten? (TypeOK, NoReentry, NobodyForgotten, NobodySpins, CallbacksStable, Unwinds) | 4 coroutines, three of which may be awaited by others, 1 ImmediacyAwaiter, 2 Resumes |
| Viewer | does the screen show what a user expects, and the list what was not removed? (TypeOK, AddedAreShown, ImplementsConsole) | a line of 3 characters, 4 lines of log of which 3 show, 5 lines logged; 4 entries, added while nothing is typed or logged (Apart) |

Why the bounds are enough.  The stream's invariant speaks of the last message and
the one before, so two messages one way and one back reach its cases, and a queue
of one already makes a Send fail; queues of two, which hold an old and a new frame
at once, are in the Free run, and the proof covers every length.  Two payloads
tell a repeated message from a new one.  Two devices are what
a clash of tags or addresses takes, a third shows that the rest go on; a second
scan meets devices in every state; one restart meets every stage of the handshake.
In the loop two coroutines with a resumer each, one resumed in coroutines and one in
interrupts, and one that only sleeps fill a list of three places; sleeps of no time
and of a tick, in a row, meet requests that are due, due in the same pass and to come.  64 places take as many coroutines: with more
of them requests are dropped, as loop.hpp:93 says.
A queried device with two queriers meets encoders that somebody else has extended;
the string of 4 characters has a length of two bytes and two full chunks at these
scales, others are empty, equal, or of one odd chunk; one slot shows that a query
needs no more than one.  In Coroutines one is awaited by three others, so callbacks
are called while those before them suspend, end or resume one another.  A line of 3
has a first, a middle and a last character, and can fill the buffer; 5 log lines go
around a ring of 4.  A first entry, one that is copied over, its neighbour and one that
is added behind that are 4.  Entries share no variable with the line and the log, so
that TLC looks at them apart; the theorems do not.

Fairness.  ControlStream: the main loop calls Tick again and again (strong, because
a handler that is running keeps it out), a handler that was entered returns, and a
bus that is given a frame again and again does not lose all of them (strong
fairness of the two receptions; without it nothing can be delivered).
Enumeration: the bus carries what waits for it, a coroutine that runs reaches its
co_await, and the loop resumes what was scheduled.
DeviceQuery: the bus delivers while it has frames, and the clock goes on.
Coroutines: code that has the processor runs on, and what sleeps is woken.
EventLoop: the main loop takes its next step (weak, nothing can keep it from that),
a coroutine that runs reaches its next co_await, and time passes.  Liveness of the handshake is
claimed on a lossless bus only: the code has no retry and no timeout there, and a
device whose kAdvertise or kAssignID is lost waits in kIdWaiting for good.

## Disagreements met

Three have runs that show them:

* `cstream.hpp:149` calls Reset() when the codes agree.  They agree at once when
  MixCode leaves the code as it is: a payload with checksum 0 put at code 0 is
  declared delivered and never fired by the peer.  `multi_updatable.hpp:45` says
  Reset() tells that the data was updated properly.  (ControlStreamZero)
* `lazy_resumer.hpp:84` sets the flag before the handle; an interrupt in between hands
  a null handle to the loop, and the coroutine is lost.  (EventLoopHandle)
* `interface.hpp:114` matches a reply by its opcode; `docs/Ident.md:12` says that
  `Device` and `Interface` tell of the device that sent them.  Two queries under way
  at once get each other's replies.  (DeviceQueryMixed)

Five more have a configuration of their own, which is not among the runs:
`tlc -config EnumerationClash.cfg MCEnumeration` and so on show the trace.

* `enumerate_interface.hpp:291` draws one of 128 tags; two devices with one tag take
  one address.  `docs/interfaces.md:73` calls the Device ID that which identifies a
  device in the circuit.  UniqueIds is violated without any loss.  (EnumerationClash)
* `enumerate_interface.hpp:405` tests, then suspends; an address assigned in an
  interrupt in between (`lazy_resumer.hpp:8` says Resume is for ISR contexts)
  wakes nobody.  NoLostWakeup is violated.  (EnumerationWakeup)
* `coroutine_awaiter.hpp:25` asks the promise whether it is finished, but
  `promise.hpp:55` never suspends at the end, so the promise of a coroutine that has
  ended is gone.  AwaitEnumerated of a device that has its address ends before its
  caller awaits it: AwaitsTheLiving is violated.  (EnumerationLate)  ReceiveAwait
  without a free node does so too.
* `lazy_resumer.hpp:73` pushes the handle before lines 76-77 clear the waiter; an
  interrupt that resumes the awaiter a coroutine is resuming pushes it again.
  ResumedOnce is violated.  (EventLoopTwice, with MCEventLoop)
* `lazy_resumer.hpp:80` is true while somebody waits; `generic_awaiter.hpp:29` says
  that it becomes true with the Resume.  When two coroutines await one resumer, the
  second goes on without a value.  YieldsValue is violated.  (EventLoopShared)

The others can be read off the models, whose abstract specification allows them:

* `bus.hpp:44` assigns to the entry that is removed, not to the link of the one before
  it: the entry becomes a copy of its successor, which leaves the list, and if that
  was the last one, tail_ goes on pointing at it, so what is added next is lost.  For
  the last entry the null link is dereferenced.  Nothing calls RemoveEntry.
* `bus.hpp:34` returns a copy of the log monitor; the range of `viewer.hpp:50` outlives
  it, while the iterators in it point to the lines of the original.
* `viewer.hpp:29` copies a line of up to 256 characters into 256 bytes: the longest
  leaves no terminator for the `%s` of line 42.

## Proofs

Each theorem holds for every value of the constants, under the assumptions of its
module and the premises it names.  Each inductive invariant below was checked with
TLC on the instance of its component before it was proved.

| module | theorems | premises |
| --- | --- | --- |
| ControlStreamProofs | TypeCorrect | none |
| | IInvCorrect, DeliveredInOrder, KeepsRetransmitting, Refinement | AwaitOk, []NoCollision |
| ControlStreamFreeProofs | FreeInvCorrect, OnlyPutFires, AlwaysRetransmits | []NoCollisionEver |
| EnumerationProofs | TypeCorrect, ReturnsOwnIdCorrect | none |
| | IInvCorrect, UniqueIdsCorrect | Scanner = {Root}, []NoTagClash, []NotExhausted |
| | AnswerUnderwayCorrect | ~Lossy, Scanner = {Root}, []NotExhausted |
| | FoundAreDevicesCorrect | the same, MaxRestarts = 0 |
| EventLoopProofs | TypeCorrect | none |
| | IInvCorrect, NeverResumedTwice, AlwaysOnTime | OneAtATime |
| | NothingLost, StopsWhenIdle | OneAtATime, Fits |
| CoroutinesProofs | IInvCorrect, TypeCorrect, NeverReentered, NeverForgotten, NeverSpins, CallbacksKept | none |
| ViewerProofs | IInvCorrect, TypeCorrect, AddedAreShownCorrect, ConsoleImplemented | none |
| DeviceQueryProofs | Unpacked, LengthRead | none |
| | TypeCorrect, FoundAllCorrect | none |
| | UnderwayCorrect | ~Concurrent |
| | NeverUndefinedCorrect, AnswersCorrect, DirectoryImplemented | ~Concurrent, Short, Counted |

What goes wrong without each premise:

* NoCollision says that MixCode and the checksum tell the last three codes apart,
  NoCollisionEver says it of all codes so far; a 16-bit checksum cannot promise
  either, and a payload with checksum 0 at code 0 breaks both.  Both instances
  satisfy NoCollisionEver.  AwaitOk: without it two messages may be missing.
* NoTagClash: "Disagreements met".  NotExhausted: the counter of addresses wraps.
  Scanner = {Root}: another scanner hands out addresses from 2 on as well.  ~Lossy
  and MaxRestarts = 0 belong to the properties themselves: a lost answer is not under
  way, and OnDeviceFound names a device again when it starts again.
* OneAtATime says that an awaiter is resumed in coroutines or in interrupts, not in
  both, and that coroutines share none if there are interrupts.  EventLoopTwice.cfg is
  a violation without the first half; with a shared awaiter and interrupts TLC finds a
  coroutine that is resumed twice as well.  Fits is Cardinality(Task) <= Capacity,
  which is what a list that drops what does not fit needs.
* ~Concurrent: a node awaits each of its queries before the next; DeviceQueryMixed is
  the violation without it.  Short: a string has at most 255 chunks of 4 characters
  in the code.  Their numbers are counted in a byte and 0 asks for the length: the
  256th chunk of a longer string is never asked for, its length comes in its place.
  Counted: some port is free at every device, so that it has at most 255 interfaces,
  and its strings are at most 256.  num_interfaces and the numbers of strings are
  bytes, and would wrap: the last interface would go unread, or a string be taken for
  another.  MCDeviceQuery assumes both, so TLC evaluates them on the instance.

### The arguments

ControlStreamProofs.  InOrder is not inductive: it does not say what may be on the way.
IInv says, per direction, that the receiver's front, the frames in the queue and
the sender's back hold the old or the new value only, the new ones behind the old
(`Ordered`) - for the codes hOv to hIv, for the payloads txData to rxData and for
the feedback hIf to hOf - that the receiver's caches were computed from one of the
two last codes (`Receiver`), and that either the last message was taken or it is
being retransmitted and awaited (`Progress`).  Lemmas OrderedSent, OrderedTail,
OrderedHead and OrderedAdvance say what a send, a reception or loss, and the next
message do to Ordered; one lemma per action then goes through the parts.

ControlStreamFreeProofs.  A client that does not wait may overwrite a message, so "the
last two" is no longer enough: FreeInv speaks of the whole history.  Every code that is
held or on the way is one of the codes the sender has had, in the order it had them
(Codes), so is what is fed back (Acks), every payload under way is one that was put
(Payloads), the receiver's caches were computed from one of those codes and one of
those payloads (Computed), and the messages fired are embedded in those put by a
map that grows with the codes (Fires).  A payload can take the receiver forward
only to its own code, which is where NoCollisionEver enters.

EnumerationProofs.  UniqueIds alone is not inductive: IInv adds that only Root
is asked (Frames), that what it hands out grows (Issued) and that an address under
way is in one frame and held by nobody (Fresh).  AdvertiseHeard and AssignHeard
say who can hear a frame; the premise NoTagClash enters there.  AnswerUnderway does
without that premise: AInv says who sends which frame (Origins) and that a device's
question or an answer to its tag is on the way (Pending); an answer to a tag that two
devices share is heard by both.  FoundAreDevices adds that, as long as no tags clash,
each device has asked once and what Root told OnDeviceFound is what devices have or
will get (Told, OneEach).

EventLoopProofs.  A request is in the list, between Pop and Sort, or among the handles
of a pass, in one place, and the only one of its coroutine (Stored); it means the
end of a sleep, a value for its coroutine, or nobody, when an interrupt came before the
handle was taken (Meant).  A coroutine half-way through Resume still has its waiter
(UnderWay), and the coroutine it hands over is scheduled before the handle is cleared
(Held).  Flow says what is where at each point of Run, Due and Early
what a pass may and must resume.  NothingDropped then is counting: requests are
not more than coroutines.  Once the list was found empty only an interrupt can fill it
(Finished), which gives StopsIdle.

CoroutinesProofs.  Registered says that a callback still to be called belongs to a
coroutine that awaits, and to a promise that is there, and no coroutine is in two;
Held says the same of ImmediacyAwaiters.  With them NoReentry is inductive: whoever is
called back is suspended.  CallbacksStable follows, since a coroutine that returns is
marked as finished and await_ready keeps newcomers out of its list.

ViewerProofs.  IInv says that the links lead through a sequence of objects without
repetition, with tail_ at its end or at an object that was copied (Linked), that these
hold the entries which were added and not removed (Named), that the log's pointer is one line behind its head
(Rotated), and that the buffer holds what was typed as far as the line goes (Good).
EntriesShown proves that the iterator yields the sequence that is linked;
LinesShown and LineAdded that AddLine appends to the lines shown and drops the first;
ErasedLeft, ErasedRight, Typed, WentLeft and WentRight say, for the shifts of the buffer
at the code's bounds, what each key does to the two halves of the line.  Each step is
then one of Console, or none: Enter in an empty line, and Backspace or Delete at the
end of their half.

DeviceQueryProofs builds up in five layers.

* Ids and data.  The four parts of a message id come out of it as FromParts was given
  them (Unpacked, division with remainder by 256), so dispatch goes by what the
  sender meant.  The bytes that carry a length are read as that length (LengthRead).
* TypeInv.  Besides the types of the coroutine's locals: where a coroutine may be in
  its loops (Looping), and that whoever is in a queue is a coroutine of that node in
  a ReceiveAwait for that opcode, once (Waiting).  TypeOK alone is not inductive: an
  index is a byte only while the loop that counts with it is running.
* SearchInv.  A question of a search is on the bus once and its asker still collects;
  an answer is on the bus, or in the list, or its question is not answered yet, and
  never in two of these places (Collecting, OnTheWay).  FoundAll follows, since what is
  not in the list when the search ends was missed.  It takes no premise.
* Conversation, of nodes that ask one thing at a time.  A node that asks nothing has
  no frame of a query under way and nobody in its queue (Quiet); one that asks has one
  waiter and one frame, the request of its coroutine or the reply to it (Talking,
  Exchange), and every number either mentions stands for something the device has
  collected (Numbers).  Underway follows, and that ReceiveAwait always finds a free slot.
* Content.  What a device has collected is its own and is there once (Encoders), and is
  only ever extended (Grown), so a number goes on meaning what it meant when it was
  sent, whoever else extends the encoders.  What a coroutine has read is right up to
  where it is (Lists, Reading, ReadTo), and a reply that is under way tells the next
  thing it needs (Tells).  NeverUndefined follows, because no chunk comes that does not
  fit its string, and AnswersOfDevice, because a coroutine that ends has read
  everything (Complete).

DirectoryImplemented puts them together: StartQuery is Ask, the step in which the
coroutine ends is Answer, AddInterface is that of the directory, and every other step
changes nothing it shows.  Answer takes what the device had at one moment: the
interfaces it lists, which contain those of the moment of the question and are among
those of now.

Induction.  The library's induction theorems take a predicate, which the provers
cannot instantiate.  SequenceFacts states induction on a set of naturals instead
(Induction, from the well-foundedness of the order: LeastNat) and the existence of an
iteration as a function (Iterated, RecursionUpTo; StepByStep says what the function
is).  With them EntriesFromStep proves that the recursive function behind Entries is
what its definition says, and DeviceQueryProofs the same of those behind EncodeAll and
Length.  EntriesFrom is defined on the number of steps first and on the entry second
because the prover takes functions of one argument only.

Only model-checked: liveness (Answered, Enumerated, Awaited, Woken, Unwinds) and the
fairness of ImplementsReliableStream and ImplementsDirectory, which the prover cannot
treat: Refinement, ConsoleImplemented and DirectoryImplemented prove the initial
states and the steps.  NoCollision is a premise, not a theorem, and so is the bitwise
exclusive or of MixCode, of which the proofs use no more than NoCollision says.

Every other safety property that a passing run checks is the statement of a theorem.
TakenWhenReset and RealHandle are violated in their runs and have none; AnswersOfDevice
is a theorem under a premise which DeviceQueryMixed lacks (AnswersCorrect).

## Not modelled

`render.hpp`, contexts and debug adapters (output and compile-time strings); the
application interfaces (external random source and thin senders without state); move
construction of loops and the debug thread; connecting signals at run time; the
feature list of a device, which nothing reads, and StartMonitor, which prints;
RobobusOnCAN::Send, which only the application calls; adding an entry of the monitor a
second time; more queries of one node at once than its wait queue has slots, of which
no source says anything, and a second search of one node; interrupts within an operation
of the Queue; a query on a bus that loses frames, which waits for ever since nothing
repeats it.
