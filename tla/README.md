# A verification development of wsmq-rs

wsmq is a small websocket messaging library: a client sends byte vectors or
protobuf messages and awaits one response to each, a server answers them.  The
code is short, but everything in it is concurrent: futures polled on any thread
share one map with the connection task, large messages are cut into frames that
share one channel, and a link may end between any two steps.  This directory
holds TLA+ models of that core, the TLC configurations that check them and the
theorems TLAPS proves about them.

Paths below are relative to the repository (`src/` there is the crate's source
directory).  Tools: SANY and TLC for the models, tlapm 1.4.5 for the proofs.

    tlc -workers 2 -config MCResponseMap_parallel.cfg MCResponseMap
    tlapm ResponseMapProofs.tla

## 1. Inventory of the system

| Component | State | Operations | Talks to |
|---|---|---|---|
| **SharedData and ResponseFuture** (`src/shared.rs`, `src/response.rs`) | `responses`: uuid -> `None`, `Started(waker)`, `Completed(bytes)`, under one `std::sync::Mutex`; `bandwidth`; the channel's sender | `generate_uuid`, `send`, `send_message`, `reply`, `reply_message`, `poll`, `drop` of a future, `clear` | callers, the executor (wakers), the channel |
| **Client and its connection task** (`src/client.rs`) | the `JoinHandle`; the task's two halves, its `message_contexts` | `connect*`, `send`, `send_message`, `close`, `drop`; the task: `on_message`, end of the `select`, `clear` | SharedData, Framing, tokio |
| **Framing** (`send_bytes` and `send_large_bytes` in `src/shared.rs`, `message_dispatch!` in `src/message.rs`) | frames in the channel and the socket, `message_contexts` (uuid -> compression, length, buffer) | one `unbounded_send` per frame; dispatch of ONESHOT, BEGIN, PROCESS, END; `cancel` | both peers |
| **Server** (`src/server.rs`) | per connection: its own SharedData, contexts, the user's `Context` | accept loop, TLS and websocket handshakes, `on_connect`, the read and write halves, `on_disconnect`, `on_error`, `on_progress` | Framing, user callbacks |
| **Wire format** (`protos/message.proto`, `src/protos/message.rs`) | none | encode and parse Header, Oneshot, Begin, Process, End | Framing |
| Configuration, callbacks macro, errors | none | builders and declarations | all |
| Transport and runtime (tokio, tungstenite, futures, snap, native-tls) | external | FIFO channel and socket, tasks and wakers, abort, compression | all |

How they interact.  A send draws a uuid and inserts `None` under the mutex, then
queues its frames without it; a reply holds the mutex from the insertion to its
last frame.  The write half forwards the queue to the socket; the other side's
read half puts the message together and calls `on_message`.  On the server that
is the user's callback, which gets a `Response` to reply to.  On the client it
is the lookup in the map: an entry that holds a waker becomes `Completed` and
the waker is woken; any other entry is removed and the message is lost.  The
first poll registers the waker, a later one takes the bytes, the drop of the
future removes the entry.  When either half ends, the client's task clears the
map in two acquisitions of the mutex (wake, then empty); `close` and the drop of
the `Client` abort the task, which then clears nothing.

What is hard, and what makes each component correct:

* **Map and futures.**  Interleavings of poll, answer, drop and clear; entries
  shared by the calls of one conversation; stale entries.  Correct when every
  await gets the answer to its own request and no other, at most once; when a
  future that waits will be woken; when entries neither leak nor are removed
  under a waiter; when an await fails only for a reason.
* **Connection task.**  The order of the last answers, the two halves of clear
  and the drop of the channel; abort.  Correct when an end of the link resolves
  every waiter.
* **Framing.**  Frames of several threads in one channel; failures in the middle
  of a message; cancellation; boundary sizes.  Correct when messages arrive
  whole, once, in the order in which their sending was completed, or not at all.
  The receiver also gets frames that are not wsmq's: pings, closes, frames that
  do not parse.  Correct when these disturb nothing.
* **Server.**  Handshakes that fail or stall, callbacks that panic, the end of
  the accept loop.  Correct when each connection's callbacks come in order and
  once on every path, and nobody waits for another client's handshake.
* **Wire format.**  Each frame is read twice, with two schemas; defaults are not
  written; a frame has a largest size.  Correct when the Header of every frame
  tells its type and uuid and a frame reads back as it was written.
* **Panics.**  A panic under the mutex poisons it for good; a panicking callback
  takes the connection task with it.  Correct when nobody new is left waiting.

`PROJECT.json` lists the hazards one by one, each at its line, with the
properties that cover it or the reason why none does yet.

## 2. Modules

| Module | What it is |
|---|---|
| `ResponseMap` | the client's map, its futures, the connection task and a server that answers |
| `RequestReply` | abstract: what a client promises of each request |
| `ResponseMapRefinement`, `MCResponseMap` | the mapping from the first to the second; instances for TLC |
| `ResponseMapProofs` | theorems of `ResponseMap`; it implements `RequestReply` |
| `Panics`, `MCPanics`, `PanicsProofs` | `ResponseMap` with panics under the mutex, in sends and in callbacks |
| `Framing` | one direction of a connection: senders, channel, socket, receiver |
| `Mailbox` | abstract: whole messages, once, in order, until the link breaks |
| `FramingRefinement`, `MCFraming` | the mapping from the first to the second; instances for TLC |
| `FramingProofs`, `StreamProofs` | theorems of `Framing`: at most once, cancel, the mutex; transfers that do not mix, and it implements `Mailbox` |
| `Wire`, `WireProofs` | the protobuf frames: schemas, write, size, parse; theorems about them |
| `Receiver`, `MCReceiver`, `ReceiverProofs` | `message_dispatch!` in full, over `Wire`, with frames that are not wsmq's; an instance; its theorems |
| `Server` | connects, accept loop, handshakes, the task and callbacks of each connection |
| `Session` | abstract: the order of one connection's callbacks |
| `MCServer`, `ServerProofs` | an instance of `Server`; its theorems |
| `EndToEnd`, `EndToEndProofs` | `ResponseMap`, a socket and the server's session composed; theorems |

How they fit together: `EndToEnd` extends `ResponseMap` and replaces what it
assumes of its server; `Framing` is one direction of the same connection in
frames, `Receiver` its receiving end in fields and bytes; `Server` is how such
a connection comes about and ends; `Panics` is `ResponseMap` after a panic.

### ResponseMap

A `Call` is one call of `send`, `send_message`, `reply` or `reply_message`.  It
also names the request on the wire, the future that was returned for it and,
after `Ready(Ok)`, the `Response` the caller holds.  A payload is the call it
answers, so an answer that reaches the wrong await shows.  `responses` is the
map with `Absent` for a missing key; the other variables are where the
connection task is (`conn`), what each call has come to (`call`, `alive`,
`waiting`, `result`), the tasks that were woken (`woken`), and the replies on
their way (`inbound`).

One action is one acquisition of the mutex, or one step that needs none:

| Action | Code |
|---|---|
| `GenerateUuid` | `generate_uuid` (shared.rs:54-65) |
| `SendBytes` (`SendOk`, `SendFailed`, `SendRefused`) | the frames were queued and a future returned, or the channel was closed, or the message could not be written, and `Err` returned (shared.rs:67-119) |
| `Reply` | `reply`, `reply_message`: insertion and send under one guard (response.rs:42-57) |
| `PollNone`, `PollStarted`, `PollCompleted`, `PollNotFound` | `poll`, one action per Status (response.rs:78-108) |
| `DropFuture` | `Drop` (response.rs:70-76) |
| `Answer` | the server's callback replies (server.rs:209-221) |
| `Complete`, `Discard` | `on_message` (client.rs:187-200) |
| `LinkEnd` | the select returns (client.rs:229) |
| `ClearWake`, `ClearMap` | the two halves of `clear` (shared.rs:36-43) |
| `TaskEnd` | the task's locals, the channel's receiver among them, are dropped |
| `Close`, `Cancel` | `abort`, and the runtime dropping the task (client.rs:59-68) |

Constants choose the runtime and the caller.  `Parallel`: with a multi-thread
runtime every two actions interleave; on a current-thread one a synchronous
piece of code (a send, `clear` to the end of the task) is not interrupted
(`Busy`, `MayRun`, `MayUse`).  `AwaitAtOnce`: on a current-thread runtime
nothing runs between a send and the first poll of its future, which is
README's `client.send(..).unwrap().await`.  `Disciplined`: futures are consumed
by `.await` before their Response is replied to, and a Response is replied to
once; that is what every example and test does, and what types allow beyond it
is the run `anyuse`.  `Migrating`: a polled future may be polled again from
another task.  A task awaits one future at a time; several futures joined in
one task share its waker and are not modelled.

### RequestReply

Each request is idle, refused, asked, answered, failed or abandoned; an answer is
one the server gave to that request.  A request is refused before it is asked,
when `send_message` or `reply_message` cannot write the message (a required
field is missing, shared.rs:86-99); that happens on a healthy connection too, and
such a request never gets an answer.  The weak promise lets a request fail at any time;
under the strong one (`Reliable`) what was asked fails only once the connection
is down.
The refinement hides the map, wakers, uuids and the two-step clear.

### Framing

The frames of a message are computed from its length, its compressed length and
the bandwidth (`IsLarge`, `Chunks`, `PieceLen`); a piece of payload is the pair
of the message and the chunk's number.  A call queues its frames one by one
(`Push`), for a reply with the mutex held (`lock`); it fails (`PushFails`) when
the channel is closed or, before its first frame, when a protobuf message cannot
be written (`Unwritable`).  `Forward` moves a frame to
the socket; `OnOneshot`, `OnBegin`, `OnProcess`, `OnEnd` and `OnStray` are the
branches of `message_dispatch!`, with the table of contexts.  `Canceled` is the
server's progress callback calling `cancel()`, which fails the read half; the
client ignores it.  `SenderDown` and `ReceiverDown` end a side at any moment:
the channel's queue, or the frames in the socket, are lost.  `Poisoned` is the
state after a panic under the mutex: `generate_uuid` then returns the nil uuid
to everyone and replies are refused.  A buffer that is not one whole message
either is refused by the decoder or decodes to something nobody sent
(`Corrupt`).

### Panics

Extends `ResponseMap` by `poisoned`.  `ReplyPanics` is a reply during which the
cutting or the writing of the message panics: the mutex is held, the entry
inserted, nothing sent.  `SendPanics` is the same in a send, without the mutex; `CallbackPanics`
a panic of `on_progress` or `on_error`, after which the task is gone without
`clear`.  While `poisoned`, each operation does what the code does when `lock`
returns an error:

| Action | Code |
|---|---|
| `NilUuid` | `generate_uuid` returns the nil uuid (shared.rs:63) |
| `ReplyRefused`, `PollMutexError` | `Err(MutexError)` (shared.rs:45-52, response.rs:105) |
| `DropKeeps`, `OnMessageError` | the entry stays; `on_error` (response.rs:70-76, client.rs:201-208) |
| `ClearPanics` | `lock().unwrap()` panics, and nobody is woken (shared.rs:37, 42) |

### Wire and Receiver

A message is a record, a frame the set of its fields with their places, so that
a field may occur twice, out of order or cut off.  `Encode`, `FrameSize` and
`Parse` are the generated `write_to_with_cached_sizes`, `compute_size` and
`merge_from`: a default is not written, an enum is read as an int32 (`Cast`,
with `Word` for 2^32) and an unknown value of it leaves what was read before, a
field of the wrong wire type is an error, an unknown field is skipped, the last
of several wins.  Byte vectors are opaque values with a length.

`Receiver` reads each frame as the macro does, first as a Header and then as
what it says it is; `OnOneshot`, `OnBegin`, `OnProcess`, `OnEnd`, `OnStray`,
`BadHeader` and `BadBody` are its branches.  A peer sends the frames of its
messages in order (`Framing` shows that they do not mix), and between them come
frames from `Foreign`: `into_data()` passes the payload of pings and closes on,
and others may speak the protocol.  The decoder is a constant function,
`Decode`: it gives back what the peer encoded, and what it makes of the streams
of others is left open; no bytes at all it reads as no bytes (`Decoded`), so that
an END right after its BEGIN delivers an empty message.  `limit` is the websocket library's largest
frame.  The same bytes may be sent twice in one conversation, so deliveries are
counted and not just looked for.

### Server and Session

`run` is what became of `server::run`; `client`, `link`, `said`, `task` and
`channel` say how far each connection has come; `calls` lists the callbacks
called.  The handshakes are told by the last thing said in them.

| Action | Code |
|---|---|
| `Start`, `Accept`, `AcceptFails` | bind, `on_started`, the accept loop (server.rs:127-182, 269-280) |
| `ConnectFails`, `TcpConnect`, `ClientHello`, `Upgrade`, `ConnectOk`, `HandshakeFails` | `connect` (client.rs:107-182) |
| `TlsAccept`, `TlsFails` | `acceptor.accept`; its error is dropped (server.rs:270-276) |
| `WsAccept`, `WsFails` | `accept_async`; its error goes to `on_error` (server.rs:186, 258-264) |
| `OnConnect`, `OnFrame`, `OnCancel`, `SelectEnds`, `OnDisconnect` | the session (server.rs:198-256) |
| `Reply` | on a Response kept by the user (response.rs:42-57) |
| `ClientGone`, `LinkFails` | `close` or drop of the Client; the network |

What a client sent may still be read after its link went down, so `OnFrame` and
`OnCancel` ask only that the client was connected.  Every callback may panic,
which ends its task (`Invoke`).  `Session` is what the user of a server may count
on: `on_error` without context and nothing else, or `on_connect`, events,
`on_disconnect`.

### EndToEnd

Takes `ResponseMap`'s client action by action and adds to its steps what they
do to the outgoing channel (`requests`) and the socket (`link`, `upstream`).
On the other side are the session's task, the requests `on_message` was called
with (`received`) and the session's channel (`replies`).  `ResponseMap`'s
`inbound` is the socket towards the client.

| Action | Code |
|---|---|
| `ClientSends`, `ForwardRequest` | `unbounded_send` succeeds; the client's write half (client.rs:167-169) |
| `HangUp` | the task's future is dropped, and with it both halves (client.rs:228-240) |
| `ServerReceive`, `ServerReply`, `ForwardReply` | `on_message`; `reply`; the session's write half (server.rs:209-250) |
| `SelectEnds`, `CancelsLink`, `Panics` | ways in which the session ends; the halves are dropped at once (server.rs:215-251) |
| `OnDisconnect` | (server.rs:252-256) |

The client's select may return at any time (its library may refuse a frame);
its halves live until the task ends, the server's only until its select returns:
the two differ, and the model has both.  Messages travel whole here.

### Mailbox

A message is posted with its last frame, and delivered in that order or, after
a break, never.  The refinement maps the messages under way to the last frames
(`Completed`) among the frames in the socket and the channel (`UnderWay`).

### Definitions named `...Mutant`

Beside some actions stands a second version with a plausible mistake: a lock
given up early, a wake-up forgotten, an End frame not sent, a context not
removed.  No specification uses them.  Putting one in place of its action makes
TLC find a violation of the property it is paired with in `PROJECT.json`: so
each property is known to be able to fail.

## 3. What the runs check

| Run | Instance | States | Shows |
|---|---|---|---|
| `parallel` | 3 calls, 3 uuids, 2 tasks, multi-thread runtime, disciplined caller | 20,868 | `TypeOK`, `OwnedEntry`, `AnswersMatch`, `NoLostWakeup`, `AnswerKept`, `ImplementsWeak` |
| `anyuse` | 3 calls, 2 uuids, 2 tasks, any caller, two answers to a request, futures that move | 472,360 | `OwnedEntry`, `ConversationsApart` |
| `current` | 2 calls, current-thread runtime, send-and-await, with fairness | 5,597 | `AwaitSucceeds`, `NoLostWakeup`, `ImplementsStrong`, `ClosedWaitersReturn`, `AnsweredWaitersReturn` |
| `readme` | 2 calls, multi-thread runtime | until the violation | `AwaitSucceeds` fails: finding 1 |
| `hang` | 2 calls, multi-thread runtime, with fairness | until the violation | `ClosedWaitersReturn` fails: finding 2 |
| `threads` | a small and a large send and two large replies of one conversation, to the server | 1,043,508 | `TypeOK`, `BuffersArePrefixes`, `NothingGarbled`, `CanceledNotDelivered`, `TransferGoesOn`, `ImplementsMailbox` |
| `poisoned` | two large sends on the nil uuid and a refused reply | 20,292 | `AtMostOnce` |
| `client` | a small protobuf message, a large reply of one and a large reply of bytes, to the client, with fairness | 88,191 | `AcceptedIsDelivered`, `CallsReturn` |
| `foreign` | a large message sent twice, an empty and a full-sized one; up to 3 of 12 foreign frames anywhere between their frames | 31,568 | `TypeOK`, `DeliveredExactly`, `ProgressCounts`, `LimitDecides`, `NothingVanishes` |
| `panics` | 3 calls, 2 uuids, 2 tasks, multi-thread runtime, a panic anywhere, with fairness | 129,636 | `StrandedInMap`, `NoNewWaiters`, `CallsStillReturn` |
| `lifecycle` | two clients with any url, one of which may stall, a server with or without a key, with fairness | 121,178 | `TypeOK`, `SessionsMatchUrls`, `ImplementsSession`, `ConnectReturns`, `HandshakeIsSeen`, `SessionsEnd` |
| `session` | a client with 2 calls on a current-thread runtime and the server's session for it, two answers to a request, with fairness | 183,983 | `ImplementsResponseMap`, `RepliedReturns`, `SessionEndReturns`, `SessionFollowsClient` |

The properties in words:

* `OwnedEntry`: an entry that was polled, answered or drained belongs to a live
  future; one that is as it was inserted may also belong to a send under way or
  to one that failed (a failed send leaves its entry: shared.rs returns `Err`
  without removing what `generate_uuid` put in).
* `ConversationsApart`: whatever the caller does and however often the server
  answers, a future takes a reply that the server gave in its own conversation,
  or the emptied buffer of one that another future of the conversation took.
* `AnswersMatch`: an await returns the answer to its own request.
* `NoLostWakeup`: a future that waits has its waker in the map or its task was
  woken; the exceptions are exactly those of finding 2 and an aborted task.
* `AnswerKept`: only the owner, or `clear`, takes a stored answer away.
* `AwaitSucceeds`: no await fails with `NotFound` while the connection runs.
* `ClosedWaitersReturn`, `AnsweredWaitersReturn`: a waiter returns once the task
  has finished, or once its answer is stored.
* `BuffersArePrefixes`, `NothingGarbled`, `TransferGoesOn`: transfers of one
  conversation do not mix, restart or shrink.
* `CanceledNotDelivered`: a transfer canceled at BEGIN or PROCESS is not
  delivered.
* `AtMostOnce`: also with colliding uuids nothing is delivered twice.
* `AcceptedIsDelivered`, `CallsReturn`: what the channel accepted arrives unless
  the link ends; every call returns and the mutex is free again.
* `DeliveredExactly`, `ProgressCounts`: whatever comes between its frames, a
  message is delivered as often as it was sent whole, with its own uuid and
  bytes, an empty one too, and its progress starts at 0, grows with each chunk
  and ends at the total.
* `LimitDecides`: a frame limit of the bandwidth and the header's size carries
  every frame of wsmq's (one of somebody else may still be too long); one of
  the bandwidth alone (what the default of 16 MiB leaves under the websocket
  library's own) does not carry a full chunk.
* `NothingVanishes`: a compressed transfer ends in a delivery or an error.
* `StrandedInMap`, `NoNewWaiters`, `CallsStillReturn`: a panic strands only
  futures whose waker was in the map by then; nobody begins to wait afterwards,
  and all others end, with an error if need be.
* `SessionsMatchUrls`: a server with a key has sessions only with clients that
  speak TLS and accept its certificate, one without a key only in the clear, and
  `Ok` from `connect` means a session at the other side.
* `ConnectReturns`, `HandshakeIsSeen`: a client that stalls in its handshake
  keeps nobody else waiting; whoever got past TLS is seen by a callback.
* `SessionsEnd`: every session whose link ends gets its `on_disconnect`, unless
  a callback panicked.
* `ImplementsSession`: callbacks in order and once, no reply after the last.
* `ImplementsResponseMap`: a client in the composition is a client of
  `ResponseMap`: its server answers only what it received.
* `RepliedReturns`, `SessionEndReturns`: an await whose reply the server took on
  returns, and so does one whose session has ended, however it ended; the
  exception is a client that was closed.
* `SessionFollowsClient`: `close` sends no close frame, and still the session
  ends.

**Bounds.**  Every set is finite and every counter bounded by it.  Three calls
are enough for a conversation of three messages, for two conversations next to
each other, and for an old future, a new one and a third party; two tasks are
enough for one that polls and one that is polled against; `MaxAnswers` bounds
the server's replies to one request (1 in most runs, 2 in `anyuse` and
`session`).  The
liveness runs have two calls.  In `Framing` the bandwidth is 2: reply1 has two
chunks, the last one short (3 = 2 + 1), reply2 one full chunk (exactly the
bandwidth), the large send one short chunk, the small message one Oneshot frame
although it has as many bytes as the bandwidth.  `WordSize` stands for 2^32 in
`bandwidth as u32`: with 4 the cast changes nothing; with 2, in `client`, the
bandwidth truncates to 0 and a small protobuf message takes the long path, and
is still delivered.  There the small message and one reply are protobuf
messages, which may turn out to be unwritable.  No length depends on 2^32 in any other way, so small
numbers show the same cases.  A message is sent once; a link that ended is not
reopened (the library does not reconnect).
In `Receiver` the large message has two full chunks and a short one and is sent
twice in its conversation, the empty one, in the same, has no bytes at all, and
the last is a Oneshot of exactly the bandwidth (200);
the limits are 200 and 225, below and at the size of the largest frame.  Three
foreign frames (`MaxForeign`) make a BEGIN, a chunk that decodes or one that
does not, and an END of somebody else.  `Word` is 16, larger than every enum
value in the frames but one, which is 16 too large.  In `Server` the client that
goes on has two callbacks between its first and last (`MaxEvents`), enough for a message followed by anything, the stalling
one none; one reply per connection (`MaxReplies`).  In `Panics` two uuids let a
conversation go on next to another one.  In `EndToEnd` two calls are two
requests side by side or a request and the reply to its answer.

**Fairness.**  The runtime polls a connection task that can run and a task that
was woken (weak fairness of `OnMessage`, of the three steps of clear, of
`PollWoken`), a synchronous call that began goes on (`SendBytes`, in Framing
`Send`), the owner of a new future polls or drops it (`FirstUse`), and in
Framing the write half and the read half are polled (`Forward`, `Dispatch`).
In `Server` the accept loop and the tasks are polled, and clients other than
the stalling ones go on with their handshakes; in `Panics` new futures and woken
tasks are polled, as in `ResponseMap`; in `EndToEnd` also the four halves of the
connection, and a half finds out that its link is down.  This is what tokio's
scheduler and threads give.  Framing's calls are all made
(weak fairness of `Send` includes its start), and a call that waits for the
mutex gets it when it stays free.  Nothing is assumed of the peer, of the link
or of the caller: the server need not answer, no link need end, nobody need
close, no callback need panic.

**Deadlock.**  The systems may come to rest (all calls done, or the link gone),
so the deadlock check is off; that nobody waits for ever is what the liveness
properties say.

## 4. Findings

1. `readme`: on a multi-thread runtime (`#[tokio::main]`) an answer may arrive
   before the first poll of its future.  `on_message` (client.rs:190) takes the
   entry out and, since it is `None`, drops the answer; the poll then returns
   `NotFound` on a healthy connection.  README.md:33 and tests/test.rs:67 expect
   the await to succeed.  With nothing between the send and the await on a
   current-thread runtime it cannot happen: run `current`, and theorem
   `AwaitsSucceed`.
2. `hang`: `clear` wakes under one guard and empties the map under another
   (shared.rs:37, 42).  A future first polled in between registers a waker that
   is thrown away, and waits for ever; so does a future whose send came between
   the clear and the drop of the channel's receiver.  tests/test.rs:288-291 (an
   await of a request that is never answered) relies on the await returning an
   error when the connection ends.

## 5. What is proved

Each theorem holds for every value of the constants that the named assumptions
of its module allow.  Every invariant named here was run through TLC on the
instances above before it was proved.

### ResponseMap

For every set of uuids, calls and tasks, every `MaxAnswers` and all four mode
constants, from `NullAssumption` (the null values are not members of the sets)
and `ModeAssumption` (the constants have their types):

| Theorem | States | Rests on |
|---|---|---|
| `TypesHold` | `[]TypeOK` | `TypeInv` |
| `MapDoesNotLeak` | `[]OwnedEntry`, whatever callers do | `TypeInv` |
| `ConversationsStayApart` | `[]ConversationsApart`, whatever callers do | `ApartInv` |
| `OwnAnswers` | `[]AnswersMatch` | `AnswerInv` |
| `AnswersAreKept` | the action property `AnswerKept` | all of the above |
| `NoWakeupIsLost` | `[]NoLostWakeup` | `WakeInv` |
| `KeepsThePromise` | `Spec => ImplementsWeak`, given `Disciplined` and one answer per request | `AnswerInv` |
| `AwaitsSucceed` | `[]AwaitSucceeds`, given also a current-thread runtime and send-and-await | `AwaitInv` |
| `KeepsTheStrongPromise` | `Spec => ImplementsStrong`, under the same conditions | `AwaitInv` |
| `AwaitsAreFinal` | `[]OkIsOwnAnswer` and the action property `OutcomesStay`, given `Disciplined` and one answer per request | `KeepsThePromise` |

The argument goes in layers, each inductive given those before it.

* `TypeInv` adds to the types that a `Started` entry holds a task's waker
  (`ClearWake` and `Complete` read it), that a call that has begun has a uuid,
  and that futures and replies belong to calls whose send returned.
* `OwnedEntry` is inductive by itself given the types: each action changes
  entries of one uuid, and that uuid's owner is the one that acts.
* `ConversationsApart` needs `StoredApart`: what is stored under a uuid is a
  reply given in that conversation, or drained by a future of it that has taken
  one.  `ApartInv` is both.
* `SerialInv` (lemma `SerialConversations`) is for disciplined callers: of two
  calls of a conversation one is over: answered, dropped and replied to.
* `AnswersMatch` needs to know where an answer is: `OneAnswer` (on its way, in
  the map or returned, one place only) and `OwnEntry` (what a future finds in
  the map is its own answer).  That `Complete` files an answer under the right
  future follows from `SerialInv`: other calls of that uuid are answered, and
  the answer on its way is not theirs.
* `NoLostWakeup` needs `WakerFits` (a waker in the map is that of the future
  that waits there) and `ClearsAlone` (on a current-thread runtime nothing is
  polled or sent inside `clear`).
* `AwaitSucceeds` needs that while the connection runs, the entry of a call not
  polled yet is still `None`, and that of one that waits holds its waker or its
  answer.  This is where `AwaitAtOnce` is used: the connection task cannot run
  between a send and the first poll, so `Discard` meets no such entry.
* The refinements show that each action is a step of `RequestReply` or changes
  nothing it sees; the strong one adds that no call turns failed while the
  connection runs (one whose message cannot be written turns refused instead).
* `AwaitsAreFinal` is what the refinement is good for: `RequestReply` is small
  enough to see that an answered request has the answer its server gave, and
  that answered, failed and abandoned are final (`PromiseHeld`, `PromiseKept`);
  through the mapping this is a fact about `call`, `result` and `answers`.

### EndToEnd

| Theorem | States | Rests on |
|---|---|---|
| `SystemInvariant` | what is under way has its origin, no request is replied to more than `MaxAnswers` times | `SystemInv` |
| `ComposedClient` | `SystemSpec => ImplementsResponseMap` | `SystemInv` |
| `ComposedSafety` | own answers, conversations apart, owned entries, no lost wake-up in the whole | `ComposedClient` |
| `ComposedAwaits` | `OkIsOwnAnswer` and `OutcomesStay` in the whole, given one reply per request | `ComposedClient` |
| `ComposedPromise` | `SystemSpec => ImplementsStrong`, given send-and-await | `ComposedClient` |

Each step of the client is a step of `ResponseMap` by construction; the one that
needs proof is `ForwardReply`, which must be an `Answer`: to a request that was
sent, and not once too often.  `SystemInv` therefore follows a request from the
client's channel to the socket, `on_message` and the reply, and counts replies
in the session's channel (`PlacesAppend`, `PlacesTail`).  Since `ComposedClient`
gives the client's specification, the theorems of `ResponseMap` carry over
without being proved again.

### Panics

| Theorem | States |
|---|---|
| `OnlyRegisteredStrand` | `[]StrandedInMap` |
| `NobodyWaitsAnew` | the action property `NoNewWaiters` |
| `PanicsKeepThePromise` | `SpecPanics => ImplementsWeak`, given `Disciplined` and one answer per request |
| `PanicsSpoilNoAnswer` | `[]OkIsOwnAnswer` and `OutcomesStay`, panics or not |

`PanicInv`: until the mutex is poisoned, the map is healthy (`TypeInv`,
`OwnedEntry`, `SerialInv`, `WakeInv`: kept by `ResponseMap`'s steps as proved
there, and also by a send or a callback that panics); afterwards, whoever waits
has a future and its waker in its place.  The step from one to the other is
`PoisonStep`: a panicking reply changes no entry that was there.

The promise needs less.  `AnswerInv` says where an answer is, and a poisoned map
keeps entries of dropped futures that it says nothing about; but nobody reads
them.  So `PromiseInv` is `AnswerInv` until the mutex is poisoned, and afterwards
only that who waits has a future and that calls and answers have their types:
from there on an await can only fail, which `RequestReply` allows.

### Framing

For all messages, lengths, bandwidths and conversations, from
`MessageAssumption`, `SizeAssumption`, `ModeAssumption` and `ContextAssumption`:

| Theorem | States | Rests on |
|---|---|---|
| `TypesHold` | `[]TypeOK` | facts about ceiling division and chunks |
| `DeliveredAtMostOnce` | `[]AtMostOnce`, poisoned or not | `OrderInv` |
| `CancelStops` | `[]CanceledNotDelivered` | `OrderInv` |
| `MutexIsReleased` | `[]MutexHeld`: a reply that is sending holds the mutex, and nobody else does | `TypeInv` |
| `FramesNeverMix` | `[]BuffersArePrefixes` | `ConversationInv` |
| `EveryTransferDecodes` | `[]NothingGarbled` | `ConversationInv` |
| `TransfersGoOn` | the action property `TransferGoesOn` | `ConversationInv` |
| `KeepsTheMailbox` | `Spec => ImplementsMailbox` | `OrderInv`, `ConversationInv` |
| `NothingLost` | `[]Accounted`: while the link is up, what was accepted is delivered or under way, once, and nothing else arrives | `KeepsTheMailbox` |

Both invariants speak of `flow`, the frames in the socket followed by those in
the channel: `Forward` leaves it alone, `Push` appends to it, `Dispatch` takes
its head.  `OrderInv` holds in any case: what is in `flow` was pushed, in the
order of pieces; a chunk in a buffer has no frame of its message with a smaller
number behind it; of a delivered message nothing but an END may be left, and no
context holds a chunk of it.  So nothing is delivered again.  `ConversationInv`
is for a mutex that is not poisoned.  `Allows(u, m, k, n)` says that piece k of m may come next in conversation u
after the first n frames of `flow`: what the last of them in u, or the context
if there is none, leaves off with is what the piece goes on with.
`FlowAllowed` says that each frame of `flow` is allowed where it stands, and
`PushAllowed` that the next frame of each call is, at the end of `flow`.  The
latter is where `LockInv` is needed: two replies never push at a time, and a
send has its conversation to itself.  `ContextsInv`: each context holds a
beginning of one message.  The last five theorems are for `~Poisoned`.

For `KeepsTheMailbox`, `Completed` of a sequence with a frame appended, or with
its head taken off, is shown by induction on its length; then `Forward` leaves
the mailbox alone, a `Push` posts a message exactly when its frame is the last
one, and a `Dispatch` delivers one exactly when it takes a last frame, which
`ConversationInv` says decodes to its own message.  `NothingLost` is proved of
`Mailbox` (`AccountedInv`) and read back through the mapping.

### Server

From `StallingAssumption` and `BoundAssumption`, for any number of connections:

| Theorem | States | Rests on |
|---|---|---|
| `TypesHold` | `[]TypeOK` | `PhaseOK`, `LinkInv` |
| `SessionsFit` | `[]SessionsMatchUrls` | `HandshakeInv` |
| `KeepsThePromise` | `Spec => ImplementsSession` | `TypeInv` |

`PhaseOK` ties where a task is to what was called and to whether its channel is
open; `LinkInv` says that who has no link has no task; `HandshakeInv` that who
comes to the websocket handshake of a server with a key has been through TLS.

### Wire

From `BytesAssumption` and `WordAssumption` (the four types fit in a word):
`EncodedParse` (a message written with one schema parses
under every part of that schema, and each field reads back as it was, those left
out because they had their default included) and `FramesReadBack` (each frame
`send_bytes` and `send_large_bytes` write reads back, and its Header has its
type and uuid), for all byte vectors, lengths and chunk numbers.

The size of a frame is a sum over its fields, a transfer's length one over its
chunks, and a varint's size a recursion over its bits.  What is needed of each
(it is a natural number, it grows, it splits) is proved by least
counterexamples: `LeastNatural` gives every nonempty set of numbers a least
member (from the library's `WFMin`, whose parameter is a set and not an
operator), and a fact holds of all n when the set of n where it fails has none.

### Receiver

From `PeerAssumption` (chunks are not empty and fit the bandwidth),
`CodecAssumption` (what is encoded decodes to what it was; of other streams
nothing is assumed), `BoundAssumption`, `ForeignAssumption` (a
frame of others is any finite set of fields), `UuidAssumption` (uuids are
drawn at random, so a frame of others that parses as a whole has none of the
peer's) and `ContextAssumption`, for any number of messages, conversations,
chunks and foreign frames:

| Theorem | States | Rests on |
|---|---|---|
| `ReceiverTypeOK` | `[]TypeOK` | `TypeInv` |
| `ReceiverDeliversExactly` | `[]DeliveredExactly` | `TransferInv`, `CountInv`, `OriginInv` |
| `ReceiverProgressCounts` | `[]ProgressCounts` | `TransferInv`, `ProgressInv` |
| `ReceiverLimitDecides` | `[]LimitDecides` | `FitInv`, `OriginInv`, `RoomInv` |
| `TransfersDoNotVanish` | the action property `NothingVanishes` | `TypeInv` |

`DeliveredExactly` says nothing of a transfer in the middle; `TransferInv` does:
the context of an open message holds SNAPPY, the length its BEGIN announced and
the chunks taken so far.  Each own frame then has one effect (`OwnEffect`), by
the theorems of `Wire`, and a foreign one touches no context of the peer's
(`ForeignStep`).  `CountInv` counts deliveries against messages sent whole,
`OriginInv` says that what was delivered under a uuid of the peer's is one of
its messages all of whose frames fitted, `ProgressInv` spells out each call of
`on_progress` (`Call`).  For the limit, `FitInv` says that every frame taken was
within it, so that a message with a full frame cannot have been delivered under
a limit of the bandwidth, and `RoomInv`, by bounds on each frame's size
(`FrameFits`), that a limit with room for the header never ends the read half.

### Only model-checked

* Liveness (`ClosedWaitersReturn`, `AnsweredWaitersReturn`,
  `AcceptedIsDelivered`, `CallsReturn`, `CallsStillReturn`, `ConnectReturns`,
  `HandshakeIsSeen`, `SessionsEnd`, `RepliedReturns`, `SessionEndReturns`,
  `SessionFollowsClient`): out of the prover's reach, as is anything with
  ENABLED.  Their safety halves are theorems: `NoWakeupIsLost` (who waits can
  be woken), `NothingLost` (what was accepted is not lost), `MutexIsReleased`
  (a mutex that is held belongs to a call that goes on), `OnlyRegisteredStrand`.
  What stays with TLC is that the runtime's fairness then takes each of them to
  its end.

Every invariant, action property and refinement that a run checks is a theorem.

## 6. Not modelled, and why

* `src/protos/message.rs`: descriptors, reflection, `Clear`, cached sizes and
  accessors: generated, and used by no code of wsmq but through write and parse.
  `src/protos/status.rs`: generated and unused.
* Configuration, the callbacks macro, error types: declarations.  Their values
  are constants and choices of the models.
* The server's own map of responses.  A server-side reply returns a future that
  nothing completes and nothing clears; no code or document awaits one.
* `std::mem::zeroed()` for a missing `on_connect`: undefined behaviour of user
  types, on which no modelled state depends.
* Half-open links and timeouts: the code has no timers.  A link is up or down,
  and who reads or writes it finds out.
* A poisoned `message_contexts` mutex: only the connection's own task takes it,
  and a panic ends that task.
* Memory: the channel is unbounded in the code and in the models.
* The `[default = ...]` of `message.proto`: the generated code is proto3's and
  has no such defaults, Process's among them.  `Wire` follows the code; wsmq
  always writes the type, so no run depends on it.

## 7. Plan

Written so far, in this order: `ResponseMap` (every await passes through it)
with its refinement and theorems; `Framing` and `Mailbox`; `Wire` and
`Receiver`; `Server` and `Session`; `Panics`; the theorems of `Wire`, `Server`
and `Framing`; `EndToEnd` and its theorems; those of `Panics` and `Receiver`;
`Framing` implements `Mailbox`.

Left:

1. `EndToEnd` over `Framing` in both directions instead of whole messages: the
   composition has been shown for each half by itself.  `KeepsTheMailbox` is
   the lemma it would rest on.
2. `Receiver` behind `Framing`: that the frames of the socket in `Framing` are
   those `Receiver` assumes of its peer, in that order.
