------------------------------ MODULE Framing ------------------------------
(***************************************************************************)
(* One direction of a wsmq connection: SharedData::send splits a message   *)
(* into frames and queues them, the write half forwards the queue to the   *)
(* socket, and the other side's message_dispatch! puts the message back    *)
(* together in its table of contexts.                                      *)
(*                                                                         *)
(* A piece of payload is the pair of the message and the chunk's number;   *)
(* the context's buffer is the sequence of the pieces received.  A reply   *)
(* holds the responses mutex while it queues its frames; a send holds it   *)
(* only while it draws its uuid.  Sends and replies run on any thread.     *)
(*                                                                         *)
(* A definition named ...Mutant is a plausible mistake in the one below.   *)
(***************************************************************************)
EXTENDS Naturals, Sequences

CONSTANTS
  Msg,         \* the messages of this direction
  Replies,     \* those sent with Response::reply or reply_message
  Encoded,     \* those given as a protobuf message (send_message)
  Uuid,
  UuidOf,      \* the conversation of each message
  RawLen,      \* the length of each message ...
  SnapLen,     \* ... and of its compressed form
  Bandwidth,   \* Config.bandwidth
  WordSize,    \* 2^32: send_message compares with "bandwidth as u32"
  AtServer,    \* the receiver is the server, where a callback can cancel
  Poisoned,    \* a panic poisoned the mutex: every send draws the nil uuid
  NoMsg, NoContext,
  Corrupt      \* what a buffer decodes to that is not one whole message

ASSUME MessageAssumption ==
  /\ Replies \subseteq Msg /\ Encoded \subseteq Msg
  /\ UuidOf \in [Msg -> Uuid]
  /\ RawLen \in [Msg -> Nat]
  /\ SnapLen \in [Msg -> Nat \ {0}]   \* a snappy stream has a header
  /\ \/ Poisoned
     \/ \A s, m \in Msg \ Replies : UuidOf[s] = UuidOf[m] => s = m
  /\ NoMsg \notin Msg /\ Corrupt \notin Msg

ASSUME SizeAssumption == Bandwidth \in Nat \ {0} /\ WordSize \in Nat \ {0}

ASSUME ModeAssumption == AtServer \in BOOLEAN /\ Poisoned \in BOOLEAN

VARIABLES
  state,     \* where the call that sends each message is
  next,      \* the next frame of each message
  lock,      \* the reply that holds the mutex
  chan,      \* the unbounded channel
  open,      \* its receiving half is alive
  wire,      \* the frames in the socket
  up,        \* the other side still reads
  contexts,  \* its message_contexts
  delivered, \* the messages given to on_message, in order
  garbled,   \* a transfer did not decode: on_error was called
  canceled   \* the messages a progress callback canceled in time

vars == <<state, next, lock, chan, open, wire, up, contexts, delivered, garbled,
          canceled>>

sendVars == <<state, next, lock>>
recvVars == <<contexts, delivered, garbled, canceled>>

-----------------------------------------------------------------------------
(* The frames of a message. *)
IsLarge(m) ==
  RawLen[m] > (IF m \in Encoded THEN Bandwidth % WordSize ELSE Bandwidth)

Chunks(m) == (SnapLen[m] + Bandwidth - 1) \div Bandwidth

PieceLenMutant(m, k) ==   \* counts the full chunks wrong
  IF k < Chunks(m) THEN Bandwidth ELSE SnapLen[m] - Chunks(m) * Bandwidth

PieceLen(m, k) ==
  IF k < Chunks(m) THEN Bandwidth ELSE SnapLen[m] - (Chunks(m) - 1) * Bandwidth

FrameCount(m) == IF IsLarge(m) THEN Chunks(m) + 2 ELSE 1

FrameType(m, i) == IF ~IsLarge(m)        THEN "oneshot"
                   ELSE IF i = 1         THEN "begin"
                   ELSE IF i = FrameCount(m) THEN "end"
                   ELSE "process"

Frame(m, i) == [type |-> FrameType(m, i), msg |-> m, piece |-> i - 1]

FrameSet == [type : {"oneshot", "begin", "process", "end"}, msg : Msg, piece : Nat]

Context == [total : Nat, current : Nat, buffer : Seq(Msg \X Nat)]

ASSUME ContextAssumption == NoContext \notin Context   \* no entry in the map

Init ==
  /\ state = [m \in Msg |-> "idle"]
  /\ next = [m \in Msg |-> 1]
  /\ lock = NoMsg
  /\ chan = <<>>
  /\ open = TRUE
  /\ wire = <<>>
  /\ up = TRUE
  /\ contexts = [u \in Uuid |-> NoContext]
  /\ delivered = <<>>
  /\ garbled = FALSE
  /\ canceled = {}

-----------------------------------------------------------------------------
(* generate_uuid needs the mutex for a moment. *)
StartSend(m) ==
  /\ m \notin Replies
  /\ state[m] = "idle"
  /\ lock = NoMsg
  /\ state' = [state EXCEPT ![m] = "sending"]
  /\ UNCHANGED <<next, lock, chan, open, wire, up, recvVars>>

(* A conversation that this side began is replied to when it was answered,   *)
(* hence after its first message left.                                       *)
Answered(m) == \A s \in Msg \ Replies : UuidOf[s] = UuidOf[m] => state[s] = "sent"

StartReplyUnlockedMutant(m) ==   \* gives the mutex back before it sends
  /\ ~Poisoned
  /\ m \in Replies
  /\ state[m] = "idle"
  /\ lock = NoMsg
  /\ Answered(m)
  /\ state' = [state EXCEPT ![m] = "sending"]
  /\ UNCHANGED <<next, lock, chan, open, wire, up, recvVars>>

(* get_responses fails on a poisoned mutex, and so does the reply.           *)
ReplyRefused(m) ==
  /\ Poisoned
  /\ m \in Replies
  /\ state[m] = "idle"
  /\ state' = [state EXCEPT ![m] = "failed"]
  /\ UNCHANGED <<next, lock, chan, open, wire, up, recvVars>>

StartReply(m) ==
  /\ ~Poisoned
  /\ m \in Replies
  /\ state[m] = "idle"
  /\ lock = NoMsg
  /\ Answered(m)
  /\ state' = [state EXCEPT ![m] = "sending"]
  /\ lock' = m
  /\ UNCHANGED <<next, chan, open, wire, up, recvVars>>

(* send_bytes queues the only frame; send_large_bytes one frame after the    *)
(* other, each with an unbounded_send of its own.  The caller returns with   *)
(* the last one, and the mutex is free again.                                *)
Return(m, outcome) ==
  /\ state' = [state EXCEPT ![m] = outcome]
  /\ lock' = IF lock = m THEN NoMsg ELSE lock

PushFramesMutant(m) ==   \* forgets the End frame
  /\ state[m] = "sending"
  /\ open
  /\ chan' = Append(chan, Frame(m, next[m]))
  /\ next' = [next EXCEPT ![m] = @ + 1]
  /\ IF next[m] + 1 >= FrameCount(m)
       THEN Return(m, "sent")
       ELSE UNCHANGED <<state, lock>>
  /\ UNCHANGED <<open, wire, up, recvVars>>

Push(m) ==
  /\ state[m] = "sending"
  /\ open
  /\ chan' = Append(chan, Frame(m, next[m]))
  /\ next' = [next EXCEPT ![m] = @ + 1]
  /\ IF next[m] = FrameCount(m)
       THEN Return(m, "sent")
       ELSE UNCHANGED <<state, lock>>
  /\ UNCHANGED <<open, wire, up, recvVars>>

(* A protobuf message that lacks a required field cannot be written, which   *)
(* shows before its first frame is queued.                                   *)
Unwritable(m) == m \in Encoded /\ next[m] = 1

PushFailsLockedMutant(m) ==   \* returns early with the mutex held
  /\ state[m] = "sending"
  /\ ~open \/ Unwritable(m)
  /\ state' = [state EXCEPT ![m] = "failed"]
  /\ UNCHANGED <<next, lock, chan, open, wire, up, recvVars>>

(* Err: the message cannot be written, or the channel was closed, however    *)
(* many frames are queued already.                                           *)
PushFails(m) ==
  /\ state[m] = "sending"
  /\ ~open \/ Unwritable(m)
  /\ Return(m, "failed")
  /\ UNCHANGED <<next, chan, open, wire, up, recvVars>>

-----------------------------------------------------------------------------
ForwardLossyMutant ==   \* drops what the socket cannot take at once
  /\ open /\ up
  /\ chan # <<>>
  /\ wire' \in {wire, Append(wire, Head(chan))}
  /\ chan' = Tail(chan)
  /\ UNCHANGED <<sendVars, open, up, recvVars>>

(* rx.map(Ok).forward(write) *)
Forward ==
  /\ open /\ up
  /\ chan # <<>>
  /\ wire' = Append(wire, Head(chan))
  /\ chan' = Tail(chan)
  /\ UNCHANGED <<sendVars, open, up, recvVars>>

(* The sender's connection task ends or is aborted: the queue is lost.       *)
SenderDown ==
  /\ open
  /\ open' = FALSE
  /\ chan' = <<>>
  /\ UNCHANGED <<sendVars, wire, up, recvVars>>

(* The receiver's read half ends: so are the frames in the socket.           *)
ReceiverDown ==
  /\ up
  /\ up' = FALSE
  /\ wire' = <<>>
  /\ UNCHANGED <<sendVars, chan, open, recvVars>>

-----------------------------------------------------------------------------
(* message_dispatch! on the oldest frame, one action per type.               *)
Next1(type) == up /\ wire # <<>> /\ Head(wire).type = type

Consume == wire' = Tail(wire) /\ UNCHANGED <<sendVars, chan, open, up>>

OnOneshot ==
  /\ Next1("oneshot")
  /\ delivered' = Append(delivered, Head(wire).msg)
  /\ Consume
  /\ UNCHANGED <<contexts, garbled, canceled>>

CanceledGoesOnMutant ==   \* on_canceled does not fail the read half
  /\ AtServer
  /\ canceled' = canceled \cup {Head(wire).msg}
  /\ Consume

(* The progress callback called cancel(): the server fails the read half.    *)
Canceled ==
  /\ AtServer
  /\ canceled' = canceled \cup {Head(wire).msg}
  /\ up' = FALSE
  /\ wire' = <<>>
  /\ UNCHANGED <<sendVars, chan, open>>

(* It did not, or this is the client, whose on_canceled does nothing.        *)
Proceeds == Consume /\ UNCHANGED canceled

OnProgress == Proceeds \/ Canceled

OnBegin ==
  /\ Next1("begin")
  /\ LET m == Head(wire).msg IN
       contexts' = [contexts EXCEPT ![UuidOf[m]] =
                      [total |-> SnapLen[m], current |-> 0, buffer |-> <<>>]]
  /\ OnProgress
  /\ UNCHANGED <<delivered, garbled>>

Extended(ctx, m, k) ==
  [total   |-> ctx.total,
   current |-> ctx.current + PieceLen(m, k),
   buffer  |-> Append(ctx.buffer, <<m, k>>)]

OnProcess ==
  /\ Next1("process")
  /\ LET m == Head(wire).msg
         u == UuidOf[m]
     IN  /\ contexts[u] # NoContext
         /\ contexts' = [contexts EXCEPT ![u] = Extended(@, m, Head(wire).piece)]
  /\ OnProgress
  /\ UNCHANGED <<delivered, garbled>>

(* The buffer is the compressed form of exactly one message.                 *)
Whole(buffer, m) == buffer = [k \in 1..Chunks(m) |-> <<m, k>>]

EndDecodes ==
  /\ \E m \in Msg :
       /\ Whole(contexts[UuidOf[Head(wire).msg]].buffer, m)
       /\ delivered' = Append(delivered, m)
  /\ UNCHANGED garbled

(* Anything else is refused by the decoder or, where it happens to be a      *)
(* stream of its own, decodes to something nobody sent.                      *)
EndGarbled ==
  /\ \A m \in Msg : ~Whole(contexts[UuidOf[Head(wire).msg]].buffer, m)
  /\ \/ garbled' = TRUE /\ UNCHANGED delivered
     \/ delivered' = Append(delivered, Corrupt) /\ UNCHANGED garbled

OnEndKeepsMutant ==   \* reads the context without removing it
  /\ Next1("end")
  /\ contexts[UuidOf[Head(wire).msg]] # NoContext
  /\ EndDecodes \/ EndGarbled
  /\ Consume
  /\ UNCHANGED <<contexts, canceled>>

(* The context goes; a cancel() at this point has no effect.                 *)
OnEnd ==
  /\ Next1("end")
  /\ LET u == UuidOf[Head(wire).msg] IN
       /\ contexts[u] # NoContext
       /\ contexts' = [contexts EXCEPT ![u] = NoContext]
  /\ EndDecodes \/ EndGarbled
  /\ Consume
  /\ UNCHANGED canceled

(* A chunk or an end without a beginning is ignored.                         *)
OnStray ==
  /\ Next1("process") \/ Next1("end")
  /\ contexts[UuidOf[Head(wire).msg]] = NoContext
  /\ Consume
  /\ UNCHANGED recvVars

Dispatch == OnOneshot \/ OnBegin \/ OnProcess \/ OnEnd \/ OnStray

Send(m) == \/ StartSend(m) \/ StartReply(m) \/ ReplyRefused(m)
           \/ Push(m) \/ PushFails(m)

Next == \/ \E m \in Msg : Send(m)
        \/ Forward \/ SenderDown \/ ReceiverDown
        \/ Dispatch

Spec == Init /\ [][Next]_vars

(* Here every call was made and waits for the mutex, which it gets when it    *)
(* stays free; a thread that sends goes on; the runtime polls the connection  *)
(* tasks of both sides.  Nothing makes a link fail.                           *)
Fairness ==
  /\ \A m \in Msg : WF_vars(Send(m))
  /\ WF_vars(Forward)
  /\ WF_vars(Dispatch)

FairSpec == Spec /\ Fairness

-----------------------------------------------------------------------------
(* Every variable keeps its type. *)
TypeOK ==
  /\ state \in [Msg -> {"idle", "sending", "sent", "failed"}]
  /\ next \in [Msg -> Nat]
  /\ lock \in Replies \cup {NoMsg}
  /\ chan \in Seq(FrameSet)
  /\ open \in BOOLEAN
  /\ wire \in Seq(FrameSet)
  /\ up \in BOOLEAN
  /\ contexts \in [Uuid -> Context \cup {NoContext}]
  /\ delivered \in Seq(Msg \cup {Corrupt})
  /\ garbled \in BOOLEAN
  /\ canceled \subseteq Msg

(* Frames of one conversation never mix: whatever the threads that send, what *)
(* a context has collected is the beginning of one message, in order, and its *)
(* progress is that message's.                                                *)
BuffersArePrefixes ==
  ~Poisoned =>
    \A u \in Uuid : contexts[u] # NoContext =>
      \E m \in Msg :
        LET ctx == contexts[u] IN
          /\ UuidOf[m] = u
          /\ ctx.total = SnapLen[m]
          /\ Len(ctx.buffer) <= Chunks(m)
          /\ ctx.buffer = [k \in 1..Len(ctx.buffer) |-> <<m, k>>]
          /\ ctx.current <= ctx.total
          /\ ctx.current = ctx.total <=> Len(ctx.buffer) = Chunks(m)

(* Nothing is delivered that was not sent, and no transfer fails to decode.   *)
NothingGarbled ==
  ~Poisoned => ~garbled /\ \A i \in 1..Len(delivered) : delivered[i] # Corrupt

(* No message reaches on_message twice, not even with colliding uuids.        *)
AtMostOnce ==
  \A i, j \in 1..Len(delivered) :
    delivered[i] = delivered[j] /\ delivered[i] # Corrupt => i = j

(* A transfer the server's progress callback canceled is never delivered.     *)
CanceledNotDelivered == \A i \in 1..Len(delivered) : delivered[i] \notin canceled

(* An open transfer is never restarted, truncated or swapped for another one: *)
(* its context goes, or it keeps its total and what it has collected.         *)
TransferGoesOn ==
  [][~Poisoned =>
       \A u \in Uuid :
         contexts[u] # NoContext /\ contexts'[u] # NoContext =>
           /\ contexts'[u].total = contexts[u].total
           /\ contexts'[u].current >= contexts[u].current
           /\ Len(contexts'[u].buffer) >= Len(contexts[u].buffer)]_vars

(* While the link is up, a message accepted by the channel gets delivered.    *)
AcceptedIsDelivered ==
  \A m \in Msg : state[m] = "sent" ~>
                   \/ \E i \in 1..Len(delivered) : delivered[i] = m
                   \/ ~open \/ ~up

(* A call of send or reply returns, whether the link lives or not: no one     *)
(* keeps the mutex.                                                           *)
CallsReturn ==
  \A m \in Msg : m \notin Replies \/ Answered(m) ~> state[m] \in {"sent", "failed"}

=============================================================================
