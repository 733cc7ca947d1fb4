------------------------------ MODULE Receiver ------------------------------
(***************************************************************************)
(* message_dispatch! on frames as they come from the socket.  Every frame  *)
(* is read twice, first as a Header and then as what its type says; a      *)
(* frame that does not parse, has no uuid or no context takes one of the   *)
(* macro's error branches or is dropped without a word.                    *)
(*                                                                         *)
(* The peer sends its messages with send_bytes and send_large_bytes, whose *)
(* frames arrive in order (module Framing shows that frames of one         *)
(* conversation never mix).  Between them come frames that are not wsmq's: *)
(* into_data() hands the payload of a ping or of a close to the macro too, *)
(* and another program or a later version speaks the same protocol.        *)
(***************************************************************************)
EXTENDS Wire, FiniteSets, Sequences

CONSTANTS
  Msg,         \* the messages of the peer
  UuidOf,      \* their conversations
  Raw,         \* their bytes
  Chunks,      \* the chunks of the compressed form, <<>> for a small message
  Decode,      \* what snap makes of the streams it can decode
  Foreign,     \* frames that are not wsmq's
  MaxForeign,  \* how many of them may come (bound)
  Bandwidth,   \* Config.bandwidth of the peer
  Limits,      \* the largest frame the websocket library may take
  AtServer,    \* this is the server, which ignores how its read half ended
  NoContext

ASSUME PeerAssumption ==
  /\ UuidOf \in [Msg -> Uuid]
  /\ Raw \in [Msg -> Bytes]
  /\ Chunks \in [Msg -> Seq(Bytes \ {Empty})]
  /\ IsFiniteSet(Msg)
  /\ \A m \in Msg :
       /\ Chunks[m] = <<>> => ByteLen[Raw[m]] <= Bandwidth
       /\ \A k \in DOMAIN Chunks[m] : ByteLen[Chunks[m][k]] <= Bandwidth

ASSUME CodecAssumption ==   \* what snap encodes it decodes
  /\ DOMAIN Decode \subseteq Seq(Bytes)
  /\ \A s \in DOMAIN Decode : Decode[s] \in Bytes
  /\ \A m \in Msg : Chunks[m] # <<>> => Chunks[m] \in DOMAIN Decode /\ Decode[Chunks[m]] = Raw[m]

ASSUME BoundAssumption ==
  /\ MaxForeign \in Nat /\ Bandwidth \in Nat
  /\ Limits \subseteq Nat
  /\ AtServer \in BOOLEAN

ASSUME ForeignAssumption ==
  \A f \in Foreign : IsFiniteSet(f) /\ f \subseteq WireField

VARIABLES
  limit,      \* the limit in force
  next,       \* the next frame of each message
  foreign,    \* how many foreign frames came
  up,         \* the read half lives
  contexts,   \* message_contexts
  delivered,  \* what on_message got, in order
  errors,     \* how often on_error was called
  progress    \* what on_progress got for each uuid since its last BEGIN

vars == <<limit, next, foreign, up, contexts, delivered, errors, progress>>

-----------------------------------------------------------------------------
Context == [compression : 0..1, total_length : Nat, buffer : Seq(Bytes)]

ASSUME ContextAssumption == NoContext \notin Context   \* no entry in the map

(* The frames of a message (send_bytes, send_large_bytes). *)
LengthOf(pieces) == MapThenSumSet(LAMBDA k : ByteLen[pieces[k]], DOMAIN pieces)

IsLarge(m) == Chunks[m] # <<>>

FrameCount(m) == IF IsLarge(m) THEN Len(Chunks[m]) + 2 ELSE 1

Oneshot(m) == [type |-> Type.ONESHOT, uuid |-> UuidOf[m], message |-> Raw[m]]

Begin(m) ==
  [type |-> Type.BEGIN, uuid |-> UuidOf[m], compression |-> Compression.SNAPPY,
   length |-> LengthOf(Chunks[m])]

ProcessOffsetMutant(m, k) ==   \* numbers a chunk by its offset
  [type |-> Type.PROCESS, uuid |-> UuidOf[m], seq |-> (k - 1) * Bandwidth,
   message |-> Chunks[m][k]]

ProcessUntypedMutant(m, k) ==   \* trusts [default = PROCESS] in message.proto
  [type |-> Default("Type"), uuid |-> UuidOf[m], seq |-> k - 1,
   message |-> Chunks[m][k]]

Process(m, k) ==
  [type |-> Type.PROCESS, uuid |-> UuidOf[m], seq |-> k - 1, message |-> Chunks[m][k]]

End(m) == [type |-> Type.END, uuid |-> UuidOf[m]]

Frame(m, i) == CASE ~IsLarge(m)                     -> Encode(OneshotFields, Oneshot(m))
                 [] IsLarge(m) /\ i = 1             -> Encode(BeginFields, Begin(m))
                 [] IsLarge(m) /\ i = FrameCount(m) -> Encode(EndFields, End(m))
                 [] OTHER                           -> Encode(ProcessFields, Process(m, i - 1))

Init ==
  /\ limit \in Limits
  /\ next = [m \in Msg |-> 1]
  /\ foreign = 0
  /\ up = TRUE
  /\ contexts = [u \in Uuid |-> NoContext]
  /\ delivered = <<>>
  /\ errors = 0
  /\ progress = [u \in Uuid |-> <<>>]

-----------------------------------------------------------------------------
(* message_dispatch!, one definition per branch. *)
Header(f) == Parse(HeaderFields, f)

(* The header does not parse, or has no uuid of 16 bytes: on_error. *)
BadHeader(f) ==
  /\ Malformed(HeaderFields, f) \/ Header(f).uuid \notin Uuid
  /\ errors' = errors + 1
  /\ UNCHANGED <<contexts, delivered, progress>>

Body == [ONESHOT |-> OneshotFields, BEGIN |-> BeginFields,
         PROCESS |-> ProcessFields, END   |-> EndFields]

HasType(f, t) ==
  /\ ~Malformed(HeaderFields, f)
  /\ Header(f).uuid \in Uuid
  /\ Header(f).type = Type[t]

Routed(f, t) == HasType(f, t) /\ ~Malformed(Body[t], f)

(* Uuids are drawn at random (v4): a whole frame of others has one of theirs. *)
ASSUME UuidAssumption ==
  \A f \in Foreign, t \in DOMAIN Type, m \in Msg : Routed(f, t) => Header(f).uuid # UuidOf[m]

(* The header is fine and the rest is not: no on_error. *)
BadBody(f) ==
  /\ \E t \in DOMAIN Type : HasType(f, t) /\ Malformed(Body[t], f)
  /\ UNCHANGED <<contexts, delivered, errors, progress>>

OnMessage(u, data) == delivered' = Append(delivered, [uuid |-> u, data |-> data])

OnOneshot(f) ==
  /\ Routed(f, "ONESHOT")
  /\ OnMessage(Header(f).uuid, Parse(OneshotFields, f).message)
  /\ UNCHANGED <<contexts, errors, progress>>

OnBegin(f) ==
  /\ Routed(f, "BEGIN")
  /\ LET begin == Parse(BeginFields, f) IN
       /\ contexts' = [contexts EXCEPT ![begin.uuid] =
                         [compression  |-> begin.compression,
                          total_length |-> begin.length,
                          buffer       |-> <<>>]]
       /\ progress' = [progress EXCEPT ![begin.uuid] = <<<<"BEGIN", 0, begin.length>>>>]
  /\ UNCHANGED <<delivered, errors>>

OnProcess(f) ==
  /\ Routed(f, "PROCESS")
  /\ LET process == Parse(ProcessFields, f)
         u       == process.uuid
         buffer  == Append(contexts[u].buffer, process.message)
     IN  /\ contexts[u] # NoContext
         /\ contexts' = [contexts EXCEPT ![u].buffer = buffer]
         /\ progress' = [progress EXCEPT ![u] =
              Append(@, <<"PROCESS", LengthOf(buffer), contexts[u].total_length>>)]
  /\ UNCHANGED <<delivered, errors>>

(* read_to_end: no bytes decode to no bytes. *)
Decodes(buffer) == LengthOf(buffer) = 0 \/ buffer \in DOMAIN Decode

Decoded(buffer) == IF LengthOf(buffer) = 0 THEN Empty ELSE Decode[buffer]

OnEndMuteMutant(f) ==   \* throws the decoder's error away
  /\ Routed(f, "END")
  /\ LET u == Header(f).uuid IN
       /\ contexts[u] # NoContext
       /\ contexts' = [contexts EXCEPT ![u] = NoContext]
       /\ \/ Decodes(contexts[u].buffer) /\ OnMessage(u, Decoded(contexts[u].buffer))
          \/ ~Decodes(contexts[u].buffer) /\ UNCHANGED delivered
  /\ UNCHANGED <<errors, progress>>

(* The context goes.  Its buffer decodes, and on_progress and on_message are *)
(* called, or it does not, and on_error is; or nothing is called, because    *)
(* only SNAPPY transfers are looked at.                                      *)
OnEnd(f) ==
  /\ Routed(f, "END")
  /\ LET u   == Parse(EndFields, f).uuid
         ctx == contexts[u]
     IN  /\ ctx # NoContext
         /\ contexts' = [contexts EXCEPT ![u] = NoContext]
         /\ \/ /\ ctx.compression = Compression.SNAPPY
               /\ Decodes(ctx.buffer)
               /\ OnMessage(u, Decoded(ctx.buffer))
               /\ progress' = [progress EXCEPT ![u] =
                    Append(@, <<"END", ctx.total_length, ctx.total_length>>)]
               /\ UNCHANGED errors
            \/ /\ ctx.compression = Compression.SNAPPY
               /\ ~Decodes(ctx.buffer)
               /\ errors' = errors + 1
               /\ UNCHANGED <<delivered, progress>>
            \/ /\ ctx.compression # Compression.SNAPPY
               /\ UNCHANGED <<delivered, errors, progress>>

(* A chunk or an end without a context. *)
OnStray(f) ==
  /\ \/ Routed(f, "PROCESS")
     \/ Routed(f, "END")
  /\ contexts[Header(f).uuid] = NoContext
  /\ UNCHANGED <<contexts, delivered, errors, progress>>

MessageDispatch(f) == \/ BadHeader(f) \/ BadBody(f)
                      \/ OnOneshot(f) \/ OnBegin(f) \/ OnProcess(f) \/ OnEnd(f)
                      \/ OnStray(f)

(* A frame beyond the library's limit fails the read half: the client's task *)
(* calls on_error with the outcome of the select, the server's drops it.     *)
TooLarge(f) ==
  /\ FrameSize(f) > limit
  /\ up' = FALSE
  /\ errors' = IF AtServer THEN errors ELSE errors + 1
  /\ UNCHANGED <<contexts, delivered, progress>>

Take(f) == \/ TooLarge(f)
           \/ FrameSize(f) <= limit /\ MessageDispatch(f) /\ UNCHANGED up

(* The frames of one conversation arrive one message after the other. *)
Done(m) == next[m] > FrameCount(m)

Open(m) == next[m] \in 2..FrameCount(m)

ReceiveFrame(m) ==
  /\ up
  /\ ~Done(m)
  /\ \A k \in Msg \ {m} : UuidOf[k] = UuidOf[m] => ~Open(k)
  /\ Take(Frame(m, next[m]))
  /\ next' = [next EXCEPT ![m] = @ + 1]
  /\ UNCHANGED <<limit, foreign>>

ReceiveForeign(f) ==
  /\ up
  /\ foreign < MaxForeign
  /\ Take(f)
  /\ foreign' = foreign + 1
  /\ UNCHANGED <<limit, next>>

Next == \/ \E m \in Msg : ReceiveFrame(m)
        \/ \E f \in Foreign : ReceiveForeign(f)

Spec == Init /\ [][Next]_vars

-----------------------------------------------------------------------------
(* Every variable keeps its type. *)
TypeOK ==
  /\ limit \in Limits
  /\ next \in [Msg -> Nat \ {0}]
  /\ foreign \in 0..MaxForeign
  /\ up \in BOOLEAN
  /\ contexts \in [Uuid -> Context \cup {NoContext}]
  /\ delivered \in Seq([uuid : Uuid, data : Bytes])
  /\ errors \in Nat
  /\ progress \in [Uuid -> Seq({"BEGIN", "PROCESS", "END"} \X Nat \X Nat)]

(* Frames that are not wsmq's leave its messages alone: whatever came between *)
(* its frames, a message is delivered with its last frame, once, with its own *)
(* uuid and bytes, an empty one too, and nothing else under that uuid; the    *)
(* same bytes sent again in the same conversation are delivered again.        *)
Deliveries(m) ==
  {i \in DOMAIN delivered : delivered[i] = [uuid |-> UuidOf[m], data |-> Raw[m]]}

Alike(k, m) == UuidOf[k] = UuidOf[m] /\ Raw[k] = Raw[m]

Completed(m) == {k \in Msg : Alike(k, m) /\ Done(k)}

DeliveredExactly ==
  /\ up => \A m \in Msg : Cardinality(Deliveries(m)) = Cardinality(Completed(m))
  /\ \A i \in DOMAIN delivered : \A m \in Msg :
       delivered[i].uuid = UuidOf[m] =>
         \E k \in Msg : i \in Deliveries(k)

(* on_progress counts the transfer's bytes: from 0, upwards with every chunk, *)
(* never beyond the total, which the last chunk reaches before END says so.   *)
LatestTransfer(m) ==
  /\ IsLarge(m) /\ next[m] > 1
  /\ \A k \in Msg \ {m} : IsLarge(k) /\ UuidOf[k] = UuidOf[m] => next[k] = 1

ProgressCounts ==
  up => \A m \in Msg : LatestTransfer(m) =>
    LET calls == progress[UuidOf[m]]
        total == LengthOf(Chunks[m])
        n     == Len(calls)
    IN  /\ n = next[m] - 1
        /\ calls[1] = <<"BEGIN", 0, total>>
        /\ \A i \in 2..n :
             /\ calls[i][1] = (IF i = FrameCount(m) THEN "END" ELSE "PROCESS")
             /\ calls[i][3] = total
             /\ calls[i - 1][2] <= calls[i][2]
             /\ calls[i][2] = total <=> i >= FrameCount(m) - 1

(* A limit of the bandwidth and the header of a Process frame is enough for   *)
(* every frame of the peer (those of others may be longer); a limit of the    *)
(* bandwidth alone, which is what the default bandwidth leaves, is not: a     *)
(* full chunk ends the read half.                                             *)
HeaderRoom == 2 + 18 + (1 + varint[Max({Len(Chunks[m]) : m \in Msg})]) + (1 + varint[Bandwidth])

Full(m) == \E b \in {Raw[m]} \cup Range(Chunks[m]) :
             ByteLen[b] = Bandwidth /\ (b = Raw[m] => ~IsLarge(m))

LimitDecides ==
  /\ limit >= Bandwidth + HeaderRoom /\ (\A f \in Foreign : FrameSize(f) <= limit) => up
  /\ limit <= Bandwidth => \A m \in Msg :
       (\A k \in Msg : Alike(k, m) => Full(k)) => Deliveries(m) = {}

(* A compressed transfer does not vanish: when its context goes, it has been  *)
(* delivered, or on_error was told.                                           *)
NothingVanishes ==
  [][\A u \in Uuid :
       contexts[u] # NoContext /\ contexts'[u] = NoContext =>
         \/ contexts[u].compression = Compression.NONE
         \/ Len(delivered') = Len(delivered) + 1 /\ errors' = errors
         \/ delivered' = delivered /\ errors' = errors + 1]_vars

=============================================================================
