--------------------------- MODULE FramingProofs ---------------------------
(***************************************************************************)
(* Theorems about Framing, for all messages, lengths and bandwidths: the   *)
(* types, and what holds whether the mutex is poisoned or not.             *)
(***************************************************************************)
EXTENDS Framing, SequenceTheorems, TLAPS

(* Rounding up, and what it says of the last chunk: it is not empty, and not  *)
(* longer than the others.                                                    *)
LEMMA CeilingDivision ==
  ASSUME NEW s \in Nat \ {0}, NEW b \in Nat \ {0}
  PROVE  LET c == (s + b - 1) \div b IN
           c \in Nat \ {0} /\ (c - 1) * b < s /\ s <= c * b
<1> DEFINE c == (s + b - 1) \div b
<1> DEFINE r == (s + b - 1) % b
<1>1. c \in Int /\ r \in 0..(b - 1) /\ s + b - 1 = b * c + r
  BY SMT
<1> HIDE DEF c, r
<1>2. (c - 1) * b = b * c - b /\ c * b = b * c
  BY <1>1, SMT
<1>3. b * c \in Int /\ b * c > 0
  BY <1>1, SMT
<1>4. c > 0
  BY <1>1, <1>3, SMT
<1>5. (c - 1) * b < s /\ s <= c * b
  BY <1>1, <1>2, <1>3, SMT
<1>6. c \in Nat \ {0} /\ (c - 1) * b < s /\ s <= c * b
  BY <1>1, <1>4, <1>5
<1> QED BY <1>6 DEF c

LEMMA ChunkFacts ==
  ASSUME NEW m \in Msg
  PROVE  /\ SnapLen[m] \in Nat \ {0} /\ Bandwidth \in Nat \ {0}
         /\ Chunks(m) \in Nat \ {0}
         /\ (Chunks(m) - 1) * Bandwidth < SnapLen[m]
         /\ SnapLen[m] <= Chunks(m) * Bandwidth
         /\ FrameCount(m) \in Nat \ {0}
<1>1. SnapLen[m] \in Nat \ {0} /\ Bandwidth \in Nat \ {0}
  BY MessageAssumption, SizeAssumption
<1>2. /\ Chunks(m) \in Nat \ {0}
      /\ (Chunks(m) - 1) * Bandwidth < SnapLen[m]
      /\ SnapLen[m] <= Chunks(m) * Bandwidth
  <2> DEFINE s == SnapLen[m]
             b == Bandwidth
  <2>1. s \in Nat \ {0} /\ b \in Nat \ {0}
    BY <1>1
  <2> HIDE DEF s, b
  <2>2. LET c == (s + b - 1) \div b IN
          c \in Nat \ {0} /\ (c - 1) * b < s /\ s <= c * b
    BY <2>1, CeilingDivision
  <2> QED BY <2>2 DEF Chunks, s, b
<1>3. FrameCount(m) \in Nat \ {0}
  BY <1>2 DEF FrameCount
<1> QED BY <1>1, <1>2, <1>3

LEMMA PieceLenType ==
  ASSUME NEW m \in Msg, NEW k
  PROVE  PieceLen(m, k) \in Nat
<1> DEFINE full == (Chunks(m) - 1) * Bandwidth
<1>1. full \in Int /\ full < SnapLen[m] /\ SnapLen[m] \in Nat /\ Bandwidth \in Nat
  BY ChunkFacts
<1> HIDE DEF full
<1>2. SnapLen[m] - full \in Nat
  BY <1>1
<1> QED BY <1>1, <1>2 DEF PieceLen, full

-----------------------------------------------------------------------------
(* The type of every variable; a message's next frame is the first or later. *)
TypeInv == TypeOK /\ \A m \in Msg : next[m] >= 1

LEMMA FrameTyped ==
  ASSUME NEW m \in Msg, NEW i \in Nat \ {0}
  PROVE  Frame(m, i) \in FrameSet
BY DEF Frame, FrameType, FrameSet

LEMMA HeadTyped ==
  ASSUME TypeInv, wire # <<>>
  PROVE  /\ Head(wire) \in FrameSet
         /\ Head(wire).msg \in Msg /\ Head(wire).piece \in Nat
         /\ UuidOf[Head(wire).msg] \in Uuid
         /\ Tail(wire) \in Seq(FrameSet)
<1>1. wire \in Seq(FrameSet)
  BY DEF TypeInv, TypeOK
<1>2. Head(wire) \in FrameSet /\ Tail(wire) \in Seq(FrameSet)
  BY <1>1, HeadTailProperties
<1> QED BY <1>2, MessageAssumption DEF FrameSet

LEMMA TypeInvInit == Init => TypeInv
<1>1. <<>> \in Seq(FrameSet) /\ <<>> \in Seq(Msg \cup {Corrupt})
  OBVIOUS
<1> SUFFICES ASSUME Init PROVE TypeInv
  OBVIOUS
<1>2. chan \in Seq(FrameSet) /\ wire \in Seq(FrameSet) /\ delivered \in Seq(Msg \cup {Corrupt})
  BY <1>1 DEF Init
<1>3. contexts \in [Uuid -> Context \cup {NoContext}]
  BY DEF Init
<1>4. /\ state \in [Msg -> {"idle", "sending", "sent", "failed"}]
      /\ next \in [Msg -> Nat] /\ \A m \in Msg : next[m] >= 1
  BY DEF Init
<1> QED BY <1>2, <1>3, <1>4 DEF Init, TypeInv, TypeOK

LEMMA SendTypes ==
  ASSUME TypeInv, NEW m \in Msg, Send(m)
  PROVE  TypeInv'
<1> USE DEF TypeInv, TypeOK, recvVars
<1>1. CASE StartSend(m) BY <1>1 DEF StartSend
<1>2. CASE StartReply(m) BY <1>2 DEF StartReply
<1>3. CASE ReplyRefused(m) BY <1>3 DEF ReplyRefused
<1>4. CASE Push(m)
  <2>1. Frame(m, next[m]) \in FrameSet
    BY FrameTyped
  <2>2. chan' \in Seq(FrameSet) /\ next' \in [Msg -> Nat] /\ \A n \in Msg : next'[n] >= 1
    BY <1>4, <2>1 DEF Push
  <2>3. state' \in [Msg -> {"idle", "sending", "sent", "failed"}] /\ lock' \in Replies \cup {NoMsg}
    BY <1>4 DEF Push, Return, sendVars
  <2> QED BY <1>4, <2>2, <2>3 DEF Push
<1>5. CASE PushFails(m) BY <1>5 DEF PushFails, Return
<1> QED BY <1>1, <1>2, <1>3, <1>4, <1>5 DEF Send

LEMMA LinkTypes ==
  ASSUME TypeInv, Forward \/ SenderDown \/ ReceiverDown
  PROVE  TypeInv'
<1> USE DEF TypeInv, TypeOK, sendVars, recvVars
<1>0. <<>> \in Seq(FrameSet)
  OBVIOUS
<1>1. CASE Forward
  <2>1. Head(chan) \in FrameSet /\ Tail(chan) \in Seq(FrameSet)
    BY <1>1, HeadTailProperties DEF Forward
  <2>2. wire' \in Seq(FrameSet)
    BY <1>1, <2>1 DEF Forward
  <2> QED BY <1>1, <2>1, <2>2 DEF Forward
<1>2. CASE SenderDown BY <1>0, <1>2 DEF SenderDown
<1>3. CASE ReceiverDown BY <1>0, <1>3 DEF ReceiverDown
<1> QED BY <1>1, <1>2, <1>3

LEMMA ProgressTypes ==
  ASSUME TypeInv, wire # <<>>, OnProgress,
         contexts' \in [Uuid -> Context \cup {NoContext}],
         UNCHANGED <<delivered, garbled>>
  PROVE  TypeInv'
<1>0. <<>> \in Seq(FrameSet)
  OBVIOUS
<1>1. wire' \in Seq(FrameSet) /\ up' \in BOOLEAN /\ canceled' \subseteq Msg
  BY <1>0, HeadTyped DEF OnProgress, Proceeds, Canceled, Consume, TypeInv, TypeOK
<1>2. UNCHANGED <<sendVars, chan, open>>
  BY DEF OnProgress, Proceeds, Canceled, Consume
<1> QED BY <1>1, <1>2 DEF TypeInv, TypeOK, sendVars

LEMMA DispatchTypes ==
  ASSUME TypeInv, Dispatch
  PROVE  TypeInv'
<1> USE DEF TypeInv, TypeOK, sendVars, recvVars
<1> DEFINE m == Head(wire).msg
<1>0. /\ wire # <<>> /\ m \in Msg /\ Head(wire).piece \in Nat
      /\ UuidOf[m] \in Uuid /\ Tail(wire) \in Seq(FrameSet)
  BY HeadTyped DEF Dispatch, OnOneshot, OnBegin, OnProcess, OnEnd, OnStray, Next1
<1> HIDE DEF m
<1>1. CASE OnOneshot
  BY <1>0, <1>1 DEF OnOneshot, Consume, m
<1>2. CASE OnBegin
  <2>1. [total |-> SnapLen[m], current |-> 0, buffer |-> <<>>] \in Context
    BY <1>0, MessageAssumption DEF Context
  <2>2. contexts' \in [Uuid -> Context \cup {NoContext}]
    BY <1>0, <1>2, <2>1 DEF OnBegin, m
  <2> QED BY <1>0, <1>2, <2>2, ProgressTypes DEF OnBegin
<1>3. CASE OnProcess
  <2> DEFINE k == Head(wire).piece
  <2>1. contexts[UuidOf[m]] \in Context
    BY <1>0, <1>3 DEF OnProcess, m
  <2>2. PieceLen(m, k) \in Nat /\ <<m, k>> \in Msg \X Nat
    BY <1>0, PieceLenType
  <2>3. Extended(contexts[UuidOf[m]], m, k) \in Context
    <3>1. /\ contexts[UuidOf[m]].total \in Nat
          /\ contexts[UuidOf[m]].current + PieceLen(m, k) \in Nat
          /\ Append(contexts[UuidOf[m]].buffer, <<m, k>>) \in Seq(Msg \X Nat)
      <4> HIDE DEF TypeInv, TypeOK, k
      <4>1. /\ contexts[UuidOf[m]].total \in Nat
            /\ contexts[UuidOf[m]].current \in Nat
            /\ contexts[UuidOf[m]].buffer \in Seq(Msg \X Nat)
        BY <2>1 DEF Context
      <4> QED BY <2>2, <4>1, AppendProperties
    <3> QED BY <3>1 DEF Extended, Context
  <2>4. contexts' \in [Uuid -> Context \cup {NoContext}]
    BY <1>0, <1>3, <2>3 DEF OnProcess, m
  <2> QED BY <1>0, <1>3, <2>4, ProgressTypes DEF OnProcess
<1>4. CASE OnEnd
  <2>1. contexts' \in [Uuid -> Context \cup {NoContext}]
    BY <1>0, <1>4 DEF OnEnd, m
  <2>2. delivered' \in Seq(Msg \cup {Corrupt}) /\ garbled' \in BOOLEAN
    <3>0. delivered \in Seq(Msg \cup {Corrupt}) /\ garbled \in BOOLEAN
      OBVIOUS
    <3> HIDE DEF TypeInv, TypeOK
    <3>a. \A e \in Msg \cup {Corrupt} : Append(delivered, e) \in Seq(Msg \cup {Corrupt})
      BY <3>0, AppendProperties
    <3>1. CASE EndDecodes BY <3>0, <3>a, <3>1 DEF EndDecodes
    <3>2. CASE EndGarbled BY <3>0, <3>a, <3>2 DEF EndGarbled
    <3> QED BY <1>4, <3>1, <3>2 DEF OnEnd
  <2> QED BY <1>0, <1>4, <2>1, <2>2 DEF OnEnd, Consume
<1>5. CASE OnStray
  BY <1>0, <1>5 DEF OnStray, Consume
<1> QED BY <1>1, <1>2, <1>3, <1>4, <1>5 DEF Dispatch

LEMMA TypeInvNext == TypeInv /\ [Next]_vars => TypeInv'
<1>1. ASSUME TypeInv, UNCHANGED vars PROVE TypeInv'
  BY <1>1 DEF TypeInv, TypeOK, vars
<1> QED BY <1>1, SendTypes, LinkTypes, DispatchTypes DEF Next

LEMMA TypesStay == Spec => []TypeInv
BY TypeInvInit, TypeInvNext, PTL DEF Spec

(* Every variable of the framing keeps its type, for all messages, lengths    *)
(* and bandwidths.                                                            *)
THEOREM TypesHold == Spec => []TypeOK
<1>1. TypeInv => TypeOK
  BY DEF TypeInv
<1> QED BY <1>1, TypesStay, PTL

-----------------------------------------------------------------------------
(* The frames on their way: those in the socket, then those in the channel.   *)
flow == wire \o chan

Later(d) ==   \* some frames are lost at the front and at the back
  /\ Len(flow') \in Nat /\ Len(flow') + d <= Len(flow)
  /\ \A p \in 1..Len(flow') : flow'[p] = flow[p + d]

LEMMA ConcatFacts ==
  ASSUME NEW S, NEW s \in Seq(S), NEW t \in Seq(S)
  PROVE  /\ s \o t \in Seq(S)
         /\ Len(s) \in Nat /\ Len(t) \in Nat
         /\ Len(s \o t) = Len(s) + Len(t)
         /\ \A p \in 1..Len(s \o t) :
              (s \o t)[p] = IF p <= Len(s) THEN s[p] ELSE t[p - Len(s)]
BY ConcatProperties

LEMMA ConcatAppend ==
  ASSUME NEW S, NEW s \in Seq(S), NEW t \in Seq(S), NEW e \in S
  PROVE  s \o Append(t, e) = Append(s \o t, e)
OBVIOUS

LEMMA ConcatMove ==
  ASSUME NEW S, NEW s \in Seq(S), NEW t \in Seq(S), t # <<>>
  PROVE  Append(s, Head(t)) \o Tail(t) = s \o t
OBVIOUS

LEMMA ConcatTail ==
  ASSUME NEW S, NEW s \in Seq(S), NEW t \in Seq(S), s # <<>>
  PROVE  Tail(s) \o t = Tail(s \o t)
OBVIOUS

LEMMA FlowFacts ==
  ASSUME TypeInv
  PROVE  /\ flow \in Seq(FrameSet)
         /\ wire \in Seq(FrameSet) /\ chan \in Seq(FrameSet)
         /\ Len(flow) \in Nat /\ Len(wire) \in Nat /\ Len(chan) \in Nat
         /\ Len(flow) = Len(wire) + Len(chan)
         /\ \A p \in 1..Len(flow) :
              flow[p] = IF p <= Len(wire) THEN wire[p] ELSE chan[p - Len(wire)]
<1>1. wire \in Seq(FrameSet) /\ chan \in Seq(FrameSet)
  BY DEF TypeInv, TypeOK
<1> QED BY <1>1, ConcatFacts DEF flow

LEMMA PushFlow ==
  ASSUME TypeInv, NEW m \in Msg, Push(m)
  PROVE  /\ Len(flow') = Len(flow) + 1
         /\ \A p \in 1..Len(flow) : flow'[p] = flow[p]
         /\ flow'[Len(flow')] = Frame(m, next[m])
<1>1. chan' = Append(chan, Frame(m, next[m])) /\ wire' = wire
  BY DEF Push
<1>2. Frame(m, next[m]) \in FrameSet
  BY FrameTyped DEF TypeInv, TypeOK
<1>3. flow' = Append(flow, Frame(m, next[m]))
  BY <1>1, <1>2, FlowFacts, ConcatAppend DEF flow
<1> QED BY <1>2, <1>3, FlowFacts, AppendProperties

LEMMA ForwardFlow ==
  ASSUME TypeInv, Forward
  PROVE  flow' = flow
BY FlowFacts, ConcatMove DEF flow, Forward

LEMMA SameFlow ==
  ASSUME TypeInv, flow' = flow
  PROVE  Later(0)
BY FlowFacts DEF Later

LEMMA SenderDownFlow ==
  ASSUME TypeInv, SenderDown
  PROVE  Later(0)
<1>1. flow' = wire
  BY FlowFacts, ConcatEmptySeq DEF SenderDown, flow
<1> QED BY <1>1, FlowFacts DEF Later

LEMMA WireLostFlow ==
  ASSUME TypeInv, wire' = <<>>, chan' = chan
  PROVE  Later(Len(wire))
<1>1. flow' = chan
  BY FlowFacts, ConcatEmptySeq DEF flow
<1> QED BY <1>1, FlowFacts DEF Later

LEMMA ConsumeFlow ==
  ASSUME TypeInv, wire # <<>>, Consume
  PROVE  Later(1) /\ Len(flow') = Len(flow) - 1
<1>1. flow' = Tail(flow)
  BY FlowFacts, ConcatTail DEF Consume, flow
<1>2. flow # <<>>
  BY FlowFacts
<1> QED BY <1>1, <1>2, FlowFacts, HeadTailProperties DEF Later

(* What a frame's arrival does to the frames on their way.                    *)
LEMMA DispatchFlow ==
  ASSUME TypeInv, Dispatch
  PROVE  /\ up /\ wire # <<>> /\ Len(flow) >= 1 /\ Head(wire) = flow[1]
         /\ Head(wire) \in FrameSet
         /\ UNCHANGED <<state, next, lock, chan, open>>
         /\ \E d \in Nat \ {0} : Later(d)
<1>1. /\ up /\ wire # <<>>
      /\ \/ Consume
         \/ wire' = <<>> /\ UNCHANGED <<sendVars, chan, open>>
  BY DEF Dispatch, OnOneshot, OnBegin, OnProcess, OnEnd, OnStray, Next1,
         OnProgress, Proceeds, Canceled
<1>2. /\ Len(wire) >= 1 /\ Head(wire) = wire[1] /\ Head(wire) \in FrameSet
  BY <1>1, FlowFacts, HeadTailProperties
<1>3. Len(flow) >= 1 /\ Head(wire) = flow[1]
  BY <1>2, FlowFacts
<1>4. UNCHANGED <<state, next, lock, chan, open>>
  BY <1>1 DEF Consume, sendVars
<1>5. \E d \in Nat \ {0} : Later(d)
  <2>1. CASE Consume
    BY <1>1, <2>1, ConsumeFlow
  <2>2. CASE wire' = <<>> /\ UNCHANGED <<sendVars, chan, open>>
    <3>1. Len(wire) \in Nat \ {0} /\ Later(Len(wire))
      BY <1>2, <2>2, WireLostFlow
    <3> QED BY <3>1
  <2> QED BY <1>1, <2>1, <2>2
<1> QED BY <1>1, <1>2, <1>3, <1>4, <1>5

-----------------------------------------------------------------------------
(* The order of the frames, which no panic and no collision of uuids breaks:  *)
(* a frame on its way was pushed, and the frames of a message are in order.   *)
Collected(u, m, k) ==
  /\ contexts[u] # NoContext
  /\ \E j \in 1..Len(contexts[u].buffer) : contexts[u].buffer[j] = <<m, k>>

IsDelivered(m) == \E i \in 1..Len(delivered) : delivered[i] = m

FramePushed(f, following) ==
  /\ f.msg \in Msg /\ f.piece \in Nat
  /\ f.piece + 1 <= FrameCount(f.msg) /\ f.piece + 1 < following[f.msg]
  /\ f = Frame(f.msg, f.piece + 1)

AllPushed == \A p \in 1..Len(flow) : FramePushed(flow[p], next)

InOrder ==
  \A p, q \in 1..Len(flow) :
    p < q /\ flow[p].msg = flow[q].msg => flow[p].piece < flow[q].piece

NextFrames ==
  \A m \in Msg : /\ state[m] = "sending" => next[m] <= FrameCount(m)
                 /\ state[m] = "idle" => next[m] = 1

FramesInv == AllPushed /\ InOrder /\ NextFrames

(* A piece that was collected has passed.                                     *)
PiecePassed(u, m, k) ==
  /\ UuidOf[m] = u /\ IsLarge(m)
  /\ k \in 1..Chunks(m) /\ k + 1 < next[m]
  /\ \A p \in 1..Len(flow) : flow[p].msg = m => flow[p].piece > k

BuffersInv ==
  \A u \in Uuid, m \in Msg, k \in Nat : Collected(u, m, k) => PiecePassed(u, m, k)

(* Of a message that was delivered there is nothing left but an End frame.    *)
MessagePassed(m) ==
  /\ IF IsLarge(m) THEN next[m] >= FrameCount(m) ELSE next[m] > 1
  /\ \A p \in 1..Len(flow) : flow[p].msg = m => flow[p].type = "end"
  /\ \A u \in Uuid, k \in Nat : ~Collected(u, m, k)

DeliveredInv ==
  /\ \A m \in Msg : IsDelivered(m) => MessagePassed(m)
  /\ AtMostOnce

(* A cancel ends the link.                                                    *)
CancelInv == (canceled # {} => ~up) /\ CanceledNotDelivered

OrderInv == FramesInv /\ BuffersInv /\ DeliveredInv /\ CancelInv

-----------------------------------------------------------------------------
LEMMA FrameTypeFacts ==
  ASSUME NEW m \in Msg, NEW i \in Nat \ {0}, i <= FrameCount(m)
  PROVE  /\ Frame(m, i).msg = m /\ Frame(m, i).piece = i - 1
         /\ Frame(m, i).type = "oneshot" <=> ~IsLarge(m)
         /\ Frame(m, i).type = "begin" <=> IsLarge(m) /\ i = 1
         /\ Frame(m, i).type = "process" <=> IsLarge(m) /\ i - 1 \in 1..Chunks(m)
         /\ Frame(m, i).type = "end" <=> IsLarge(m) /\ i - 1 = Chunks(m) + 1
         /\ IsLarge(m) => FrameCount(m) = Chunks(m) + 2
         /\ ~IsLarge(m) => FrameCount(m) = 1
<1>1. Chunks(m) \in Nat \ {0}
  BY ChunkFacts
<1>2. CASE IsLarge(m)
  BY <1>1, <1>2 DEF Frame, FrameType, FrameCount
<1>3. CASE ~IsLarge(m)
  BY <1>1, <1>3 DEF Frame, FrameType, FrameCount
<1> QED BY <1>2, <1>3

(* A step queues one frame, or hands one over, or leaves the other side alone. *)
CallsGoOn ==
  \A m \in Msg : /\ state'[m] = "sending" => state[m] \in {"idle", "sending"}
                 /\ state'[m] = "idle" => state[m] = "idle"

Quiet ==
  /\ UNCHANGED <<next, contexts, delivered, garbled, canceled>>
  /\ up' => up
  /\ CallsGoOn
  /\ \E d \in Nat : Later(d)

LEMMA StepCases ==
  ASSUME TypeInv, [Next]_vars
  PROVE  (\E m \in Msg : Push(m)) \/ Quiet \/ Dispatch
<1>1. CASE UNCHANGED vars
  <2>1. Later(0)
    BY <1>1, SameFlow DEF vars, flow
  <2> QED BY <1>1, <2>1 DEF vars, Quiet, CallsGoOn
<1>2. ASSUME NEW m \in Msg,
             StartSend(m) \/ StartReply(m) \/ ReplyRefused(m) \/ PushFails(m)
      PROVE  Quiet
  <2>1. UNCHANGED <<wire, chan, next, up, recvVars>>
    BY <1>2 DEF StartSend, StartReply, ReplyRefused, PushFails
  <2>2. Later(0)
    BY <2>1, SameFlow DEF flow
  <2>3. CallsGoOn
    BY <1>2 DEF CallsGoOn, StartSend, StartReply, ReplyRefused, PushFails, Return, TypeInv, TypeOK
  <2>4. \E d \in Nat : Later(d)
    BY <2>2
  <2>5. /\ next' = next /\ contexts' = contexts /\ delivered' = delivered
        /\ garbled' = garbled /\ canceled' = canceled /\ up' = up
    BY <2>1 DEF recvVars
  <2> QED BY <2>3, <2>4, <2>5 DEF Quiet
<1>3. CASE Forward
  <2>1. Later(0)
    BY <1>3, ForwardFlow, SameFlow
  <2> QED BY <1>3, <2>1 DEF Forward, Quiet, CallsGoOn, sendVars, recvVars
<1>4. CASE SenderDown
  <2>1. Later(0)
    BY <1>4, SenderDownFlow
  <2> QED BY <1>4, <2>1 DEF SenderDown, Quiet, CallsGoOn, sendVars, recvVars
<1>5. CASE ReceiverDown
  <2>1. Len(wire) \in Nat /\ Later(Len(wire))
    BY <1>5, WireLostFlow, FlowFacts DEF ReceiverDown
  <2> QED BY <1>5, <2>1 DEF ReceiverDown, Quiet, CallsGoOn, sendVars, recvVars
<1> QED BY <1>1, <1>2, <1>3, <1>4, <1>5 DEF Next, Send

-----------------------------------------------------------------------------
LEMMA FramesLater ==
  ASSUME TypeInv, FramesInv, next' = next, NEW d \in Nat, Later(d)
  PROVE  AllPushed' /\ InOrder'
<1>1. \A p \in 1..Len(flow') : p + d \in 1..Len(flow) /\ flow'[p] = flow[p + d]
  BY FlowFacts DEF Later
<1>2. \A p \in 1..Len(flow') : FramePushed(flow'[p], next')
  BY <1>1 DEF FramesInv, AllPushed
<1>3. \A p, q \in 1..Len(flow') : p < q => p + d < q + d
  BY FlowFacts DEF Later
<1> QED BY <1>1, <1>2, <1>3 DEF FramesInv, AllPushed, InOrder

LEMMA FramesInvNext ==
  ASSUME TypeInv, FramesInv, [Next]_vars
  PROVE  FramesInv'
<1>1. ASSUME NEW m \in Msg, Push(m) PROVE FramesInv'
  <2> DEFINE f == Frame(m, next[m])
  <2>1. /\ next[m] \in Nat \ {0} /\ next[m] <= FrameCount(m) /\ FrameCount(m) \in Nat
        /\ next' = [next EXCEPT ![m] = @ + 1] /\ next \in [Msg -> Nat]
    BY <1>1, ChunkFacts DEF Push, TypeInv, TypeOK, FramesInv, NextFrames
  <2>2. /\ Len(flow') = Len(flow) + 1 /\ Len(flow) \in Nat
        /\ \A p \in 1..Len(flow) : flow'[p] = flow[p]
        /\ flow'[Len(flow')] = f
    BY <1>1, PushFlow, FlowFacts
  <2>3. f.msg = m /\ f.piece = next[m] - 1
    BY <2>1, FrameTypeFacts
  <2> HIDE DEF f
  <2>4. ASSUME NEW p \in 1..Len(flow) PROVE FramePushed(flow'[p], next')
    <3>1. FramePushed(flow[p], next)
      BY DEF FramesInv, AllPushed
    <3>2. flow[p].msg \in Msg => next[flow[p].msg] <= next'[flow[p].msg]
      BY <2>1
    <3>3. flow[p].msg \in Msg => next[flow[p].msg] \in Nat /\ next'[flow[p].msg] \in Nat
      BY <2>1
    <3> QED BY <3>1, <3>2, <3>3, <2>2 DEF FramePushed
  <2>5. FramePushed(f, next')
    BY <2>1, <2>3 DEF FramePushed, f
  <2>6. AllPushed'
    BY <2>2, <2>4, <2>5 DEF AllPushed
  <2>7. \A p \in 1..Len(flow) : flow[p].msg = m => flow[p].piece \in Nat /\ flow[p].piece < next[m] - 1
    BY <2>1 DEF FramesInv, AllPushed, FramePushed
  <2>8. InOrder'
    <3> SUFFICES ASSUME NEW p \in 1..Len(flow'), NEW q \in 1..Len(flow'),
                        p < q, flow'[p].msg = flow'[q].msg
                 PROVE  flow'[p].piece < flow'[q].piece
      BY DEF InOrder
    <3>1. p \in 1..Len(flow) /\ flow'[p] = flow[p]
      BY <2>2
    <3>2. CASE q \in 1..Len(flow)
      BY <2>2, <3>1, <3>2 DEF FramesInv, InOrder
    <3>3. CASE q = Len(flow')
      BY <2>2, <2>3, <2>7, <3>1, <3>3
    <3> QED BY <2>2, <3>2, <3>3
  <2>9. NextFrames'
    <3> SUFFICES ASSUME NEW n \in Msg
                 PROVE  /\ state'[n] = "sending" => next'[n] <= FrameCount(n)
                        /\ state'[n] = "idle" => next'[n] = 1
      BY DEF NextFrames
    <3>1. state \in [Msg -> {"idle", "sending", "sent", "failed"}]
      BY DEF TypeInv, TypeOK
    <3>2. CASE n = m
      <4>1. CASE next[m] = FrameCount(m)
        BY <1>1, <3>1, <3>2, <4>1 DEF Push, Return
      <4>2. CASE next[m] # FrameCount(m)
        <5>1. state' = state /\ state[m] = "sending"
          BY <1>1, <4>2 DEF Push
        <5> QED BY <2>1, <3>2, <4>2, <5>1
      <4> QED BY <4>1, <4>2
    <3>3. CASE n # m
      <4>1. state'[n] = state[n] /\ next'[n] = next[n]
        BY <1>1, <2>1, <3>1, <3>3 DEF Push, Return
      <4> QED BY <4>1 DEF FramesInv, NextFrames
    <3> QED BY <3>2, <3>3
  <2> QED BY <2>6, <2>8, <2>9 DEF FramesInv
<1>2. CASE Quiet
  <2>1. PICK d \in Nat : Later(d)
    BY <1>2 DEF Quiet
  <2>2. AllPushed' /\ InOrder'
    BY <1>2, <2>1, FramesLater DEF Quiet
  <2>3. NextFrames'
    <3> SUFFICES ASSUME NEW n \in Msg
                 PROVE  /\ state'[n] = "sending" => next'[n] <= FrameCount(n)
                        /\ state'[n] = "idle" => next'[n] = 1
      BY DEF NextFrames
    <3>1. next'[n] = next[n] /\ FrameCount(n) \in Nat \ {0}
      BY <1>2, ChunkFacts DEF Quiet
    <3> QED BY <1>2, <3>1 DEF Quiet, CallsGoOn, FramesInv, NextFrames
  <2> QED BY <2>2, <2>3 DEF FramesInv
<1>3. CASE Dispatch
  <2>1. PICK d \in Nat : Later(d)
    BY <1>3, DispatchFlow
  <2>2. state' = state /\ next' = next
    BY <1>3, DispatchFlow
  <2>3. AllPushed' /\ InOrder'
    BY <2>1, <2>2, FramesLater
  <2> QED BY <2>2, <2>3 DEF FramesInv, NextFrames
<1> QED BY <1>1, <1>2, <1>3, StepCases

-----------------------------------------------------------------------------
(* What the oldest frame on the wire is.                                      *)
LEMMA HeadFacts ==
  ASSUME TypeInv, FramesInv, Dispatch
  PROVE  LET m == Head(wire).msg
             k == Head(wire).piece
         IN  /\ m \in Msg /\ k \in Nat /\ UuidOf[m] \in Uuid
             /\ Head(wire) = flow[1] /\ Len(flow) >= 1
             /\ Head(wire) = Frame(m, k + 1)
             /\ k + 1 <= FrameCount(m) /\ k + 1 < next[m]
<1>1. /\ Len(flow) \in Nat /\ Len(flow) >= 1 /\ Head(wire) = flow[1]
  BY DispatchFlow, FlowFacts
<1>2. FramePushed(flow[1], next)
  BY <1>1 DEF FramesInv, AllPushed
<1> QED BY <1>1, <1>2, MessageAssumption DEF FramePushed

(* The frames of its message that are still behind it.                        *)
LEMMA BehindHead ==
  ASSUME TypeInv, FramesInv, Dispatch,
         NEW p \in 1..Len(flow'), flow'[p].msg = Head(wire).msg
  PROVE  flow'[p].piece > Head(wire).piece
<1>1. PICK d \in Nat \ {0} : Later(d)
  BY DispatchFlow
<1>2. /\ Len(flow) \in Nat /\ Len(flow) >= 1 /\ Head(wire) = flow[1]
  BY DispatchFlow, FlowFacts
<1>3. p + d \in 1..Len(flow) /\ 1 < p + d /\ flow'[p] = flow[p + d] /\ 1 \in 1..Len(flow)
  BY <1>1, <1>2 DEF Later
<1>4. flow[1].piece < flow[p + d].piece
  BY <1>2, <1>3 DEF FramesInv, InOrder
<1>5. FramePushed(flow[1], next) /\ FramePushed(flow[p + d], next)
  BY <1>3 DEF FramesInv, AllPushed
<1> QED BY <1>2, <1>3, <1>4, <1>5 DEF FramePushed

(* Only a Process frame adds a piece to a context.                            *)
LEMMA CollectedStep ==
  ASSUME TypeInv, FramesInv, [Next]_vars,
         NEW u \in Uuid, NEW m \in Msg, NEW k \in Nat, Collected(u, m, k)'
  PROVE  \/ Collected(u, m, k)
         \/ /\ OnProcess
            /\ Head(wire).msg = m /\ Head(wire).piece = k /\ UuidOf[m] = u
<1>1. CASE contexts' = contexts
  BY <1>1 DEF Collected
<1>2. CASE OnBegin
  <2>1. Dispatch
    BY <1>2 DEF Dispatch
  <2>2. UuidOf[Head(wire).msg] \in Uuid
    BY <2>1, HeadFacts
  <2>3. CASE u = UuidOf[Head(wire).msg]
    <3>1. contexts'[u].buffer = <<>>
      BY <1>2, <2>2, <2>3 DEF OnBegin, TypeInv, TypeOK
    <3> QED BY <3>1 DEF Collected
  <2>4. CASE u # UuidOf[Head(wire).msg]
    BY <1>2, <2>2, <2>4 DEF OnBegin, TypeInv, TypeOK, Collected
  <2> QED BY <2>3, <2>4
<1>3. CASE OnProcess
  <2>1. Dispatch
    BY <1>3 DEF Dispatch
  <2> DEFINE n == Head(wire).msg
             i == Head(wire).piece
  <2>2. n \in Msg /\ i \in Nat /\ UuidOf[n] \in Uuid
    BY <2>1, HeadFacts
  <2>3. CASE u = UuidOf[n]
    <3>1. /\ contexts[u] \in Context /\ contexts[u] # NoContext
          /\ contexts'[u] = Extended(contexts[u], n, i)
      BY <1>3, <2>2, <2>3 DEF OnProcess, TypeInv, TypeOK
    <3>2. contexts[u].buffer \in Seq(Msg \X Nat) /\ <<n, i>> \in Msg \X Nat
      BY <2>2, <3>1 DEF Context
    <3>3. contexts'[u].buffer = Append(contexts[u].buffer, <<n, i>>)
      BY <3>1 DEF Extended
    <3>4. PICK j \in 1..Len(contexts'[u].buffer) : contexts'[u].buffer[j] = <<m, k>>
      BY DEF Collected
    <3>5. CASE j \in 1..Len(contexts[u].buffer)
      <4>1. contexts[u].buffer[j] = <<m, k>>
        BY <3>2, <3>3, <3>4, <3>5, AppendProperties
      <4> QED BY <3>1, <3>5, <4>1 DEF Collected
    <3>6. CASE j = Len(contexts[u].buffer) + 1
      <4>1. <<n, i>> = <<m, k>>
        BY <3>2, <3>3, <3>4, <3>6, AppendProperties
      <4> QED BY <1>3, <2>3, <4>1
    <3>7. j \in 1..(Len(contexts[u].buffer) + 1)
      BY <3>2, <3>3, AppendProperties
    <3>8. Len(contexts[u].buffer) \in Nat
      BY <3>2
    <3> QED BY <3>5, <3>6, <3>7, <3>8
  <2>4. CASE u # UuidOf[n]
    <3>1. contexts'[u] = contexts[u]
      BY <1>3, <2>2, <2>4 DEF OnProcess, TypeInv, TypeOK
    <3> QED BY <3>1 DEF Collected
  <2> QED BY <2>3, <2>4
<1>4. CASE OnEnd
  <2>1. Dispatch
    BY <1>4 DEF Dispatch
  <2>2. UuidOf[Head(wire).msg] \in Uuid
    BY <2>1, HeadFacts
  <2>3. contexts'[u] \in {NoContext, contexts[u]}
    BY <1>4, <2>2 DEF OnEnd, TypeInv, TypeOK
  <2> QED BY <2>3 DEF Collected
<1>5. contexts' = contexts \/ OnBegin \/ OnProcess \/ OnEnd
  BY StepCases DEF Push, recvVars, Quiet, Dispatch, OnOneshot, OnStray
<1> QED BY <1>1, <1>2, <1>3, <1>4, <1>5

LEMMA PassedStays ==
  ASSUME TypeInv, FramesInv, [Next]_vars,
         NEW u \in Uuid, NEW m \in Msg, NEW k \in Nat, PiecePassed(u, m, k)
  PROVE  PiecePassed(u, m, k)'
<1>0. next[m] \in Nat /\ next \in [Msg -> Nat]
  BY DEF TypeInv, TypeOK
<1>1. ASSUME NEW n \in Msg, Push(n) PROVE PiecePassed(u, m, k)'
  <2>1. /\ Len(flow') = Len(flow) + 1 /\ Len(flow) \in Nat
        /\ \A p \in 1..Len(flow) : flow'[p] = flow[p]
        /\ flow'[Len(flow')] = Frame(n, next[n])
    BY <1>1, PushFlow, FlowFacts
  <2>2. next'[m] >= next[m] /\ next'[m] \in Nat
    BY <1>0, <1>1 DEF Push
  <2>3. Frame(n, next[n]).msg = n /\ Frame(n, next[n]).piece = next[n] - 1
    BY DEF Frame
  <2>4. ASSUME NEW p \in 1..Len(flow'), flow'[p].msg = m PROVE flow'[p].piece > k
    <3>1. CASE p \in 1..Len(flow)
      BY <2>1, <2>4, <3>1 DEF PiecePassed
    <3>2. CASE p = Len(flow')
      BY <1>0, <2>1, <2>3, <2>4, <3>2 DEF PiecePassed
    <3> QED BY <2>1, <3>1, <3>2
  <2> QED BY <1>0, <2>2, <2>4 DEF PiecePassed
<1>2. CASE Quiet \/ Dispatch
  <2>1. next' = next
    BY <1>2, DispatchFlow DEF Quiet
  <2>2. PICK d \in Nat : Later(d)
    BY <1>2, DispatchFlow DEF Quiet
  <2>3. \A p \in 1..Len(flow') : p + d \in 1..Len(flow) /\ flow'[p] = flow[p + d]
    BY <2>2, FlowFacts DEF Later
  <2> QED BY <2>1, <2>3 DEF PiecePassed
<1> QED BY <1>1, <1>2, StepCases

LEMMA BuffersInvNext ==
  ASSUME TypeInv, FramesInv, BuffersInv, [Next]_vars
  PROVE  BuffersInv'
<1> SUFFICES ASSUME NEW u \in Uuid, NEW m \in Msg, NEW k \in Nat, Collected(u, m, k)'
             PROVE  PiecePassed(u, m, k)'
  BY DEF BuffersInv
<1>1. CASE Collected(u, m, k)
  BY <1>1, PassedStays DEF BuffersInv
<1>2. CASE /\ OnProcess
           /\ Head(wire).msg = m /\ Head(wire).piece = k /\ UuidOf[m] = u
  <2>1. Dispatch
    BY <1>2 DEF Dispatch
  <2>2. /\ Head(wire) = Frame(m, k + 1)
        /\ k + 1 <= FrameCount(m) /\ k + 1 < next[m]
    BY <1>2, <2>1, HeadFacts
  <2>3. IsLarge(m) /\ k \in 1..Chunks(m)
    BY <1>2, <2>2, FrameTypeFacts DEF OnProcess, Next1
  <2>4. next' = next
    BY <2>1, DispatchFlow
  <2>5. \A p \in 1..Len(flow') : flow'[p].msg = m => flow'[p].piece > k
    BY <1>2, <2>1, BehindHead
  <2> QED BY <1>2, <2>2, <2>3, <2>4, <2>5 DEF PiecePassed
<1> QED BY <1>1, <1>2, CollectedStep

-----------------------------------------------------------------------------
LEMMA MessagePassedStays ==
  ASSUME TypeInv, FramesInv, [Next]_vars, NEW m \in Msg, MessagePassed(m)
  PROVE  MessagePassed(m)'
<1>0. next[m] \in Nat /\ next \in [Msg -> Nat]
  BY DEF TypeInv, TypeOK
<1>1. ASSUME NEW n \in Msg, Push(n) PROVE MessagePassed(m)'
  <2>1. /\ Len(flow') = Len(flow) + 1 /\ Len(flow) \in Nat
        /\ \A p \in 1..Len(flow) : flow'[p] = flow[p]
        /\ flow'[Len(flow')] = Frame(n, next[n])
    BY <1>1, PushFlow, FlowFacts
  <2>2. next'[m] >= next[m] /\ next'[m] \in Nat
    BY <1>0, <1>1 DEF Push
  <2>3. next[n] \in Nat \ {0} /\ next[n] <= FrameCount(n) /\ FrameCount(n) \in Nat
    BY <1>1, ChunkFacts DEF Push, TypeInv, TypeOK, FramesInv, NextFrames
  <2>4. n = m => Frame(n, next[n]).type = "end"
    <3>1. CASE IsLarge(m)
      BY <2>3, <3>1, FrameTypeFacts, ChunkFacts DEF MessagePassed
    <3>2. CASE ~IsLarge(m)
      BY <2>3, <3>2, FrameTypeFacts DEF MessagePassed
    <3> QED BY <3>1, <3>2
  <2>5. Frame(n, next[n]).msg = n
    BY <2>3, FrameTypeFacts
  <2>6. \A p \in 1..Len(flow') : flow'[p].msg = m => flow'[p].type = "end"
    <3> SUFFICES ASSUME NEW p \in 1..Len(flow'), flow'[p].msg = m
                 PROVE  flow'[p].type = "end"
      OBVIOUS
    <3>1. CASE p \in 1..Len(flow)
      BY <2>1, <3>1 DEF MessagePassed
    <3>2. CASE p = Len(flow')
      BY <2>1, <2>4, <2>5, <3>2
    <3> QED BY <2>1, <3>1, <3>2
  <2>7. \A u \in Uuid, k \in Nat : ~Collected(u, m, k)'
    BY <1>1 DEF Push, recvVars, Collected, MessagePassed
  <2>8. IF IsLarge(m) THEN next'[m] >= FrameCount(m) ELSE next'[m] > 1
    BY <1>0, <2>2, ChunkFacts DEF MessagePassed
  <2> QED BY <2>6, <2>7, <2>8 DEF MessagePassed
<1>2. CASE Quiet \/ Dispatch
  <2>1. next' = next
    BY <1>2, DispatchFlow DEF Quiet
  <2>2. PICK d \in Nat : Later(d)
    BY <1>2, DispatchFlow DEF Quiet
  <2>3. \A p \in 1..Len(flow') : p + d \in 1..Len(flow) /\ flow'[p] = flow[p + d]
    BY <2>2, FlowFacts DEF Later
  <2>4. \A p \in 1..Len(flow') : flow'[p].msg = m => flow'[p].type = "end"
    BY <2>3 DEF MessagePassed
  <2>5. \A u \in Uuid, k \in Nat : ~Collected(u, m, k)'
    <3> SUFFICES ASSUME NEW u \in Uuid, NEW k \in Nat, Collected(u, m, k)'
                 PROVE  FALSE
      OBVIOUS
    <3>1. OnProcess /\ Head(wire).msg = m
      BY CollectedStep DEF MessagePassed
    <3>2. Dispatch
      BY <3>1 DEF Dispatch
    <3>3. flow[1] = Head(wire) /\ 1 \in 1..Len(flow)
      BY <3>2, DispatchFlow, FlowFacts
    <3> QED BY <3>1, <3>3 DEF OnProcess, Next1, MessagePassed
  <2> QED BY <2>1, <2>4, <2>5 DEF MessagePassed
<1> QED BY <1>1, <1>2, StepCases

(* What a delivery appends: a whole message that was not delivered before and *)
(* of which nothing but an End frame is left, or something nobody sent.       *)
NewlyDelivered(e) ==
  /\ delivered' = Append(delivered, e)
  /\ \/ e = Corrupt
     \/ e \in Msg /\ ~IsDelivered(e) /\ MessagePassed(e)'

LEMMA OneshotDelivers ==
  ASSUME TypeInv, FramesInv, BuffersInv, DeliveredInv, BuffersInv', FramesInv', OnOneshot
  PROVE  \E e \in Msg : NewlyDelivered(e)
<1>1. Dispatch
  BY DEF Dispatch
<1>a. Head(wire).msg \in Msg /\ Head(wire).piece \in Nat
  BY <1>1, HeadFacts
<1>b. PICK m \in Msg, k \in Nat : m = Head(wire).msg /\ k = Head(wire).piece
  BY <1>a
<1>2. /\ flow[1] = Head(wire) /\ Len(flow) >= 1
      /\ Head(wire) = Frame(m, k + 1) /\ k + 1 <= FrameCount(m) /\ k + 1 < next[m]
  BY <1>1, <1>b, HeadFacts
<1>3. ~IsLarge(m) /\ Head(wire).type = "oneshot" /\ FrameCount(m) = 1
  BY <1>2, FrameTypeFacts DEF OnOneshot, Next1
<1>4. 1 \in 1..Len(flow)
  BY <1>2, FlowFacts
<1>5. ~IsDelivered(m)
  BY <1>b, <1>2, <1>3, <1>4 DEF DeliveredInv, MessagePassed
<1>6. next'[m] > 1
  BY <1>1, <1>2, DispatchFlow DEF TypeInv, TypeOK
<1>7. \A p \in 1..Len(flow') : flow'[p].msg # m
  <2> SUFFICES ASSUME NEW p \in 1..Len(flow'), flow'[p].msg = m PROVE FALSE
    OBVIOUS
  <2>1. flow'[p].piece > k
    BY <1>1, <1>b, BehindHead
  <2>2. flow'[p].piece \in Nat /\ flow'[p].piece + 1 <= 1
    BY <1>3 DEF FramesInv, AllPushed, FramePushed
  <2> QED BY <1>2, <2>1, <2>2
<1>8. \A u \in Uuid, j \in Nat : ~Collected(u, m, j)'
  BY <1>2, <1>3 DEF BuffersInv, PiecePassed
<1>9. MessagePassed(m)'
  BY <1>3, <1>6, <1>7, <1>8 DEF MessagePassed
<1> QED BY <1>b, <1>5, <1>9 DEF OnOneshot, NewlyDelivered

LEMMA EndDelivers ==
  ASSUME TypeInv, FramesInv, BuffersInv, DeliveredInv, BuffersInv', FramesInv',
         [Next]_vars, OnEnd, delivered' # delivered
  PROVE  \E e \in Msg \cup {Corrupt} : NewlyDelivered(e)
<1>1. Dispatch
  BY DEF Dispatch
<1>2. UuidOf[Head(wire).msg] \in Uuid
  BY <1>1, HeadFacts
<1>u. PICK u \in Uuid : u = UuidOf[Head(wire).msg]
  BY <1>2
<1>3. CASE EndGarbled
  BY <1>3 DEF EndGarbled, NewlyDelivered
<1>4. CASE EndDecodes
  <2>1. PICK m \in Msg : Whole(contexts[u].buffer, m) /\ delivered' = Append(delivered, m)
    BY <1>4, <1>u DEF EndDecodes
  <2>2. Chunks(m) \in Nat \ {0}
    BY ChunkFacts
  <2>3. contexts[u].buffer = [j \in 1..Chunks(m) |-> <<m, j>>]
    BY <2>1 DEF Whole
  <2>4. Len(contexts[u].buffer) = Chunks(m) /\ contexts[u].buffer[Chunks(m)] = <<m, Chunks(m)>>
    <3> DEFINE b == [j \in 1..Chunks(m) |-> <<m, j>>]
    <3>1. b \in Seq(Msg \X Nat) /\ DOMAIN b = 1..Chunks(m)
      BY <2>2
    <3>2. Len(b) = Chunks(m)
      BY <2>2, <3>1, LenProperties
    <3> QED BY <2>2, <2>3, <3>2
  <2>5. Collected(u, m, Chunks(m))
    <3>1. contexts[u] # NoContext
      BY <1>u DEF OnEnd
    <3>2. Chunks(m) \in 1..Len(contexts[u].buffer)
      BY <2>2, <2>4
    <3> QED BY <2>4, <3>1, <3>2 DEF Collected
  <2>6. PiecePassed(u, m, Chunks(m))
    BY <1>2, <2>2, <2>5 DEF BuffersInv
  <2>7. ~IsDelivered(m)
    BY <1>2, <2>2, <2>5 DEF DeliveredInv, MessagePassed
  <2>8. IsLarge(m) /\ FrameCount(m) = Chunks(m) + 2 /\ UuidOf[m] = u
    BY <2>6 DEF PiecePassed, FrameCount
  <2>9. next'[m] >= FrameCount(m)
    BY <1>1, <2>2, <2>6, <2>8, DispatchFlow DEF PiecePassed, TypeInv, TypeOK
  <2>10. \A p \in 1..Len(flow') : flow'[p].msg = m => flow'[p].type = "end"
    <3> SUFFICES ASSUME NEW p \in 1..Len(flow'), flow'[p].msg = m
                 PROVE  flow'[p].type = "end"
      OBVIOUS
    <3>1. flow'[p].piece > Chunks(m)
      BY <2>2, <2>6, PassedStays, <1>2 DEF PiecePassed
    <3>2. /\ flow'[p].piece \in Nat /\ flow'[p].piece + 1 <= Chunks(m) + 2
          /\ flow'[p] = Frame(m, flow'[p].piece + 1)
      BY <2>8 DEF FramesInv, AllPushed, FramePushed
    <3>3. flow'[p].piece = Chunks(m) + 1
      BY <2>2, <3>1, <3>2
    <3>4. flow'[p].piece + 1 \in Nat \ {0} /\ flow'[p].piece + 1 <= FrameCount(m)
      BY <2>8, <3>2
    <3> QED BY <2>2, <2>8, <3>2, <3>3, <3>4, FrameTypeFacts
  <2>11. \A w \in Uuid, k \in Nat : ~Collected(w, m, k)'
    <3> SUFFICES ASSUME NEW w \in Uuid, NEW k \in Nat, Collected(w, m, k)'
                 PROVE  FALSE
      OBVIOUS
    <3>1. w = u
      BY <2>8 DEF BuffersInv, PiecePassed
    <3>2. contexts'[u] = NoContext
      BY <1>u DEF OnEnd, TypeInv, TypeOK
    <3> QED BY <3>1, <3>2 DEF Collected
  <2>12. MessagePassed(m)'
    BY <2>8, <2>9, <2>10, <2>11 DEF MessagePassed
  <2> QED BY <2>1, <2>7, <2>12 DEF NewlyDelivered
<1> QED BY <1>3, <1>4 DEF OnEnd

LEMMA DeliveredStep ==
  ASSUME TypeInv, FramesInv, BuffersInv, DeliveredInv, BuffersInv', FramesInv', [Next]_vars
  PROVE  delivered' = delivered \/ \E e \in Msg \cup {Corrupt} : NewlyDelivered(e)
<1>1. CASE OnOneshot
  BY <1>1, OneshotDelivers
<1>2. CASE OnEnd
  BY <1>2, EndDelivers
<1>3. delivered' = delivered \/ OnOneshot \/ OnEnd
  BY StepCases DEF Push, recvVars, Quiet, Dispatch, OnBegin, OnProcess, OnStray
<1> QED BY <1>1, <1>2, <1>3

LEMMA DeliveredInvNext ==
  ASSUME TypeInv, FramesInv, BuffersInv, DeliveredInv, BuffersInv', FramesInv', [Next]_vars
  PROVE  DeliveredInv'
<1>1. delivered \in Seq(Msg \cup {Corrupt}) /\ Len(delivered) \in Nat
  BY DEF TypeInv, TypeOK
<1>2. CASE delivered' = delivered
  <2>1. \A m \in Msg : IsDelivered(m)' => MessagePassed(m)'
    BY <1>2, MessagePassedStays DEF DeliveredInv, IsDelivered
  <2> QED BY <1>2, <2>1 DEF DeliveredInv, AtMostOnce
<1>3. ASSUME NEW e \in Msg \cup {Corrupt}, NewlyDelivered(e) PROVE DeliveredInv'
  <2>1. /\ Len(delivered') = Len(delivered) + 1 /\ delivered'[Len(delivered) + 1] = e
        /\ \A i \in 1..Len(delivered) : delivered'[i] = delivered[i]
    BY <1>1, <1>3, AppendProperties DEF NewlyDelivered
  <2>2. ASSUME NEW m \in Msg, IsDelivered(m)' PROVE MessagePassed(m)'
    <3>1. CASE IsDelivered(m)
      BY <3>1, MessagePassedStays DEF DeliveredInv
    <3>2. CASE ~IsDelivered(m)
      <4>1. m = e
        BY <1>1, <2>1, <2>2, <3>2 DEF IsDelivered
      <4> QED BY <1>3, <4>1, MessageAssumption DEF NewlyDelivered
    <3> QED BY <3>1, <3>2
  <2>3. e # Corrupt => \A i \in 1..Len(delivered) : delivered[i] # e
    BY <1>3 DEF NewlyDelivered, IsDelivered
  <2>4. AtMostOnce'
    <3> SUFFICES ASSUME NEW i \in 1..Len(delivered'), NEW j \in 1..Len(delivered'),
                        delivered'[i] = delivered'[j], delivered'[i] # Corrupt
                 PROVE  i = j
      BY DEF AtMostOnce
    <3>1. CASE i \in 1..Len(delivered) /\ j \in 1..Len(delivered)
      BY <2>1, <3>1 DEF DeliveredInv, AtMostOnce
    <3>2. CASE i = Len(delivered) + 1 \/ j = Len(delivered) + 1
      BY <1>1, <2>1, <2>3, <3>2
    <3> QED BY <1>1, <2>1, <3>1, <3>2
  <2> QED BY <2>2, <2>4 DEF DeliveredInv
<1> QED BY <1>2, <1>3, DeliveredStep

LEMMA CancelInvNext ==
  ASSUME TypeInv, FramesInv, DeliveredInv, CancelInv, [Next]_vars
  PROVE  CancelInv'
<1>0. delivered \in Seq(Msg \cup {Corrupt})
  BY DEF TypeInv, TypeOK
<1>1. CASE (\E m \in Msg : Push(m)) \/ Quiet
  BY <1>1 DEF Push, Quiet, recvVars, CancelInv, CanceledNotDelivered
<1>2. CASE Dispatch
  <2>1. up /\ canceled = {}
    BY <1>2, DispatchFlow DEF CancelInv
  <2>2. CASE canceled' = canceled
    BY <2>1, <2>2 DEF CancelInv, CanceledNotDelivered
  <2>3. CASE Canceled /\ (OnBegin \/ OnProcess)
    <3>1. /\ Head(wire).msg \in Msg /\ Head(wire) = flow[1] /\ 1 \in 1..Len(flow)
      BY <1>2, HeadFacts, FlowFacts
    <3>2. Head(wire).type # "end"
      BY <2>3 DEF OnBegin, OnProcess, Next1
    <3>3. ~IsDelivered(Head(wire).msg)
      BY <3>1, <3>2 DEF DeliveredInv, MessagePassed
    <3>4. delivered' = delivered /\ canceled' = {Head(wire).msg} /\ ~up'
      BY <2>1, <2>3 DEF Canceled, OnBegin, OnProcess
    <3> QED BY <3>3, <3>4 DEF CancelInv, CanceledNotDelivered, IsDelivered
  <2> QED BY <1>2, <2>2, <2>3 DEF Dispatch, OnOneshot, OnBegin, OnProcess, OnEnd, OnStray,
                                  OnProgress, Proceeds, recvVars
<1> QED BY <1>1, <1>2, StepCases

-----------------------------------------------------------------------------
LEMMA OrderInvInit == Init => OrderInv
<1> SUFFICES ASSUME Init PROVE OrderInv
  OBVIOUS
<1>1. flow = <<>> /\ Len(flow) = 0
  BY ConcatEmptySeq DEF Init, flow
<1>2. FramesInv
  BY <1>1 DEF Init, FramesInv, AllPushed, InOrder, NextFrames
<1>3. BuffersInv
  BY DEF Init, BuffersInv, Collected
<1>4. DeliveredInv /\ CancelInv
  BY DEF Init, DeliveredInv, CancelInv, IsDelivered, AtMostOnce, CanceledNotDelivered
<1> QED BY <1>2, <1>3, <1>4 DEF OrderInv

LEMMA OrderInvNext == TypeInv /\ OrderInv /\ [Next]_vars => OrderInv'
BY FramesInvNext, BuffersInvNext, DeliveredInvNext, CancelInvNext DEF OrderInv

LEMMA OrderStays == Spec => []OrderInv
BY TypesStay, OrderInvInit, OrderInvNext, PTL DEF Spec

(* No message reaches on_message twice, whatever the threads that send, and   *)
(* not even when a poisoned mutex makes every transfer share one context.     *)
THEOREM DeliveredAtMostOnce == Spec => []AtMostOnce
<1>1. OrderInv => AtMostOnce
  BY DEF OrderInv, DeliveredInv
<1> QED BY <1>1, OrderStays, PTL

(* A transfer that the server's progress callback canceled is never delivered. *)
THEOREM CancelStops == Spec => []CanceledNotDelivered
<1>1. OrderInv => CanceledNotDelivered
  BY DEF OrderInv, CancelInv
<1> QED BY <1>1, OrderStays, PTL

-----------------------------------------------------------------------------
(* The mutex is held by the reply that is sending, if any.                    *)
MutexHeld == \A m \in Replies : lock = m <=> state[m] = "sending"

LEMMA SendKeepsMutex ==
  ASSUME TypeInv, MutexHeld, NEW m \in Msg, Send(m)
  PROVE  MutexHeld'
<1> SUFFICES ASSUME NEW r \in Replies PROVE lock' = r <=> state'[r] = "sending"
  BY DEF MutexHeld
<1>1. /\ r \in Msg /\ r # NoMsg /\ (lock = r <=> state[r] = "sending")
      /\ state \in [Msg -> {"idle", "sending", "sent", "failed"}]
      /\ lock \in Replies \cup {NoMsg}
  BY MessageAssumption DEF MutexHeld, TypeInv, TypeOK
<1>2. CASE StartSend(m)
  BY <1>1, <1>2 DEF StartSend
<1>3. CASE StartReply(m)
  BY <1>1, <1>3 DEF StartReply
<1>4. CASE ReplyRefused(m)
  BY <1>1, <1>4 DEF ReplyRefused
<1>5. CASE Push(m) \/ PushFails(m)
  <2>1. CASE state' = state /\ lock' = lock
    BY <1>1, <2>1
  <2>2. CASE \E outcome \in {"sent", "failed"} : Return(m, outcome)
    BY <1>1, <1>5, <2>2 DEF Return
  <2> QED BY <1>5, <2>1, <2>2 DEF Push, PushFails
<1> QED BY <1>2, <1>3, <1>4, <1>5 DEF Send

(* A reply takes the mutex before its first frame and gives it back when it   *)
(* returns, also when the channel was closed under it (response.rs:42-57):    *)
(* whoever waits for the mutex waits for a call that goes on sending.         *)
THEOREM MutexIsReleased == Spec => []MutexHeld
<1>1. Init => MutexHeld
  BY MessageAssumption DEF Init, MutexHeld
<1>2. ASSUME TypeInv, MutexHeld, [Next]_vars PROVE MutexHeld'
  <2>1. CASE UNCHANGED <<state, lock>>
    BY <1>2, <2>1 DEF MutexHeld
  <2>2. CASE Forward \/ SenderDown \/ ReceiverDown \/ UNCHANGED vars
    BY <2>1, <2>2 DEF Forward, SenderDown, ReceiverDown, vars, sendVars
  <2>3. CASE Dispatch
    BY <1>2, <2>1, <2>3, DispatchFlow
  <2> QED BY <1>2, <2>2, <2>3, SendKeepsMutex DEF Next
<1> QED BY <1>1, <1>2, TypesStay, PTL DEF Spec

=============================================================================
