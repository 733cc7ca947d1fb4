---------------------------- MODULE StreamProofs ----------------------------
(***************************************************************************)
(* Theorems about Framing: the frames of one conversation never mix, and   *)
(* what the receiver makes of them is what Mailbox promises.               *)
(***************************************************************************)
EXTENDS FramingProofs, FramingRefinement, WellFoundedInduction

-----------------------------------------------------------------------------
(* The stream of one conversation.  While no panic poisoned the mutex, every   *)
(* frame finds what must precede it: in the frames before it or, where it is   *)
(* the first of its conversation, in the context of the receiver.              *)
Collects(m, n) == IF n < Chunks(m) THEN n * Bandwidth ELSE SnapLen[m]

Holds(u, m, n) ==   \* the first n pieces of m are collected
  /\ contexts[u] # NoContext
  /\ contexts[u].total = SnapLen[m]
  /\ contexts[u].current = Collects(m, n)
  /\ contexts[u].buffer = [k \in 1..n |-> <<m, k>>]

ContextAllows(u, m, k) ==
  IF k = 0 THEN contexts[u] = NoContext ELSE Holds(u, m, k - 1)

LastFrame(f) == f.piece + 1 = FrameCount(f.msg)

Follows(f, m, k) == IF k = 0 THEN LastFrame(f) ELSE f.msg = m /\ f.piece + 1 = k

FrameOf(p, u) == UuidOf[flow[p].msg] = u

Allows(u, m, k, n) ==   \* after the first n frames comes piece k of m
  /\ \A p \in 1..n :
       FrameOf(p, u) /\ (\A q \in (p + 1)..n : ~FrameOf(q, u)) => Follows(flow[p], m, k)
  /\ (\A p \in 1..n : ~FrameOf(p, u)) => ContextAllows(u, m, k)

FlowAllowed ==
  \A q \in 1..Len(flow), u \in Uuid, m \in Msg, k \in Nat :
    FrameOf(q, u) /\ flow[q].msg = m /\ flow[q].piece = k => Allows(u, m, k, q - 1)

(* A call that is sending goes on where it is; any other begins.              *)
MidMessage(u) == \E m \in Msg : UuidOf[m] = u /\ state[m] = "sending" /\ next[m] > 1

CallAllowed(n) ==
  \A u \in Uuid, m \in Msg, k \in Nat :
    UuidOf[m] = u /\ state[m] = "sending" /\ next[m] = k + 1 => Allows(u, m, k, n)

FreshAllowed(n) == \A u \in Uuid, m \in Msg : ~MidMessage(u) => Allows(u, m, 0, n)

PushAllowed == \A n \in Nat : n = Len(flow) => CallAllowed(n) /\ FreshAllowed(n)

StreamInv == up => FlowAllowed /\ (open => PushAllowed)

ContextsInv ==
  \A u \in Uuid : contexts[u] # NoContext =>
    \E m \in Msg, n \in Nat : UuidOf[m] = u /\ n <= Chunks(m) /\ Holds(u, m, n)

(* Who replies has the mutex, and its conversation was answered.              *)
LockInv ==
  \A m \in Replies : state[m] = "sending" => lock = m /\ Answered(m)

ConversationInv ==
  ~Poisoned => LockInv /\ StreamInv /\ ContextsInv /\ NothingGarbled

-----------------------------------------------------------------------------
LEMMA LockInvNext ==
  ASSUME TypeInv, ~Poisoned, LockInv, [Next]_vars
  PROVE  LockInv'
<1> USE DEF TypeInv, TypeOK
<1>0. Replies \subseteq Msg /\ NoMsg \notin Msg
  BY MessageAssumption
<1>1. ASSUME NEW n \in Msg, Send(n) PROVE LockInv'
  <2>1. CASE StartSend(n)
    BY <1>0, <2>1 DEF StartSend, LockInv, Answered
  <2>2. CASE StartReply(n)
    BY <1>0, <2>2 DEF StartReply, LockInv, Answered
  <2>3. CASE ReplyRefused(n)
    BY <2>3 DEF ReplyRefused
  <2>4. ASSUME Return(n, "sent") \/ Return(n, "failed"), state[n] = "sending" PROVE LockInv'
    <3> SUFFICES ASSUME NEW m \in Replies, state'[m] = "sending"
                 PROVE  lock' = m /\ Answered(m)'
      BY DEF LockInv
    <3>1. m # n /\ state[m] = "sending"
      BY <1>0, <2>4 DEF Return
    <3>2. lock = m /\ Answered(m)
      BY <3>1 DEF LockInv
    <3>3. Answered(m)'
      BY <1>0, <2>4, <3>2 DEF Answered, Return
    <3> QED BY <2>4, <3>1, <3>2, <3>3 DEF Return
  <2>5. CASE Push(n)
    BY <2>4, <2>5 DEF Push, LockInv, Answered
  <2>6. CASE PushFails(n)
    BY <2>4, <2>6 DEF PushFails
  <2> QED BY <1>1, <2>1, <2>2, <2>3, <2>5, <2>6 DEF Send
<1>2. CASE UNCHANGED <<state, lock>>
  BY <1>2 DEF LockInv, Answered
<1>3. \/ \E n \in Msg : Send(n)
      \/ UNCHANGED <<state, lock>>
  BY DispatchFlow DEF Next, vars, Forward, SenderDown, ReceiverDown, sendVars
<1> QED BY <1>1, <1>2, <1>3

(* Two calls never send frames of one conversation at a time.                 *)
LEMMA OneSender ==
  ASSUME ~Poisoned, LockInv, NEW m \in Msg, NEW n \in Msg,
         state[m] = "sending", state[n] = "sending", UuidOf[m] = UuidOf[n]
  PROVE  m = n
<1>1. CASE m \in Replies /\ n \in Replies
  BY <1>1 DEF LockInv
<1>2. CASE m \notin Replies /\ n \notin Replies
  BY <1>2, MessageAssumption
<1>3. ASSUME NEW r \in Replies, NEW t \in Msg \ Replies,
             UuidOf[r] = UuidOf[t], state[r] = "sending", state[t] = "sending"
      PROVE  FALSE
  BY <1>3 DEF LockInv, Answered
<1> QED BY <1>1, <1>2, <1>3

(* What is collected grows by the length of the piece.                        *)
LEMMA CollectsFacts ==
  ASSUME NEW m \in Msg
  PROVE  /\ Collects(m, 0) = 0
         /\ \A k \in 1..Chunks(m) :
              /\ Collects(m, k - 1) \in Nat
              /\ Collects(m, k - 1) + PieceLen(m, k) = Collects(m, k)
         /\ \A k \in 0..Chunks(m) :
              /\ Collects(m, k) <= SnapLen[m]
              /\ Collects(m, k) = SnapLen[m] <=> k = Chunks(m)
<1> DEFINE c == Chunks(m)
           b == Bandwidth
           s == SnapLen[m]
<1>1. /\ s \in Nat \ {0} /\ b \in Nat \ {0} /\ c \in Nat \ {0}
      /\ (c - 1) * b < s /\ s <= c * b
  BY ChunkFacts
<1>2. \A k \in 0..(c - 1) : k * b \in Nat /\ k * b <= (c - 1) * b
  <2> HIDE DEF c, b
  <2> TAKE k \in 0..(c - 1)
  <2>1. PICK j \in Nat : c - 1 = k + j
    <3>1. c - 1 - k \in Nat
      BY <1>1
    <3> WITNESS c - 1 - k \in Nat
    <3> QED BY <1>1
  <2>2. (k + j) * b = k * b + j * b /\ k * b \in Nat /\ j * b \in Nat
    BY <1>1, <2>1
  <2> QED BY <2>1, <2>2
<1>3. \A k \in Nat : (k + 1) * b = k * b + b
  <2> HIDE DEF b
  <2> QED BY <1>1
<1>4. Collects(m, 0) = 0
  BY <1>1 DEF Collects
<1>5. ASSUME NEW k \in 1..c
      PROVE  Collects(m, k - 1) \in Nat /\ Collects(m, k - 1) + PieceLen(m, k) = Collects(m, k)
  <2>1. Collects(m, k - 1) = (k - 1) * b /\ (k - 1) * b \in Nat /\ k - 1 \in Nat
    BY <1>1, <1>2 DEF Collects
  <2>2. CASE k < c
    <3>1. (k - 1) * b + b = k * b
      BY <1>3, <2>1, <1>1
    <3> QED BY <2>1, <2>2, <3>1 DEF Collects, PieceLen
  <2>3. CASE k = c
    BY <1>1, <2>1, <2>3 DEF Collects, PieceLen
  <2>4. k < c \/ k = c
    <3> HIDE DEF c
    <3> QED BY <1>1
  <2> QED BY <2>1, <2>2, <2>3, <2>4
<1>6. ASSUME NEW k \in 0..c
      PROVE  Collects(m, k) <= s /\ (Collects(m, k) = s <=> k = c)
  <2>1. CASE k < c
    <3>1. k * b \in Nat /\ k * b <= (c - 1) * b /\ (c - 1) * b \in Nat
      BY <1>1, <1>2, <2>1
    <3> HIDE DEF b, c, s
    <3>2. k * b < s
      BY <1>1, <3>1
    <3>3. Collects(m, k) = k * b
      BY <2>1 DEF Collects, c, b
    <3> QED BY <1>1, <2>1, <3>1, <3>2, <3>3
  <2>2. CASE k = c
    BY <1>1, <2>2 DEF Collects
  <2> QED BY <1>1, <2>1, <2>2
<1> QED BY <1>4, <1>5, <1>6

-----------------------------------------------------------------------------
(* The frame that arrives, when its context allows it: afterwards its context *)
(* holds what the frame brought, or is gone with the last frame; nothing is   *)
(* garbled, and the other contexts stay.                                      *)
Handled(u, m, k) ==
  /\ \A w \in Uuid : w # u => contexts'[w] = contexts[w]
  /\ IF k + 1 = FrameCount(m) THEN contexts'[u] = NoContext
                              ELSE k \in 0..Chunks(m) /\ Holds(u, m, k)'
  /\ contexts[u] # NoContext /\ contexts'[u] # NoContext =>
       /\ contexts'[u].total = contexts[u].total
       /\ contexts'[u].current >= contexts[u].current
       /\ Len(contexts'[u].buffer) >= Len(contexts[u].buffer)
  /\ garbled' = garbled
  /\ delivered' = delivered \/ \E e \in Msg : delivered' = Append(delivered, e)

LEMMA PiecesAppend ==
  ASSUME NEW m \in Msg, NEW k \in Nat \ {0}
  PROVE  /\ Append([j \in 1..(k - 1) |-> <<m, j>>], <<m, k>>) = [j \in 1..k |-> <<m, j>>]
         /\ Len([j \in 1..k |-> <<m, j>>]) = k
         /\ Len([j \in 1..(k - 1) |-> <<m, j>>]) = k - 1
<1> DEFINE a == [j \in 1..(k - 1) |-> <<m, j>>]
           b == [j \in 1..k |-> <<m, j>>]
<1>1. a \in Seq(Msg \X Nat) /\ DOMAIN a = 1..(k - 1) /\ k - 1 \in Nat
  OBVIOUS
<1>2. b \in Seq(Msg \X Nat) /\ DOMAIN b = 1..k
  OBVIOUS
<1>3. Len(a) = k - 1 /\ Len(b) = k
  BY <1>1, <1>2, LenProperties
<1>4. <<m, k>> \in Msg \X Nat
  OBVIOUS
<1>5. \A j \in 1..k : b[j] = IF j <= k - 1 THEN a[j] ELSE <<m, k>>
  OBVIOUS
<1> HIDE DEF a, b
<1>6. /\ Append(a, <<m, k>>) \in Seq(Msg \X Nat)
      /\ Len(Append(a, <<m, k>>)) = k
      /\ \A j \in 1..k : Append(a, <<m, k>>)[j] = IF j <= k - 1 THEN a[j] ELSE <<m, k>>
  BY <1>1, <1>3, <1>4, AppendProperties
<1>7. Append(a, <<m, k>>) = b
  BY <1>2, <1>3, <1>5, <1>6, SeqEqual
<1> QED BY <1>3, <1>7 DEF a, b

LEMMA OneshotHandled ==
  ASSUME TypeInv, FramesInv, NEW m \in Msg, NEW k \in Nat, NEW u \in Uuid,
         Head(wire) = Frame(m, k + 1), u = UuidOf[m], k + 1 <= FrameCount(m),
         ContextAllows(u, m, k), OnOneshot
  PROVE  Handled(u, m, k)
<1>1. ~IsLarge(m) /\ FrameCount(m) = 1 /\ Head(wire).msg = m
  BY FrameTypeFacts DEF OnOneshot, Next1
<1>2. k = 0
  BY <1>1
<1>3. contexts[u] = NoContext
  BY <1>2 DEF ContextAllows
<1>4. contexts' = contexts /\ garbled' = garbled /\ delivered' = Append(delivered, m)
  BY <1>1 DEF OnOneshot
<1> QED BY <1>1, <1>2, <1>3, <1>4 DEF Handled

LEMMA BeginHandled ==
  ASSUME TypeInv, FramesInv, NEW m \in Msg, NEW k \in Nat, NEW u \in Uuid,
         Head(wire) = Frame(m, k + 1), u = UuidOf[m], k + 1 <= FrameCount(m),
         ContextAllows(u, m, k), OnBegin
  PROVE  Handled(u, m, k)
<1>1. IsLarge(m) /\ FrameCount(m) = Chunks(m) + 2 /\ k = 0 /\ Head(wire).msg = m
  BY FrameTypeFacts DEF OnBegin, Next1
<1>2. Chunks(m) \in Nat \ {0} /\ k \in 0..Chunks(m) /\ k + 1 # FrameCount(m)
  BY <1>1, ChunkFacts
<1>3. contexts[u] = NoContext
  BY <1>1 DEF ContextAllows
<1> DEFINE ctx == [total |-> SnapLen[m], current |-> 0, buffer |-> <<>>]
<1>4. contexts' = [contexts EXCEPT ![u] = ctx]
  BY <1>1 DEF OnBegin
<1>5. contexts \in [Uuid -> Context \cup {NoContext}]
  BY DEF TypeInv, TypeOK
<1>6. garbled' = garbled /\ delivered' = delivered
  BY DEF OnBegin
<1>7. Holds(u, m, 0)'
  <2>1. ctx \in Context
    BY MessageAssumption DEF Context
  <2>2. contexts'[u] = ctx /\ contexts'[u] # NoContext
    BY <1>4, <1>5, <2>1, ContextAssumption
  <2>3. ctx.buffer = [k2 \in 1..0 |-> <<m, k2>>]
    OBVIOUS
  <2> QED BY <2>2, <2>3, CollectsFacts DEF Holds
<1> QED BY <1>1, <1>2, <1>3, <1>4, <1>5, <1>6, <1>7 DEF Handled

LEMMA ProcessHandled ==
  ASSUME TypeInv, FramesInv, NEW m \in Msg, NEW k \in Nat, NEW u \in Uuid,
         Head(wire) = Frame(m, k + 1), u = UuidOf[m], k + 1 <= FrameCount(m),
         ContextAllows(u, m, k), OnProcess
  PROVE  Handled(u, m, k)
<1>1. /\ IsLarge(m) /\ FrameCount(m) = Chunks(m) + 2 /\ k \in 1..Chunks(m)
      /\ Head(wire).msg = m /\ Head(wire).piece = k
  BY FrameTypeFacts DEF OnProcess, Next1
<1>2. Chunks(m) \in Nat \ {0} /\ k \in 0..Chunks(m) /\ k + 1 # FrameCount(m) /\ k \in Nat \ {0}
  BY <1>1, ChunkFacts
<1>3. Holds(u, m, k - 1)
  BY <1>2 DEF ContextAllows
<1>4. contexts' = [contexts EXCEPT ![u] = Extended(contexts[u], m, k)]
  BY <1>1 DEF OnProcess
<1>5. contexts \in [Uuid -> Context \cup {NoContext}]
  BY DEF TypeInv, TypeOK
<1>6. garbled' = garbled /\ delivered' = delivered
  BY DEF OnProcess
<1>7. /\ contexts[u] \in Context
      /\ contexts[u].total = SnapLen[m]
      /\ contexts[u].current = Collects(m, k - 1)
      /\ contexts[u].buffer = [j \in 1..(k - 1) |-> <<m, j>>]
  BY <1>3, <1>5 DEF Holds
<1> DEFINE ctx == Extended(contexts[u], m, k)
<1>8. contexts'[u] = ctx
  BY <1>4, <1>5
<1>9. /\ ctx.total = SnapLen[m] /\ ctx.current = Collects(m, k)
      /\ ctx.buffer = [j \in 1..k |-> <<m, j>>]
  <2>1. ctx.buffer = Append([j \in 1..(k - 1) |-> <<m, j>>], <<m, k>>)
    BY <1>7 DEF Extended
  <2>2. ctx.buffer = [j \in 1..k |-> <<m, j>>]
    BY <1>2, <2>1, PiecesAppend
  <2>3. ctx.current = Collects(m, k)
    BY <1>1, <1>7, CollectsFacts DEF Extended
  <2> QED BY <1>7, <2>2, <2>3 DEF Extended
<1>10. ctx # NoContext
  <2>1. contexts[u].current \in Nat /\ contexts[u].total \in Nat
        /\ contexts[u].buffer \in Seq(Msg \X Nat)
    BY <1>7 DEF Context
  <2>2. Append(contexts[u].buffer, <<m, k>>) \in Seq(Msg \X Nat)
    BY <2>1, AppendProperties
  <2>3. ctx \in Context
    BY <2>1, <2>2, PieceLenType DEF Extended, Context
  <2> QED BY <2>3, ContextAssumption
<1> HIDE DEF ctx
<1>11. Holds(u, m, k)'
  BY <1>8, <1>9, <1>10 DEF Holds
<1>12. /\ contexts'[u].total = contexts[u].total
       /\ contexts'[u].current >= contexts[u].current
       /\ Len(contexts'[u].buffer) >= Len(contexts[u].buffer)
  <2>1. Collects(m, k) >= Collects(m, k - 1)
    <3>1. Collects(m, k - 1) \in Nat /\ PieceLen(m, k) \in Nat
          /\ Collects(m, k - 1) + PieceLen(m, k) = Collects(m, k)
      BY <1>1, CollectsFacts, PieceLenType
    <3> QED BY <3>1
  <2>2. Len(contexts'[u].buffer) = k /\ Len(contexts[u].buffer) = k - 1
    BY <1>2, <1>7, <1>8, <1>9, PiecesAppend
  <2> QED BY <1>2, <1>7, <1>8, <1>9, <2>1, <2>2
<1> QED BY <1>2, <1>4, <1>5, <1>6, <1>11, <1>12 DEF Handled

LEMMA EndHandled ==
  ASSUME TypeInv, FramesInv, NEW m \in Msg, NEW k \in Nat, NEW u \in Uuid,
         Head(wire) = Frame(m, k + 1), u = UuidOf[m], k + 1 <= FrameCount(m),
         ContextAllows(u, m, k), OnEnd
  PROVE  Handled(u, m, k)
<1>1. /\ IsLarge(m) /\ FrameCount(m) = Chunks(m) + 2 /\ k = Chunks(m) + 1
      /\ Head(wire).msg = m
  BY FrameTypeFacts, ChunkFacts DEF OnEnd, Next1
<1>2. Chunks(m) \in Nat \ {0} /\ k + 1 = FrameCount(m) /\ k # 0 /\ k - 1 = Chunks(m)
  BY <1>1, ChunkFacts
<1>3. Whole(contexts[UuidOf[Head(wire).msg]].buffer, m)
  BY <1>1, <1>2 DEF ContextAllows, Holds, Whole
<1>4. garbled' = garbled /\ \E e \in Msg : delivered' = Append(delivered, e)
  BY <1>3 DEF OnEnd, EndDecodes, EndGarbled
<1>5. contexts' = [contexts EXCEPT ![u] = NoContext]
  BY <1>1 DEF OnEnd
<1>6. contexts \in [Uuid -> Context \cup {NoContext}]
  BY DEF TypeInv, TypeOK
<1> QED BY <1>2, <1>4, <1>5, <1>6 DEF Handled

LEMMA DispatchHandles ==
  ASSUME TypeInv, FramesInv, NEW m \in Msg, NEW k \in Nat, NEW u \in Uuid,
         Head(wire) = Frame(m, k + 1), u = UuidOf[m], k + 1 <= FrameCount(m),
         ContextAllows(u, m, k), Dispatch
  PROVE  Handled(u, m, k)
<1>1. ~OnStray
  <2> SUFFICES ASSUME OnStray PROVE FALSE
    OBVIOUS
  <2>1. Head(wire).msg = m /\ k # 0
    BY FrameTypeFacts, ChunkFacts DEF OnStray, Next1
  <2> QED BY <2>1 DEF OnStray, ContextAllows, Holds
<1> QED BY <1>1, OneshotHandled, BeginHandled, ProcessHandled, EndHandled DEF Dispatch

-----------------------------------------------------------------------------
(* How what is allowed after the first n frames changes: not at all, by a     *)
(* frame of another conversation, by the frame before, by losing the first.   *)
LEMMA AllowsSame ==
  ASSUME NEW u \in Uuid, NEW m \in Msg, NEW k \in Nat, NEW n \in Nat,
         Allows(u, m, k, n), contexts' = contexts,
         \A p \in 1..n : flow'[p] = flow[p]
  PROVE  Allows(u, m, k, n)'
<1>1. \A p \in 1..n : FrameOf(p, u)' <=> FrameOf(p, u)
  BY DEF FrameOf
<1>2. ContextAllows(u, m, k)' <=> ContextAllows(u, m, k)
  BY DEF ContextAllows, Holds
<1>3. \A p \in 1..n : \A q \in (p + 1)..n : q \in 1..n
  OBVIOUS
<1>4. ASSUME NEW p \in 1..n, FrameOf(p, u)', \A q \in (p + 1)..n : ~FrameOf(q, u)'
      PROVE  Follows(flow'[p], m, k)
  <2>1. \A q \in (p + 1)..n : ~FrameOf(q, u)
    BY <1>1, <1>3, <1>4
  <2>2. Follows(flow[p], m, k)
    BY <1>1, <1>4, <2>1 DEF Allows
  <2> QED BY <2>2
<1>5. (\A p \in 1..n : ~FrameOf(p, u)') => ContextAllows(u, m, k)'
  BY <1>1, <1>2 DEF Allows
<1> QED BY <1>4, <1>5 DEF Allows

LEMMA AllowsOther ==
  ASSUME NEW u \in Uuid, NEW m \in Msg, NEW k \in Nat, NEW n \in Nat,
         Allows(u, m, k, n), contexts' = contexts,
         \A p \in 1..n : flow'[p] = flow[p],
         UuidOf[flow'[n + 1].msg] # u
  PROVE  Allows(u, m, k, n + 1)'
<1>1. \A p \in 1..n : FrameOf(p, u)' <=> FrameOf(p, u)
  BY DEF FrameOf
<1>2. ContextAllows(u, m, k)' <=> ContextAllows(u, m, k)
  BY DEF ContextAllows, Holds
<1>3. ~FrameOf(n + 1, u)'
  BY DEF FrameOf
<1>4. ASSUME NEW p \in 1..(n + 1), FrameOf(p, u)', \A q \in (p + 1)..(n + 1) : ~FrameOf(q, u)'
      PROVE  Follows(flow'[p], m, k)
  <2>1. p \in 1..n
    BY <1>3, <1>4
  <2>2. \A q \in (p + 1)..n : q \in 1..n /\ q \in (p + 1)..(n + 1)
    BY <2>1
  <2>3. \A q \in (p + 1)..n : ~FrameOf(q, u)
    BY <1>1, <1>4, <2>2
  <2>4. Follows(flow[p], m, k)
    BY <1>1, <1>4, <2>1, <2>3 DEF Allows
  <2> QED BY <2>1, <2>4
<1>5. (\A p \in 1..(n + 1) : ~FrameOf(p, u)') => ContextAllows(u, m, k)'
  BY <1>1, <1>2 DEF Allows
<1> QED BY <1>4, <1>5 DEF Allows

LEMMA AllowsAfter ==
  ASSUME NEW u \in Uuid, NEW m \in Msg, NEW k \in Nat, NEW n \in Nat,
         UuidOf[flow'[n + 1].msg] = u, Follows(flow'[n + 1], m, k)
  PROVE  Allows(u, m, k, n + 1)'
<1>1. FrameOf(n + 1, u)' /\ n + 1 \in 1..(n + 1)
  BY DEF FrameOf
<1>2. ASSUME NEW p \in 1..(n + 1), FrameOf(p, u)', \A q \in (p + 1)..(n + 1) : ~FrameOf(q, u)'
      PROVE  Follows(flow'[p], m, k)
  <2>1. p = n + 1
    BY <1>1, <1>2
  <2> QED BY <2>1
<1> QED BY <1>1, <1>2 DEF Allows

LEMMA AllowsShift ==
  ASSUME NEW u \in Uuid, NEW m \in Msg, NEW k \in Nat, NEW n \in Nat,
         Allows(u, m, k, n + 1),
         \A p \in 1..n : flow'[p] = flow[p + 1],
         FrameOf(1, u) => (Follows(flow[1], m, k) => ContextAllows(u, m, k)'),
         ~FrameOf(1, u) => contexts'[u] = contexts[u]
  PROVE  Allows(u, m, k, n)'
<1>1. \A p \in 1..n : p + 1 \in 1..(n + 1) /\ (FrameOf(p, u)' <=> FrameOf(p + 1, u))
  BY DEF FrameOf
<1>2. ASSUME NEW p \in 1..n, FrameOf(p, u)', \A q \in (p + 1)..n : ~FrameOf(q, u)'
      PROVE  Follows(flow'[p], m, k)
  <2>1. ASSUME NEW q \in (p + 2)..(n + 1) PROVE ~FrameOf(q, u)
    <3>1. q - 1 \in 1..n /\ q - 1 \in (p + 1)..n /\ (q - 1) + 1 = q
      OBVIOUS
    <3> QED BY <1>1, <1>2, <3>1
  <2>2. p + 1 \in 1..(n + 1) /\ FrameOf(p + 1, u) /\ (p + 1) + 1 = p + 2
    BY <1>1, <1>2
  <2>3. Follows(flow[p + 1], m, k)
    BY <2>1, <2>2 DEF Allows
  <2> QED BY <2>3
<1>3. ASSUME \A p \in 1..n : ~FrameOf(p, u)' PROVE ContextAllows(u, m, k)'
  <2>1. \A q \in 2..(n + 1) : ~FrameOf(q, u)
    <3> SUFFICES ASSUME NEW q \in 2..(n + 1) PROVE ~FrameOf(q, u)
      OBVIOUS
    <3>1. q - 1 \in 1..n /\ (q - 1) + 1 = q
      OBVIOUS
    <3> QED BY <1>1, <1>3, <3>1
  <2>2. CASE FrameOf(1, u)
    <3>1. 1 \in 1..(n + 1) /\ 1 + 1 = 2
      OBVIOUS
    <3>2. Follows(flow[1], m, k)
      BY <2>1, <2>2, <3>1 DEF Allows
    <3> QED BY <2>2, <3>2
  <2>3. CASE ~FrameOf(1, u)
    <3>1. \A q \in 1..(n + 1) : q = 1 \/ q \in 2..(n + 1)
      OBVIOUS
    <3>2. ContextAllows(u, m, k)
      BY <2>1, <2>3, <3>1 DEF Allows
    <3> QED BY <2>3, <3>2 DEF ContextAllows, Holds
  <2> QED BY <2>2, <2>3
<1> QED BY <1>2, <1>3 DEF Allows

-----------------------------------------------------------------------------
LEMMA FlowTyped ==
  ASSUME TypeInv, FramesInv, NEW p \in 1..Len(flow)
  PROVE  \E m \in Msg, k \in Nat, u \in Uuid :
           /\ flow[p].msg = m /\ flow[p].piece = k /\ FrameOf(p, u) /\ UuidOf[m] = u
           /\ flow[p] = Frame(m, k + 1) /\ k + 1 <= FrameCount(m)
BY MessageAssumption DEF FramesInv, AllPushed, FramePushed, FrameOf

LEMMA FlowAllowedSame ==
  ASSUME TypeInv, FlowAllowed, contexts' = contexts,
         NEW n \in Nat, n <= Len(flow),
         \A p \in 1..n : flow'[p] = flow[p]
  PROVE  \A q \in 1..n, u \in Uuid, m \in Msg, k \in Nat :
           FrameOf(q, u)' /\ flow'[q].msg = m /\ flow'[q].piece = k => Allows(u, m, k, q - 1)'
<1> SUFFICES ASSUME NEW q \in 1..n, NEW u \in Uuid, NEW m \in Msg, NEW k \in Nat,
                    FrameOf(q, u)', flow'[q].msg = m, flow'[q].piece = k
             PROVE  Allows(u, m, k, q - 1)'
  OBVIOUS
<1>1. q \in 1..Len(flow) /\ q - 1 \in Nat /\ \A p \in 1..(q - 1) : flow'[p] = flow[p]
  BY FlowFacts
<1>2. FrameOf(q, u) /\ flow[q].msg = m /\ flow[q].piece = k
  BY DEF FrameOf
<1>3. Allows(u, m, k, q - 1)
  BY <1>1, <1>2 DEF FlowAllowed
<1> QED BY <1>1, <1>3, AllowsSame

LEMMA PushStream ==
  ASSUME TypeInv, FramesInv, ~Poisoned, LockInv, StreamInv, up, NEW c \in Msg, Push(c)
  PROVE  StreamInv'
<1>0. /\ state \in [Msg -> {"idle", "sending", "sent", "failed"}] /\ next \in [Msg -> Nat]
      /\ open /\ open' /\ up' /\ state[c] = "sending" /\ contexts' = contexts
      /\ FlowAllowed /\ PushAllowed /\ UuidOf[c] \in Uuid
  BY MessageAssumption DEF Push, recvVars, TypeInv, TypeOK, StreamInv
<1>1. PICK n \in Nat : n = Len(flow)
  BY FlowFacts
<1>2. PICK i \in Nat : i + 1 = next[c]
  <2>1. next[c] - 1 \in Nat /\ (next[c] - 1) + 1 = next[c]
    BY <1>0 DEF TypeInv
  <2> QED BY <2>1
<1>3. /\ Len(flow') = n + 1 /\ \A p \in 1..n : flow'[p] = flow[p]
      /\ flow'[n + 1] = Frame(c, i + 1)
  BY <1>1, <1>2, PushFlow
<1>4. flow'[n + 1].msg = c /\ flow'[n + 1].piece = i
  BY <1>3 DEF Frame
<1>5. CallAllowed(n) /\ FreshAllowed(n)
  BY <1>0, <1>1 DEF PushAllowed
<1>6. FlowAllowed'
  <2> SUFFICES ASSUME NEW q \in 1..(n + 1), NEW u \in Uuid, NEW m \in Msg, NEW k \in Nat,
                      FrameOf(q, u)', flow'[q].msg = m, flow'[q].piece = k
               PROVE  Allows(u, m, k, q - 1)'
    BY <1>3 DEF FlowAllowed
  <2>1. CASE q \in 1..n
    BY <1>0, <1>1, <1>3, <2>1, FlowAllowedSame
  <2>2. CASE q = n + 1
    <3>1. m = c /\ k = i /\ u = UuidOf[c] /\ q - 1 = n
      BY <1>4, <2>2 DEF FrameOf
    <3>2. Allows(u, m, k, n)
      BY <1>0, <1>2, <1>5, <3>1 DEF CallAllowed
    <3> QED BY <1>0, <1>3, <3>1, <3>2, AllowsSame
  <2> QED BY <2>1, <2>2
<1>7. \A m \in Msg : m # c => state'[m] = state[m] /\ next'[m] = next[m]
  BY <1>0 DEF Push, Return
<1>8. next'[c] = i + 2
  BY <1>0, <1>2 DEF Push
<1>9. CallAllowed(n + 1)'
  <2> SUFFICES ASSUME NEW u \in Uuid, NEW m \in Msg, NEW k \in Nat,
                      UuidOf[m] = u, state'[m] = "sending", next'[m] = k + 1
               PROVE  Allows(u, m, k, n + 1)'
    BY DEF CallAllowed
  <2>1. CASE m = c
    <3>1. k = i + 1
      BY <1>8, <2>1
    <3>2. Follows(flow'[n + 1], m, k)
      BY <1>4, <2>1, <3>1 DEF Follows
    <3> QED BY <1>4, <2>1, <3>2, AllowsAfter
  <2>2. CASE m # c
    <3>1. state[m] = "sending" /\ next[m] = k + 1
      BY <1>7, <2>2
    <3>2. UuidOf[c] # u
      BY <1>0, <2>2, <3>1, OneSender
    <3>3. Allows(u, m, k, n)
      BY <1>5, <3>1 DEF CallAllowed
    <3> QED BY <1>0, <1>3, <1>4, <3>2, <3>3, AllowsOther
  <2> QED BY <2>1, <2>2
<1>10. FreshAllowed(n + 1)'
  <2> SUFFICES ASSUME NEW u \in Uuid, NEW m \in Msg, ~MidMessage(u)'
               PROVE  Allows(u, m, 0, n + 1)'
    BY DEF FreshAllowed
  <2>1. CASE UuidOf[c] = u
    <3>1. state'[c] # "sending"
      BY <1>8, <2>1 DEF MidMessage
    <3>2. i + 1 = FrameCount(c)
      BY <1>0, <1>2, <3>1 DEF Push
    <3>3. Follows(flow'[n + 1], m, 0)
      BY <1>4, <3>2 DEF Follows, LastFrame
    <3> QED BY <1>4, <2>1, <3>3, AllowsAfter
  <2>2. CASE UuidOf[c] # u
    <3>1. ~MidMessage(u)
      BY <1>7, <2>2 DEF MidMessage
    <3>2. Allows(u, m, 0, n)
      BY <1>5, <3>1 DEF FreshAllowed
    <3> QED BY <1>0, <1>3, <1>4, <2>2, <3>2, AllowsOther
  <2> QED BY <2>1, <2>2
<1>11. PushAllowed'
  BY <1>3, <1>9, <1>10 DEF PushAllowed
<1> QED BY <1>6, <1>11 DEF StreamInv

(* Who begins finds nobody in the middle of a message of its conversation.    *)
LEMMA StartStream ==
  ASSUME TypeInv, FramesInv, ~Poisoned, LockInv, StreamInv,
         NEW c \in Msg, StartSend(c) \/ StartReply(c)
  PROVE  StreamInv'
<1> SUFFICES ASSUME up' PROVE StreamInv'
  BY DEF StreamInv
<1>0. /\ state \in [Msg -> {"idle", "sending", "sent", "failed"}]
      /\ up /\ open' = open /\ contexts' = contexts /\ next' = next /\ flow' = flow
      /\ FlowAllowed /\ state[c] = "idle" /\ UuidOf[c] \in Uuid
      /\ state' = [state EXCEPT ![c] = "sending"]
  BY MessageAssumption DEF StartSend, StartReply, recvVars, TypeInv, TypeOK, StreamInv, flow
<1>1. PICK n \in Nat : n = Len(flow)
  BY FlowFacts
<1>2. FlowAllowed'
  BY <1>0, <1>1, FlowAllowedSame DEF FlowAllowed
<1>3. next[c] = 1
  BY <1>0 DEF FramesInv, NextFrames
<1>4. \A m \in Msg : UuidOf[m] = UuidOf[c] => state[m] # "sending"
  <2> SUFFICES ASSUME NEW m \in Msg, UuidOf[m] = UuidOf[c], state[m] = "sending"
               PROVE  FALSE
    OBVIOUS
  <2>1. lock = NoMsg /\ NoMsg \notin Replies
    BY MessageAssumption DEF StartSend, StartReply
  <2>2. m \notin Replies
    BY <2>1 DEF LockInv
  <2>3. m # c
    BY <1>0
  <2>4. CASE StartSend(c)
    BY <2>2, <2>3, <2>4, MessageAssumption DEF StartSend
  <2>5. CASE StartReply(c)
    BY <2>2, <2>5 DEF StartReply, Answered
  <2> QED BY <2>4, <2>5
<1>5. \A u \in Uuid : MidMessage(u)' <=> MidMessage(u)
  BY <1>0, <1>3 DEF MidMessage
<1>6. ASSUME open, CallAllowed(n), FreshAllowed(n) PROVE CallAllowed(n)' /\ FreshAllowed(n)'
  <2>1. ASSUME NEW u \in Uuid, NEW m \in Msg, NEW k \in Nat,
               UuidOf[m] = u, state'[m] = "sending", next'[m] = k + 1
        PROVE  Allows(u, m, k, n)'
    <3>1. CASE m = c
      <4>1. k = 0 /\ ~MidMessage(u)
        BY <1>0, <1>3, <1>4, <2>1, <3>1 DEF MidMessage
      <4>2. Allows(u, m, k, n)
        BY <1>6, <4>1 DEF FreshAllowed
      <4> QED BY <1>0, <4>2, AllowsSame
    <3>2. CASE m # c
      <4>1. Allows(u, m, k, n)
        BY <1>0, <1>6, <2>1, <3>2 DEF CallAllowed
      <4> QED BY <1>0, <4>1, AllowsSame
    <3> QED BY <3>1, <3>2
  <2>2. ASSUME NEW u \in Uuid, NEW m \in Msg, ~MidMessage(u)'
        PROVE  Allows(u, m, 0, n)'
    <3>1. Allows(u, m, 0, n)
      BY <1>5, <1>6, <2>2 DEF FreshAllowed
    <3> QED BY <1>0, <3>1, AllowsSame
  <2> QED BY <2>1, <2>2 DEF CallAllowed, FreshAllowed
<1>7. open' => PushAllowed'
  BY <1>0, <1>1, <1>6 DEF PushAllowed, StreamInv
<1> QED BY <1>2, <1>7 DEF StreamInv

(* Handing a frame over changes nothing; neither do a call that fails before  *)
(* its first frame, and the loss of the channel, after which nothing is       *)
(* pushed any more.                                                           *)
LEMMA OtherStream ==
  ASSUME TypeInv, FramesInv, ~Poisoned, StreamInv,
         \/ UNCHANGED vars \/ Forward \/ SenderDown \/ ReceiverDown
         \/ \E c \in Msg : ReplyRefused(c) \/ PushFails(c)
  PROVE  StreamInv'
<1>1. CASE SenderDown
  <2>1. contexts' = contexts /\ ~open' /\ up' = up
    BY <1>1 DEF SenderDown, recvVars
  <2>2. /\ Len(flow') \in Nat /\ Len(flow') <= Len(flow)
        /\ \A p \in 1..Len(flow') : flow'[p] = flow[p]
    BY <1>1, SenderDownFlow, FlowFacts DEF Later
  <2>3. up => FlowAllowed'
    BY <2>1, <2>2, FlowAllowedSame DEF FlowAllowed, StreamInv
  <2> QED BY <2>1, <2>3 DEF StreamInv
<1>2. CASE ReceiverDown
  BY <1>2 DEF ReceiverDown, StreamInv
<1>3. ASSUME NEW c \in Msg, PushFails(c), ~open PROVE StreamInv'
  <2>1. ~open /\ ~open' /\ up' = up /\ contexts' = contexts /\ flow' = flow
    BY <1>3 DEF PushFails, recvVars, flow
  <2>2. PICK n \in Nat : n = Len(flow)
    BY FlowFacts
  <2>3. up => FlowAllowed'
    BY <2>1, <2>2, FlowAllowedSame DEF FlowAllowed, StreamInv
  <2> QED BY <2>1, <2>3 DEF StreamInv
<1>4. CASE \/ UNCHANGED vars \/ Forward \/ \E c \in Msg : open /\ PushFails(c)
  <2>1. /\ flow' = flow /\ contexts' = contexts /\ open' = open /\ up' = up
        /\ next' = next
    BY <1>4, ForwardFlow DEF vars, flow, Forward, PushFails, sendVars, recvVars
  <2>2. ASSUME NEW m \in Msg, state'[m] = "sending" PROVE state[m] = "sending"
    BY <1>4, <2>2 DEF vars, Forward, PushFails, Return, sendVars, TypeInv, TypeOK
  <2>8. ASSUME NEW m \in Msg, state[m] = "sending", next[m] > 1
        PROVE  state'[m] = "sending"
    BY <1>4, <2>8 DEF vars, Forward, PushFails, Return, Unwritable, sendVars, TypeInv, TypeOK
  <2>3. PICK n \in Nat : n = Len(flow)
    BY FlowFacts
  <2>4. up => FlowAllowed'
    BY <2>1, <2>3, FlowAllowedSame DEF FlowAllowed, StreamInv
  <2>5. ASSUME CallAllowed(n) PROVE CallAllowed(n)'
    <3> SUFFICES ASSUME NEW u \in Uuid, NEW m \in Msg, NEW k \in Nat,
                        UuidOf[m] = u, state'[m] = "sending", next'[m] = k + 1
                 PROVE  Allows(u, m, k, n)'
      BY DEF CallAllowed
    <3>1. state[m] = "sending"
      BY <2>2
    <3>3. next[m] = k + 1
      BY <2>1
    <3>2. Allows(u, m, k, n)
      BY <2>5, <3>1, <3>3 DEF CallAllowed
    <3> QED BY <2>1, <3>2, AllowsSame
  <2>6. ASSUME FreshAllowed(n) PROVE FreshAllowed(n)'
    <3> SUFFICES ASSUME NEW u \in Uuid, NEW m \in Msg, ~MidMessage(u)'
                 PROVE  Allows(u, m, 0, n)'
      BY DEF FreshAllowed
    <3>1. ~MidMessage(u)
      BY <2>1, <2>8 DEF MidMessage
    <3>2. Allows(u, m, 0, n)
      BY <2>6, <3>1 DEF FreshAllowed
    <3> QED BY <2>1, <3>2, AllowsSame
  <2>7. up /\ open => PushAllowed'
    BY <2>1, <2>3, <2>5, <2>6 DEF PushAllowed, StreamInv
  <2> QED BY <2>1, <2>4, <2>7 DEF StreamInv
<1>5. \A c \in Msg : ~ReplyRefused(c)
  BY DEF ReplyRefused
<1> QED BY <1>1, <1>2, <1>3, <1>4, <1>5

(* The context of the frame that arrives allows it.                           *)
LEMMA HeadAllowed ==
  ASSUME TypeInv, FramesInv, ~Poisoned, StreamInv, Dispatch
  PROVE  \E m \in Msg, k \in Nat, u \in Uuid :
           /\ flow[1] = Frame(m, k + 1) /\ Head(wire) = flow[1] /\ UuidOf[m] = u
           /\ k + 1 <= FrameCount(m)
           /\ ContextAllows(u, m, k)
<1>1. up /\ Head(wire) = flow[1] /\ 1 \in 1..Len(flow)
  BY DispatchFlow, FlowFacts
<1>2. PICK m \in Msg, k \in Nat, u \in Uuid :
        /\ flow[1].msg = m /\ flow[1].piece = k /\ FrameOf(1, u) /\ UuidOf[m] = u
        /\ flow[1] = Frame(m, k + 1) /\ k + 1 <= FrameCount(m)
  BY <1>1, FlowTyped
<1>3. Allows(u, m, k, 1 - 1)
  BY <1>1, <1>2 DEF StreamInv, FlowAllowed
<1>4. \A p \in 1..(1 - 1) : FALSE
  OBVIOUS
<1>5. ContextAllows(u, m, k)
  BY <1>3, <1>4 DEF Allows
<1> QED BY <1>1, <1>2, <1>5

LEMMA HeadHandled ==
  ASSUME TypeInv, FramesInv, ~Poisoned, StreamInv, Dispatch
  PROVE  \E m \in Msg, k \in Nat, u \in Uuid :
           /\ flow[1] = Frame(m, k + 1) /\ UuidOf[m] = u
           /\ k + 1 <= FrameCount(m)
           /\ Handled(u, m, k)
BY HeadAllowed, DispatchHandles

LEMMA DispatchStream ==
  ASSUME TypeInv, FramesInv, ~Poisoned, StreamInv, Dispatch
  PROVE  StreamInv'
<1> SUFFICES ASSUME up' PROVE StreamInv'
  BY DEF StreamInv
<1>1. PICK c \in Msg, i \in Nat, w \in Uuid :
        /\ flow[1] = Frame(c, i + 1) /\ UuidOf[c] = w
        /\ i + 1 <= FrameCount(c)
        /\ Handled(w, c, i)
  BY HeadHandled
<1>2. /\ up /\ wire # <<>> /\ FlowAllowed
      /\ state' = state /\ next' = next /\ open' = open
  BY DispatchFlow DEF StreamInv
<1>3. Consume
  BY DEF Dispatch, OnOneshot, OnBegin, OnProcess, OnEnd, OnStray, OnProgress, Proceeds, Canceled
<1>4. PICK n \in Nat : n = Len(flow')
  BY <1>2, <1>3, ConsumeFlow DEF Later
<1>5. Len(flow) = n + 1 /\ \A p \in 1..n : flow'[p] = flow[p + 1]
  BY <1>2, <1>3, <1>4, ConsumeFlow, FlowFacts DEF Later
<1>6. flow[1].msg = c /\ flow[1].piece = i
  BY <1>1 DEF Frame
<1>7. ASSUME NEW u \in Uuid, NEW m \in Msg, NEW k \in Nat, NEW j \in 0..n,
             Allows(u, m, k, j + 1), k + 1 <= FrameCount(m)
      PROVE  Allows(u, m, k, j)'
  <2>1. FrameOf(1, u) <=> u = w
    BY <1>1, <1>6 DEF FrameOf
  <2>2. u # w => contexts'[u] = contexts[u]
    BY <1>1 DEF Handled
  <2>3. ASSUME u = w, Follows(flow[1], m, k) PROVE ContextAllows(u, m, k)'
    <3>1. CASE k = 0
      BY <1>1, <1>6, <2>3, <3>1 DEF Follows, LastFrame, Handled, ContextAllows
    <3>2. CASE k # 0
      <4>1. m = c /\ k = i + 1
        BY <1>6, <2>3, <3>2 DEF Follows
      <4>2. i + 1 # FrameCount(c)
        BY <1>7, <4>1, ChunkFacts
      <4>3. Holds(u, m, k - 1)'
        <5>1. Holds(w, c, i)'
          BY <1>1, <4>2 DEF Handled
        <5>2. k - 1 = i
          BY <4>1
        <5> QED BY <2>3, <4>1, <5>1, <5>2
      <4> QED BY <3>2, <4>3 DEF ContextAllows
    <3> QED BY <3>1, <3>2
  <2>4. j \in Nat /\ \A p \in 1..j : flow'[p] = flow[p + 1]
    BY <1>5
  <2> QED BY <1>7, <2>1, <2>2, <2>3, <2>4, AllowsShift
<1>8. FlowAllowed'
  <2> SUFFICES ASSUME NEW q \in 1..n, NEW u \in Uuid, NEW m \in Msg, NEW k \in Nat,
                      FrameOf(q, u)', flow'[q].msg = m, flow'[q].piece = k
               PROVE  Allows(u, m, k, q - 1)'
    BY <1>4 DEF FlowAllowed
  <2>1. q + 1 \in 1..Len(flow) /\ flow'[q] = flow[q + 1]
    BY <1>5
  <2>2. FrameOf(q + 1, u) /\ flow[q + 1].msg = m /\ flow[q + 1].piece = k
    BY <2>1 DEF FrameOf
  <2>3. Allows(u, m, k, (q + 1) - 1)
    BY <1>2, <2>1, <2>2 DEF FlowAllowed
  <2>4. k + 1 <= FrameCount(m)
    BY <2>1, <2>2, FlowTyped
  <2>5. q - 1 \in 0..n /\ (q - 1) + 1 = (q + 1) - 1
    OBVIOUS
  <2> QED BY <1>7, <2>3, <2>4, <2>5
<1>9. ASSUME open PROVE CallAllowed(n)' /\ FreshAllowed(n)'
  <2>0. n \in 0..n /\ n + 1 \in Nat
    OBVIOUS
  <2>1. CallAllowed(n + 1) /\ FreshAllowed(n + 1)
    BY <1>2, <1>5, <1>9, <2>0 DEF StreamInv, PushAllowed
  <2>2. CallAllowed(n)'
    <3> SUFFICES ASSUME NEW u \in Uuid, NEW m \in Msg, NEW k \in Nat,
                        UuidOf[m] = u, state'[m] = "sending", next'[m] = k + 1
                 PROVE  Allows(u, m, k, n)'
      BY DEF CallAllowed
    <3>1. Allows(u, m, k, n + 1)
      BY <1>2, <2>1 DEF CallAllowed
    <3>2. k + 1 <= FrameCount(m)
      BY <1>2 DEF FramesInv, NextFrames
    <3> QED BY <1>7, <2>0, <3>1, <3>2
  <2>3. FreshAllowed(n)'
    <3> SUFFICES ASSUME NEW u \in Uuid, NEW m \in Msg, ~MidMessage(u)'
                 PROVE  Allows(u, m, 0, n)'
      BY DEF FreshAllowed
    <3>1. Allows(u, m, 0, n + 1)
      BY <1>2, <2>1 DEF FreshAllowed, MidMessage
    <3>2. 0 + 1 <= FrameCount(m)
      BY ChunkFacts
    <3> QED BY <1>7, <2>0, <3>1, <3>2
  <2> QED BY <2>2, <2>3
<1>10. open' => PushAllowed'
  BY <1>2, <1>4, <1>9 DEF PushAllowed
<1> QED BY <1>8, <1>10 DEF StreamInv

LEMMA StreamInvNext ==
  ASSUME TypeInv, FramesInv, ~Poisoned, LockInv, StreamInv, [Next]_vars
  PROVE  StreamInv'
<1>1. ASSUME NEW c \in Msg, Push(c) PROVE StreamInv'
  <2>1. CASE up
    BY <1>1, <2>1, PushStream
  <2>2. CASE ~up
    BY <1>1, <2>2 DEF Push, StreamInv
  <2> QED BY <2>1, <2>2
<1> QED BY <1>1, StartStream, OtherStream, DispatchStream DEF Next, Send

-----------------------------------------------------------------------------
(* What the contexts hold, and that nothing is garbled.                       *)
LEMMA ContextsInvNext ==
  ASSUME TypeInv, FramesInv, ~Poisoned, StreamInv, ContextsInv, NothingGarbled, [Next]_vars
  PROVE  ContextsInv' /\ NothingGarbled'
<1>1. CASE (\E m \in Msg : Push(m)) \/ Quiet
  <2>1. contexts' = contexts /\ delivered' = delivered /\ garbled' = garbled
    BY <1>1 DEF Push, Quiet, recvVars
  <2>2. \A u \in Uuid, m \in Msg, n \in Nat : Holds(u, m, n) => Holds(u, m, n)'
    BY <2>1 DEF Holds
  <2>3. ContextsInv'
    BY <2>1, <2>2 DEF ContextsInv
  <2> QED BY <2>1, <2>3 DEF NothingGarbled
<1>2. CASE Dispatch
  <2>1. PICK c \in Msg, i \in Nat, w \in Uuid :
          /\ flow[1] = Frame(c, i + 1) /\ UuidOf[c] = w
          /\ i + 1 <= FrameCount(c)
          /\ Handled(w, c, i)
    BY <1>2, HeadHandled
  <2>2. ContextsInv'
    <3> SUFFICES ASSUME NEW u \in Uuid, contexts'[u] # NoContext
                 PROVE  \E m \in Msg, n \in Nat :
                          UuidOf[m] = u /\ n <= Chunks(m) /\ Holds(u, m, n)'
      BY DEF ContextsInv
    <3>1. CASE u = w
      <4>1. i \in 0..Chunks(c) /\ Holds(w, c, i)'
        BY <2>1, <3>1 DEF Handled
      <4>2. Chunks(c) \in Nat
        BY ChunkFacts
      <4> QED BY <2>1, <3>1, <4>1, <4>2
    <3>2. CASE u # w
      <4>1. contexts'[u] = contexts[u]
        BY <2>1, <3>2 DEF Handled
      <4>2. PICK m \in Msg, n \in Nat : UuidOf[m] = u /\ n <= Chunks(m) /\ Holds(u, m, n)
        BY <4>1 DEF ContextsInv
      <4>3. Holds(u, m, n)'
        BY <4>1, <4>2 DEF Holds
      <4> QED BY <4>2, <4>3
    <3> QED BY <3>1, <3>2
  <2>3. NothingGarbled'
    <3>1. delivered \in Seq(Msg \cup {Corrupt}) /\ Len(delivered) \in Nat
      BY DEF TypeInv, TypeOK
    <3>2. ~garbled /\ \A j \in 1..Len(delivered) : delivered[j] # Corrupt
      BY DEF NothingGarbled
    <3>3. garbled' = garbled
      BY <2>1 DEF Handled
    <3>4. CASE delivered' = delivered
      BY <3>2, <3>3, <3>4 DEF NothingGarbled
    <3>5. ASSUME NEW e \in Msg, delivered' = Append(delivered, e) PROVE NothingGarbled'
      <4>1. /\ Len(delivered') = Len(delivered) + 1 /\ delivered'[Len(delivered) + 1] = e
            /\ \A j \in 1..Len(delivered) : delivered'[j] = delivered[j]
        BY <3>1, <3>5, AppendProperties
      <4>2. e # Corrupt
        BY MessageAssumption
      <4>3. \A j \in 1..Len(delivered') : delivered'[j] # Corrupt
        BY <3>1, <3>2, <4>1, <4>2
      <4> QED BY <3>2, <3>3, <4>3 DEF NothingGarbled
    <3> QED BY <2>1, <3>4, <3>5 DEF Handled
  <2> QED BY <2>2, <2>3
<1> QED BY <1>1, <1>2, StepCases

-----------------------------------------------------------------------------
LEMMA ConversationInvInit == Init => ConversationInv
<1> SUFFICES ASSUME Init, ~Poisoned PROVE LockInv /\ StreamInv /\ ContextsInv /\ NothingGarbled
  BY DEF ConversationInv
<1>1. flow = <<>> /\ Len(flow) = 0
  BY ConcatEmptySeq DEF Init, flow
<1>2. LockInv /\ ContextsInv /\ NothingGarbled
  BY MessageAssumption DEF Init, LockInv, ContextsInv, NothingGarbled
<1>3. FlowAllowed
  BY <1>1 DEF FlowAllowed
<1>4. \A u \in Uuid, m \in Msg : Allows(u, m, 0, 0)
  <2>1. \A p \in 1..0 : FALSE
    OBVIOUS
  <2> QED BY <2>1 DEF Init, Allows, ContextAllows
<1>5. PushAllowed
  BY <1>1, <1>4 DEF Init, PushAllowed, CallAllowed, FreshAllowed
<1> QED BY <1>2, <1>3, <1>5 DEF StreamInv

LEMMA ConversationInvNext ==
  TypeInv /\ OrderInv /\ ConversationInv /\ [Next]_vars => ConversationInv'
BY LockInvNext, StreamInvNext, ContextsInvNext DEF OrderInv, ConversationInv

LEMMA ConversationStays == Spec => []ConversationInv
BY TypesStay, OrderStays, ConversationInvInit, ConversationInvNext, PTL DEF Spec

LEMMA HeldPrefix ==
  ASSUME TypeInv, ~Poisoned, ContextsInv
  PROVE  BuffersArePrefixes
<1> SUFFICES ASSUME NEW u \in Uuid, contexts[u] # NoContext
             PROVE  \E m \in Msg :
                      /\ UuidOf[m] = u
                      /\ contexts[u].total = SnapLen[m]
                      /\ Len(contexts[u].buffer) <= Chunks(m)
                      /\ contexts[u].buffer = [k \in 1..Len(contexts[u].buffer) |-> <<m, k>>]
                      /\ contexts[u].current <= contexts[u].total
                      /\ contexts[u].current = contexts[u].total
                           <=> Len(contexts[u].buffer) = Chunks(m)
  BY DEF BuffersArePrefixes
<1>1. PICK m \in Msg, n \in Nat : UuidOf[m] = u /\ n <= Chunks(m) /\ Holds(u, m, n)
  BY DEF ContextsInv
<1>2. contexts[u].buffer = [k \in 1..n |-> <<m, k>>] /\ Len(contexts[u].buffer) = n
  <2>1. DOMAIN [k \in 1..n |-> <<m, k>>] = 1..n /\ [k \in 1..n |-> <<m, k>>] \in Seq(Msg \X Nat)
    OBVIOUS
  <2>2. Len([k \in 1..n |-> <<m, k>>]) = n
    BY <2>1, LenProperties
  <2> QED BY <1>1, <2>2 DEF Holds
<1>3. Chunks(m) \in Nat /\ n \in 0..Chunks(m)
  BY <1>1, ChunkFacts
<1>4. /\ contexts[u].total = SnapLen[m] /\ contexts[u].current = Collects(m, n)
      /\ Collects(m, n) <= SnapLen[m]
      /\ Collects(m, n) = SnapLen[m] <=> n = Chunks(m)
  BY <1>1, <1>3, CollectsFacts DEF Holds
<1> QED BY <1>1, <1>2, <1>3, <1>4

(* Frames of one conversation never mix: whatever the threads that send, what *)
(* a context has collected is the beginning of one message, in order, and its *)
(* progress is that message's.                                                *)
THEOREM FramesNeverMix == Spec => []BuffersArePrefixes
<1>1. TypeInv /\ ConversationInv => BuffersArePrefixes
  BY HeldPrefix DEF ConversationInv, BuffersArePrefixes
<1> QED BY <1>1, TypesStay, ConversationStays, PTL

(* Nothing is delivered that was not sent, and no transfer fails to decode,   *)
(* for all messages, lengths and bandwidths.                                  *)
THEOREM EveryTransferDecodes == Spec => []NothingGarbled
<1>1. ConversationInv => NothingGarbled
  BY DEF ConversationInv, NothingGarbled
<1> QED BY <1>1, ConversationStays, PTL

(* An open transfer is never restarted, truncated or swapped for another one. *)
THEOREM TransfersGoOn == Spec => TransferGoesOn
<1> DEFINE Kept == ~Poisoned =>
       \A u \in Uuid :
         contexts[u] # NoContext /\ contexts'[u] # NoContext =>
           /\ contexts'[u].total = contexts[u].total
           /\ contexts'[u].current >= contexts[u].current
           /\ Len(contexts'[u].buffer) >= Len(contexts[u].buffer)
<1>1. TypeInv /\ OrderInv /\ ConversationInv /\ [Next]_vars => [Kept]_vars
  <2> SUFFICES ASSUME TypeInv, OrderInv, ConversationInv, [Next]_vars,
                      ~Poisoned, NEW u \in Uuid, contexts[u] # NoContext, contexts'[u] # NoContext
               PROVE  /\ contexts'[u].total = contexts[u].total
                      /\ contexts'[u].current >= contexts[u].current
                      /\ Len(contexts'[u].buffer) >= Len(contexts[u].buffer)
    OBVIOUS
  <2>1. CASE contexts'[u] = contexts[u]
    <3>1. contexts[u] \in Context
      BY DEF TypeInv, TypeOK
    <3>2. contexts[u].current \in Nat /\ Len(contexts[u].buffer) \in Nat
      BY <3>1 DEF Context
    <3> QED BY <2>1, <3>2
  <2>2. CASE Dispatch /\ contexts'[u] # contexts[u]
    <3>1. PICK c \in Msg, i \in Nat, w \in Uuid : Handled(w, c, i)
      BY <2>2, HeadHandled DEF OrderInv, ConversationInv
    <3>2. u = w
      BY <2>2, <3>1 DEF Handled
    <3> QED BY <3>1, <3>2 DEF Handled
  <2>3. contexts' = contexts \/ Dispatch
    BY StepCases DEF Push, recvVars, Quiet
  <2> QED BY <2>1, <2>2, <2>3
<1> HIDE DEF Kept
<1>2. Spec => [][Kept]_vars
  BY <1>1, TypesStay, OrderStays, ConversationStays, PTL DEF Spec
<1> QED BY <1>2 DEF Kept, TransferGoesOn

-----------------------------------------------------------------------------
(* The messages completed by a sequence of frames.                            *)
LEMMA LeastCounterexample ==
  ASSUME NEW T \in SUBSET Nat, T # {}
  PROVE  \E n \in T : \A k \in T : n <= k
<1> DEFINE R == OpToRel(<, Nat)
<1>1. \A x, y \in Nat : x < y => <<x, y>> \in R
  BY DEF OpToRel
<1>2. IsWellFoundedOn(R, Nat)
  BY NatLessThanWellFounded
<1> HIDE DEF R
<1>3. PICK n \in T : \A k \in T : ~(<<k, n>> \in R)
  BY <1>2, WFMin
<1>4. ASSUME NEW k \in T PROVE n <= k
  <2>1. ~(k < n)
    BY <1>1, <1>3
  <2>2. k \in Nat /\ n \in Nat
    BY <1>3
  <2> QED BY <2>1, <2>2
<1> QED BY <1>3, <1>4

CompletedBy(s, before, i) ==
  IF i = 0 THEN <<>> ELSE IF IsLast(s[i]) THEN Append(before, s[i].msg) ELSE before

UpTo(s, n, F) == F = [i \in 0..n |-> CompletedBy(s, F[i - 1], i)]

LEMMA UpToAgree ==
  ASSUME NEW s, NEW t, NEW n \in Nat, NEW k \in Nat, NEW F, NEW G,
         UpTo(s, n, F), UpTo(t, k, G),
         NEW j \in Nat, j <= n, j <= k, \A i \in 1..j : s[i] = t[i]
  PROVE  F[j] = G[j]
<1> DEFINE Bad == {i \in Nat : i <= j /\ F[i] # G[i]}
<1> SUFFICES ASSUME Bad # {} PROVE FALSE
  OBVIOUS
<1>1. PICK i \in Bad : \A h \in Bad : i <= h
  <2> HIDE DEF Bad
  <2>1. Bad \in SUBSET Nat
    BY DEF Bad
  <2> QED BY <2>1, LeastCounterexample
<1>2. i \in 0..n /\ i \in 0..k /\ i \in Nat
  BY <1>1
<1>3. F[i] = CompletedBy(s, F[i - 1], i) /\ G[i] = CompletedBy(t, G[i - 1], i)
  BY <1>2 DEF UpTo
<1>4. i # 0 => F[i - 1] = G[i - 1] /\ s[i] = t[i]
  BY <1>1, <1>2
<1>5. F[i] = G[i]
  BY <1>3, <1>4 DEF CompletedBy
<1> QED BY <1>1, <1>5

LEMMA UpToExists ==
  ASSUME NEW s, NEW n \in Nat
  PROVE  \E F : UpTo(s, n, F)
<1> DEFINE Bad == {k \in Nat : ~\E F : UpTo(s, k, F)}
<1> SUFFICES ASSUME Bad # {} PROVE FALSE
  OBVIOUS
<1>1. PICK k \in Bad : \A j \in Bad : k <= j
  <2> HIDE DEF Bad
  <2>1. Bad \in SUBSET Nat
    BY DEF Bad
  <2> QED BY <2>1, LeastCounterexample
<1>2. CASE k = 0
  <2> DEFINE F == [i \in 0..0 |-> <<>>]
  <2>1. \A i \in 0..0 : CompletedBy(s, F[i - 1], i) = <<>>
    BY DEF CompletedBy
  <2>2. F = [i \in 0..0 |-> CompletedBy(s, F[i - 1], i)]
    BY <2>1
  <2>3. UpTo(s, k, F)
    BY <1>2, <2>2 DEF UpTo
  <2> QED BY <1>1, <2>3
<1>3. CASE k # 0
  <2>1. k \in Nat /\ k - 1 \in Nat /\ k - 1 \notin Bad
    BY <1>1, <1>3
  <2>2. PICK F : UpTo(s, k - 1, F)
    BY <2>1
  <2> DEFINE G == [i \in 0..k |-> IF i = k THEN CompletedBy(s, F[k - 1], k) ELSE F[i]]
  <2>3. ASSUME NEW i \in 0..k PROVE G[i] = CompletedBy(s, G[i - 1], i)
    <3>1. CASE i = k
      <4>1. k - 1 \in 0..k /\ k - 1 # k
        BY <1>3, <2>1
      <4>2. G[k - 1] = F[k - 1]
        BY <4>1
      <4> QED BY <3>1, <4>2
    <3>2. CASE i # k
      <4>1. i \in 0..(k - 1)
        BY <2>1, <3>2
      <4>2. F[i] = CompletedBy(s, F[i - 1], i)
        BY <2>2, <4>1 DEF UpTo
      <4>3. i # 0 => i - 1 \in 0..k /\ i - 1 # k
        BY <2>1, <4>1
      <4>4. i # 0 => G[i - 1] = F[i - 1]
        BY <4>3
      <4>5. G[i] = F[i]
        BY <3>2
      <4> HIDE DEF G
      <4> QED BY <4>2, <4>4, <4>5 DEF CompletedBy
    <3> QED BY <3>1, <3>2
  <2>4. G = [i \in 0..k |-> G[i]]
    OBVIOUS
  <2> HIDE DEF G
  <2>5. UpTo(s, k, G)
    BY <2>3, <2>4 DEF UpTo
  <2> QED BY <1>1, <2>5
<1> QED BY <1>2, <1>3

LEMMA CompletedUpTo ==
  ASSUME NEW s, Len(s) \in Nat
  PROVE  \E F : UpTo(s, Len(s), F) /\ Completed(s) = F[Len(s)]
<1> DEFINE E(F) == F = [i \in 0..Len(s) |->
                          IF i = 0 THEN <<>>
                          ELSE IF IsLast(s[i]) THEN Append(F[i - 1], s[i].msg)
                          ELSE F[i - 1]]
           f == CHOOSE F : E(F)
<1>1. ASSUME NEW F PROVE E(F) <=> UpTo(s, Len(s), F)
  BY DEF UpTo, CompletedBy
<1>2. \E F : E(F)
  <2> HIDE DEF E
  <2> QED BY <1>1, UpToExists
<1>3. E(f)
  <2> HIDE DEF E
  <2> QED BY <1>2
<1>4. Completed(s) = f[Len(s)]
  BY DEF Completed
<1>5. UpTo(s, Len(s), f)
  BY <1>1, <1>3
<1> HIDE DEF f
<1> QED BY <1>4, <1>5

LEMMA CompletedEmpty == Completed(<<>>) = <<>>
<1>1. Len(<<>>) = 0
  OBVIOUS
<1>2. PICK F : UpTo(<<>>, 0, F) /\ Completed(<<>>) = F[0]
  BY <1>1, CompletedUpTo
<1>3. F[0] = CompletedBy(<<>>, F[0 - 1], 0)
  BY <1>2 DEF UpTo
<1> QED BY <1>2, <1>3 DEF CompletedBy

LEMMA CompletedAppend ==
  ASSUME NEW s \in Seq(FrameSet), NEW f \in FrameSet
  PROVE  Completed(Append(s, f)) = IF IsLast(f) THEN Append(Completed(s), f.msg)
                                   ELSE Completed(s)
<1> DEFINE n == Len(s)
           t == Append(s, f)
<1>1. /\ n \in Nat /\ Len(t) = n + 1 /\ t[n + 1] = f
      /\ \A i \in 1..n : t[i] = s[i]
  BY LenProperties, AppendProperties
<1> HIDE DEF n, t
<1>2. PICK F : UpTo(s, n, F) /\ Completed(s) = F[n]
  BY <1>1, CompletedUpTo DEF n
<1>3. PICK G : UpTo(t, n + 1, G) /\ Completed(t) = G[n + 1]
  BY <1>1, CompletedUpTo
<1>4. n + 1 \in Nat /\ n <= n + 1 /\ n <= n /\ n + 1 \in 0..(n + 1) /\ n + 1 # 0
  BY <1>1
<1>5. F[n] = G[n]
  BY <1>1, <1>2, <1>3, <1>4, UpToAgree
<1>6. G[n + 1] = CompletedBy(t, G[(n + 1) - 1], n + 1)
  BY <1>3, <1>4 DEF UpTo
<1>7. (n + 1) - 1 = n
  BY <1>1
<1> QED BY <1>1, <1>2, <1>3, <1>4, <1>5, <1>6, <1>7 DEF CompletedBy, t

LEMMA CompletedOne ==
  ASSUME NEW f \in FrameSet
  PROVE  Completed(<<f>>) = IF IsLast(f) THEN <<f.msg>> ELSE <<>>
<1>1. <<>> \in Seq(FrameSet) /\ Append(<<>>, f) = <<f>> /\ Append(<<>>, f.msg) = <<f.msg>>
  OBVIOUS
<1> QED BY <1>1, CompletedEmpty, CompletedAppend

(* Frames, one after the other. *)
Part(r, n) == SubSeq(r, 1, n)

LEMMA PartFacts ==
  ASSUME NEW r \in Seq(FrameSet)
  PROVE  /\ Len(r) \in Nat /\ Part(r, 0) = <<>> /\ Part(r, Len(r)) = r
         /\ \A n \in 1..Len(r) :
              /\ Part(r, n - 1) \in Seq(FrameSet) /\ r[n] \in FrameSet
              /\ Part(r, n) = Append(Part(r, n - 1), r[n])
<1>1. Len(r) \in Nat /\ SubSeq(r, 1, 0) = <<>> /\ SubSeq(r, 1, Len(r)) = r
  BY LenProperties, SubSeqEmpty, SubSeqFull
<1>2. ASSUME NEW n \in 1..Len(r)
      PROVE  /\ Part(r, n - 1) \in Seq(FrameSet) /\ r[n] \in FrameSet
             /\ Part(r, n) = Append(Part(r, n - 1), r[n])
  <2>1. r[n] \in FrameSet
    BY ElementOfSeq
  <2>2. /\ n - 1 \in 0..Len(r) /\ n - 1 \in Nat /\ n \in Nat /\ 1 <= n /\ n <= Len(r)
    BY <1>1
  <2>3. \A i \in 1..(n - 1) : r[i] \in FrameSet
    BY <1>1, ElementOfSeq
  <2>4. SubSeq(r, 1, n - 1) \in Seq(FrameSet)
    BY <2>2, <2>3, SubSeqProperties
  <2>5. SubSeq(r, 1, n) = SubSeq(r, 1, n - 1) \o <<r[n]>>
    BY <1>1, <2>2, SubSeqRecursiveSecond
  <2>6. Append(SubSeq(r, 1, n - 1), r[n]) = SubSeq(r, 1, n - 1) \o <<r[n]>>
    BY <2>1, <2>4, AppendIsConcat
  <2> QED BY <2>1, <2>4, <2>5, <2>6 DEF Part
<1> QED BY <1>1, <1>2 DEF Part

LEMMA CompletedType ==
  ASSUME NEW r \in Seq(FrameSet)
  PROVE  Completed(r) \in Seq(Msg)
<1> DEFINE Bad == {n \in Nat : n <= Len(r) /\ Completed(Part(r, n)) \notin Seq(Msg)}
<1>1. Len(r) \in Nat /\ Part(r, 0) = <<>> /\ Part(r, Len(r)) = r
  BY PartFacts
<1>2. Bad = {}
  <2> SUFFICES ASSUME Bad # {} PROVE FALSE
    OBVIOUS
  <2>1. PICK n \in Bad : \A k \in Bad : n <= k
    <3> HIDE DEF Bad
    <3>1. Bad \in SUBSET Nat
      BY DEF Bad
    <3> QED BY <3>1, LeastCounterexample
  <2>2. n # 0
    <3>1. Completed(Part(r, 0)) = <<>> /\ <<>> \in Seq(Msg)
      BY <1>1, CompletedEmpty
    <3> QED BY <2>1, <3>1
  <2>3. n \in 1..Len(r) /\ n - 1 \in Nat /\ ~(n <= n - 1) /\ n - 1 <= Len(r)
    BY <1>1, <2>1, <2>2
  <2>4. Completed(Part(r, n - 1)) \in Seq(Msg)
    BY <2>1, <2>3
  <2> DEFINE p == Part(r, n - 1)
             f == r[n]
  <2>5. /\ p \in Seq(FrameSet) /\ f \in FrameSet /\ Part(r, n) = Append(p, f)
        /\ Completed(p) \in Seq(Msg)
    BY <2>3, <2>4, PartFacts
  <2> HIDE DEF p, f
  <2>6. f.msg \in Msg
    BY <2>5 DEF FrameSet
  <2>7. Append(Completed(p), f.msg) \in Seq(Msg)
    BY <2>5, <2>6, AppendProperties
  <2>8. Completed(Append(p, f)) \in Seq(Msg)
    BY <2>5, <2>7, CompletedAppend
  <2> QED BY <2>1, <2>5, <2>8
<1>3. Completed(Part(r, Len(r))) \in Seq(Msg)
  BY <1>1, <1>2
<1> QED BY <1>1, <1>3

(* The messages completed by one part of the frames come before the others.   *)
LEMMA CompletedConcat ==
  ASSUME NEW s \in Seq(FrameSet), NEW t \in Seq(FrameSet)
  PROVE  Completed(s \o t) = Completed(s) \o Completed(t)
<1> DEFINE Right(p) == Completed(s \o p) = Completed(s) \o Completed(p)
           Bad == {n \in Nat : n <= Len(t) /\ ~Right(Part(t, n))}
<1>1. Len(t) \in Nat /\ Part(t, 0) = <<>> /\ Part(t, Len(t)) = t
  BY PartFacts
<1>2. Completed(s) \in Seq(Msg)
  BY CompletedType
<1>3. Right(<<>>)
  <2>1. s \o <<>> = s /\ Completed(s) \o <<>> = Completed(s)
    BY <1>2, ConcatEmptySeq
  <2> QED BY <2>1, CompletedEmpty
<1>4. ASSUME NEW p \in Seq(FrameSet), NEW f \in FrameSet, Right(p)
      PROVE  Right(Append(p, f))
  <2>1. s \o Append(p, f) = Append(s \o p, f)
    OBVIOUS
  <2>2. s \o p \in Seq(FrameSet) /\ f.msg \in Msg /\ Completed(p) \in Seq(Msg)
    <3>1. s \o p \in Seq(FrameSet)
      BY ConcatProperties
    <3>2. f.msg \in Msg
      BY DEF FrameSet
    <3> QED BY <3>1, <3>2, CompletedType
  <2>3. Completed(s) \o Append(Completed(p), f.msg) = Append(Completed(s) \o Completed(p), f.msg)
    BY <1>2, <2>2
  <2> QED BY <1>4, <2>1, <2>2, <2>3, CompletedAppend
<1> HIDE DEF Right
<1>5. Bad = {}
  <2> SUFFICES ASSUME Bad # {} PROVE FALSE
    OBVIOUS
  <2>1. PICK n \in Bad : \A k \in Bad : n <= k
    <3> HIDE DEF Bad
    <3>1. Bad \in SUBSET Nat
      BY DEF Bad
    <3> QED BY <3>1, LeastCounterexample
  <2>2. n # 0
    BY <1>1, <1>3, <2>1
  <2>3. n \in 1..Len(t) /\ n - 1 \in Nat /\ ~(n <= n - 1) /\ n - 1 <= Len(t)
    BY <1>1, <2>1, <2>2
  <2>4. Right(Part(t, n - 1))
    BY <2>1, <2>3
  <2>5. /\ Part(t, n - 1) \in Seq(FrameSet) /\ t[n] \in FrameSet
        /\ Part(t, n) = Append(Part(t, n - 1), t[n])
    BY <2>3, PartFacts
  <2>6. Right(Part(t, n))
    BY <1>4, <2>4, <2>5
  <2> QED BY <2>1, <2>6
<1>6. Right(Part(t, Len(t)))
  BY <1>1, <1>5
<1>7. Right(t)
  BY <1>1, <1>6
<1> QED BY <1>7 DEF Right

LEMMA CompletedTail ==
  ASSUME NEW s \in Seq(FrameSet), s # <<>>
  PROVE  IF IsLast(Head(s))
           THEN /\ Completed(s) # <<>> /\ Head(Completed(s)) = Head(s).msg
                /\ Tail(Completed(s)) = Completed(Tail(s))
           ELSE Completed(s) = Completed(Tail(s))
<1> DEFINE h == Head(s)
           r == Tail(s)
<1>1. h \in FrameSet /\ r \in Seq(FrameSet) /\ <<h>> \in Seq(FrameSet) /\ s = <<h>> \o r
  OBVIOUS
<1>2. h.msg \in Msg
  BY <1>1 DEF FrameSet
<1> HIDE DEF h, r
<1>3. Completed(s) = Completed(<<h>>) \o Completed(r) /\ Completed(r) \in Seq(Msg)
  BY <1>1, CompletedConcat, CompletedType
<1>4. CASE IsLast(h)
  <2>1. Completed(s) = <<h.msg>> \o Completed(r)
    BY <1>1, <1>3, <1>4, CompletedOne
  <2>2. /\ <<h.msg>> \o Completed(r) # <<>>
        /\ Head(<<h.msg>> \o Completed(r)) = h.msg
        /\ Tail(<<h.msg>> \o Completed(r)) = Completed(r)
    BY <1>2, <1>3
  <2> QED BY <1>4, <2>1, <2>2 DEF h, r
<1>5. CASE ~IsLast(h)
  <2>1. Completed(s) = <<>> \o Completed(r)
    BY <1>1, <1>3, <1>5, CompletedOne
  <2>2. <<>> \o Completed(r) = Completed(r)
    BY <1>3, ConcatEmptySeq
  <2> QED BY <1>5, <2>1, <2>2 DEF h, r
<1> QED BY <1>4, <1>5

-----------------------------------------------------------------------------
(* The last frame of a message delivers that message, and no other frame      *)
(* delivers anything.                                                         *)
LEMMA LastType ==
  ASSUME NEW m \in Msg, NEW i \in Nat \ {0}, i <= FrameCount(m)
  PROVE  IsLast(Frame(m, i)) <=> i = FrameCount(m)
<1>1. Chunks(m) \in Nat \ {0} /\ FrameCount(m) \in Nat
  BY ChunkFacts
<1>2. CASE IsLarge(m)
  <2>1. FrameCount(m) = Chunks(m) + 2
    BY <1>2 DEF FrameCount
  <2>2. i - 1 = Chunks(m) + 1 <=> i = FrameCount(m)
    BY <1>1, <2>1
  <2> QED BY <1>2, <2>2, FrameTypeFacts DEF IsLast
<1>3. CASE ~IsLarge(m)
  <2>1. FrameCount(m) = 1
    BY <1>3 DEF FrameCount
  <2> QED BY <1>3, <2>1, FrameTypeFacts DEF IsLast
<1> QED BY <1>2, <1>3

LEMMA WholeIsOne ==
  ASSUME NEW m \in Msg, NEW e \in Msg, NEW b, Whole(b, m), Whole(b, e)
  PROVE  e = m
<1>1. Chunks(m) \in Nat \ {0} /\ Chunks(e) \in Nat \ {0}
  BY ChunkFacts
<1>2. b[1] = <<m, 1>> /\ b[1] = <<e, 1>>
  BY <1>1 DEF Whole
<1> QED BY <1>2

LEMMA DispatchDelivers ==
  ASSUME TypeInv, FramesInv, ~Poisoned, StreamInv, Dispatch
  PROVE  IF IsLast(Head(wire))
           THEN Consume /\ delivered' = Append(delivered, Head(wire).msg)
           ELSE (Consume \/ Canceled) /\ delivered' = delivered
<1>1. PICK m \in Msg, k \in Nat, u \in Uuid :
        /\ Head(wire) = Frame(m, k + 1) /\ UuidOf[m] = u
        /\ k + 1 <= FrameCount(m)
        /\ ContextAllows(u, m, k)
  BY HeadAllowed
<1>2. Head(wire).msg = m
  BY <1>1, FrameTypeFacts
<1>3. CASE OnOneshot
  BY <1>3 DEF OnOneshot, Next1, IsLast
<1>4. CASE OnBegin \/ OnProcess
  BY <1>4 DEF OnBegin, OnProcess, Next1, IsLast, OnProgress, Proceeds
<1>5. CASE OnEnd
  <2>1. IsLast(Head(wire)) /\ Consume
    BY <1>5 DEF OnEnd, Next1, IsLast
  <2>2. IsLarge(m) /\ FrameCount(m) = Chunks(m) + 2 /\ k = Chunks(m) + 1
    BY <1>1, <1>5, FrameTypeFacts, ChunkFacts DEF OnEnd, Next1
  <2>3. k # 0 /\ k - 1 = Chunks(m)
    BY <2>2, ChunkFacts
  <2>4. Whole(contexts[u].buffer, m)
    BY <1>1, <2>3 DEF ContextAllows, Holds, Whole
  <2>5. EndDecodes
    BY <1>1, <1>2, <1>5, <2>4 DEF OnEnd, EndGarbled
  <2>6. PICK e \in Msg : Whole(contexts[u].buffer, e) /\ delivered' = Append(delivered, e)
    BY <1>1, <1>2, <2>5 DEF EndDecodes
  <2>7. e = m
    BY <2>4, <2>6, WholeIsOne
  <2> QED BY <1>2, <2>1, <2>6, <2>7
<1>6. ~OnStray
  <2> SUFFICES ASSUME OnStray PROVE FALSE
    OBVIOUS
  <2>1. k # 0
    BY <1>1, FrameTypeFacts, ChunkFacts DEF OnStray, Next1
  <2> QED BY <1>1, <1>2, <2>1 DEF OnStray, ContextAllows, Holds
<1> QED BY <1>3, <1>4, <1>5, <1>6 DEF Dispatch

-----------------------------------------------------------------------------
(* The mapped variables of Mailbox, and its steps.                            *)
Posted == {m \in Msg : state[m] = "sent"}
Transit == Completed(UnderWay)
Broken == ~open \/ ~up

LEMMA BoxPost ==
  ASSUME NEW m \in Msg, m \notin Posted, Posted' = Posted \cup {m},
         Transit' = IF Broken THEN Transit ELSE Append(Transit, m),
         delivered' = delivered, Broken' = Broken
  PROVE  Box!Next
BY DEF Box!Next, Box!Post, Posted, Transit, Broken

LEMMA BoxDeliver ==
  ASSUME Transit # <<>>, delivered' = Append(delivered, Head(Transit)),
         Transit' = Tail(Transit), Posted' = Posted, Broken' = Broken
  PROVE  Box!Next
BY DEF Box!Next, Box!Deliver, Posted, Transit, Broken

LEMMA BoxBreak ==
  ASSUME Broken' = TRUE, NEW n \in 0..Len(Transit), Transit' = SubSeq(Transit, 1, n),
         Posted' = Posted, delivered' = delivered
  PROVE  Box!Next
BY DEF Box!Next, Box!Break, Posted, Transit, Broken

LEMMA BoxStutters ==
  ASSUME UNCHANGED <<Posted, Transit, delivered, Broken>>
  PROVE  UNCHANGED Box!vars
BY DEF Box!vars, Posted, Transit, Broken

LEMMA TransitFacts ==
  ASSUME TypeInv
  PROVE  /\ Transit \in Seq(Msg) /\ Len(Transit) \in Nat
         /\ up => Transit = Completed(flow)
         /\ ~up => Transit = <<>>
         /\ SubSeq(Transit, 1, 0) = <<>>
<1>1. flow \in Seq(FrameSet)
  BY FlowFacts
<1>2. up => Transit = Completed(flow)
  BY DEF Transit, UnderWay, flow
<1>3. ~up => Transit = <<>>
  BY CompletedEmpty DEF Transit, UnderWay
<1>4. Completed(flow) \in Seq(Msg)
  BY <1>1, CompletedType
<1>5. <<>> \in Seq(Msg)
  OBVIOUS
<1> HIDE DEF Transit, flow
<1>6. Transit \in Seq(Msg)
  BY <1>2, <1>3, <1>4, <1>5
<1> QED BY <1>2, <1>3, <1>6, LenProperties, SubSeqEmpty

LEMMA TransitAfter ==
  /\ up' => Transit' = Completed(flow')
  /\ ~up' => Transit' = <<>>
BY CompletedEmpty DEF Transit, UnderWay, flow

(* Queueing a frame posts its message if it is the last one.                   *)
LEMMA PushBox ==
  ASSUME TypeInv, FramesInv, NEW m \in Msg, Push(m)
  PROVE  Box!Next \/ UNCHANGED Box!vars
<1> DEFINE f == Frame(m, next[m])
<1>1. next[m] \in Nat \ {0} /\ next[m] <= FrameCount(m)
  BY ChunkFacts DEF Push, TypeInv, TypeOK, FramesInv, NextFrames
<1>2. /\ state[m] = "sending" /\ open /\ open' = open /\ up' = up
      /\ delivered' = delivered
  BY DEF Push, recvVars
<1>3. f \in FrameSet
  BY FrameTyped DEF TypeInv, TypeOK
<1>4. flow \in Seq(FrameSet) /\ flow' = Append(flow, f)
  BY <1>3, FlowFacts, ConcatAppend DEF Push, flow
<1>5. f.msg = m /\ (IsLast(f) <=> next[m] = FrameCount(m))
  BY <1>1, LastType, FrameTypeFacts
<1> HIDE DEF f
<1>6. up => Transit' = IF IsLast(f) THEN Append(Transit, m) ELSE Transit
  <2>1. up => Transit' = Completed(Append(flow, f)) /\ Transit = Completed(flow)
    BY <1>2, <1>4, TransitFacts, TransitAfter
  <2> QED BY <1>3, <1>4, <1>5, <2>1, CompletedAppend
<1>7. ~up => Transit' = Transit
  BY <1>2, TransitFacts, TransitAfter
<1>8. CASE next[m] = FrameCount(m)
  <2>1. state' = [state EXCEPT ![m] = "sent"]
    BY <1>8 DEF Push, Return
  <2>2. m \notin Posted /\ Posted' = Posted \cup {m}
    BY <1>2, <2>1 DEF Posted, TypeInv, TypeOK
  <2>3. Transit' = IF Broken THEN Transit ELSE Append(Transit, m)
    BY <1>2, <1>5, <1>6, <1>7, <1>8 DEF Broken
  <2>4. Broken' = Broken
    BY <1>2 DEF Broken
  <2> QED BY <1>2, <2>2, <2>3, <2>4, BoxPost
<1>9. CASE next[m] # FrameCount(m)
  <2>1. state' = state
    BY <1>9 DEF Push
  <2>2. Posted' = Posted
    BY <2>1 DEF Posted
  <2>3. Transit' = Transit
    BY <1>5, <1>6, <1>7, <1>9
  <2>4. Broken' = Broken
    BY <1>2 DEF Broken
  <2> QED BY <1>2, <2>2, <2>3, <2>4, BoxStutters
<1> QED BY <1>8, <1>9

(* The calls and the forwarding do not show.                                  *)
LEMMA QuietBox ==
  ASSUME TypeInv, FramesInv,
         \/ UNCHANGED vars
         \/ Forward
         \/ \E m \in Msg : \/ StartSend(m) \/ StartReply(m) \/ ReplyRefused(m)
                           \/ PushFails(m)
  PROVE  UNCHANGED Box!vars
<1>1. UNCHANGED <<delivered, open, up>>
  BY DEF vars, Forward, StartSend, StartReply, ReplyRefused, PushFails, recvVars, sendVars
<1>2. Posted' = Posted
  <2>1. CASE state' = state
    BY <2>1 DEF Posted
  <2>2. ASSUME NEW m \in Msg,
               StartSend(m) \/ StartReply(m) \/ ReplyRefused(m) \/ PushFails(m)
        PROVE  Posted' = Posted
    <3>1. /\ state[m] # "sent"
          /\ \E x \in {"sending", "failed"} : state' = [state EXCEPT ![m] = x]
      BY <2>2 DEF StartSend, StartReply, ReplyRefused, PushFails, Return
    <3> QED BY <3>1 DEF Posted, TypeInv, TypeOK
  <2> QED BY <2>1, <2>2 DEF vars, Forward, sendVars
<1>3. flow' = flow
  <2>1. CASE Forward
    BY <2>1, ForwardFlow
  <2>2. CASE ~Forward
    BY <2>2 DEF vars, flow, StartSend, StartReply, ReplyRefused, PushFails
  <2> QED BY <2>1, <2>2
<1>4. Transit' = Transit
  BY <1>1, <1>3, TransitFacts, TransitAfter
<1>5. Broken' = Broken
  BY <1>1 DEF Broken
<1> QED BY <1>1, <1>2, <1>4, <1>5, BoxStutters

(* A side that goes down loses the frames it holds, which were the last ones. *)
LEMMA DownBox ==
  ASSUME TypeInv,
         \/ SenderDown
         \/ ReceiverDown
         \/ Canceled /\ delivered' = delivered
  PROVE  Box!Next
<1>1. state' = state /\ delivered' = delivered
  BY DEF SenderDown, ReceiverDown, Canceled, sendVars, recvVars
<1>2. Posted' = Posted
  BY <1>1 DEF Posted
<1>3. Broken' = TRUE
  BY DEF Broken, SenderDown, ReceiverDown, Canceled
<1>4. CASE ~up'
  <2>1. Transit' = SubSeq(Transit, 1, 0) /\ 0 \in 0..Len(Transit)
    BY <1>4, TransitFacts, TransitAfter
  <2> QED BY <1>1, <1>2, <1>3, <2>1, BoxBreak
<1>5. CASE up'
  <2>1. SenderDown /\ up /\ wire' = wire /\ chan' = <<>>
    BY <1>5 DEF SenderDown, ReceiverDown, Canceled
  <2>2. wire \in Seq(FrameSet) /\ chan \in Seq(FrameSet) /\ flow = wire \o chan
    BY FlowFacts DEF flow
  <2>3. flow' = wire
    BY <2>1, <2>2, ConcatEmptySeq DEF flow
  <2> DEFINE a == Completed(wire)
             b == Completed(chan)
  <2>4. a \in Seq(Msg) /\ b \in Seq(Msg)
    BY <2>2, CompletedType
  <2>5. Transit' = a /\ Transit = a \o b
    BY <1>5, <2>1, <2>2, <2>3, CompletedConcat, TransitFacts, TransitAfter
  <2> HIDE DEF a, b
  <2>6. Len(a) \in 0..Len(a \o b) /\ SubSeq(a \o b, 1, Len(a)) = a
    BY <2>4
  <2> QED BY <1>1, <1>2, <1>3, <2>5, <2>6, BoxBreak
<1> QED BY <1>4, <1>5

(* A last frame that arrives delivers the oldest message under way.           *)
LEMMA DispatchBox ==
  ASSUME TypeInv, FramesInv, ~Poisoned, StreamInv, Dispatch
  PROVE  Box!Next \/ UNCHANGED Box!vars
<1>1. /\ up /\ wire # <<>> /\ Head(wire) = flow[1] /\ Len(flow) >= 1
      /\ state' = state /\ open' = open
  BY DispatchFlow
<1>2. Posted' = Posted
  BY <1>1 DEF Posted
<1>3. CASE Canceled /\ ~IsLast(Head(wire))
  BY <1>3, DispatchDelivers, DownBox
<1>4. CASE Consume
  <2>1. up' = up /\ flow' = Tail(flow) /\ flow \in Seq(FrameSet)
    BY <1>1, <1>4, FlowFacts, ConcatTail DEF Consume, flow
  <2>2. flow # <<>> /\ Head(flow) = Head(wire)
    BY <1>1, <2>1
  <2>3. Transit = Completed(flow) /\ Transit' = Completed(Tail(flow))
    BY <1>1, <2>1, TransitFacts, TransitAfter
  <2>4. Broken' = Broken
    BY <1>1, <2>1 DEF Broken
  <2>5. CASE IsLast(Head(wire))
    <3>1. /\ Transit # <<>> /\ Head(Transit) = Head(wire).msg
          /\ Transit' = Tail(Transit)
      BY <2>1, <2>2, <2>3, <2>5, CompletedTail
    <3>2. delivered' = Append(delivered, Head(Transit))
      BY <2>5, <3>1, DispatchDelivers
    <3> QED BY <1>2, <2>4, <3>1, <3>2, BoxDeliver
  <2>6. CASE ~IsLast(Head(wire))
    <3>1. Transit' = Transit /\ delivered' = delivered
      BY <2>1, <2>2, <2>3, <2>6, CompletedTail, DispatchDelivers
    <3> QED BY <1>2, <2>4, <3>1, BoxStutters
  <2> QED BY <2>5, <2>6
<1> QED BY <1>3, <1>4, DispatchDelivers

LEMMA BoxStep ==
  ASSUME TypeInv, OrderInv, ConversationInv, ~Poisoned, [Next]_vars
  PROVE  [Box!Next]_(Box!vars)
<1>1. FramesInv /\ StreamInv
  BY DEF OrderInv, ConversationInv
<1>2. ASSUME NEW m \in Msg, Push(m) PROVE Box!Next \/ UNCHANGED Box!vars
  BY <1>1, <1>2, PushBox
<1>3. CASE SenderDown \/ ReceiverDown
  BY <1>3, DownBox
<1>4. CASE Dispatch
  BY <1>1, <1>4, DispatchBox
<1>5. CASE \/ UNCHANGED vars
           \/ Forward
           \/ \E m \in Msg : \/ StartSend(m) \/ StartReply(m) \/ ReplyRefused(m)
                             \/ PushFails(m)
  BY <1>1, <1>5, QuietBox
<1> QED BY <1>2, <1>3, <1>4, <1>5 DEF Next, Send

LEMMA BoxInit == Init => Box!Init
<1> SUFFICES ASSUME Init PROVE Box!Init
  OBVIOUS
<1>1. {m \in Msg : state[m] = "sent"} = {}
  BY DEF Init
<1>2. UnderWay = <<>>
  BY DEF Init, UnderWay
<1>3. Completed(UnderWay) = <<>>
  BY <1>2, CompletedEmpty
<1> QED BY <1>1, <1>3 DEF Init, Box!Init

(* While no panic poisoned the mutex, every step of the threads that send, of *)
(* the channel, of the socket and of message_dispatch! is a step of the       *)
(* mailbox or does not show: what on_message gets are whole messages, in the  *)
(* order in which send and reply returned, each at most once, and what a lost *)
(* link takes with it is a tail.                                              *)
THEOREM KeepsTheMailbox ==
  ASSUME ~Poisoned
  PROVE  Spec => ImplementsMailbox
<1>1. TypeInv /\ OrderInv /\ ConversationInv /\ [Next]_vars => [Box!Next]_(Box!vars)
  BY BoxStep
<1> QED BY <1>1, BoxInit, TypesStay, OrderStays, ConversationStays, PTL
        DEF Spec, ImplementsMailbox, Box!Spec

-----------------------------------------------------------------------------
(* What Mailbox promises, said of Framing.  The messages that arrived and, in *)
(* their order, those whose last frame is under way: all of them were sent to *)
(* the end, none is there twice, and until the link breaks none is missing.   *)
Arrivals == delivered \o Transit

Accounted ==
  /\ \A i \in 1..Len(Arrivals) : Arrivals[i] \in Msg /\ state[Arrivals[i]] = "sent"
  /\ \A i, j \in 1..Len(Arrivals) : Arrivals[i] = Arrivals[j] => i = j
  /\ open /\ up => \A m \in Msg : state[m] = "sent" =>
                     \E i \in 1..Len(Arrivals) : Arrivals[i] = m

AccountedInv ==
  /\ delivered \in Seq(Msg) /\ Transit \in Seq(Msg)
  /\ \A i \in 1..Len(Arrivals) : Arrivals[i] \in Posted
  /\ \A i, j \in 1..Len(Arrivals) : Arrivals[i] = Arrivals[j] => i = j
  /\ ~Broken => \A m \in Posted : \E i \in 1..Len(Arrivals) : Arrivals[i] = m

LEMMA BoxCases ==
  ASSUME [Box!Next]_(Box!vars)
  PROVE  \/ \E m \in Msg :
              /\ m \notin Posted /\ Posted' = Posted \cup {m}
              /\ Transit' = IF Broken THEN Transit ELSE Append(Transit, m)
              /\ delivered' = delivered /\ Broken' = Broken
         \/ /\ Transit # <<>> /\ Transit' = Tail(Transit)
            /\ delivered' = Append(delivered, Head(Transit))
            /\ Posted' = Posted /\ Broken' = Broken
         \/ /\ Broken' = TRUE /\ \E n \in 0..Len(Transit) : Transit' = SubSeq(Transit, 1, n)
            /\ Posted' = Posted /\ delivered' = delivered
         \/ UNCHANGED <<Posted, Transit, delivered, Broken>>
BY DEF Box!Next, Box!vars, Box!Post, Box!Deliver, Box!Break, Posted, Transit, Broken

LEMMA PostAccounted ==
  ASSUME AccountedInv, NEW m \in Msg, m \notin Posted, Posted' = Posted \cup {m},
         Transit' = IF Broken THEN Transit ELSE Append(Transit, m),
         delivered' = delivered, Broken' = Broken
  PROVE  AccountedInv'
<1>1. delivered \in Seq(Msg) /\ Transit \in Seq(Msg)
  BY DEF AccountedInv
<1>2. CASE Broken
  <2>1. Transit' = Transit /\ Arrivals' = Arrivals
    BY <1>2 DEF Arrivals
  <2> QED BY <1>2, <2>1 DEF AccountedInv
<1>3. CASE ~Broken
  <2> DEFINE a == Arrivals
             b == Arrivals'
  <2>1. Transit' = Append(Transit, m) /\ Transit' \in Seq(Msg)
    BY <1>1, <1>3, AppendProperties
  <2>2. Arrivals \in Seq(Msg) /\ Arrivals' = Append(Arrivals, m)
    BY <1>1, <2>1, ConcatFacts, ConcatAppend DEF Arrivals
  <2>3. /\ Len(a) \in Nat /\ Len(b) = Len(a) + 1 /\ b[Len(a) + 1] = m
        /\ \A i \in 1..Len(a) : b[i] = a[i]
    BY <2>2, AppendProperties, LenProperties
  <2>4. /\ \A i \in 1..Len(a) : a[i] \in Posted
        /\ \A i, j \in 1..Len(a) : a[i] = a[j] => i = j
        /\ \A d \in Posted : \E i \in 1..Len(a) : a[i] = d
    BY <1>3 DEF AccountedInv
  <2> HIDE DEF a, b
  <2>5. \A i \in 1..Len(b) : i \in 1..Len(a) \/ i = Len(a) + 1
    BY <2>3
  <2>6. \A i \in 1..Len(a) : i \in 1..Len(b)
    BY <2>3
  <2>7. \A i \in 1..Len(b) : b[i] \in Posted \cup {m}
    BY <2>3, <2>4, <2>5
  <2>8. \A i, j \in 1..Len(b) : b[i] = b[j] => i = j
    BY <2>3, <2>4, <2>5
  <2>9. \A d \in Posted \cup {m} : \E i \in 1..Len(b) : b[i] = d
    <3>1. Len(a) + 1 \in 1..Len(b)
      BY <2>3
    <3> QED BY <2>3, <2>4, <2>6, <3>1
  <2> QED BY <1>1, <2>1, <2>7, <2>8, <2>9 DEF AccountedInv, b
<1> QED BY <1>2, <1>3

LEMMA DeliverAccounted ==
  ASSUME AccountedInv, Transit # <<>>, Transit' = Tail(Transit),
         delivered' = Append(delivered, Head(Transit)),
         Posted' = Posted, Broken' = Broken
  PROVE  AccountedInv'
<1>1. delivered \in Seq(Msg) /\ Transit \in Seq(Msg)
  BY DEF AccountedInv
<1>2. Arrivals' = Arrivals
  BY <1>1, ConcatMove DEF Arrivals
<1>3. delivered' \in Seq(Msg) /\ Transit' \in Seq(Msg)
  BY <1>1, HeadTailProperties, AppendProperties
<1> QED BY <1>2, <1>3 DEF AccountedInv

LEMMA BreakAccounted ==
  ASSUME AccountedInv, Broken' = TRUE, NEW n \in 0..Len(Transit),
         Transit' = SubSeq(Transit, 1, n), Posted' = Posted, delivered' = delivered
  PROVE  AccountedInv'
<1>1. delivered \in Seq(Msg) /\ Transit \in Seq(Msg) /\ Len(Transit) \in Nat
  BY LenProperties DEF AccountedInv
<1>2. /\ Transit' \in Seq(Msg) /\ Len(Transit') = n
      /\ \A i \in 1..n : Transit'[i] = Transit[i]
  BY <1>1
<1> DEFINE d == delivered
           t == Transit
           s == Transit'
<1> HIDE DEF d, t, s
<1>3. /\ d \in Seq(Msg) /\ t \in Seq(Msg) /\ s \in Seq(Msg)
      /\ Arrivals = d \o t /\ Arrivals' = d \o s
      /\ Len(t) \in Nat /\ n \in 0..Len(t) /\ Len(s) = n
      /\ \A i \in 1..n : s[i] = t[i]
  BY <1>1, <1>2 DEF d, t, s, Arrivals
<1>4. /\ Len(d) \in Nat /\ Len(d \o s) = Len(d) + n /\ Len(d \o t) = Len(d) + Len(t)
      /\ \A i \in 1..Len(d \o s) : (d \o s)[i] = IF i <= Len(d) THEN d[i] ELSE s[i - Len(d)]
      /\ \A i \in 1..Len(d \o t) : (d \o t)[i] = IF i <= Len(d) THEN d[i] ELSE t[i - Len(d)]
  BY <1>3, ConcatFacts
<1>5. ASSUME NEW i \in 1..Len(Arrivals')
      PROVE  i \in 1..Len(Arrivals) /\ Arrivals'[i] = Arrivals[i]
  <2>1. i \in 1..Len(d \o s) /\ i \in 1..Len(d \o t)
    BY <1>3, <1>4
  <2>2. i > Len(d) => i - Len(d) \in 1..n
    BY <1>3, <1>4, <2>1
  <2>3. (d \o s)[i] = (d \o t)[i]
    BY <1>3, <1>4, <2>1, <2>2
  <2> QED BY <1>3, <2>1, <2>3
<1> QED BY <1>1, <1>2, <1>5 DEF AccountedInv

LEMMA AccountedStep ==
  ASSUME AccountedInv, [Box!Next]_(Box!vars)
  PROVE  AccountedInv'
<1>1. CASE UNCHANGED <<Posted, Transit, delivered, Broken>>
  BY <1>1 DEF AccountedInv, Arrivals
<1> QED BY <1>1, BoxCases, PostAccounted, DeliverAccounted, BreakAccounted

LEMMA AccountedInit ==
  ASSUME Box!Init
  PROVE  AccountedInv
<1>1. Posted = {} /\ Transit = <<>> /\ delivered = <<>>
  BY DEF Box!Init, Posted, Transit
<1>2. Arrivals = <<>> /\ Len(Arrivals) = 0
  BY <1>1 DEF Arrivals
<1> QED BY <1>1, <1>2 DEF AccountedInv

(* Nothing accepted is lost without a broken link, and nothing arrives before *)
(* the call that sends it has queued its last frame: of the messages whose    *)
(* send or reply returned Ok (shared.rs:102-119, response.rs:42-57) each is   *)
(* delivered or still under way, once, and no other message is.               *)
THEOREM NothingLost ==
  ASSUME ~Poisoned
  PROVE  Spec => []Accounted
<1>1. AccountedInv => Accounted
  BY DEF AccountedInv, Accounted, Posted, Broken
<1>2. Box!Init => AccountedInv
  BY AccountedInit
<1>3. AccountedInv /\ [Box!Next]_(Box!vars) => AccountedInv'
  BY AccountedStep
<1>4. Box!Spec => []AccountedInv
  BY <1>2, <1>3, PTL DEF Box!Spec
<1> QED BY <1>1, <1>4, KeepsTheMailbox, PTL DEF ImplementsMailbox

=============================================================================
