--------------------------- MODULE ReceiverProofs ---------------------------
(***************************************************************************)
(* Theorems about Receiver, for all messages, chunks, bandwidths, limits   *)
(* and frames of others.                                                   *)
(***************************************************************************)
EXTENDS Receiver, WireProofs, SequenceTheorems

-----------------------------------------------------------------------------
(* The length of a sequence of byte vectors grows by what is appended. *)
Lens(pieces) == [k \in DOMAIN pieces |-> ByteLen[pieces[k]]]

LEMMA LengthIsTotal ==
  ASSUME NEW pieces \in Seq(Bytes)
  PROVE  LengthOf(pieces) = Total(Lens(pieces), 1..Len(pieces))
<1> DEFINE S == DOMAIN pieces
           E(it) == it = [s \in SUBSET S |->
             IF s = {} THEN 0
             ELSE ByteLen[pieces[First(s)]] + it[s \ {First(s)}]]
           i == CHOOSE it : E(it)
<1>1. LengthOf(pieces) = i[S]
  BY DEF LengthOf, MapThenSumSet, MapThenFoldSet, First
<1>2. S = 1..Len(pieces) /\ Len(pieces) \in Nat /\ IsFiniteSet(S)
  BY LenProperties, FS_Interval
<1>3. ASSUME NEW it PROVE E(it) <=> Summing(Lens(pieces), S, it)
  <2>1. \A s \in SUBSET S : s # {} => Lens(pieces)[First(s)] = ByteLen[pieces[First(s)]]
    BY FirstOf DEF Lens
  <2> QED BY <2>1 DEF Summing
<1>4. E(i)
  <2> HIDE DEF E, S
  <2>1. \E it : E(it)
    BY <1>2, <1>3, SummingExists
  <2> QED BY <2>1
<1>5. Summing(Lens(pieces), S, i) /\ S \in SUBSET S
  BY <1>3, <1>4
<1> HIDE DEF E, i, S
<1>6. IsFiniteSet(S)
  BY <1>2
<1>7. i[S] = Total(Lens(pieces), S)
  BY <1>5, <1>6, SummingTotal
<1> QED BY <1>1, <1>2, <1>7

LEMMA LensNat ==
  ASSUME NEW pieces \in Seq(Bytes)
  PROVE  \A k \in 1..Len(pieces) : Lens(pieces)[k] = ByteLen[pieces[k]] /\ Lens(pieces)[k] \in Nat
BY BytesAssumption DEF Lens

LEMMA LengthNat ==
  ASSUME NEW pieces \in Seq(Bytes)
  PROVE  LengthOf(pieces) \in Nat
<1>1. IsFiniteSet(1..Len(pieces))
  BY LenProperties, FS_Interval
<1> QED BY <1>1, LengthIsTotal, LensNat, TotalNat

LEMMA LengthEmpty == LengthOf(<<>>) = 0
<1>1. <<>> \in Seq(Bytes) /\ 1..Len(<<>>) = {} /\ IsFiniteSet({})
  BY FS_EmptySet
<1> QED BY <1>1, LengthIsTotal, TotalStep

LEMMA LengthAppend ==
  ASSUME NEW pieces \in Seq(Bytes), NEW b \in Bytes
  PROVE  LengthOf(Append(pieces, b)) = LengthOf(pieces) + ByteLen[b]
<1> DEFINE n == Len(pieces)
           more == Append(pieces, b)
<1>1. /\ n \in Nat /\ more \in Seq(Bytes) /\ Len(more) = n + 1
      /\ more[n + 1] = b
      /\ \A k \in 1..n : more[k] = pieces[k]
  BY LenProperties, AppendProperties
<1> HIDE DEF n, more
<1>2. /\ IsFiniteSet(1..n) /\ n + 1 \notin 1..n /\ (1..n) \cup {n + 1} = 1..(n + 1)
  <2>1. IsFiniteSet(1..n)
    BY <1>1, FS_Interval
  <2> QED BY <1>1, <2>1
<1>3. \A k \in 1..(n + 1) : Lens(more)[k] \in Nat /\ Lens(more)[k] = ByteLen[more[k]]
  BY <1>1, LensNat
<1>4. Total(Lens(more), 1..(n + 1)) = Lens(more)[n + 1] + Total(Lens(more), 1..n)
  BY <1>2, <1>3, TotalAdd
<1>5. Total(Lens(more), 1..n) = Total(Lens(pieces), 1..n)
  <2>1. \A k \in 1..n : Lens(more)[k] = Lens(pieces)[k]
    BY <1>1, <1>3, LensNat DEF n
  <2> QED BY <1>2, <2>1, TotalSame
<1>6. n + 1 \in 1..(n + 1)
  BY <1>1
<1>7. Lens(more)[n + 1] = ByteLen[b] /\ ByteLen[b] \in Nat
  BY <1>1, <1>3, <1>6
<1>8. LengthOf(more) = Total(Lens(more), 1..(n + 1))
  BY <1>1, LengthIsTotal
<1>9. LengthOf(pieces) = Total(Lens(pieces), 1..n) /\ LengthOf(pieces) \in Nat
  BY LengthIsTotal, LengthNat DEF n
<1> QED BY <1>4, <1>5, <1>7, <1>8, <1>9 DEF more

-----------------------------------------------------------------------------
(* The first n chunks of a message. *)
Collected(m, n) == SubSeq(Chunks[m], 1, n)

LEMMA ChunkTypes ==
  ASSUME NEW m \in Msg
  PROVE  /\ Chunks[m] \in Seq(Bytes) /\ Len(Chunks[m]) \in Nat
         /\ DOMAIN Chunks[m] = 1..Len(Chunks[m])
         /\ \A k \in 1..Len(Chunks[m]) :
              /\ Chunks[m][k] \in Bytes
              /\ ByteLen[Chunks[m][k]] \in Nat \ {0}
              /\ ByteLen[Chunks[m][k]] <= Bandwidth
         /\ IsLarge(m) <=> Len(Chunks[m]) # 0
<1>1. Chunks[m] \in Seq(Bytes \ {Empty})
  BY PeerAssumption
<1>2. /\ Len(Chunks[m]) \in Nat /\ DOMAIN Chunks[m] = 1..Len(Chunks[m])
      /\ Chunks[m] \in Seq(Bytes)
      /\ \A k \in 1..Len(Chunks[m]) : Chunks[m][k] \in Bytes \ {Empty}
  BY <1>1, LenProperties, ElementOfSeq, SeqMonotonic
<1>3. \A k \in 1..Len(Chunks[m]) : ByteLen[Chunks[m][k]] \in Nat \ {0}
  BY <1>2, BytesAssumption
<1>4. \A k \in 1..Len(Chunks[m]) : ByteLen[Chunks[m][k]] <= Bandwidth
  BY <1>2, PeerAssumption
<1>5. Chunks[m] # <<>> <=> Len(Chunks[m]) # 0
  BY <1>2, EmptySeq
<1> QED BY <1>2, <1>3, <1>4, <1>5 DEF IsLarge

LEMMA CollectedFacts ==
  ASSUME NEW m \in Msg
  PROVE  /\ Collected(m, 0) = <<>>
         /\ Collected(m, Len(Chunks[m])) = Chunks[m]
         /\ \A n \in 0..Len(Chunks[m]) : Collected(m, n) \in Seq(Bytes) /\ Len(Collected(m, n)) = n
         /\ \A n \in 1..Len(Chunks[m]) :
              Append(Collected(m, n - 1), Chunks[m][n]) = Collected(m, n)
<1> DEFINE c == Chunks[m]
<1>1. c \in Seq(Bytes) /\ Len(c) \in Nat /\ \A k \in 1..Len(c) : c[k] \in Bytes
  BY ChunkTypes
<1> HIDE DEF c
<1>2. SubSeq(c, 1, 0) = <<>> /\ SubSeq(c, 1, Len(c)) = c
  BY <1>1, SubSeqEmpty, SubSeqFull
<1>3. ASSUME NEW n \in 0..Len(c)
      PROVE  /\ SubSeq(c, 1, n) \in Seq(Bytes) /\ Len(SubSeq(c, 1, n)) = n
             /\ \A k \in 1..n : SubSeq(c, 1, n)[k] = c[k]
  <2>1. n \in Nat /\ \A k \in 1..n : c[k] \in Bytes
    BY <1>1
  <2> QED BY <2>1, SubSeqProperties
<1>4. ASSUME NEW n \in 1..Len(c)
      PROVE  Append(SubSeq(c, 1, n - 1), c[n]) = SubSeq(c, 1, n)
  <2> DEFINE a == SubSeq(c, 1, n - 1)
             b == SubSeq(c, 1, n)
  <2>1. n \in Nat \ {0} /\ n - 1 \in 0..Len(c) /\ n \in 0..Len(c) /\ c[n] \in Bytes
    BY <1>1
  <2>2. /\ a \in Seq(Bytes) /\ Len(a) = n - 1 /\ \A k \in 1..(n - 1) : a[k] = c[k]
        /\ b \in Seq(Bytes) /\ Len(b) = n /\ \A k \in 1..n : b[k] = c[k]
    BY <1>3, <2>1
  <2> HIDE DEF a, b
  <2>3. /\ Append(a, c[n]) \in Seq(Bytes) /\ Len(Append(a, c[n])) = (n - 1) + 1
        /\ \A k \in 1..(n - 1) : Append(a, c[n])[k] = a[k]
        /\ Append(a, c[n])[(n - 1) + 1] = c[n]
    BY <2>1, <2>2, AppendProperties
  <2>4. \A k \in 1..n : Append(a, c[n])[k] = b[k]
    BY <2>1, <2>2, <2>3
  <2>5. Append(a, c[n]) = b
    BY <2>1, <2>2, <2>3, <2>4, SeqEqual
  <2> QED BY <2>5 DEF a, b
<1> QED BY <1>2, <1>3, <1>4 DEF Collected, c

(* What is collected grows with every chunk, by no more than the bandwidth. *)
LEMMA CollectedLength ==
  ASSUME NEW m \in Msg
  PROVE  /\ \A n \in 0..Len(Chunks[m]) : LengthOf(Collected(m, n)) \in Nat
         /\ LengthOf(Chunks[m]) \in Nat
         /\ \A n \in 1..Len(Chunks[m]) :
              /\ LengthOf(Collected(m, n - 1)) < LengthOf(Collected(m, n))
              /\ LengthOf(Collected(m, n)) <= LengthOf(Collected(m, n - 1)) + Bandwidth
<1>1. \A n \in 0..Len(Chunks[m]) : LengthOf(Collected(m, n)) \in Nat
  BY CollectedFacts, LengthNat
<1>2. ASSUME NEW n \in 1..Len(Chunks[m])
      PROVE  /\ LengthOf(Collected(m, n - 1)) < LengthOf(Collected(m, n))
             /\ LengthOf(Collected(m, n)) <= LengthOf(Collected(m, n - 1)) + Bandwidth
  <2>1. n - 1 \in 0..Len(Chunks[m])
    BY ChunkTypes
  <2>2. Collected(m, n - 1) \in Seq(Bytes) /\ Chunks[m][n] \in Bytes
    BY <2>1, CollectedFacts, ChunkTypes
  <2>3. LengthOf(Collected(m, n)) = LengthOf(Collected(m, n - 1)) + ByteLen[Chunks[m][n]]
    BY <2>2, CollectedFacts, LengthAppend
  <2>4. /\ LengthOf(Collected(m, n - 1)) \in Nat /\ Bandwidth \in Nat
        /\ ByteLen[Chunks[m][n]] \in Nat \ {0} /\ ByteLen[Chunks[m][n]] <= Bandwidth
    BY <1>1, <2>1, ChunkTypes, BoundAssumption
  <2> QED BY <2>3, <2>4
<1>3. LengthOf(Chunks[m]) \in Nat
  BY ChunkTypes, LengthNat
<1> QED BY <1>1, <1>2, <1>3

(* Only all chunks together have the length of the message. *)
LEMMA CollectedShorter ==
  ASSUME NEW m \in Msg, NEW n \in 0..Len(Chunks[m])
  PROVE  /\ LengthOf(Collected(m, n)) <= LengthOf(Chunks[m])
         /\ LengthOf(Collected(m, n)) = LengthOf(Chunks[m]) <=> n = Len(Chunks[m])
<1> DEFINE l == Len(Chunks[m])
           At(k) == LengthOf(Collected(m, k))
           Bad == {k \in Nat : k <= l /\ n < k /\ ~(At(n) < At(k))}
<1>1. l \in Nat /\ n \in Nat /\ n <= l /\ \A k \in 0..l : At(k) \in Nat
  BY ChunkTypes, CollectedLength
<1>2. \A k \in 1..l : At(k - 1) < At(k)
  BY CollectedLength
<1>3. At(l) = LengthOf(Chunks[m])
  BY CollectedFacts
<1> HIDE DEF l, At
<1>4. Bad = {}
  <2> SUFFICES ASSUME Bad # {} PROVE FALSE
    OBVIOUS
  <2>1. Bad \in SUBSET Nat
    OBVIOUS
  <2>2. PICK k \in Bad : \A j \in Bad : k <= j
    <3> HIDE DEF Bad
    <3> QED BY <2>1, LeastNatural
  <2>3. k \in 1..l /\ k - 1 \in 0..l /\ k - 1 \in Nat /\ At(k - 1) < At(k) /\ ~(At(n) < At(k))
    BY <1>1, <1>2
  <2>4. k - 1 # n
    BY <2>3
  <2>5. n < k - 1 /\ k - 1 \notin Bad
    BY <1>1, <2>2, <2>3, <2>4
  <2>6. At(n) < At(k - 1)
    BY <1>1, <2>3, <2>5
  <2> QED BY <1>1, <2>3, <2>6
<1>5. n < l => At(n) < At(l)
  BY <1>1, <1>4
<1>6. At(n) \in Nat /\ At(l) \in Nat
  BY <1>1
<1>7. At(n) <= At(l) /\ (At(n) = At(l) <=> n = l)
  BY <1>1, <1>5, <1>6
<1> QED BY <1>3, <1>7 DEF At, l

(* What is decoded are bytes, for the peer's messages those that were sent.   *)
LEMMA DecodedBytes == \A buffer : Decodes(buffer) => Decoded(buffer) \in Bytes
BY BytesAssumption, CodecAssumption DEF Decodes, Decoded

LEMMA OwnDecodes ==
  ASSUME NEW m \in Msg, IsLarge(m)
  PROVE  Decodes(Chunks[m]) /\ Decoded(Chunks[m]) = Raw[m]
<1>1. LengthOf(Chunks[m]) # 0
  <2>1. 0 \in 0..Len(Chunks[m]) /\ Len(Chunks[m]) # 0
    BY ChunkTypes
  <2>2. LengthOf(Collected(m, 0)) = 0
    BY CollectedFacts, LengthEmpty
  <2> QED BY <2>1, <2>2, CollectedShorter
<1> QED BY <1>1, CodecAssumption DEF Decodes, Decoded, IsLarge

LEMMA LengthBound ==
  ASSUME NEW m \in Msg
  PROVE  LengthOf(Chunks[m]) <= Len(Chunks[m]) * Bandwidth
<1> DEFINE l == Len(Chunks[m])
           At(k) == LengthOf(Collected(m, k))
           Bad == {k \in Nat : k <= l /\ ~(At(k) <= k * Bandwidth)}
<1>1. l \in Nat /\ Bandwidth \in Nat /\ \A k \in 0..l : At(k) \in Nat
  BY ChunkTypes, CollectedLength, BoundAssumption
<1>2. \A k \in 1..l : At(k) <= At(k - 1) + Bandwidth
  BY CollectedLength
<1>3. At(l) = LengthOf(Chunks[m]) /\ At(0) = 0
  BY CollectedFacts, LengthEmpty
<1> HIDE DEF l, At
<1>4. Bad = {}
  <2> SUFFICES ASSUME Bad # {} PROVE FALSE
    OBVIOUS
  <2>1. Bad \in SUBSET Nat
    OBVIOUS
  <2>2. PICK k \in Bad : \A j \in Bad : k <= j
    <3> HIDE DEF Bad
    <3> QED BY <2>1, LeastNatural
  <2>3. k # 0
    BY <1>1, <1>3
  <2>4. k \in 1..l /\ k - 1 \in 0..l /\ k - 1 \in Nat /\ At(k) <= At(k - 1) + Bandwidth
    BY <1>1, <1>2, <2>3
  <2>5. k - 1 \notin Bad
    BY <2>2, <2>4
  <2>6. At(k - 1) <= (k - 1) * Bandwidth
    BY <2>4, <2>5
  <2>7. k * Bandwidth = (k - 1) * Bandwidth + Bandwidth /\ (k - 1) * Bandwidth \in Nat
    BY <1>1, <2>4
  <2>8. ~(At(k) <= k * Bandwidth) /\ At(k) \in Nat /\ At(k - 1) \in Nat
    BY <1>1, <2>4
  <2> HIDE DEF Bad
  <2> QED BY <1>1, <2>4, <2>6, <2>7, <2>8
<1>5. At(l) <= l * Bandwidth
  BY <1>1, <1>4
<1> QED BY <1>3, <1>5 DEF l

-----------------------------------------------------------------------------
(* The frames of the peer are read as what they are. *)
LEMMA Typed ==
  ASSUME NEW m \in Msg
  PROVE  /\ Oneshot(m) \in Messages(OneshotFields)
         /\ Begin(m) \in Messages(BeginFields)
         /\ End(m) \in Messages(EndFields)
         /\ \A k \in 1..Len(Chunks[m]) : Process(m, k) \in Messages(ProcessFields)
<1>1. /\ UuidOf[m] \in Bytes /\ Raw[m] \in Bytes
      /\ LengthOf(Chunks[m]) \in Nat
      /\ \A k \in 1..Len(Chunks[m]) : Chunks[m][k] \in Bytes /\ k - 1 \in Nat
  BY PeerAssumption, CollectedLength, ChunkTypes DEF Uuid
<1>2. Oneshot(m) \in Messages(OneshotFields)
  BY <1>1 DEF Oneshot, Messages, OneshotFields, Field, Values, Type
<1>3. Begin(m) \in Messages(BeginFields)
  BY <1>1 DEF Begin, Messages, BeginFields, Field, Values, Type, Compression
<1>4. End(m) \in Messages(EndFields)
  BY <1>1 DEF End, Messages, EndFields, Field, Values, Type
<1>5. ASSUME NEW k \in 1..Len(Chunks[m]) PROVE Process(m, k) \in Messages(ProcessFields)
  BY <1>1 DEF Process, Messages, ProcessFields, Field, Values, Type
<1> QED BY <1>2, <1>3, <1>4, <1>5

LEMMA ReadBack ==
  ASSUME NEW t \in DOMAIN Type, NEW message \in Messages(Body[t]),
         message.type = Type[t], message.uuid \in Uuid
  PROVE  LET f == Encode(Body[t], message) IN
           Routed(f, t) /\ Parse(Body[t], f) = message /\ Header(f).uuid = message.uuid
<1>1. Body[t] \in Schemas
  BY DEF Type, Body, Schemas
<1> QED BY <1>1, FramesReadBack DEF Routed, HasType, Header

LEMMA CountFacts ==
  ASSUME NEW m \in Msg
  PROVE  /\ FrameCount(m) \in Nat \ {0}
         /\ IsLarge(m) => FrameCount(m) = Len(Chunks[m]) + 2 /\ Len(Chunks[m]) \in Nat \ {0}
         /\ ~IsLarge(m) => FrameCount(m) = 1
BY ChunkTypes DEF FrameCount

LEMMA OneshotFrame ==
  ASSUME NEW m \in Msg, ~IsLarge(m), NEW i
  PROVE  /\ Frame(m, i) = Encode(OneshotFields, Oneshot(m))
         /\ Routed(Frame(m, i), "ONESHOT")
         /\ Parse(OneshotFields, Frame(m, i)) = Oneshot(m)
         /\ Header(Frame(m, i)).uuid = UuidOf[m]
<1>1. Frame(m, i) = Encode(OneshotFields, Oneshot(m))
  BY DEF Frame
<1>2. /\ Oneshot(m) \in Messages(Body["ONESHOT"]) /\ "ONESHOT" \in DOMAIN Type
      /\ Oneshot(m).type = Type["ONESHOT"] /\ Oneshot(m).uuid = UuidOf[m] /\ UuidOf[m] \in Uuid
  BY Typed, PeerAssumption DEF Body, Type, Oneshot
<1>3. Body["ONESHOT"] = OneshotFields
  BY DEF Body
<1> QED BY <1>1, <1>2, <1>3, ReadBack

LEMMA BeginFrame ==
  ASSUME NEW m \in Msg, IsLarge(m)
  PROVE  /\ Frame(m, 1) = Encode(BeginFields, Begin(m))
         /\ Routed(Frame(m, 1), "BEGIN")
         /\ Parse(BeginFields, Frame(m, 1)) = Begin(m)
         /\ Header(Frame(m, 1)).uuid = UuidOf[m]
<1>1. Frame(m, 1) = Encode(BeginFields, Begin(m))
  BY CountFacts DEF Frame
<1>2. /\ Begin(m) \in Messages(Body["BEGIN"]) /\ "BEGIN" \in DOMAIN Type
      /\ Begin(m).type = Type["BEGIN"] /\ Begin(m).uuid = UuidOf[m] /\ UuidOf[m] \in Uuid
  BY Typed, PeerAssumption DEF Body, Type, Begin
<1>3. Body["BEGIN"] = BeginFields
  BY DEF Body
<1> QED BY <1>1, <1>2, <1>3, ReadBack

LEMMA ProcessFrame ==
  ASSUME NEW m \in Msg, IsLarge(m), NEW k \in 1..Len(Chunks[m])
  PROVE  /\ Frame(m, k + 1) = Encode(ProcessFields, Process(m, k))
         /\ Routed(Frame(m, k + 1), "PROCESS")
         /\ Parse(ProcessFields, Frame(m, k + 1)) = Process(m, k)
         /\ Header(Frame(m, k + 1)).uuid = UuidOf[m]
<1>1. Frame(m, k + 1) = Encode(ProcessFields, Process(m, k))
  <2>1. k + 1 # 1 /\ k + 1 # FrameCount(m) /\ (k + 1) - 1 = k
    BY CountFacts
  <2> QED BY <2>1 DEF Frame
<1>2. /\ Process(m, k) \in Messages(Body["PROCESS"]) /\ "PROCESS" \in DOMAIN Type
      /\ Process(m, k).type = Type["PROCESS"] /\ Process(m, k).uuid = UuidOf[m]
      /\ UuidOf[m] \in Uuid
  BY Typed, PeerAssumption DEF Body, Type, Process
<1>3. Body["PROCESS"] = ProcessFields
  BY DEF Body
<1> QED BY <1>1, <1>2, <1>3, ReadBack

LEMMA EndFrame ==
  ASSUME NEW m \in Msg, IsLarge(m)
  PROVE  /\ Frame(m, FrameCount(m)) = Encode(EndFields, End(m))
         /\ Routed(Frame(m, FrameCount(m)), "END")
         /\ Parse(EndFields, Frame(m, FrameCount(m))) = End(m)
         /\ Header(Frame(m, FrameCount(m))).uuid = UuidOf[m]
<1>1. Frame(m, FrameCount(m)) = Encode(EndFields, End(m))
  BY CountFacts DEF Frame
<1>2. /\ End(m) \in Messages(Body["END"]) /\ "END" \in DOMAIN Type
      /\ End(m).type = Type["END"] /\ End(m).uuid = UuidOf[m] /\ UuidOf[m] \in Uuid
  BY Typed, PeerAssumption DEF Body, Type, End
<1>3. Body["END"] = EndFields
  BY DEF Body
<1> QED BY <1>1, <1>2, <1>3, ReadBack

(* A frame takes one branch of message_dispatch!. *)
LEMMA Branch ==
  ASSUME NEW f, NEW t \in DOMAIN Type, Routed(f, t), MessageDispatch(f)
  PROVE  /\ t = "ONESHOT" => OnOneshot(f)
         /\ t = "BEGIN" => OnBegin(f)
         /\ t = "PROCESS" => OnProcess(f) \/ OnStray(f)
         /\ t = "END" => OnEnd(f) \/ OnStray(f)
<1>1. \A s \in DOMAIN Type : HasType(f, s) => s = t
  BY DEF Routed, HasType, Type
<1>2. ~BadHeader(f) /\ ~BadBody(f)
  BY <1>1 DEF Routed, HasType, BadHeader, BadBody
<1>3. \A s \in DOMAIN Type : Routed(f, s) => s = t
  BY <1>1 DEF Routed
<1>4. {"ONESHOT", "BEGIN", "PROCESS", "END"} = DOMAIN Type
  BY DEF Type
<1> QED BY <1>2, <1>3, <1>4 DEF MessageDispatch, OnOneshot, OnBegin, OnProcess, OnEnd, OnStray

-----------------------------------------------------------------------------
(* The frames of the peer are frames, and no longer than the bandwidth and    *)
(* the header of a Process frame.                                             *)
LEMMA EncodedWire ==
  ASSUME NEW schema, WellFormed(schema), NEW message \in Messages(schema)
  PROVE  Encode(schema, message) \in SUBSET WireField
<1> SUFFICES ASSUME NEW n \in Written(schema, message)
             PROVE  FieldOf(schema, message, n) \in WireField
  BY EncodedFields
<1>1. /\ n \in DOMAIN schema /\ schema[n].num \in Nat /\ schema[n].kind \in Kinds
      /\ message[n] \in Values(schema[n].kind)
  BY DEF Written, WellFormed, Messages
<1>2. CASE schema[n].kind = "bytes"
  BY <1>1, <1>2 DEF FieldOf, WireField, WireType, Values
<1>3. CASE schema[n].kind # "bytes"
  <2>1. message[n] \in Nat /\ WireType(schema[n].kind) = "varint"
    BY <1>1, <1>3 DEF Values, WireType, Kinds
  <2> QED BY <1>1, <2>1 DEF FieldOf, WireField
<1> QED BY <1>2, <1>3

LEMMA NumberSize ==
  ASSUME NEW schema, NEW message, NEW n, schema[n].kind # "bytes"
  PROVE  FieldSize(FieldOf(schema, message, n)) = 1 + varint[message[n]]
BY DEF FieldSize, FieldOf, WireType

LEMMA BytesSize ==
  ASSUME NEW schema, NEW message, NEW n, schema[n].kind = "bytes"
  PROVE  FieldSize(FieldOf(schema, message, n))
           = 1 + (varint[ByteLen[message[n]]] + ByteLen[message[n]])
BY DEF FieldSize, FieldOf, WireType

LEMMA SmallVarint == \A n \in 0..127 : varint[n] = 1
BY VarintStep

(* What HeaderRoom leaves for the number of a chunk and for its length. *)
LEMMA RoomFacts ==
  ASSUME NEW m \in Msg
  PROVE  \E a \in Nat \ {0}, b \in Nat \ {0} :
           /\ HeaderRoom = 22 + a + b
           /\ \A k \in 0..Len(Chunks[m]) : varint[k] <= a
           /\ \A k \in 0..Bandwidth : varint[k] <= b
<1> DEFINE S == {Len(Chunks[k]) : k \in Msg}
           g == [k \in Msg |-> Len(Chunks[k])]
<1>1. S \in SUBSET Nat /\ Len(Chunks[m]) \in S
  BY ChunkTypes
<1>2. IsFiniteSet(S)
  <2>1. g \in Surjection(Msg, S)
    BY DEF Surjection
  <2> HIDE DEF g, S
  <2> QED BY <2>1, FS_Surjection, PeerAssumption
<1>3. Max(S) \in Nat /\ Len(Chunks[m]) <= Max(S) /\ Len(Chunks[m]) \in Nat
  <2> HIDE DEF S
  <2> QED BY <1>1, <1>2, MaxOf
<1> DEFINE a == varint[Max(S)]
           b == varint[Bandwidth]
<1>4. a \in Nat \ {0} /\ b \in Nat \ {0}
  BY <1>3, VarintNat, BoundAssumption
<1>5. \A k \in 0..Len(Chunks[m]) : varint[k] <= a
  <2> HIDE DEF S
  <2> TAKE k \in 0..Len(Chunks[m])
  <2>1. k \in Nat /\ k <= Max(S)
    BY <1>3
  <2> QED BY <1>3, <2>1, VarintMonotone
<1>6. \A k \in 0..Bandwidth : varint[k] <= b
  BY VarintMonotone, BoundAssumption
<1>7. HeaderRoom = 2 + 18 + (1 + a) + (1 + b)
  BY DEF HeaderRoom
<1> HIDE DEF a, b
<1>8. HeaderRoom = 22 + a + b
  BY <1>4, <1>7
<1> QED BY <1>4, <1>5, <1>6, <1>8

LEMMA FrameFits ==
  ASSUME NEW m \in Msg, NEW i \in 1..FrameCount(m)
  PROVE  /\ Frame(m, i) \in SUBSET WireField
         /\ Sized(Frame(m, i))
         /\ FrameSize(Frame(m, i)) \in Nat /\ HeaderRoom \in Nat
         /\ FrameSize(Frame(m, i)) <= Bandwidth + HeaderRoom
<1> DEFINE f == Frame(m, i)
           u == UuidOf[m]
<1>1. PICK a \in Nat \ {0}, b \in Nat \ {0} :
        /\ HeaderRoom = 22 + a + b
        /\ \A k \in 0..Len(Chunks[m]) : varint[k] <= a
        /\ \A k \in 0..Bandwidth : varint[k] <= b
  BY RoomFacts
<1>2. /\ u \in Bytes /\ ByteLen[u] = 16 /\ varint[16] = 1
      /\ varint[0] = 1 /\ varint[1] = 1 /\ varint[2] = 1 /\ varint[3] = 1
      /\ Bandwidth \in Nat
  BY PeerAssumption, BoundAssumption, SmallVarint DEF Uuid
<1>3. \A schema \in Schemas : WellFormed(schema)
  BY SchemasAreWellFormed
<1>4. SUFFICES /\ f \in SUBSET WireField /\ Sized(f)
               /\ FrameSize(f) <= Bandwidth + HeaderRoom
  BY <1>1, FrameSizeNat
<1>5. CASE ~IsLarge(m)
  <2> DEFINE x == Oneshot(m)
  <2>1. f = Encode(OneshotFields, x) /\ x \in Messages(OneshotFields)
    BY <1>5, OneshotFrame, Typed
  <2>2. WellFormed(OneshotFields) /\ DOMAIN OneshotFields = {"type", "uuid", "message"}
    BY <1>3 DEF Schemas, OneshotFields
  <2> DEFINE size(n) == FieldSize(FieldOf(OneshotFields, x, n))
  <2>3. Sized(f) /\ FrameSize(f) <= size("type") + size("uuid") + size("message")
    BY <2>1, <2>2, EncodedSize
  <2>4. size("type") = 2 /\ size("uuid") = 18
        /\ size("message") = 1 + (varint[ByteLen[Raw[m]]] + ByteLen[Raw[m]])
    <3>1. /\ OneshotFields["type"].kind # "bytes" /\ OneshotFields["uuid"].kind = "bytes"
          /\ OneshotFields["message"].kind = "bytes"
          /\ x["type"] = 0 /\ x["uuid"] = u /\ x["message"] = Raw[m]
      BY DEF OneshotFields, Field, Oneshot, Type
    <3> QED BY <1>2, <3>1, NumberSize, BytesSize
  <2>5. ByteLen[Raw[m]] \in 0..Bandwidth
    <3>1. Chunks[m] = <<>> /\ Raw[m] \in Bytes
      BY <1>5, PeerAssumption DEF IsLarge
    <3>2. ByteLen[Raw[m]] \in Nat /\ ByteLen[Raw[m]] <= Bandwidth
      BY <3>1, PeerAssumption, BytesAssumption
    <3> QED BY <1>2, <3>2
  <2>6. varint[ByteLen[Raw[m]]] <= b /\ varint[ByteLen[Raw[m]]] \in Nat
    BY <1>1, <2>5, VarintNat
  <2>7. FrameSize(f) \in Nat
    BY <2>3, FrameSizeNat
  <2>8. f \in SUBSET WireField
    BY <2>1, <2>2, EncodedWire
  <2> DEFINE r == ByteLen[Raw[m]]
             v == varint[r]
  <2>10. /\ size("type") = 2 /\ size("uuid") = 18 /\ size("message") = 1 + (v + r)
         /\ r \in 0..Bandwidth /\ v \in Nat /\ v <= b
    BY <2>4, <2>5, <2>6
  <2> HIDE DEF f, size, x, r, v
  <2>9. FrameSize(f) <= Bandwidth + HeaderRoom
    BY <1>1, <1>2, <2>3, <2>7, <2>10
  <2> QED BY <2>3, <2>8, <2>9
<1>6. CASE IsLarge(m) /\ i = 1
  <2> DEFINE x == Begin(m)
  <2>1. f = Encode(BeginFields, x) /\ x \in Messages(BeginFields)
    BY <1>6, BeginFrame, Typed
  <2>2. WellFormed(BeginFields) /\ DOMAIN BeginFields = {"type", "uuid", "compression", "length"}
    BY <1>3 DEF Schemas, BeginFields
  <2> DEFINE size(n) == FieldSize(FieldOf(BeginFields, x, n))
  <2>3. /\ Sized(f)
        /\ FrameSize(f) <= size("type") + size("uuid") + size("compression") + size("length")
    BY <2>1, <2>2, EncodedSize
  <2> DEFINE total == LengthOf(Chunks[m])
  <2>4. /\ size("type") = 2 /\ size("uuid") = 18 /\ size("compression") = 2
        /\ size("length") = 1 + varint[total]
    <3>1. /\ BeginFields["type"].kind # "bytes" /\ BeginFields["uuid"].kind = "bytes"
          /\ BeginFields["compression"].kind # "bytes" /\ BeginFields["length"].kind # "bytes"
          /\ x["type"] = 1 /\ x["uuid"] = u /\ x["compression"] = 1
          /\ x["length"] = total
      BY DEF BeginFields, Field, Begin, Type, Compression
    <3> QED BY <1>2, <3>1, NumberSize, BytesSize
  <2>5. varint[total] <= a + Bandwidth /\ varint[total] \in Nat
    <3> DEFINE l == Len(Chunks[m])
    <3>1. total \in Nat /\ total <= l * Bandwidth /\ l \in Nat /\ l # 0
      BY <1>6, CollectedLength, LengthBound, ChunkTypes
    <3>2. Bandwidth \in Nat \ {0}
      BY <1>2, <3>1, ChunkTypes
    <3> HIDE DEF total, l
    <3>3. l * Bandwidth \in Nat
      BY <1>2, <3>1
    <3>4. varint[total] <= varint[l * Bandwidth] /\ varint[total] \in Nat
          /\ varint[l * Bandwidth] \in Nat /\ varint[l] \in Nat
      BY <3>1, <3>3, VarintMonotone, VarintNat
    <3>5. varint[l * Bandwidth] + 1 <= varint[l] + Bandwidth
      BY <3>1, <3>2, VarintTimes
    <3>6. varint[l] <= a
      BY <1>1, <3>1 DEF l
    <3> QED BY <1>1, <1>2, <3>4, <3>5, <3>6
  <2>7. FrameSize(f) \in Nat
    BY <2>3, FrameSizeNat
  <2>8. f \in SUBSET WireField
    BY <2>1, <2>2, EncodedWire
  <2> HIDE DEF f, size, x, total
  <2>9. FrameSize(f) <= Bandwidth + HeaderRoom
    BY <1>1, <1>2, <2>3, <2>4, <2>5, <2>7
  <2> QED BY <2>3, <2>8, <2>9
<1>7. CASE IsLarge(m) /\ i = FrameCount(m)
  <2> DEFINE x == End(m)
  <2>1. f = Encode(EndFields, x) /\ x \in Messages(EndFields)
    BY <1>7, EndFrame, Typed
  <2>2. WellFormed(EndFields) /\ DOMAIN EndFields = {"type", "uuid"}
    BY <1>3 DEF Schemas, EndFields
  <2> DEFINE size(n) == FieldSize(FieldOf(EndFields, x, n))
  <2>3. Sized(f) /\ FrameSize(f) <= size("type") + size("uuid")
    BY <2>1, <2>2, EncodedSize
  <2>4. size("type") = 2 /\ size("uuid") = 18
    <3>1. /\ EndFields["type"].kind # "bytes" /\ EndFields["uuid"].kind = "bytes"
          /\ x["type"] = 3 /\ x["uuid"] = u
      BY DEF EndFields, Field, End, Type
    <3> QED BY <1>2, <3>1, NumberSize, BytesSize
  <2>7. FrameSize(f) \in Nat
    BY <2>3, FrameSizeNat
  <2>8. f \in SUBSET WireField
    BY <2>1, <2>2, EncodedWire
  <2> HIDE DEF f, size, x
  <2>9. FrameSize(f) <= Bandwidth + HeaderRoom
    BY <1>1, <1>2, <2>3, <2>4, <2>7
  <2> QED BY <2>3, <2>8, <2>9
<1>8. CASE IsLarge(m) /\ i # 1 /\ i # FrameCount(m)
  <2>0. PICK k \in 1..Len(Chunks[m]) : i = k + 1
    <3>1. i - 1 \in 1..Len(Chunks[m]) /\ i = (i - 1) + 1
      BY <1>8, CountFacts
    <3> QED BY <3>1
  <2> DEFINE x == Process(m, k)
             n == ByteLen[Chunks[m][k]]
  <2>1. f = Encode(ProcessFields, x) /\ x \in Messages(ProcessFields)
    BY <1>8, <2>0, ProcessFrame, Typed
  <2>2. WellFormed(ProcessFields) /\ DOMAIN ProcessFields = {"type", "uuid", "seq", "message"}
    BY <1>3 DEF Schemas, ProcessFields
  <2> DEFINE size(j) == FieldSize(FieldOf(ProcessFields, x, j))
  <2>3. /\ Sized(f)
        /\ FrameSize(f) <= size("type") + size("uuid") + size("seq") + size("message")
    BY <2>1, <2>2, EncodedSize
  <2>4. /\ size("type") = 2 /\ size("uuid") = 18 /\ size("seq") = 1 + varint[k - 1]
        /\ size("message") = 1 + (varint[n] + n)
    <3>1. /\ ProcessFields["type"].kind # "bytes" /\ ProcessFields["uuid"].kind = "bytes"
          /\ ProcessFields["seq"].kind # "bytes" /\ ProcessFields["message"].kind = "bytes"
          /\ x["type"] = 2 /\ x["uuid"] = u /\ x["seq"] = k - 1
          /\ x["message"] = Chunks[m][k]
      BY DEF ProcessFields, Field, Process, Type
    <3> QED BY <1>2, <3>1, NumberSize, BytesSize
  <2>5. /\ varint[k - 1] <= a /\ varint[k - 1] \in Nat
        /\ varint[n] <= b /\ varint[n] \in Nat /\ n \in Nat /\ n <= Bandwidth
    <3>1. k - 1 \in 0..Len(Chunks[m]) /\ k - 1 \in Nat /\ n \in Nat /\ n <= Bandwidth
      BY ChunkTypes
    <3>2. n \in 0..Bandwidth
      BY <1>2, <3>1
    <3> HIDE DEF n
    <3> QED BY <1>1, <3>1, <3>2, VarintNat
  <2>7. FrameSize(f) \in Nat
    BY <2>3, FrameSizeNat
  <2>8. f \in SUBSET WireField
    BY <2>1, <2>2, EncodedWire
  <2> DEFINE v == varint[k - 1]
             w == varint[n]
  <2>10. /\ size("type") = 2 /\ size("uuid") = 18 /\ size("seq") = 1 + v
         /\ size("message") = 1 + (w + n)
         /\ v <= a /\ v \in Nat /\ w <= b /\ w \in Nat /\ n \in Nat /\ n <= Bandwidth
    BY <2>4, <2>5
  <2> HIDE DEF f, size, x, n, v, w
  <2>9. FrameSize(f) <= Bandwidth + HeaderRoom
    <3>1. FrameSize(f) <= 2 + 18 + (1 + v) + (1 + (w + n))
      BY <2>3, <2>10
    <3>2. HeaderRoom = 22 + a + b /\ Bandwidth \in Nat
      BY <1>1, <1>2
    <3>3. 2 + 18 + (1 + v) + (1 + (w + n)) <= Bandwidth + (22 + a + b)
      BY <2>10, <3>2
    <3>4. 2 + 18 + (1 + v) + (1 + (w + n)) \in Nat /\ Bandwidth + (22 + a + b) \in Nat
      BY <2>10, <3>2
    <3> QED BY <2>7, <3>1, <3>2, <3>3, <3>4
  <2> QED BY <2>3, <2>8, <2>9
<1> QED BY <1>5, <1>6, <1>7, <1>8

-----------------------------------------------------------------------------
(* What message_dispatch! reads from any frame has the type it is used with. *)
LEMMA SameUuid ==
  ASSUME NEW f, NEW t \in DOMAIN Type
  PROVE  Parse(Body[t], f).uuid = Header(f).uuid
<1>1. Body[t] \in Schemas /\ "uuid" \in DOMAIN HeaderFields
  BY DEF Type, Body, Schemas, HeaderFields
<1>2. Within(HeaderFields, Body[t])
  BY <1>1, SchemasAreWellFormed
<1>3. Read(HeaderFields, f, "uuid") = Read(Body[t], f, "uuid")
  BY <1>1, <1>2, ReadAlike
<1>4. "uuid" \in DOMAIN Body[t]
  BY <1>1, <1>2 DEF Within
<1> QED BY <1>1, <1>3, <1>4 DEF Parse, Header

LEMMA ParsedTypes ==
  ASSUME NEW f \in SUBSET WireField, IsFiniteSet(f)
  PROVE  /\ Parse(OneshotFields, f).message \in Bytes
         /\ Parse(BeginFields, f).uuid = Header(f).uuid
         /\ Parse(BeginFields, f).compression \in 0..1
         /\ Parse(BeginFields, f).length \in Nat
         /\ Parse(ProcessFields, f).uuid = Header(f).uuid
         /\ Parse(ProcessFields, f).message \in Bytes
         /\ Parse(EndFields, f).uuid = Header(f).uuid
<1>1. /\ {"ONESHOT", "BEGIN", "PROCESS", "END"} = DOMAIN Type
      /\ Body["BEGIN"] = BeginFields /\ Body["PROCESS"] = ProcessFields
      /\ Body["END"] = EndFields
  BY DEF Body, Type
<1>2. /\ Parse(BeginFields, f).uuid = Header(f).uuid
      /\ Parse(ProcessFields, f).uuid = Header(f).uuid
      /\ Parse(EndFields, f).uuid = Header(f).uuid
  BY <1>1, SameUuid
<1>3. \A schema \in Schemas : \A n \in DOMAIN schema :
        Read(schema, f, n) \in Values(schema[n].kind)
  BY SchemasAreWellFormed, ReadType
<1>4. OneshotFields \in Schemas /\ BeginFields \in Schemas /\ ProcessFields \in Schemas
  BY DEF Schemas
<1>5. Parse(OneshotFields, f).message \in Bytes
  <2>1. "message" \in DOMAIN OneshotFields /\ OneshotFields["message"].kind = "bytes"
    BY DEF OneshotFields, Field
  <2>2. Read(OneshotFields, f, "message") \in Values("bytes")
    BY <1>3, <1>4, <2>1
  <2> QED BY <2>1, <2>2 DEF Parse, Values
<1>6. Parse(BeginFields, f).compression \in 0..1 /\ Parse(BeginFields, f).length \in Nat
  <2>1. /\ "compression" \in DOMAIN BeginFields /\ BeginFields["compression"].kind = "Compression"
        /\ "length" \in DOMAIN BeginFields /\ BeginFields["length"].kind = "uint64"
    BY DEF BeginFields, Field
  <2>2. /\ Read(BeginFields, f, "compression") \in Values("Compression")
        /\ Read(BeginFields, f, "length") \in Values("uint64")
    BY <1>3, <1>4, <2>1
  <2> QED BY <2>1, <2>2 DEF Parse, Values
<1>7. Parse(ProcessFields, f).message \in Bytes
  <2>1. "message" \in DOMAIN ProcessFields /\ ProcessFields["message"].kind = "bytes"
    BY DEF ProcessFields, Field
  <2>2. Read(ProcessFields, f, "message") \in Values("bytes")
    BY <1>3, <1>4, <2>1
  <2> QED BY <2>1, <2>2 DEF Parse, Values
<1> QED BY <1>2, <1>5, <1>6, <1>7

Calls == {"BEGIN", "PROCESS", "END"} \X Nat \X Nat

Transfers ==
  /\ contexts \in [Uuid -> Context \cup {NoContext}]
  /\ delivered \in Seq([uuid : Uuid, data : Bytes])
  /\ errors \in Nat
  /\ progress \in [Uuid -> Seq(Calls)]

LEMMA DispatchTypes ==
  ASSUME Transfers, NEW f \in SUBSET WireField, IsFiniteSet(f), MessageDispatch(f)
  PROVE  Transfers'
<1> DEFINE u == Header(f).uuid
<1>1. \A t \in DOMAIN Type : Routed(f, t) => u \in Uuid
  BY DEF Routed, HasType
<1>2. {"ONESHOT", "BEGIN", "PROCESS", "END"} = DOMAIN Type
  BY DEF Type
<1>3. CASE BadHeader(f)
  BY <1>3 DEF BadHeader, Transfers
<1>4. CASE BadBody(f)
  BY <1>4 DEF BadBody, Transfers
<1>5. CASE OnOneshot(f)
  <2>1. u \in Uuid /\ Parse(OneshotFields, f).message \in Bytes
    BY <1>1, <1>2, <1>5, ParsedTypes DEF OnOneshot
  <2> QED BY <1>5, <2>1, AppendProperties DEF OnOneshot, OnMessage, Transfers
<1>6. CASE OnBegin(f)
  <2> DEFINE begin == Parse(BeginFields, f)
             ctx == [compression |-> begin.compression, total_length |-> begin.length,
                     buffer |-> <<>>]
             calls == <<<<"BEGIN", 0, begin.length>>>>
  <2>1. u \in Uuid /\ begin.uuid = u /\ begin.compression \in 0..1 /\ begin.length \in Nat
    BY <1>1, <1>2, <1>6, ParsedTypes DEF OnBegin
  <2>2. ctx \in Context
    <3> HIDE DEF begin
    <3> QED BY <2>1 DEF Context
  <2>3. calls \in Seq(Calls)
    <3> HIDE DEF begin
    <3>1. <<"BEGIN", 0, begin.length>> \in Calls
      BY <2>1 DEF Calls
    <3> QED BY <3>1
  <2>4. /\ contexts' = [contexts EXCEPT ![u] = ctx]
        /\ progress' = [progress EXCEPT ![u] = calls]
        /\ UNCHANGED <<delivered, errors>>
    BY <1>6, <2>1 DEF OnBegin
  <2> HIDE DEF begin, ctx, calls
  <2> QED BY <2>1, <2>2, <2>3, <2>4 DEF Transfers
<1>7. CASE OnProcess(f)
  <2> DEFINE message == Parse(ProcessFields, f).message
             old == contexts[u]
             buffer == Append(old.buffer, message)
             call == <<"PROCESS", LengthOf(buffer), old.total_length>>
  <2>1. u \in Uuid /\ Parse(ProcessFields, f).uuid = u /\ message \in Bytes
    BY <1>1, <1>2, <1>7, ParsedTypes DEF OnProcess
  <2>2. /\ old # NoContext
        /\ contexts' = [contexts EXCEPT ![u].buffer = buffer]
        /\ progress' = [progress EXCEPT ![u] = Append(@, call)]
        /\ UNCHANGED <<delivered, errors>>
    BY <1>7, <2>1 DEF OnProcess
  <2> HIDE DEF message
  <2>3. old \in Context
    BY <2>1, <2>2 DEF Transfers
  <2>4. /\ old.compression \in 0..1 /\ old.total_length \in Nat /\ old.buffer \in Seq(Bytes)
        /\ old = [compression |-> old.compression, total_length |-> old.total_length,
                  buffer |-> old.buffer]
    <3> HIDE DEF old
    <3> QED BY <2>3 DEF Context
  <2>5. buffer \in Seq(Bytes) /\ LengthOf(buffer) \in Nat
    BY <2>1, <2>4, AppendProperties, LengthNat
  <2>6. call \in Calls
    <3> HIDE DEF old, buffer
    <3> QED BY <2>4, <2>5 DEF Calls
  <2>7. [old EXCEPT !.buffer = buffer] \in Context
    <3> HIDE DEF old, buffer
    <3> QED BY <2>3, <2>5 DEF Context
  <2>8. contexts' = [contexts EXCEPT ![u] = [old EXCEPT !.buffer = buffer]]
    BY <2>2
  <2>9. progress[u] \in Seq(Calls) /\ progress' = [progress EXCEPT ![u] = Append(progress[u], call)]
    BY <2>1, <2>2 DEF Transfers
  <2>10. Append(progress[u], call) \in Seq(Calls)
    BY <2>6, <2>9, AppendProperties
  <2> DEFINE new == [old EXCEPT !.buffer = buffer]
             calls == Append(progress[u], call)
  <2>11. /\ new \in Context /\ contexts' = [contexts EXCEPT ![u] = new]
         /\ calls \in Seq(Calls) /\ progress' = [progress EXCEPT ![u] = calls]
    BY <2>7, <2>8, <2>9, <2>10
  <2> HIDE DEF old, buffer, call, new, calls
  <2> QED BY <2>1, <2>2, <2>11 DEF Transfers
<1>8. CASE OnEnd(f)
  <2>1. u \in Uuid /\ Parse(EndFields, f).uuid = u
    BY <1>1, <1>2, <1>8, ParsedTypes DEF OnEnd
  <2> DEFINE ctx == contexts[u]
  <2>2. ctx \in Context /\ ctx.total_length \in Nat
    <3>1. ctx # NoContext /\ ctx \in Context \cup {NoContext}
      BY <1>8, <2>1 DEF OnEnd, Transfers
    <3> QED BY <3>1 DEF Context
  <2>3. contexts' \in [Uuid -> Context \cup {NoContext}]
    BY <1>8, <2>1 DEF OnEnd, Transfers
  <2>4. delivered' \in Seq([uuid : Uuid, data : Bytes])
    <3>1. delivered' = delivered \/ \E data \in Bytes : OnMessage(u, data)
      BY <1>8, <2>1, DecodedBytes DEF OnEnd
    <3>2. ASSUME NEW data \in Bytes, OnMessage(u, data)
          PROVE  delivered' \in Seq([uuid : Uuid, data : Bytes])
      <4>1. [uuid |-> u, data |-> data] \in [uuid : Uuid, data : Bytes]
        BY <2>1
      <4> QED BY <3>2, <4>1, AppendProperties DEF OnMessage, Transfers
    <3> QED BY <3>1, <3>2 DEF Transfers
  <2>5. errors' \in Nat
    BY <1>8 DEF OnEnd, Transfers
  <2>6. progress' \in [Uuid -> Seq(Calls)]
    <3> DEFINE call == <<"END", ctx.total_length, ctx.total_length>>
    <3>1. progress' = progress \/ progress' = [progress EXCEPT ![u] = Append(@, call)]
      BY <1>8, <2>1 DEF OnEnd
    <3>2. call \in Calls
      <4> HIDE DEF ctx
      <4> QED BY <2>2 DEF Calls
    <3> HIDE DEF call
    <3>3. progress[u] \in Seq(Calls)
      BY <2>1 DEF Transfers
    <3>4. Append(progress[u], call) \in Seq(Calls)
      BY <3>2, <3>3, AppendProperties
    <3> QED BY <3>1, <3>4 DEF Transfers
  <2> QED BY <2>3, <2>4, <2>5, <2>6 DEF Transfers
<1>9. CASE OnStray(f)
  BY <1>9 DEF OnStray, Transfers
<1> QED BY <1>3, <1>4, <1>5, <1>6, <1>7, <1>8, <1>9 DEF MessageDispatch

-----------------------------------------------------------------------------
(* No frame of a message is taken twice: of m, next[m] is the next one. *)
NextInv == \A m \in Msg : next[m] \in 1..(FrameCount(m) + 1)

TypeInv == TypeOK /\ NextInv

LEMMA TypeTransfers == TypeInv => Transfers
BY DEF TypeInv, TypeOK, Transfers, Calls

LEMMA OwnNumber ==
  ASSUME TypeInv, NEW m \in Msg, ReceiveFrame(m)
  PROVE  /\ next[m] \in 1..FrameCount(m) /\ next[m] \in Nat \ {0}
         /\ Frame(m, next[m]) \in SUBSET WireField /\ IsFiniteSet(Frame(m, next[m]))
<1>1. next[m] \in 1..(FrameCount(m) + 1) /\ next[m] <= FrameCount(m)
  BY CountFacts DEF TypeInv, NextInv, ReceiveFrame, Done
<1>2. next[m] \in 1..FrameCount(m) /\ next[m] \in Nat \ {0}
  BY <1>1, CountFacts
<1> QED BY <1>2, FrameFits DEF Sized

LEMMA TakeTypes ==
  ASSUME TypeInv, NEW f \in SUBSET WireField, IsFiniteSet(f), Take(f), up
  PROVE  Transfers' /\ up' \in BOOLEAN
<1>1. Transfers
  BY TypeTransfers
<1>2. CASE TooLarge(f)
  <2>1. errors' = errors \/ errors' = errors + 1
    BY <1>2 DEF TooLarge
  <2>2. up' = FALSE /\ UNCHANGED <<contexts, delivered, progress>>
    BY <1>2 DEF TooLarge
  <2>3. errors' \in Nat
    BY <1>1, <2>1 DEF Transfers
  <2>4. /\ contexts' \in [Uuid -> Context \cup {NoContext}]
        /\ delivered' \in Seq([uuid : Uuid, data : Bytes])
        /\ progress' \in [Uuid -> Seq(Calls)]
    BY <1>1, <2>2 DEF Transfers
  <2> QED BY <2>2, <2>3, <2>4 DEF Transfers
<1>3. CASE MessageDispatch(f) /\ UNCHANGED up
  BY <1>1, <1>3, DispatchTypes
<1> QED BY <1>2, <1>3 DEF Take

LEMMA TypeStep == TypeInv /\ [Next]_vars => TypeInv'
<1> SUFFICES ASSUME TypeInv, [Next]_vars PROVE TypeInv'
  OBVIOUS
<1>1. ASSUME NEW m \in Msg, ReceiveFrame(m) PROVE TypeInv'
  <2>1. Transfers' /\ up' \in BOOLEAN
    BY <1>1, OwnNumber, TakeTypes DEF ReceiveFrame
  <2>2. next' = [next EXCEPT ![m] = @ + 1] /\ UNCHANGED <<limit, foreign>>
    BY <1>1 DEF ReceiveFrame
  <2>3. next[m] \in 1..FrameCount(m) /\ next \in [Msg -> Nat \ {0}]
    BY <1>1, OwnNumber DEF TypeInv, TypeOK
  <2>4. next' \in [Msg -> Nat \ {0}]
    BY <2>2, <2>3
  <2>5. NextInv'
    <3> SUFFICES ASSUME NEW k \in Msg PROVE next'[k] \in 1..(FrameCount(k) + 1)
      BY DEF NextInv
    <3>1. CASE k = m
      BY <2>2, <2>3, <3>1, CountFacts
    <3>2. CASE k # m
      BY <2>2, <2>3, <3>2 DEF TypeInv, NextInv
    <3> QED BY <3>1, <3>2
  <2> QED BY <2>1, <2>2, <2>4, <2>5 DEF TypeInv, TypeOK, Transfers, Calls
<1>2. ASSUME NEW f \in Foreign, ReceiveForeign(f) PROVE TypeInv'
  <2>1. Transfers' /\ up' \in BOOLEAN
    BY <1>2, ForeignAssumption, TakeTypes DEF ReceiveForeign
  <2>2. UNCHANGED <<limit, next>> /\ foreign' = foreign + 1 /\ foreign < MaxForeign
    BY <1>2 DEF ReceiveForeign
  <2>3. foreign' \in 0..MaxForeign
    BY <2>2, BoundAssumption DEF TypeInv, TypeOK
  <2>4. NextInv'
    BY <2>2 DEF TypeInv, NextInv
  <2> QED BY <2>1, <2>2, <2>3, <2>4 DEF TypeInv, TypeOK, Transfers, Calls
<1>3. CASE UNCHANGED vars
  BY <1>3 DEF vars, TypeInv, TypeOK, NextInv
<1> QED BY <1>1, <1>2, <1>3 DEF Next

LEMMA TypeStart == Init => TypeInv
<1> SUFFICES ASSUME Init PROVE TypeInv
  OBVIOUS
<1>1. NextInv
  BY CountFacts DEF Init, NextInv
<1> QED BY <1>1, BoundAssumption DEF Init, TypeInv, TypeOK

LEMMA TypeInvariant == Spec => []TypeInv
BY TypeStart, TypeStep, PTL DEF Spec

(* Whatever frames come, the map of transfers, the calls of on_message and    *)
(* on_progress and the count of errors keep their types: no branch of         *)
(* message_dispatch! stores what it has not read.                             *)
THEOREM ReceiverTypeOK == Spec => []TypeOK
BY TypeInvariant, PTL DEF TypeInv

-----------------------------------------------------------------------------
LEMMA DispatchKeeps ==
  ASSUME Transfers, NEW f \in SUBSET WireField, IsFiniteSet(f), MessageDispatch(f),
         NEW v \in Uuid, contexts[v] # NoContext, contexts'[v] = NoContext
  PROVE  \/ contexts[v].compression = Compression.NONE
         \/ Len(delivered') = Len(delivered) + 1 /\ errors' = errors
         \/ delivered' = delivered /\ errors' = errors + 1
<1> DEFINE u == Header(f).uuid
<1>1. /\ \A t \in DOMAIN Type : Routed(f, t) => u \in Uuid
      /\ {"ONESHOT", "BEGIN", "PROCESS", "END"} = DOMAIN Type
  BY DEF Routed, HasType, Type
<1>2. contexts' # contexts
  OBVIOUS
<1>3. ~BadHeader(f) /\ ~BadBody(f) /\ ~OnOneshot(f) /\ ~OnStray(f)
  BY <1>2 DEF BadHeader, BadBody, OnOneshot, OnStray
<1>4. ~OnBegin(f)
  <2> SUFFICES ASSUME OnBegin(f) PROVE FALSE
    OBVIOUS
  <2> DEFINE begin == Parse(BeginFields, f)
             ctx == [compression |-> begin.compression, total_length |-> begin.length,
                     buffer |-> <<>>]
  <2>1. begin.compression \in 0..1 /\ begin.length \in Nat
    BY ParsedTypes
  <2>2. contexts' = [contexts EXCEPT ![begin.uuid] = ctx]
    BY DEF OnBegin
  <2>3. ctx \in Context
    <3> HIDE DEF begin
    <3> QED BY <2>1 DEF Context
  <2> HIDE DEF ctx
  <2> QED BY <2>2, <2>3, ContextAssumption DEF Transfers
<1>5. ~OnProcess(f)
  <2> SUFFICES ASSUME OnProcess(f) PROVE FALSE
    OBVIOUS
  <2>1. u \in Uuid /\ Parse(ProcessFields, f).uuid = u /\ Parse(ProcessFields, f).message \in Bytes
    BY <1>1, ParsedTypes DEF OnProcess
  <2> DEFINE old == contexts[u]
             buffer == Append(old.buffer, Parse(ProcessFields, f).message)
             new == [old EXCEPT !.buffer = buffer]
  <2>2. old # NoContext /\ contexts' = [contexts EXCEPT ![u] = new]
    BY <2>1 DEF OnProcess
  <2>3. old \in Context
    BY <2>1, <2>2 DEF Transfers
  <2>4. buffer \in Seq(Bytes)
    <3>1. old.buffer \in Seq(Bytes)
      <4> HIDE DEF old
      <4> QED BY <2>3 DEF Context
    <3> QED BY <2>1, <3>1, AppendProperties
  <2>5. new \in Context
    <3> HIDE DEF old, buffer
    <3> QED BY <2>3, <2>4 DEF Context
  <2> HIDE DEF new
  <2> QED BY <2>1, <2>2, <2>5, ContextAssumption DEF Transfers
<1>6. OnEnd(f)
  BY <1>3, <1>4, <1>5 DEF MessageDispatch
<1>7. u \in Uuid /\ Parse(EndFields, f).uuid = u
  BY <1>1, <1>6, ParsedTypes DEF OnEnd
<1>8. v = u
  BY <1>6, <1>7 DEF OnEnd, Transfers
<1>9. contexts[v] \in Context
  BY DEF Transfers
<1>10. contexts[v].compression \in {Compression.NONE, Compression.SNAPPY}
  BY <1>9 DEF Context, Compression
<1>11. CASE \E data \in Bytes : OnMessage(u, data) /\ UNCHANGED errors
  <2>1. PICK data \in Bytes : delivered' = Append(delivered, [uuid |-> u, data |-> data])
                              /\ errors' = errors
    BY <1>11 DEF OnMessage
  <2>2. [uuid |-> u, data |-> data] \in [uuid : Uuid, data : Bytes]
    BY <1>7
  <2> QED BY <2>1, <2>2, AppendProperties DEF Transfers
<1>12. CASE errors' = errors + 1 /\ UNCHANGED delivered
  BY <1>12
<1>13. CASE contexts[v].compression # Compression.SNAPPY
  BY <1>10, <1>13
<1> QED BY <1>6, <1>7, <1>8, <1>11, <1>12, <1>13, DecodedBytes DEF OnEnd

(* For any frames, of the peer and of others, in any order: the context of a  *)
(* SNAPPY transfer leaves message_contexts only when on_message gets its      *)
(* bytes or on_error is called, and never by an overwriting BEGIN, a chunk or *)
(* the end of the read half.                                                  *)
THEOREM TransfersDoNotVanish == Spec => NothingVanishes
<1>1. ASSUME TypeInv, Next, NEW u \in Uuid, contexts[u] # NoContext, contexts'[u] = NoContext
      PROVE  \/ contexts[u].compression = Compression.NONE
             \/ Len(delivered') = Len(delivered) + 1 /\ errors' = errors
             \/ delivered' = delivered /\ errors' = errors + 1
  <2>1. \E f \in SUBSET WireField : IsFiniteSet(f) /\ Take(f)
    <3>1. ASSUME NEW m \in Msg, ReceiveFrame(m)
          PROVE  \E f \in SUBSET WireField : IsFiniteSet(f) /\ Take(f)
      BY <1>1, <3>1, OwnNumber DEF ReceiveFrame
    <3>2. ASSUME NEW f \in Foreign, ReceiveForeign(f)
          PROVE  f \in SUBSET WireField /\ IsFiniteSet(f) /\ Take(f)
      BY <3>2, ForeignAssumption DEF ReceiveForeign
    <3> QED BY <1>1, <3>1, <3>2 DEF Next
  <2>2. PICK f \in SUBSET WireField : IsFiniteSet(f) /\ Take(f)
    BY <2>1
  <2>3. MessageDispatch(f)
    BY <1>1, <2>2 DEF Take, TooLarge
  <2> QED BY <1>1, <2>2, <2>3, TypeTransfers, DispatchKeeps
<1>2. TypeInv /\ [Next]_vars =>
        [\A u \in Uuid :
           contexts[u] # NoContext /\ contexts'[u] = NoContext =>
             \/ contexts[u].compression = Compression.NONE
             \/ Len(delivered') = Len(delivered) + 1 /\ errors' = errors
             \/ delivered' = delivered /\ errors' = errors + 1]_vars
  BY <1>1
<1> QED BY <1>2, TypeInvariant, PTL DEF Spec, NothingVanishes

-----------------------------------------------------------------------------
(* A frame touches the transfer and the deliveries of its own uuid only. *)
LEMMA DispatchEffect ==
  ASSUME Transfers, NEW f \in SUBSET WireField, IsFiniteSet(f), MessageDispatch(f)
  PROVE  \/ UNCHANGED <<contexts, delivered, progress>>
         \/ /\ \E t \in DOMAIN Type : Routed(f, t)
            /\ Header(f).uuid \in Uuid
            /\ \A v \in Uuid \ {Header(f).uuid} :
                 contexts'[v] = contexts[v] /\ progress'[v] = progress[v]
            /\ \/ delivered' = delivered
               \/ \E data \in Bytes :
                    delivered' = Append(delivered, [uuid |-> Header(f).uuid, data |-> data])
<1> DEFINE u == Header(f).uuid
           Mine == /\ \E t \in DOMAIN Type : Routed(f, t)
                   /\ u \in Uuid
           Elsewhere == \A v \in Uuid \ {u} :
                          contexts'[v] = contexts[v] /\ progress'[v] = progress[v]
           Delivery == \/ delivered' = delivered
                       \/ \E data \in Bytes :
                            delivered' = Append(delivered, [uuid |-> u, data |-> data])
<1>1. ASSUME NEW t \in {"ONESHOT", "BEGIN", "PROCESS", "END"}, Routed(f, t) PROVE Mine
  <2>1. {"ONESHOT", "BEGIN", "PROCESS", "END"} = DOMAIN Type
    BY DEF Type
  <2> QED BY <1>1, <2>1 DEF Routed, HasType
<1>2. /\ contexts \in [Uuid -> Context \cup {NoContext}]
      /\ progress \in [Uuid -> Seq(Calls)]
  BY DEF Transfers
<1>3. CASE BadHeader(f) \/ BadBody(f) \/ OnStray(f)
  BY <1>3 DEF BadHeader, BadBody, OnStray
<1>4. CASE OnOneshot(f)
  <2>1. Mine /\ Delivery
    BY <1>1, <1>4, ParsedTypes DEF OnOneshot, OnMessage
  <2>2. Elsewhere
    BY <1>4 DEF OnOneshot
  <2> QED BY <2>1, <2>2
<1>5. CASE OnBegin(f)
  <2>1. Mine /\ Delivery
    BY <1>1, <1>5 DEF OnBegin
  <2>2. Elsewhere
    BY <1>2, <1>5, ParsedTypes DEF OnBegin
  <2> QED BY <2>1, <2>2
<1>6. CASE OnProcess(f)
  <2>1. Mine /\ Delivery
    BY <1>1, <1>6 DEF OnProcess
  <2>2. Elsewhere
    BY <1>2, <1>6, ParsedTypes DEF OnProcess
  <2> QED BY <2>1, <2>2
<1>7. CASE OnEnd(f)
  <2>0. Parse(EndFields, f).uuid = u
    BY ParsedTypes
  <2>1. Mine
    BY <1>1, <1>7 DEF OnEnd
  <2>2. Delivery
    BY <1>7, <2>0, DecodedBytes DEF OnEnd, OnMessage
  <2>3. Elsewhere
    <3>1. contexts' = [contexts EXCEPT ![u] = NoContext]
      BY <1>7, <2>0 DEF OnEnd
    <3>2. progress' = progress \/ \E calls : progress' = [progress EXCEPT ![u] = calls]
      BY <1>7, <2>0 DEF OnEnd
    <3> QED BY <1>2, <3>1, <3>2
  <2> QED BY <2>1, <2>2, <2>3
<1> QED BY <1>3, <1>4, <1>5, <1>6, <1>7 DEF MessageDispatch

LEMMA ForeignStep ==
  ASSUME TypeInv, NEW f \in Foreign, ReceiveForeign(f)
  PROVE  /\ UNCHANGED <<limit, next>> /\ up
         /\ up' \/ FrameSize(f) > limit
         /\ \A m \in Msg : /\ contexts'[UuidOf[m]] = contexts[UuidOf[m]]
                           /\ progress'[UuidOf[m]] = progress[UuidOf[m]]
         /\ \/ delivered' = delivered
            \/ \E u \in Uuid, data \in Bytes :
                 /\ delivered' = Append(delivered, [uuid |-> u, data |-> data])
                 /\ \A m \in Msg : u # UuidOf[m]
<1>1. /\ UNCHANGED <<limit, next>> /\ up
      /\ Take(f) /\ f \in SUBSET WireField /\ IsFiniteSet(f)
      /\ Transfers
  BY ForeignAssumption, TypeTransfers DEF ReceiveForeign
<1>0. up' \/ FrameSize(f) > limit
  BY <1>1 DEF Take, TooLarge
<1>2. CASE UNCHANGED <<contexts, delivered, progress>>
  BY <1>0, <1>1, <1>2
<1>3. CASE MessageDispatch(f) /\ ~UNCHANGED <<contexts, delivered, progress>>
  <2> DEFINE u == Header(f).uuid
  <2>1. \A m \in Msg : u # UuidOf[m]
    BY <1>1, <1>3, DispatchEffect, UuidAssumption
  <2>2. \A m \in Msg : UuidOf[m] \in Uuid \ {u}
    BY <2>1, PeerAssumption
  <2>3. u \in Uuid
    BY <1>1, <1>3, DispatchEffect
  <2>4. /\ \A v \in Uuid \ {u} : contexts'[v] = contexts[v] /\ progress'[v] = progress[v]
        /\ \/ delivered' = delivered
           \/ \E data \in Bytes :
                delivered' = Append(delivered, [uuid |-> u, data |-> data])
    BY <1>1, <1>3, DispatchEffect
  <2> HIDE DEF u
  <2>5. \A m \in Msg : /\ contexts'[UuidOf[m]] = contexts[UuidOf[m]]
                       /\ progress'[UuidOf[m]] = progress[UuidOf[m]]
    BY <2>2, <2>4
  <2>6. \/ delivered' = delivered
        \/ \E v \in Uuid, data \in Bytes :
             /\ delivered' = Append(delivered, [uuid |-> v, data |-> data])
             /\ \A m \in Msg : v # UuidOf[m]
    BY <2>1, <2>3, <2>4
  <2> QED BY <1>0, <1>1, <2>5, <2>6
<1>4. UNCHANGED <<contexts, delivered, progress>> \/ MessageDispatch(f)
  BY <1>1 DEF Take, TooLarge
<1> QED BY <1>2, <1>3, <1>4

-----------------------------------------------------------------------------
(* Between its frames, the context of a message holds the chunks taken so far. *)
Holding(m, n) ==
  [compression |-> Compression.SNAPPY, total_length |-> LengthOf(Chunks[m]),
   buffer |-> Collected(m, n)]

TransferInv == up => \A m \in Msg : Open(m) => contexts[UuidOf[m]] = Holding(m, next[m] - 2)

(* The call of on_progress that frame i of a message makes. *)
Call(m, i) ==
  LET total == LengthOf(Chunks[m]) IN
  <<IF i = 1 THEN "BEGIN" ELSE IF i = FrameCount(m) THEN "END" ELSE "PROCESS",
    IF i = 1 THEN 0
             ELSE IF i = FrameCount(m) THEN total ELSE LengthOf(Collected(m, i - 1)),
    total>>

(* What a frame of the peer does, where it does not end the read half. *)
OwnEffect(m) ==
  LET u == UuidOf[m] IN
  /\ delivered' = IF next[m] = FrameCount(m)
                    THEN Append(delivered, [uuid |-> u, data |-> Raw[m]])
                    ELSE delivered
  /\ IsLarge(m) /\ next[m] < FrameCount(m) => contexts'[u] = Holding(m, next[m] - 1)
  /\ progress'[u] = IF ~IsLarge(m) THEN progress[u]
                    ELSE IF next[m] = 1 THEN <<Call(m, 1)>>
                    ELSE Append(progress[u], Call(m, next[m]))

LEMMA HoldingContext ==
  ASSUME NEW m \in Msg, NEW n \in 0..Len(Chunks[m])
  PROVE  /\ Holding(m, n) \in Context /\ Holding(m, n) # NoContext
         /\ Holding(m, n).compression = Compression.SNAPPY
         /\ Holding(m, n).total_length = LengthOf(Chunks[m])
         /\ Holding(m, n).buffer = Collected(m, n)
<1>1. Holding(m, n) \in Context
  BY CollectedFacts, CollectedLength DEF Holding, Context, Compression
<1> QED BY <1>1, ContextAssumption DEF Holding

LEMMA BeginEffect ==
  ASSUME Transfers, NEW m \in Msg, IsLarge(m), next[m] = 1, MessageDispatch(Frame(m, 1))
  PROVE  OwnEffect(m)
<1> DEFINE u == UuidOf[m]
           f == Frame(m, 1)
<1>1. u \in Uuid /\ FrameCount(m) # 1
  BY PeerAssumption, CountFacts
<1>2. OnBegin(f)
  BY BeginFrame, Branch DEF Type
<1>3. /\ Parse(BeginFields, f).uuid = u /\ Parse(BeginFields, f).compression = Compression.SNAPPY
      /\ Parse(BeginFields, f).length = LengthOf(Chunks[m])
  <2>1. Parse(BeginFields, f) = Begin(m)
    BY BeginFrame
  <2>2. /\ Begin(m).uuid = u /\ Begin(m).compression = Compression.SNAPPY
        /\ Begin(m).length = LengthOf(Chunks[m])
    BY DEF Begin
  <2> QED BY <2>1, <2>2
<1>4. /\ contexts' = [contexts EXCEPT ![u] = Holding(m, 0)]
      /\ progress' = [progress EXCEPT ![u] = <<<<"BEGIN", 0, LengthOf(Chunks[m])>>>>]
      /\ delivered' = delivered
  BY <1>2, <1>3, CollectedFacts DEF OnBegin, Holding
<1>5. Call(m, 1) = <<"BEGIN", 0, LengthOf(Chunks[m])>>
  BY DEF Call
<1>6. contexts'[u] = Holding(m, 0) /\ progress'[u] = <<Call(m, 1)>>
  BY <1>1, <1>4, <1>5 DEF Transfers
<1> QED BY <1>1, <1>4, <1>6 DEF OwnEffect

LEMMA ProcessEffect ==
  ASSUME Transfers, NEW m \in Msg, IsLarge(m), NEW k \in 1..Len(Chunks[m]), next[m] = k + 1,
         contexts[UuidOf[m]] = Holding(m, k - 1), MessageDispatch(Frame(m, k + 1))
  PROVE  OwnEffect(m)
<1> DEFINE u == UuidOf[m]
           f == Frame(m, k + 1)
           total == LengthOf(Chunks[m])
<1>1. /\ u \in Uuid /\ k \in Nat \ {0} /\ k + 1 # FrameCount(m) /\ k + 1 # 1
      /\ k - 1 \in 0..Len(Chunks[m]) /\ (k + 1) - 1 = k
  BY PeerAssumption, CountFacts
<1>2. OnProcess(f) \/ OnStray(f)
  BY ProcessFrame, Branch DEF Type
<1>3. Parse(ProcessFields, f).uuid = u /\ Parse(ProcessFields, f).message = Chunks[m][k]
      /\ Header(f).uuid = u
  <2>1. Parse(ProcessFields, f) = Process(m, k) /\ Header(f).uuid = u
    BY ProcessFrame
  <2>2. Process(m, k).uuid = u /\ Process(m, k).message = Chunks[m][k]
    BY DEF Process
  <2> QED BY <2>1, <2>2
<1>4. contexts[u] # NoContext /\ contexts[u].buffer = Collected(m, k - 1)
      /\ contexts[u].total_length = total
  BY <1>1, HoldingContext
<1>5. Append(contexts[u].buffer, Chunks[m][k]) = Collected(m, k)
  BY <1>4, CollectedFacts
<1>6. OnProcess(f)
  BY <1>2, <1>3, <1>4 DEF OnStray
<1>7. /\ contexts' = [contexts EXCEPT ![u].buffer = Collected(m, k)]
      /\ progress' = [progress EXCEPT ![u] =
                        Append(@, <<"PROCESS", LengthOf(Collected(m, k)), total>>)]
      /\ delivered' = delivered
  BY <1>3, <1>4, <1>5, <1>6 DEF OnProcess
<1>8. Call(m, k + 1) = <<"PROCESS", LengthOf(Collected(m, k)), total>>
  BY <1>1 DEF Call
<1>9. contexts'[u] = Holding(m, k)
  <2>1. contexts'[u] = [contexts[u] EXCEPT !.buffer = Collected(m, k)]
    BY <1>1, <1>7 DEF Transfers
  <2> QED BY <2>1 DEF Holding
<1>10. progress'[u] = Append(progress[u], Call(m, k + 1))
  BY <1>1, <1>7, <1>8 DEF Transfers
<1> QED BY <1>1, <1>7, <1>9, <1>10 DEF OwnEffect

LEMMA EndEffect ==
  ASSUME Transfers, NEW m \in Msg, IsLarge(m), next[m] = FrameCount(m),
         contexts[UuidOf[m]] = Holding(m, Len(Chunks[m])),
         MessageDispatch(Frame(m, FrameCount(m)))
  PROVE  OwnEffect(m)
<1> DEFINE u == UuidOf[m]
           f == Frame(m, FrameCount(m))
           total == LengthOf(Chunks[m])
<1>1. u \in Uuid /\ FrameCount(m) # 1 /\ Len(Chunks[m]) \in 0..Len(Chunks[m])
  BY PeerAssumption, CountFacts
<1>2. OnEnd(f) \/ OnStray(f)
  BY EndFrame, Branch DEF Type
<1>3. Parse(EndFields, f).uuid = u /\ Header(f).uuid = u
  <2>1. Parse(EndFields, f) = End(m) /\ Header(f).uuid = u
    BY EndFrame
  <2>2. End(m).uuid = u
    BY DEF End
  <2> QED BY <2>1, <2>2
<1>4. /\ contexts[u] # NoContext /\ contexts[u].compression = Compression.SNAPPY
      /\ contexts[u].buffer = Chunks[m] /\ contexts[u].total_length = total
  BY <1>1, HoldingContext, CollectedFacts
<1>5. OnEnd(f)
  BY <1>2, <1>3, <1>4 DEF OnStray
<1>6. Decodes(contexts[u].buffer)
  BY <1>4, OwnDecodes
<1>7. /\ OnMessage(u, Decoded(contexts[u].buffer))
      /\ progress' = [progress EXCEPT ![u] = Append(@, <<"END", total, total>>)]
  BY <1>3, <1>4, <1>5, <1>6 DEF OnEnd
<1>8. Decoded(contexts[u].buffer) = Raw[m]
  BY <1>4, OwnDecodes
<1>9. delivered' = Append(delivered, [uuid |-> u, data |-> Raw[m]])
  BY <1>7, <1>8 DEF OnMessage
<1>10. Call(m, FrameCount(m)) = <<"END", total, total>>
  BY <1>1 DEF Call
<1>11. progress'[u] = Append(progress[u], Call(m, FrameCount(m)))
  BY <1>1, <1>7, <1>10 DEF Transfers
<1>12. ~(next[m] < FrameCount(m))
  BY CountFacts
<1> QED BY <1>1, <1>9, <1>11, <1>12 DEF OwnEffect

LEMMA OwnStep ==
  ASSUME TypeInv, TransferInv, NEW m \in Msg, ReceiveFrame(m), up'
  PROVE  /\ OwnEffect(m)
         /\ \A v \in Uuid \ {UuidOf[m]} :
              contexts'[v] = contexts[v] /\ progress'[v] = progress[v]
         /\ FrameSize(Frame(m, next[m])) <= limit
<1> DEFINE i == next[m]
           u == UuidOf[m]
           f == Frame(m, i)
<1>1. /\ up /\ FrameSize(f) <= limit /\ MessageDispatch(f)
      /\ i \in 1..FrameCount(m) /\ i \in Nat \ {0}
      /\ f \in SUBSET WireField /\ IsFiniteSet(f)
      /\ Transfers
  BY OwnNumber, TypeTransfers DEF ReceiveFrame, Take, TooLarge
<1>2. IsLarge(m) /\ i # 1 => contexts[u] = Holding(m, i - 2)
  <2>1. i # 1 => Open(m)
    BY <1>1, CountFacts DEF Open
  <2> QED BY <1>1, <2>1 DEF TransferInv
<1>3. Header(f).uuid = u /\ OwnEffect(m)
  <2>1. CASE ~IsLarge(m)
    <3>1. i = 1 /\ FrameCount(m) = 1
      BY <1>1, <2>1, CountFacts
    <3>2. OnOneshot(f) /\ Header(f).uuid = u /\ Parse(OneshotFields, f).message = Raw[m]
      <4>1. /\ Routed(f, "ONESHOT") /\ Header(f).uuid = u
            /\ Parse(OneshotFields, f) = Oneshot(m) /\ "ONESHOT" \in DOMAIN Type
        BY <2>1, OneshotFrame DEF Type
      <4>2. Oneshot(m).message = Raw[m]
        BY DEF Oneshot
      <4> QED BY <1>1, <4>1, <4>2, Branch
    <3> QED BY <2>1, <3>1, <3>2 DEF OnOneshot, OnMessage, OwnEffect
  <2>2. CASE IsLarge(m) /\ i = 1
    BY <1>1, <2>2, BeginFrame, BeginEffect
  <2>3. CASE IsLarge(m) /\ i # 1 /\ i = FrameCount(m)
    <3>1. i - 2 = Len(Chunks[m])
      BY <2>3, CountFacts
    <3> QED BY <1>1, <1>2, <2>3, <3>1, EndFrame, EndEffect
  <2>4. CASE IsLarge(m) /\ i # 1 /\ i # FrameCount(m)
    <3>1. PICK k \in 1..Len(Chunks[m]) : i = k + 1
      <4>1. i - 1 \in 1..Len(Chunks[m]) /\ i = (i - 1) + 1
        BY <1>1, <2>4, CountFacts
      <4> QED BY <4>1
    <3>2. i - 2 = k - 1
      BY <3>1
    <3> QED BY <1>1, <1>2, <2>4, <3>1, <3>2, ProcessFrame, ProcessEffect
  <2> QED BY <2>1, <2>2, <2>3, <2>4
<1>4. \A v \in Uuid \ {u} : contexts'[v] = contexts[v] /\ progress'[v] = progress[v]
  BY <1>1, <1>3, DispatchEffect
<1> QED BY <1>1, <1>3, <1>4

-----------------------------------------------------------------------------
LEMMA OwnNext ==
  ASSUME TypeInv, NEW m \in Msg, ReceiveFrame(m)
  PROVE  /\ up /\ UNCHANGED <<limit, foreign>>
         /\ next'[m] = next[m] + 1 /\ \A k \in Msg \ {m} : next'[k] = next[k]
         /\ \A k \in Msg \ {m} : UuidOf[k] = UuidOf[m] => ~Open(k)
         /\ next[m] \in 1..FrameCount(m) /\ next[m] \in Nat \ {0}
         /\ up' \/ (up' = FALSE /\ UNCHANGED <<contexts, delivered, progress>>)
<1>1. next[m] \in 1..FrameCount(m) /\ next[m] \in Nat \ {0}
  BY OwnNumber
<1>2. /\ up /\ UNCHANGED <<limit, foreign>>
      /\ \A k \in Msg \ {m} : UuidOf[k] = UuidOf[m] => ~Open(k)
      /\ next' = [next EXCEPT ![m] = @ + 1] /\ Take(Frame(m, next[m]))
  BY DEF ReceiveFrame
<1>3. next'[m] = next[m] + 1 /\ \A k \in Msg \ {m} : next'[k] = next[k]
  BY <1>2 DEF TypeInv, TypeOK
<1>4. up' \/ (up' = FALSE /\ UNCHANGED <<contexts, delivered, progress>>)
  BY <1>2 DEF Take, TooLarge
<1> QED BY <1>1, <1>2, <1>3, <1>4

LEMMA TransferStep == TypeInv /\ TransferInv /\ [Next]_vars => TransferInv'
<1> SUFFICES ASSUME TypeInv, TransferInv, [Next]_vars, up', NEW k \in Msg, Open(k)'
             PROVE  contexts'[UuidOf[k]] = Holding(k, next'[k] - 2)
  BY DEF TransferInv, Holding, Collected
<1>1. ASSUME NEW m \in Msg, ReceiveFrame(m)
      PROVE  contexts'[UuidOf[k]] = Holding(k, next'[k] - 2)
  <2>1. CASE k = m
    <3>1. next'[m] = next[m] + 1 /\ next[m] \in Nat \ {0} /\ next'[m] \in 2..FrameCount(m)
      BY <1>1, <2>1, OwnNext DEF Open, FrameCount, IsLarge
    <3>2. IsLarge(m) /\ next[m] < FrameCount(m) /\ next'[m] - 2 = next[m] - 1
      BY <3>1, CountFacts
    <3> QED BY <1>1, <2>1, <3>2, OwnStep DEF OwnEffect
  <2>2. CASE k # m
    <3>1. next'[k] = next[k] /\ Open(k)
      BY <1>1, <2>2, OwnNext DEF Open, FrameCount, IsLarge
    <3>2. UuidOf[k] \in Uuid \ {UuidOf[m]}
      BY <1>1, <2>2, <3>1, OwnNext, PeerAssumption
    <3>3. contexts'[UuidOf[k]] = contexts[UuidOf[k]] /\ up
      BY <1>1, <3>2, OwnStep, OwnNext
    <3> QED BY <3>1, <3>3 DEF TransferInv
  <2> QED BY <2>1, <2>2
<1>2. ASSUME NEW f \in Foreign, ReceiveForeign(f)
      PROVE  contexts'[UuidOf[k]] = Holding(k, next'[k] - 2)
  <2>1. /\ next' = next /\ up
        /\ contexts'[UuidOf[k]] = contexts[UuidOf[k]]
    BY <1>2, ForeignStep
  <2>2. Open(k)
    BY <2>1 DEF Open, FrameCount, IsLarge
  <2> QED BY <2>1, <2>2 DEF TransferInv
<1>3. CASE UNCHANGED vars
  <2>1. Open(k) /\ up
    BY <1>3 DEF vars, Open, FrameCount, IsLarge
  <2> QED BY <1>3, <2>1 DEF vars, TransferInv
<1> QED BY <1>1, <1>2, <1>3 DEF Next

-----------------------------------------------------------------------------
(* Every frame taken so far was within the limit. *)
Fits(m, n) == \A i \in 1..n : FrameSize(Frame(m, i)) <= limit

FitInv == up => \A m \in Msg : Fits(m, next[m] - 1)

LEMMA FitStep == TypeInv /\ TransferInv /\ FitInv /\ [Next]_vars => FitInv'
<1> SUFFICES ASSUME TypeInv, TransferInv, FitInv, [Next]_vars, up',
                    NEW k \in Msg, NEW i \in 1..(next'[k] - 1)
             PROVE  FrameSize(Frame(k, i)) <= limit'
  BY DEF FitInv, Fits
<1>1. ASSUME NEW m \in Msg, ReceiveFrame(m)
      PROVE  FrameSize(Frame(k, i)) <= limit'
  <2>1. /\ up /\ limit' = limit /\ next'[m] = next[m] + 1 /\ next[m] \in Nat \ {0}
        /\ \A j \in Msg \ {m} : next'[j] = next[j]
    BY <1>1, OwnNext
  <2>2. CASE k = m /\ i = next[m]
    BY <1>1, <2>1, <2>2, OwnStep
  <2>3. CASE k # m \/ i # next[m]
    <3>1. i \in 1..(next[k] - 1)
      BY <2>1, <2>3
    <3> QED BY <2>1, <3>1 DEF FitInv, Fits
  <2> QED BY <2>2, <2>3
<1>2. ASSUME NEW f \in Foreign, ReceiveForeign(f)
      PROVE  FrameSize(Frame(k, i)) <= limit'
  <2>1. next' = next /\ limit' = limit /\ up
    BY <1>2, ForeignStep
  <2> QED BY <2>1 DEF FitInv, Fits
<1>3. CASE UNCHANGED vars
  BY <1>3 DEF vars, FitInv, Fits
<1> QED BY <1>1, <1>2, <1>3 DEF Next

-----------------------------------------------------------------------------
(* What on_message gets. *)
Delivery == [uuid : Uuid, data : Bytes]

Mine(m) == [uuid |-> UuidOf[m], data |-> Raw[m]]

LEMMA DeliverOne ==
  ASSUME TypeOK, NEW d \in Delivery, delivered' = Append(delivered, d)
  PROVE  /\ Len(delivered) \in Nat
         /\ DOMAIN delivered = 1..Len(delivered)
         /\ DOMAIN delivered' = (1..Len(delivered)) \cup {Len(delivered) + 1}
         /\ delivered'[Len(delivered) + 1] = d
         /\ \A i \in 1..Len(delivered) : delivered'[i] = delivered[i]
<1>1. delivered \in Seq(Delivery)
  BY DEF TypeOK, Delivery
<1>2. /\ Len(delivered) \in Nat /\ DOMAIN delivered = 1..Len(delivered)
      /\ delivered' \in Seq(Delivery) /\ Len(delivered') = Len(delivered) + 1
      /\ delivered'[Len(delivered) + 1] = d
      /\ \A i \in 1..Len(delivered) : delivered'[i] = delivered[i]
  BY <1>1, LenProperties, AppendProperties
<1>3. DOMAIN delivered' = 1..(Len(delivered) + 1)
  BY <1>2, LenProperties
<1> QED BY <1>2, <1>3

LEMMA DeliveriesStep ==
  ASSUME TypeOK, NEW d \in Delivery, delivered' = Append(delivered, d), NEW m \in Msg
  PROVE  /\ Deliveries(m)' = Deliveries(m) \cup {i \in {Len(delivered) + 1} : d = Mine(m)}
         /\ Len(delivered) + 1 \notin Deliveries(m)
<1>1. /\ Len(delivered) \in Nat
      /\ Deliveries(m) = {i \in 1..Len(delivered) : delivered[i] = Mine(m)}
      /\ Deliveries(m)' = {i \in (1..Len(delivered)) \cup {Len(delivered) + 1} :
                             delivered'[i] = Mine(m)}
      /\ delivered'[Len(delivered) + 1] = d
      /\ \A i \in 1..Len(delivered) : delivered'[i] = delivered[i]
  BY DeliverOne DEF Deliveries, Mine
<1> QED BY <1>1

LEMMA DeliveriesFinite ==
  ASSUME TypeOK, NEW m \in Msg
  PROVE  IsFiniteSet(Deliveries(m)) /\ Cardinality(Deliveries(m)) \in Nat
<1>1. DOMAIN delivered = 1..Len(delivered) /\ Len(delivered) \in Nat
  BY LenProperties DEF TypeOK
<1>2. IsFiniteSet(1..Len(delivered)) /\ Deliveries(m) \subseteq 1..Len(delivered)
  BY <1>1, FS_Interval DEF Deliveries
<1> QED BY <1>2, FS_Subset, FS_CardinalityType

LEMMA CompletedFinite ==
  ASSUME NEW m \in Msg
  PROVE  IsFiniteSet(Completed(m)) /\ Cardinality(Completed(m)) \in Nat
<1>1. Completed(m) \subseteq Msg
  BY DEF Completed
<1> QED BY <1>1, PeerAssumption, FS_Subset, FS_CardinalityType

LEMMA CompletedStep ==
  ASSUME TypeInv, NEW k \in Msg, ReceiveFrame(k), NEW m \in Msg
  PROVE  /\ Completed(m)' = Completed(m) \cup
                              {j \in {k} : Alike(k, m) /\ next[k] = FrameCount(k)}
         /\ k \notin Completed(m)
<1>1. /\ next'[k] = next[k] + 1 /\ \A j \in Msg \ {k} : next'[j] = next[j]
      /\ next[k] \in Nat /\ next[k] <= FrameCount(k) /\ FrameCount(k) \in Nat
  <2>1. /\ next'[k] = next[k] + 1 /\ \A j \in Msg \ {k} : next'[j] = next[j]
        /\ next[k] \in 1..FrameCount(k)
    BY OwnNext
  <2>2. FrameCount(k) \in Nat
    BY CountFacts
  <2> QED BY <2>1, <2>2
<1>2. ~Done(k) /\ (Done(k)' <=> next[k] = FrameCount(k))
  BY <1>1 DEF Done, FrameCount, IsLarge
<1>3. \A j \in Msg \ {k} : Done(j)' <=> Done(j)
  BY <1>1 DEF Done, FrameCount, IsLarge
<1> QED BY <1>2, <1>3 DEF Completed, Alike

CountInv == up => \A m \in Msg : Cardinality(Deliveries(m)) = Cardinality(Completed(m))

LEMMA CountStep == TypeInv /\ TransferInv /\ CountInv /\ [Next]_vars => CountInv'
<1> SUFFICES ASSUME TypeInv, TransferInv, CountInv, [Next]_vars, up', NEW m \in Msg
             PROVE  Cardinality(Deliveries(m)') = Cardinality(Completed(m)')
  BY DEF CountInv
<1>1. ASSUME NEW k \in Msg, ReceiveFrame(k)
      PROVE  Cardinality(Deliveries(m)') = Cardinality(Completed(m)')
  <2>1. /\ up /\ Cardinality(Deliveries(m)) = Cardinality(Completed(m))
        /\ k \notin Completed(m)
        /\ IsFiniteSet(Completed(m)) /\ IsFiniteSet(Deliveries(m))
    BY <1>1, OwnNext, CompletedStep, CompletedFinite, DeliveriesFinite DEF CountInv, TypeInv
  <2>2. CASE next[k] # FrameCount(k)
    <3>1. Completed(m)' = Completed(m)
      BY <1>1, <2>2, CompletedStep
    <3>2. delivered' = delivered
      BY <1>1, <2>2, OwnStep DEF OwnEffect
    <3> QED BY <2>1, <3>1, <3>2 DEF Deliveries
  <2>3. CASE next[k] = FrameCount(k)
    <3>1. Mine(k) \in Delivery /\ delivered' = Append(delivered, Mine(k))
      BY <1>1, <2>3, OwnStep, PeerAssumption DEF OwnEffect, Mine, Delivery
    <3>2. Mine(k) = Mine(m) <=> Alike(k, m)
      BY DEF Mine, Alike
    <3>3. /\ Deliveries(m)' = Deliveries(m) \cup {i \in {Len(delivered) + 1} : Alike(k, m)}
          /\ Len(delivered) + 1 \notin Deliveries(m)
      BY <3>1, <3>2, DeliveriesStep DEF TypeInv
    <3>4. Completed(m)' = Completed(m) \cup {j \in {k} : Alike(k, m)}
      BY <1>1, <2>3, CompletedStep
    <3>5. CASE Alike(k, m)
      <4>1. /\ Deliveries(m)' = Deliveries(m) \cup {Len(delivered) + 1}
            /\ Completed(m)' = Completed(m) \cup {k}
        BY <3>3, <3>4, <3>5
      <4>2. /\ Cardinality(Deliveries(m)') = Cardinality(Deliveries(m)) + 1
            /\ Cardinality(Completed(m)') = Cardinality(Completed(m)) + 1
        BY <2>1, <3>3, <4>1, FS_AddElement
      <4> QED BY <2>1, <4>2
    <3>6. CASE ~Alike(k, m)
      <4>1. Deliveries(m)' = Deliveries(m) /\ Completed(m)' = Completed(m)
        BY <3>3, <3>4, <3>6
      <4> QED BY <2>1, <4>1
    <3> QED BY <3>5, <3>6
  <2> QED BY <2>2, <2>3
<1>2. ASSUME NEW f \in Foreign, ReceiveForeign(f)
      PROVE  Cardinality(Deliveries(m)') = Cardinality(Completed(m)')
  <2>1. next' = next /\ up
    BY <1>2, ForeignStep
  <2>2. Completed(m)' = Completed(m)
    BY <2>1 DEF Completed, Alike, Done, FrameCount, IsLarge
  <2>3. Deliveries(m)' = Deliveries(m)
    <3>1. CASE delivered' = delivered
      BY <3>1 DEF Deliveries
    <3>2. CASE \E u \in Uuid, data \in Bytes :
                 /\ delivered' = Append(delivered, [uuid |-> u, data |-> data])
                 /\ \A k \in Msg : u # UuidOf[k]
      <4>1. PICK u \in Uuid, data \in Bytes :
                 /\ delivered' = Append(delivered, [uuid |-> u, data |-> data])
                 /\ \A k \in Msg : u # UuidOf[k]
        BY <3>2
      <4>2. [uuid |-> u, data |-> data] \in Delivery /\ [uuid |-> u, data |-> data] # Mine(m)
        BY <4>1 DEF Mine, Delivery
      <4> QED BY <4>1, <4>2, DeliveriesStep DEF TypeInv
    <3> QED BY <1>2, <3>1, <3>2, ForeignStep
  <2> QED BY <2>1, <2>2, <2>3 DEF CountInv
<1>3. CASE UNCHANGED vars
  <2>1. /\ Deliveries(m)' = Deliveries(m) /\ up
        /\ Completed(m)' = Completed(m)
    BY <1>3 DEF vars, Deliveries, Completed, Alike, Done, FrameCount, IsLarge
  <2> QED BY <2>1 DEF CountInv
<1> QED BY <1>1, <1>2, <1>3 DEF Next

-----------------------------------------------------------------------------
(* What is delivered under the uuid of a message is a message of the peer all *)
(* of whose frames were within the limit.                                     *)
OriginInv ==
  \A i \in DOMAIN delivered : \A m \in Msg :
    delivered[i].uuid = UuidOf[m] =>
      \E k \in Msg : delivered[i] = Mine(k) /\ UuidOf[k] = UuidOf[m] /\ Fits(k, FrameCount(k))

LEMMA OriginAppend ==
  ASSUME TypeOK, OriginInv, limit' = limit, NEW d \in Delivery, delivered' = Append(delivered, d),
         \A m \in Msg : d.uuid = UuidOf[m] =>
           \E k \in Msg : d = Mine(k) /\ UuidOf[k] = UuidOf[m] /\ Fits(k, FrameCount(k))
  PROVE  OriginInv'
<1> SUFFICES ASSUME NEW i \in DOMAIN delivered', NEW m \in Msg, delivered'[i].uuid = UuidOf[m]
             PROVE  \E k \in Msg : /\ delivered'[i] = Mine(k) /\ UuidOf[k] = UuidOf[m]
                                   /\ Fits(k, FrameCount(k))
  BY DEF OriginInv, Mine, Fits
<1>1. CASE i \in DOMAIN delivered
  BY <1>1, DeliverOne DEF OriginInv
<1>2. CASE i \notin DOMAIN delivered
  <2>1. delivered'[i] = d
    BY <1>2, DeliverOne
  <2> QED BY <2>1
<1> QED BY <1>1, <1>2

LEMMA OriginSame ==
  ASSUME OriginInv, UNCHANGED <<limit, delivered>>
  PROVE  OriginInv'
BY DEF OriginInv, Mine, Fits

LEMMA OriginStep == TypeInv /\ TransferInv /\ FitInv /\ OriginInv /\ [Next]_vars => OriginInv'
<1> SUFFICES ASSUME TypeInv, TransferInv, FitInv, OriginInv, [Next]_vars PROVE OriginInv'
  OBVIOUS
<1>1. ASSUME NEW m \in Msg, ReceiveFrame(m) PROVE OriginInv'
  <2>1. up /\ limit' = limit /\ next[m] \in 1..FrameCount(m)
    BY <1>1, OwnNext
  <2>2. CASE delivered' = delivered
    BY <2>1, <2>2, OriginSame
  <2>3. CASE up' /\ next[m] = FrameCount(m)
    <3>1. delivered' = Append(delivered, Mine(m)) /\ Mine(m) \in Delivery
      BY <1>1, <2>3, OwnStep, PeerAssumption DEF OwnEffect, Mine, Delivery
    <3>2. Fits(m, FrameCount(m))
      <4>1. \A i \in 1..(next[m] - 1) : FrameSize(Frame(m, i)) <= limit
        BY <2>1 DEF FitInv, Fits
      <4>2. FrameSize(Frame(m, next[m])) <= limit
        BY <1>1, <2>3, OwnStep
      <4>3. \A i \in 1..FrameCount(m) : i \in 1..(next[m] - 1) \/ i = next[m]
        BY <2>3, CountFacts
      <4> QED BY <4>1, <4>2, <4>3 DEF Fits
    <3>3. \A k \in Msg : Mine(m).uuid = UuidOf[k] => UuidOf[m] = UuidOf[k]
      BY DEF Mine
    <3> QED BY <2>1, <3>1, <3>2, <3>3, OriginAppend DEF TypeInv
  <2>4. delivered' = delivered \/ (up' /\ next[m] = FrameCount(m))
    <3>1. up' => next[m] = FrameCount(m) \/ delivered' = delivered
      BY <1>1, OwnStep DEF OwnEffect
    <3>2. ~up' => delivered' = delivered
      BY <1>1, OwnNext
    <3> QED BY <3>1, <3>2
  <2> QED BY <2>2, <2>3, <2>4
<1>2. ASSUME NEW f \in Foreign, ReceiveForeign(f) PROVE OriginInv'
  <2>1. limit' = limit
    BY <1>2, ForeignStep
  <2>2. CASE delivered' = delivered
    BY <2>1, <2>2, OriginSame
  <2>3. CASE \E u \in Uuid, data \in Bytes :
               /\ delivered' = Append(delivered, [uuid |-> u, data |-> data])
               /\ \A k \in Msg : u # UuidOf[k]
    <3>1. PICK u \in Uuid, data \in Bytes :
               /\ delivered' = Append(delivered, [uuid |-> u, data |-> data])
               /\ \A k \in Msg : u # UuidOf[k]
      BY <2>3
    <3>2. [uuid |-> u, data |-> data] \in Delivery
      BY DEF Delivery
    <3> QED BY <2>1, <3>1, <3>2, OriginAppend DEF TypeInv
  <2> QED BY <1>2, <2>2, <2>3, ForeignStep
<1>3. CASE UNCHANGED vars
  BY <1>3, OriginSame DEF vars
<1> QED BY <1>1, <1>2, <1>3 DEF Next

-----------------------------------------------------------------------------
(* The calls of on_progress since the BEGIN of the latest transfer. *)
ProgressInv ==
  up => \A m \in Msg : LatestTransfer(m) =>
    /\ Len(progress[UuidOf[m]]) = next[m] - 1
    /\ \A i \in 1..(next[m] - 1) : progress[UuidOf[m]][i] = Call(m, i)

LEMMA CallType ==
  ASSUME NEW m \in Msg, NEW i \in 1..FrameCount(m), IsLarge(m)
  PROVE  Call(m, i) \in Calls
<1>1. LengthOf(Chunks[m]) \in Nat
  BY CollectedLength
<1>2. CASE i = 1
  BY <1>1, <1>2 DEF Call, Calls
<1>3. CASE i # 1 /\ i = FrameCount(m)
  BY <1>1, <1>3 DEF Call, Calls
<1>4. CASE i # 1 /\ i # FrameCount(m)
  <2>1. i - 1 \in 0..Len(Chunks[m])
    BY <1>4, CountFacts
  <2>2. LengthOf(Collected(m, i - 1)) \in Nat
    BY <2>1, CollectedLength
  <2> QED BY <1>1, <1>4, <2>2 DEF Call, Calls
<1> QED BY <1>2, <1>3, <1>4

LEMMA ProgressStep == TypeInv /\ TransferInv /\ ProgressInv /\ [Next]_vars => ProgressInv'
<1> SUFFICES ASSUME TypeInv, TransferInv, ProgressInv, [Next]_vars, up',
                    NEW m \in Msg, LatestTransfer(m)'
             PROVE  /\ Len(progress'[UuidOf[m]]) = next'[m] - 1
                    /\ \A i \in 1..(next'[m] - 1) : progress'[UuidOf[m]][i] = Call(m, i)
  BY DEF ProgressInv, Call, Collected, FrameCount, IsLarge
<1> DEFINE u == UuidOf[m]
<1>0. /\ IsLarge(m) /\ next'[m] > 1
      /\ \A k \in Msg \ {m} : IsLarge(k) /\ UuidOf[k] = u => next'[k] = 1
      /\ u \in Uuid
      /\ progress \in [Uuid -> Seq(Calls)]
      /\ next \in [Msg -> Nat \ {0}]
  BY PeerAssumption DEF LatestTransfer, IsLarge, TypeInv, TypeOK, Calls
<1>1. ASSUME next' = next, up, progress'[u] = progress[u]
      PROVE  /\ Len(progress'[u]) = next'[m] - 1
             /\ \A i \in 1..(next'[m] - 1) : progress'[u][i] = Call(m, i)
  BY <1>0, <1>1 DEF ProgressInv, LatestTransfer
<1>2. ASSUME NEW k \in Msg, ReceiveFrame(k)
      PROVE  /\ Len(progress'[u]) = next'[m] - 1
             /\ \A i \in 1..(next'[m] - 1) : progress'[u][i] = Call(m, i)
  <2>1. /\ up /\ next'[k] = next[k] + 1 /\ \A j \in Msg \ {k} : next'[j] = next[j]
        /\ next[k] \in 1..FrameCount(k) /\ next[k] \in Nat \ {0}
    BY <1>2, OwnNext
  <2>2. /\ progress'[UuidOf[k]] = IF ~IsLarge(k) THEN progress[UuidOf[k]]
                                  ELSE IF next[k] = 1 THEN <<Call(k, 1)>>
                                  ELSE Append(progress[UuidOf[k]], Call(k, next[k]))
        /\ \A v \in Uuid \ {UuidOf[k]} : progress'[v] = progress[v]
    BY <1>2, OwnStep DEF OwnEffect
  <2>3. CASE k # m
    <3>1. UuidOf[k] # u \/ ~IsLarge(k)
      BY <1>0, <2>1, <2>3
    <3>2. progress'[u] = progress[u]
      BY <1>0, <2>2, <3>1
    <3>3. next'[m] = next[m] /\ LatestTransfer(m)
      <4>1. \A j \in Msg \ {m} : IsLarge(j) /\ UuidOf[j] = u => next[j] = 1
        BY <1>0, <2>1, <3>1
      <4> QED BY <1>0, <2>1, <2>3, <4>1 DEF LatestTransfer
    <3> QED BY <2>1, <3>2, <3>3 DEF ProgressInv
  <2>4. CASE k = m /\ next[m] = 1
    <3>1. progress'[u] = <<Call(m, 1)>> /\ next'[m] - 1 = 1
      BY <1>0, <2>1, <2>2, <2>4
    <3> QED BY <3>1
  <2>5. CASE k = m /\ next[m] # 1
    <3> DEFINE n == next[m]
               calls == progress[u]
               call == Call(m, n)
    <3>1. LatestTransfer(m)
      BY <1>0, <2>1, <2>5 DEF LatestTransfer
    <3>2. Len(calls) = n - 1 /\ \A i \in 1..(n - 1) : calls[i] = Call(m, i)
      BY <2>1, <3>1 DEF ProgressInv
    <3>3. calls \in Seq(Calls) /\ call \in Calls /\ n \in Nat \ {0}
      BY <1>0, <2>1, <2>5, CallType
    <3>4. progress'[u] = Append(calls, call) /\ next'[m] - 1 = n
      <4>1. progress'[u] = Append(calls, call)
        BY <1>0, <2>2, <2>5
      <4>2. next'[m] = n + 1
        BY <2>1, <2>5
      <4> QED BY <3>3, <4>1, <4>2
    <3>5. /\ Len(Append(calls, call)) = Len(calls) + 1
          /\ \A i \in 1..Len(calls) : Append(calls, call)[i] = calls[i]
          /\ Append(calls, call)[Len(calls) + 1] = call
      BY <3>3, AppendProperties
    <3>6. \A i \in 1..n : Append(calls, call)[i] = Call(m, i)
      <4> SUFFICES ASSUME NEW i \in 1..n PROVE Append(calls, call)[i] = Call(m, i)
        OBVIOUS
      <4>1. CASE i = n
        <5>1. Len(calls) + 1 = n
          BY <3>2, <3>3
        <5> QED BY <3>5, <4>1, <5>1
      <4>2. CASE i # n
        <5>1. i \in 1..(n - 1) /\ i \in 1..Len(calls)
          BY <3>2, <3>3, <4>2
        <5> QED BY <3>2, <3>5, <5>1
      <4> QED BY <4>1, <4>2
    <3>7. Len(calls) + 1 = n
      BY <3>2, <3>3
    <3> QED BY <3>4, <3>5, <3>6, <3>7
  <2> QED BY <2>3, <2>4, <2>5
<1>3. ASSUME NEW f \in Foreign, ReceiveForeign(f)
      PROVE  next' = next /\ up /\ progress'[u] = progress[u]
  BY <1>3, ForeignStep
<1>4. CASE UNCHANGED vars
  BY <1>1, <1>4 DEF vars
<1> QED BY <1>1, <1>2, <1>3, <1>4 DEF Next

-----------------------------------------------------------------------------
(* A chunk or message of the bandwidth makes a longer frame. *)
LEMMA FieldFits ==
  ASSUME NEW schema \in Schemas, NEW message \in Messages(schema), NEW n \in DOMAIN schema,
         schema[n].kind = "bytes", message[n] # Empty, Sized(Encode(schema, message))
  PROVE  ByteLen[message[n]] < FrameSize(Encode(schema, message))
<1> DEFINE f == Encode(schema, message)
           l == ByteLen[message[n]]
<1>1. n \in Written(schema, message)
  BY DEF Written, Default
<1>2. FieldOf(schema, message, n) \in f
  BY <1>1, EncodedFields
<1>3. message[n] \in Bytes
  BY DEF Messages, Values
<1>4. l \in Nat /\ varint[l] \in Nat
  BY <1>3, BytesAssumption, VarintNat
<1>5. FieldSize(FieldOf(schema, message, n)) = 1 + (varint[l] + l)
  BY BytesSize
<1>6. 1 + (varint[l] + l) <= FrameSize(f) /\ FrameSize(f) \in Nat
  BY <1>2, <1>5, FrameSizeAtLeast, FrameSizeNat
<1> DEFINE v == varint[l]
<1>7. l \in Nat /\ v \in Nat /\ 1 + (v + l) <= FrameSize(f) /\ FrameSize(f) \in Nat
  BY <1>4, <1>6
<1> HIDE DEF f, l, v
<1>8. l < FrameSize(f)
  BY <1>7
<1> QED BY <1>8 DEF f, l

LEMMA FullFrame ==
  ASSUME NEW m \in Msg, Full(m)
  PROVE  \E i \in 1..FrameCount(m) : FrameSize(Frame(m, i)) > Bandwidth
<1>1. \A i \in 1..FrameCount(m) : Sized(Frame(m, i)) /\ FrameSize(Frame(m, i)) \in Nat
  BY FrameFits
<1>2. Bandwidth \in Nat /\ OneshotFields \in Schemas /\ ProcessFields \in Schemas
  BY BoundAssumption DEF Schemas
<1>3. CASE ~IsLarge(m) /\ ByteLen[Raw[m]] = Bandwidth
  <2> DEFINE f == Frame(m, 1)
  <2>1. /\ f = Encode(OneshotFields, Oneshot(m)) /\ Oneshot(m) \in Messages(OneshotFields)
        /\ 1 \in 1..FrameCount(m)
    BY <1>3, OneshotFrame, Typed, CountFacts
  <2>2. /\ "uuid" \in DOMAIN OneshotFields /\ OneshotFields["uuid"].kind = "bytes"
        /\ "message" \in DOMAIN OneshotFields /\ OneshotFields["message"].kind = "bytes"
        /\ Oneshot(m)["uuid"] = UuidOf[m] /\ Oneshot(m)["message"] = Raw[m]
    BY DEF OneshotFields, Field, Oneshot
  <2>3. CASE Raw[m] # Empty
    <3>1. Bandwidth < FrameSize(f)
      BY <1>1, <1>2, <1>3, <2>1, <2>2, <2>3, FieldFits
    <3> QED BY <1>1, <1>2, <2>1, <3>1
  <2>4. CASE Raw[m] = Empty
    <3>1. UuidOf[m] # Empty /\ ByteLen[UuidOf[m]] = 16
      BY PeerAssumption, BytesAssumption DEF Uuid
    <3>2. 16 < FrameSize(f)
      BY <1>1, <1>2, <2>1, <2>2, <3>1, FieldFits
    <3>3. Bandwidth = 0
      BY <1>3, <2>4, BytesAssumption
    <3> QED BY <1>1, <2>1, <3>2, <3>3
  <2> QED BY <2>3, <2>4
<1>4. CASE \E k \in 1..Len(Chunks[m]) : ByteLen[Chunks[m][k]] = Bandwidth
  <2>1. PICK k \in 1..Len(Chunks[m]) : ByteLen[Chunks[m][k]] = Bandwidth
    BY <1>4
  <2>2. IsLarge(m) /\ k + 1 \in 1..FrameCount(m) /\ Chunks[m][k] # Empty
    <3>1. IsLarge(m) /\ Chunks[m][k] \in Bytes /\ ByteLen[Chunks[m][k]] # 0
      BY ChunkTypes
    <3> QED BY <3>1, CountFacts, BytesAssumption
  <2> DEFINE f == Frame(m, k + 1)
  <2>3. f = Encode(ProcessFields, Process(m, k)) /\ Process(m, k) \in Messages(ProcessFields)
    BY <2>2, ProcessFrame, Typed
  <2>4. /\ "message" \in DOMAIN ProcessFields /\ ProcessFields["message"].kind = "bytes"
        /\ Process(m, k)["message"] = Chunks[m][k]
    BY DEF ProcessFields, Field, Process
  <2>5. Bandwidth < FrameSize(f)
    BY <1>1, <1>2, <2>1, <2>2, <2>3, <2>4, FieldFits
  <2> QED BY <1>1, <1>2, <2>2, <2>5
<1>5. \/ ~IsLarge(m) /\ ByteLen[Raw[m]] = Bandwidth
      \/ \E k \in 1..Len(Chunks[m]) : ByteLen[Chunks[m][k]] = Bandwidth
  <2>1. PICK b \in {Raw[m]} \cup Range(Chunks[m]) :
          ByteLen[b] = Bandwidth /\ (b = Raw[m] => ~IsLarge(m))
    BY DEF Full
  <2>2. b = Raw[m] \/ \E k \in 1..Len(Chunks[m]) : b = Chunks[m][k]
    BY <2>1, ChunkTypes DEF Range
  <2> QED BY <2>1, <2>2
<1> QED BY <1>3, <1>4, <1>5

RoomInv ==
  limit >= Bandwidth + HeaderRoom /\ (\A f \in Foreign : FrameSize(f) <= limit) => up

LEMMA RoomStep == TypeInv /\ RoomInv /\ [Next]_vars => RoomInv'
<1> SUFFICES ASSUME TypeInv, [Next]_vars, limit >= Bandwidth + HeaderRoom, up,
                    \A f \in Foreign : FrameSize(f) <= limit, limit' = limit
             PROVE  up'
  <2>1. [Next]_vars /\ TypeInv => limit' = limit
    <3>1. ASSUME NEW m \in Msg, ReceiveFrame(m) PROVE limit' = limit
      BY <3>1 DEF ReceiveFrame
    <3>2. ASSUME NEW f \in Foreign, ReceiveForeign(f) PROVE limit' = limit
      BY <3>2 DEF ReceiveForeign
    <3> QED BY <3>1, <3>2 DEF Next, vars
  <2> QED BY <2>1 DEF RoomInv
<1>1. limit \in Nat /\ Bandwidth \in Nat
  BY BoundAssumption DEF TypeInv, TypeOK
<1>2. ASSUME NEW m \in Msg, ReceiveFrame(m) PROVE up'
  <2>1. Take(Frame(m, next[m])) /\ next[m] \in 1..FrameCount(m)
    BY <1>2, OwnNext DEF ReceiveFrame
  <2>2. /\ FrameSize(Frame(m, next[m])) \in Nat /\ HeaderRoom \in Nat
        /\ FrameSize(Frame(m, next[m])) <= Bandwidth + HeaderRoom
    BY <2>1, FrameFits
  <2>3. ~(FrameSize(Frame(m, next[m])) > limit)
    BY <1>1, <2>2
  <2> QED BY <2>1, <2>3 DEF Take, TooLarge
<1>3. ASSUME NEW f \in Foreign, ReceiveForeign(f) PROVE up'
  <2>1. FrameSize(f) \in Nat
    <3>1. IsFiniteSet(f) /\ f \in SUBSET WireField
      BY ForeignAssumption
    <3>2. \A g \in f : FieldSize(g) \in Nat
      BY <3>1, BytesAssumption, VarintNat DEF FieldSize, WireField
    <3> QED BY <3>1, <3>2, FrameSizeNat DEF Sized
  <2>2. ~(FrameSize(f) > limit)
    BY <1>1, <2>1
  <2> QED BY <1>3, <2>2 DEF ReceiveForeign, Take, TooLarge
<1>4. CASE UNCHANGED vars
  BY <1>4 DEF vars
<1> QED BY <1>2, <1>3, <1>4 DEF Next

-----------------------------------------------------------------------------
ReceiverInv ==
  TypeInv /\ TransferInv /\ FitInv /\ CountInv /\ OriginInv /\ ProgressInv /\ RoomInv

LEMMA ReceiverStart == Init => ReceiverInv
<1> SUFFICES ASSUME Init PROVE ReceiverInv
  OBVIOUS
<1>1. TypeInv
  BY TypeStart
<1>2. \A m \in Msg : next[m] = 1 /\ FrameCount(m) \in Nat \ {0}
  BY CountFacts DEF Init
<1>3. TransferInv
  BY <1>2 DEF TransferInv, Open
<1>4. FitInv
  BY <1>2 DEF FitInv, Fits
<1>5. CountInv
  <2>1. \A m \in Msg : Deliveries(m) = {} /\ Completed(m) = {}
    BY <1>2 DEF Init, Deliveries, Completed, Done
  <2> QED BY <2>1 DEF CountInv
<1>6. OriginInv
  BY DEF Init, OriginInv
<1>7. ProgressInv
  BY <1>2 DEF ProgressInv, LatestTransfer
<1>8. RoomInv
  BY DEF Init, RoomInv
<1> QED BY <1>1, <1>3, <1>4, <1>5, <1>6, <1>7, <1>8 DEF ReceiverInv

LEMMA ReceiverInvariant == Spec => []ReceiverInv
<1>1. ReceiverInv /\ [Next]_vars => ReceiverInv'
  BY TypeStep, TransferStep, FitStep, CountStep, OriginStep, ProgressStep, RoomStep
     DEF ReceiverInv
<1> QED BY <1>1, ReceiverStart, PTL DEF Spec

(* For any number of messages, in any conversations, of any sizes and with    *)
(* any frames of others between theirs: while the read half lives, on_message *)
(* has got every message as often as it was sent whole, and what it gets with *)
(* the uuid of a conversation is always a message of that conversation.       *)
THEOREM ReceiverDeliversExactly == Spec => []DeliveredExactly
<1>1. ReceiverInv => DeliveredExactly
  <2> SUFFICES ASSUME ReceiverInv PROVE DeliveredExactly
    OBVIOUS
  <2>1. up => \A m \in Msg : Cardinality(Deliveries(m)) = Cardinality(Completed(m))
    BY DEF ReceiverInv, CountInv
  <2>2. ASSUME NEW i \in DOMAIN delivered, NEW m \in Msg, delivered[i].uuid = UuidOf[m]
        PROVE  \E k \in Msg : i \in Deliveries(k)
    BY <2>2 DEF ReceiverInv, OriginInv, Mine, Deliveries
  <2> QED BY <2>1, <2>2 DEF DeliveredExactly
<1> QED BY <1>1, ReceiverInvariant, PTL

LEMMA CallsCount ==
  ASSUME NEW m \in Msg, IsLarge(m), NEW i \in 2..FrameCount(m)
  PROVE  /\ Call(m, i)[1] = (IF i = FrameCount(m) THEN "END" ELSE "PROCESS")
         /\ Call(m, i)[3] = LengthOf(Chunks[m])
         /\ Call(m, i - 1)[2] <= Call(m, i)[2]
         /\ Call(m, i)[2] = LengthOf(Chunks[m]) <=> i >= FrameCount(m) - 1
<1> DEFINE total == LengthOf(Chunks[m])
           l == Len(Chunks[m])
           At(k) == LengthOf(Collected(m, k))
<1>1. /\ FrameCount(m) = l + 2 /\ l \in Nat \ {0} /\ i \in Nat /\ i # 1
      /\ i - 1 \in Nat \ {0} /\ i - 1 # FrameCount(m)
  BY CountFacts
<1>2. total \in Nat /\ \A k \in 0..l : At(k) \in Nat /\ At(k) <= total /\ (At(k) = total <=> k = l)
  BY CollectedLength, CollectedShorter
<1>3. \A k \in 1..l : At(k - 1) < At(k)
  BY CollectedLength
<1>4. /\ Call(m, i)[1] = (IF i = FrameCount(m) THEN "END" ELSE "PROCESS")
      /\ Call(m, i)[3] = total
      /\ Call(m, i)[2] = IF i = FrameCount(m) THEN total ELSE At(i - 1)
      /\ Call(m, i - 1)[2] = IF i - 1 = 1 THEN 0 ELSE At((i - 1) - 1)
  BY <1>1 DEF Call
<1> HIDE DEF At, total, l
<1>5. Call(m, i)[2] = total <=> i >= FrameCount(m) - 1
  <2>1. CASE i = FrameCount(m)
    BY <1>1, <1>4, <2>1
  <2>2. CASE i # FrameCount(m)
    <3>1. i - 1 \in 0..l
      BY <1>1, <2>2
    <3> QED BY <1>1, <1>2, <1>4, <2>2, <3>1
  <2> QED BY <2>1, <2>2
<1>6. Call(m, i - 1)[2] <= Call(m, i)[2]
  <2>1. (i - 1) - 1 \in 0..l
    BY <1>1
  <2>2. CASE i = FrameCount(m)
    BY <1>2, <1>4, <2>1, <2>2
  <2>3. CASE i # FrameCount(m)
    <3>1. i - 1 \in 1..l /\ i - 1 \in 0..l
      BY <1>1, <2>3
    <3>2. At((i - 1) - 1) < At(i - 1) /\ At((i - 1) - 1) \in Nat /\ At(i - 1) \in Nat
      BY <1>2, <1>3, <2>1, <3>1
    <3> QED BY <1>4, <2>3, <3>2
  <2> QED BY <2>2, <2>3
<1> QED BY <1>4, <1>5, <1>6 DEF total

(* For any chunks, of any lengths: on_progress counts the bytes of a          *)
(* transfer from 0 upwards, never beyond the total of its BEGIN; the last     *)
(* chunk, and no earlier one, reaches it, and END repeats it.                 *)
THEOREM ReceiverProgressCounts == Spec => []ProgressCounts
<1>1. ReceiverInv => ProgressCounts
  <2> SUFFICES ASSUME ReceiverInv, up, NEW m \in Msg, LatestTransfer(m)
               PROVE  LET calls == progress[UuidOf[m]]
                          total == LengthOf(Chunks[m])
                          n     == Len(calls)
                      IN  /\ n = next[m] - 1
                          /\ calls[1] = <<"BEGIN", 0, total>>
                          /\ \A i \in 2..n :
                               /\ calls[i][1] = (IF i = FrameCount(m) THEN "END" ELSE "PROCESS")
                               /\ calls[i][3] = total
                               /\ calls[i - 1][2] <= calls[i][2]
                               /\ calls[i][2] = total <=> i >= FrameCount(m) - 1
    BY DEF ProgressCounts
  <2> DEFINE calls == progress[UuidOf[m]]
             n == Len(calls)
  <2>1. /\ n = next[m] - 1 /\ \A i \in 1..n : calls[i] = Call(m, i)
        /\ IsLarge(m) /\ next[m] > 1
    BY DEF ReceiverInv, ProgressInv, LatestTransfer
  <2>2. next[m] \in 1..(FrameCount(m) + 1) /\ FrameCount(m) \in Nat
    BY CountFacts DEF ReceiverInv, TypeInv, NextInv
  <2> HIDE DEF calls, n
  <2>3. n \in Nat \ {0} /\ n <= FrameCount(m)
    BY <2>1, <2>2
  <2>4. calls[1] = <<"BEGIN", 0, LengthOf(Chunks[m])>>
    <3>1. 1 \in 1..n
      BY <2>3
    <3>2. calls[1] = Call(m, 1)
      BY <2>1, <3>1
    <3> QED BY <3>2 DEF Call
  <2>5. ASSUME NEW i \in 2..n
        PROVE  /\ calls[i][1] = (IF i = FrameCount(m) THEN "END" ELSE "PROCESS")
               /\ calls[i][3] = LengthOf(Chunks[m])
               /\ calls[i - 1][2] <= calls[i][2]
               /\ calls[i][2] = LengthOf(Chunks[m]) <=> i >= FrameCount(m) - 1
    <3>1. i \in 1..n /\ i - 1 \in 1..n /\ i \in 2..FrameCount(m)
      BY <2>2, <2>3
    <3>2. calls[i] = Call(m, i) /\ calls[i - 1] = Call(m, i - 1)
      BY <2>1, <3>1
    <3> QED BY <2>1, <3>1, <3>2, CallsCount
  <2> QED BY <2>1, <2>4, <2>5 DEF calls, n
<1> QED BY <1>1, ReceiverInvariant, PTL

(* For every bandwidth, every message and every chunk count: a frame limit of *)
(* the bandwidth and HeaderRoom lets all frames of the peer through, so the   *)
(* read half lives unless a frame of others is longer; a limit of no more     *)
(* than the bandwidth never lets a full message or chunk through.             *)
THEOREM ReceiverLimitDecides == Spec => []LimitDecides
<1>1. ReceiverInv => LimitDecides
  <2> SUFFICES ASSUME ReceiverInv PROVE LimitDecides
    OBVIOUS
  <2>1. limit >= Bandwidth + HeaderRoom /\ (\A f \in Foreign : FrameSize(f) <= limit) => up
    BY DEF ReceiverInv, RoomInv
  <2>2. ASSUME limit <= Bandwidth, NEW m \in Msg, \A k \in Msg : Alike(k, m) => Full(k)
        PROVE  Deliveries(m) = {}
    <3> SUFFICES ASSUME NEW i \in Deliveries(m) PROVE FALSE
      OBVIOUS
    <3>1. i \in DOMAIN delivered /\ delivered[i] = Mine(m) /\ delivered[i].uuid = UuidOf[m]
      BY DEF Deliveries, Mine
    <3>2. PICK k \in Msg : /\ delivered[i] = Mine(k) /\ UuidOf[k] = UuidOf[m]
                           /\ Fits(k, FrameCount(k))
      BY <3>1 DEF ReceiverInv, OriginInv
    <3>3. Alike(k, m)
      BY <3>1, <3>2 DEF Mine, Alike
    <3>4. PICK j \in 1..FrameCount(k) : FrameSize(Frame(k, j)) > Bandwidth
      BY <2>2, <3>3, FullFrame
    <3>5. FrameSize(Frame(k, j)) <= limit /\ FrameSize(Frame(k, j)) \in Nat
      BY <3>2, FrameFits DEF Fits
    <3>6. limit \in Nat /\ Bandwidth \in Nat
      BY BoundAssumption DEF ReceiverInv, TypeInv, TypeOK
    <3> QED BY <2>2, <3>4, <3>5, <3>6
  <2> QED BY <2>1, <2>2 DEF LimitDecides
<1> QED BY <1>1, ReceiverInvariant, PTL

=============================================================================
