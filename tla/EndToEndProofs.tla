--------------------------- MODULE EndToEndProofs ---------------------------
(***************************************************************************)
(* A client with a wsmq server at the other end is a client of ResponseMap *)
(* for every set of uuids, calls and tasks: what ResponseMap assumes of    *)
(* its server holds, so what is proved there holds of the whole.           *)
(***************************************************************************)
EXTENDS EndToEnd, ResponseMapProofs, FiniteSetTheorems

-----------------------------------------------------------------------------
(* Counting an element of a sequence. *)
Places(s, d) == {i \in DOMAIN s : s[i] = d}

LEMMA PlacesFinite ==
  ASSUME NEW S, NEW s \in Seq(S), NEW d
  PROVE  IsFiniteSet(Places(s, d)) /\ Cardinality(Places(s, d)) \in Nat
<1>1. Len(s) \in Nat /\ DOMAIN s = 1..Len(s)
  OBVIOUS
<1>2. IsFiniteSet(1..Len(s))
  BY <1>1, FS_Interval
<1>3. Places(s, d) \in SUBSET (1..Len(s))
  BY <1>1 DEF Places
<1>4. IsFiniteSet(Places(s, d))
  BY <1>2, <1>3, FS_Subset
<1> QED BY <1>4, FS_CardinalityType

(* An Append adds one place of the new element and none of another. *)
LEMMA PlacesAppend ==
  ASSUME NEW S, NEW s \in Seq(S), NEW e \in S, NEW d
  PROVE  Cardinality(Places(Append(s, e), d))
           = IF e = d THEN Cardinality(Places(s, d)) + 1 ELSE Cardinality(Places(s, d))
<1> DEFINE n == Len(s) + 1
<1>1. /\ Len(s) \in Nat /\ DOMAIN s = 1..Len(s)
      /\ DOMAIN Append(s, e) = 1..n
      /\ Append(s, e)[n] = e
      /\ \A i \in 1..Len(s) : Append(s, e)[i] = s[i]
  OBVIOUS
<1>2. IsFiniteSet(Places(s, d))
  BY PlacesFinite
<1>3. n \notin Places(s, d)
  BY <1>1 DEF Places
<1>4. CASE e = d
  <2>1. Places(Append(s, e), d) = Places(s, d) \cup {n}
    BY <1>1, <1>4 DEF Places
  <2> QED BY <2>1, <1>2, <1>3, <1>4, FS_AddElement
<1>5. CASE e # d
  <2>1. Places(Append(s, e), d) = Places(s, d)
    BY <1>1, <1>5 DEF Places
  <2> QED BY <2>1, <1>5
<1> QED BY <1>4, <1>5

(* A Tail loses the place of the head. *)
LEMMA PlacesTail ==
  ASSUME NEW S, NEW s \in Seq(S), s # <<>>, NEW d
  PROVE  Cardinality(Places(Tail(s), d))
           = IF Head(s) = d THEN Cardinality(Places(s, d)) - 1 ELSE Cardinality(Places(s, d))
<1> DEFINE A == Places(Tail(s), d)
           B == Places(s, d) \ {1}
           f == [i \in A |-> i + 1]
<1>1. /\ Len(s) \in Nat \ {0} /\ DOMAIN s = 1..Len(s)
      /\ Head(s) = s[1]
      /\ DOMAIN Tail(s) = 1..(Len(s) - 1)
      /\ \A i \in 1..(Len(s) - 1) : Tail(s)[i] = s[i + 1]
  OBVIOUS
<1>2. A = {i \in 1..(Len(s) - 1) : s[i + 1] = d}
  BY <1>1 DEF Places
<1>3. B = {i \in 2..Len(s) : s[i] = d}
  BY <1>1 DEF Places
<1> HIDE DEF A, B
<1>4. f \in [A -> B]
  BY <1>1, <1>2, <1>3
<1>5. \A i, j \in A : f[i] = f[j] => i = j
  BY <1>1, <1>2
<1>6. \A j \in B : \E i \in A : f[i] = j
  <2> TAKE j \in B
  <2>1. j - 1 \in A /\ f[j - 1] = j
    BY <1>1, <1>2, <1>3
  <2> QED BY <2>1
<1>7. f \in Bijection(A, B)
  BY <1>4, <1>5, <1>6 DEF Bijection, Injection, Surjection, IsInjective
<1>8. IsFiniteSet(A)
  <2>1. Tail(s) \in Seq(S)
    OBVIOUS
  <2> QED BY <2>1, PlacesFinite DEF A
<1>9. Cardinality(B) = Cardinality(A)
  BY <1>7, <1>8, FS_Bijection DEF ExistsBijection
<1>10. Cardinality(B) = IF 1 \in Places(s, d) THEN Cardinality(Places(s, d)) - 1
                        ELSE Cardinality(Places(s, d))
  BY PlacesFinite, FS_RemoveElement DEF B
<1>11. 1 \in Places(s, d) <=> Head(s) = d
  BY <1>1 DEF Places
<1> QED BY <1>9, <1>10, <1>11 DEF A

LEMMA SeqGrows ==
  ASSUME NEW S, NEW T, S \subseteq T, NEW s \in Seq(S)
  PROVE  s \in Seq(T)
OBVIOUS

LEMMA QueuedIsPlaces == \A c : Queued(c) = Cardinality(Places(replies, c))
BY DEF Queued, Places

LEMMA QueuedIsPlacesAfter == \A c : Queued(c)' = Cardinality(Places(replies', c))
BY DEF Queued, Places

-----------------------------------------------------------------------------
(* The whole's step is a step of the client, as ResponseMap has it. *)
LEMMA StepOfClient ==
  ASSUME TypeInv, SystemInv, [SystemNext]_systemVars
  PROVE  [Next]_vars
<1>1. CASE ClientSends
  BY <1>1 DEF ClientSends, Next, Caller
<1>2. CASE ClientOther
  BY <1>2 DEF ClientOther, Next, Caller, ConnectionTask
<1>3. CASE HangUp
  BY <1>3 DEF HangUp, Next, ConnectionTask
<1>4. CASE ForwardReply
  <2> DEFINE c == Head(replies)
  <2>1. /\ c \in received /\ replies \in Seq(received)
        /\ \E i \in DOMAIN replies : replies[i] = c
    BY <1>4 DEF ForwardReply, SystemInv
  <2>2. c \in sent /\ c \in Call
    BY <2>1 DEF SystemInv, TypeInv, TypeOK
  <2>3. Queued(c) \in Nat /\ Queued(c) # 0
    <3>1. Places(replies, c) # {}
      BY <2>1 DEF Places
    <3>2. IsFiniteSet(Places(replies, c)) /\ Cardinality(Places(replies, c)) \in Nat
      BY <2>1, PlacesFinite
    <3> QED BY <3>1, <3>2, FS_EmptySet, QueuedIsPlaces
  <2>4. answers[c] < MaxAnswers
    BY <2>2, <2>3, ModeAssumption DEF SystemInv, TypeInv, TypeOK
  <2>5. Answer(c)
    BY <1>4, <2>2, <2>4 DEF ForwardReply, Answer
  <2> QED BY <2>2, <2>5 DEF Next
<1>5. CASE \/ ForwardRequest \/ LinkFails \/ ServerReceive \/ SelectEnds
           \/ CancelsLink \/ Panics \/ OnDisconnect \/ UNCHANGED systemVars
           \/ \E c \in Call : ServerReply(c)
  BY <1>5 DEF ForwardRequest, LinkFails, ServerReceive, SelectEnds, CancelsLink,
              Panics, Leave, OnDisconnect, ServerReply, systemVars
<1> QED BY <1>1, <1>2, <1>3, <1>4, <1>5 DEF SystemNext, ClientStep, ServerStep

(* Requests are never unsent, and only a reply under way counts as an answer. *)
LEMMA SentGrows ==
  ASSUME TypeInv, [SystemNext]_systemVars
  PROVE  sent \subseteq sent'
<1>1. CASE ClientSends
  BY <1>1 DEF ClientSends, SendBytes, Reply, SendOk, SendFailed, SendRefused
<1>2. CASE ClientOther
  BY <1>2 DEF ClientOther, GenerateUuid, Poll, PollNone, PollStarted, PollCompleted,
              PollNotFound, DropFuture, Close, OnMessage, Complete, Discard, LinkEnd,
              ClearWake, ClearMap, wireVars
<1>3. CASE HangUp
  BY <1>3 DEF HangUp, TaskEnd, Cancel, wireVars
<1>4. CASE ServerStep \/ ForwardRequest \/ LinkFails \/ UNCHANGED systemVars
  BY <1>4 DEF ServerStep, ForwardRequest, LinkFails, ServerReceive, SelectEnds,
              CancelsLink, Panics, Leave, OnDisconnect, ServerReply, ForwardReply,
              systemVars, vars
<1> QED BY <1>1, <1>2, <1>3, <1>4 DEF SystemNext, ClientStep

LEMMA SameAnswers ==
  ASSUME ClientStep \/ LinkFails \/ ServerReceive \/ OnDisconnect
  PROVE  UNCHANGED <<answers, replies>>
<1>1. CASE ClientSends
  BY <1>1 DEF ClientSends, SendBytes, Reply, Enqueue, serverVars
<1>2. CASE ClientOther
  BY <1>2 DEF ClientOther, GenerateUuid, Poll, PollNone, PollStarted, PollCompleted,
              PollNotFound, DropFuture, Close, OnMessage, Complete, Discard, LinkEnd,
              ClearWake, ClearMap, wireVars, peerVars, serverVars
<1>3. CASE HangUp \/ ForwardRequest \/ LinkFails \/ ServerReceive \/ OnDisconnect
  BY <1>3 DEF HangUp, TaskEnd, Cancel, ForwardRequest, LinkFails, ServerReceive,
              OnDisconnect, wireVars, serverVars, vars
<1> QED BY <1>1, <1>2, <1>3 DEF ClientStep

(* What is under way to the server or back keeps its origin.                 *)
UnderWay ==
  /\ requests \in Seq(sent) /\ upstream \in Seq(sent)
  /\ received \subseteq sent
  /\ replies \in Seq(received)

LEMMA UnderWayNext ==
  ASSUME TypeInv, UnderWay, [SystemNext]_systemVars
  PROVE  UnderWay'
<1>1. sent \subseteq sent'
  BY SentGrows
<1>2. /\ requests \in Seq(sent') /\ upstream \in Seq(sent') /\ received \subseteq sent'
  BY <1>1, SeqGrows DEF UnderWay
<1>3. replies \in Seq(received)
  BY DEF UnderWay
<1>4. CASE ClientSends
  <2>1. ASSUME NEW c \in Call, SendOk(c) \/ SendFailed(c) \/ SendRefused(c), Enqueue(c) PROVE UnderWay'
    BY <1>2, <1>3, <2>1 DEF UnderWay, SendOk, SendFailed, SendRefused, Enqueue, serverVars
  <2> QED BY <1>4, <2>1 DEF ClientSends, SendBytes, Reply
<1>5. CASE ClientOther \/ LinkFails \/ OnDisconnect \/ UNCHANGED systemVars
  BY <1>2, <1>3, <1>5 DEF UnderWay, ClientOther, LinkFails, OnDisconnect, peerVars,
                          serverVars, systemVars
<1>6. CASE HangUp \/ SelectEnds \/ CancelsLink \/ Panics
  <2>1. <<>> \in Seq(sent') /\ <<>> \in Seq(received)
    OBVIOUS
  <2>2. CASE HangUp
    BY <1>2, <1>3, <2>1, <2>2 DEF UnderWay, HangUp, serverVars
  <2>3. CASE SelectEnds \/ CancelsLink \/ Panics
    <3>1. UNCHANGED <<requests, received>> /\ upstream' = <<>> /\ replies' = <<>>
      BY <2>3 DEF SelectEnds, CancelsLink, Panics, Leave
    <3> QED BY <1>2, <2>1, <3>1 DEF UnderWay
  <2> QED BY <1>6, <2>2, <2>3
<1>7. CASE ForwardRequest
  <2>1. Tail(requests) \in Seq(sent') /\ Head(requests) \in sent'
    BY <1>2, <1>7 DEF ForwardRequest
  <2> QED BY <1>2, <1>3, <1>7, <2>1 DEF UnderWay, ForwardRequest, serverVars
<1>8. CASE ServerReceive
  <2>1. Tail(upstream) \in Seq(sent') /\ Head(upstream) \in sent'
    BY <1>2, <1>8 DEF ServerReceive
  <2>2. replies \in Seq(received')
    BY <1>3, <1>8, SeqGrows DEF ServerReceive
  <2> QED BY <1>2, <1>8, <2>1, <2>2 DEF UnderWay, ServerReceive
<1>9. CASE ForwardReply \/ \E c \in Call : ServerReply(c)
  <2>1. UNCHANGED <<requests, upstream, received>>
    BY <1>9 DEF ForwardReply, ServerReply
  <2>2. CASE ForwardReply
    <3>1. replies' = Tail(replies) /\ replies # <<>>
      BY <2>2 DEF ForwardReply
    <3>2. replies' \in Seq(received)
      BY <1>3, <3>1
    <3> QED BY <1>2, <2>1, <3>2 DEF UnderWay
  <2>3. ASSUME NEW c \in Call, ServerReply(c) PROVE UnderWay'
    BY <1>2, <1>3, <2>1, <2>3 DEF UnderWay, ServerReply
  <2> QED BY <1>9, <2>2, <2>3
<1> QED BY <1>4, <1>5, <1>6, <1>7, <1>8, <1>9
        DEF SystemNext, ClientStep, ServerStep

(* No request is replied to more often than its user does.                   *)
Counted == \A c \in Call : answers[c] + Queued(c) <= MaxAnswers

LEMMA CountedNext ==
  ASSUME TypeInv, UnderWay, Counted, [SystemNext]_systemVars
  PROVE  Counted'
<1> SUFFICES ASSUME NEW d \in Call PROVE answers'[d] + Queued(d)' <= MaxAnswers
  BY DEF Counted
<1>1. /\ answers \in [Call -> Nat] /\ answers[d] \in Nat /\ MaxAnswers \in Nat
      /\ replies \in Seq(received) /\ received \subseteq Call
  BY ModeAssumption DEF TypeInv, TypeOK, UnderWay
<1>2. Queued(d) \in Nat /\ answers[d] + Queued(d) <= MaxAnswers
  BY <1>1, PlacesFinite, QueuedIsPlaces DEF Counted
<1>3. CASE UNCHANGED <<answers, replies>>
  BY <1>2, <1>3, QueuedIsPlaces, QueuedIsPlacesAfter
<1>4. CASE SelectEnds \/ CancelsLink \/ Panics
  <2>1. answers' = answers /\ replies' = <<>>
    BY <1>4 DEF SelectEnds, CancelsLink, Panics, Leave, vars
  <2>2. Places(<<>>, d) = {}
    BY DEF Places
  <2>3. Queued(d)' = 0
    BY <2>1, <2>2, FS_EmptySet, QueuedIsPlacesAfter
  <2> QED BY <1>1, <1>2, <2>1, <2>3
<1>5. ASSUME NEW c \in Call, ServerReply(c)
      PROVE  answers'[d] + Queued(d)' <= MaxAnswers
  <2>1. /\ answers' = answers /\ replies' = Append(replies, c) /\ c \in received
        /\ answers[c] + Queued(c) < MaxAnswers
    BY <1>5 DEF ServerReply, vars
  <2>2. Queued(d)' = IF c = d THEN Queued(d) + 1 ELSE Queued(d)
    BY <1>1, <2>1, PlacesAppend, QueuedIsPlaces, QueuedIsPlacesAfter
  <2> QED BY <1>1, <1>2, <2>1, <2>2
<1>6. CASE ForwardReply
  <2>1. /\ replies # <<>> /\ replies' = Tail(replies)
        /\ answers' = [answers EXCEPT ![Head(replies)] = @ + 1]
        /\ Head(replies) \in Call
    BY <1>1, <1>6 DEF ForwardReply
  <2>2. Queued(d)' = IF Head(replies) = d THEN Queued(d) - 1 ELSE Queued(d)
    BY <1>1, <2>1, PlacesTail, QueuedIsPlaces, QueuedIsPlacesAfter
  <2>3. answers'[d] = IF Head(replies) = d THEN answers[d] + 1 ELSE answers[d]
    BY <1>1, <2>1
  <2> QED BY <1>1, <1>2, <2>2, <2>3
<1>7. CASE UNCHANGED systemVars
  BY <1>3, <1>7 DEF systemVars, vars, peerVars, serverVars
<1> QED BY <1>3, <1>4, <1>5, <1>6, <1>7, SameAnswers DEF SystemNext, ServerStep

-----------------------------------------------------------------------------
LEMMA SystemInvInit == SystemInit => TypeInv /\ SystemInv
<1> SUFFICES ASSUME SystemInit PROVE TypeInv /\ SystemInv
  OBVIOUS
<1>1. TypeInv
  BY TypeInit DEF SystemInit
<1>2. \A c \in Call : answers[c] = 0 /\ Queued(c) = 0
  <2>1. \A c : Places(<<>>, c) = {}
    BY DEF Places
  <2> QED BY <2>1, FS_EmptySet, QueuedIsPlaces DEF SystemInit, Init
<1> QED BY <1>1, <1>2, ModeAssumption DEF SystemInit, SystemInv

LEMMA SystemInvNext ==
  TypeInv /\ SystemInv /\ [SystemNext]_systemVars => (TypeInv /\ SystemInv)'
<1> SUFFICES ASSUME TypeInv, SystemInv, [SystemNext]_systemVars
             PROVE  (TypeInv /\ SystemInv)'
  OBVIOUS
<1>1. TypeInv'
  BY StepOfClient, TypeStep
<1>2. UnderWay /\ Counted
  BY DEF SystemInv, UnderWay, Counted
<1>3. UnderWay' /\ Counted'
  BY <1>2, UnderWayNext, CountedNext
<1> QED BY <1>1, <1>3 DEF SystemInv, UnderWay, Counted

(* Whatever is under way was sent, and a reply goes only to a request that    *)
(* arrived (server.rs:209-216 hands on_message a Response per message).       *)
THEOREM SystemInvariant == SystemSpec => [](TypeInv /\ SystemInv)
BY SystemInvInit, SystemInvNext, PTL DEF SystemSpec

(* The composition is a client of ResponseMap: a server made of server.rs and *)
(* a socket give it no more and no other answers than Answer does.            *)
THEOREM ComposedClient == SystemSpec => ImplementsResponseMap
<1>1. SystemInit => Init
  BY DEF SystemInit
<1>2. TypeInv /\ SystemInv /\ [SystemNext]_systemVars => [Next]_vars
  BY StepOfClient
<1> QED BY <1>1, <1>2, SystemInvariant, PTL DEF SystemSpec, ImplementsResponseMap, Spec

(* So, between a client and a server, an await returns the answer to its own  *)
(* request, or under any use one of its own conversation, no entry is left    *)
(* without an owner, and no wake-up is lost.                                  *)
THEOREM ComposedSafety ==
  SystemSpec => [](AnswersMatch /\ ConversationsApart /\ OwnedEntry /\ NoLostWakeup)
BY ComposedClient, OwnAnswers, ConversationsStayApart, MapDoesNotLeak, NoWakeupIsLost, PTL
DEF ImplementsResponseMap

(* What an await returned Ok with was put into the session's channel as the   *)
(* reply to that request, and stays.                                          *)
THEOREM ComposedAwaits ==
  ASSUME Disciplined, MaxAnswers = 1
  PROVE  SystemSpec => []OkIsOwnAnswer /\ [][OutcomesStay]_vars
BY ComposedClient, AwaitsAreFinal, PTL DEF ImplementsResponseMap

(* And with README's send-and-await on a current-thread runtime the whole     *)
(* keeps the strong promise: a request that was sent fails only when the      *)
(* connection is gone, and a send before that only when its message cannot be *)
(* written, and then the session never gets it.                               *)
THEOREM ComposedPromise ==
  ASSUME SendAndAwait
  PROVE  SystemSpec => ImplementsStrong
BY ComposedClient, KeepsTheStrongPromise, PTL DEF ImplementsResponseMap

=============================================================================
