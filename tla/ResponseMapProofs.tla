------------------------- MODULE ResponseMapProofs -------------------------
(***************************************************************************)
(* Theorems about ResponseMap, for every set of uuids, calls and tasks and *)
(* every runtime.  Each invariant is proved with the help of those before  *)
(* it: types, ownership of entries, serial conversations, own answers.     *)
(* The last part shows that ResponseMap implements RequestReply: with a    *)
(* disciplined caller and a server that answers once, each step of the map *)
(* is a step of the promise or leaves it unchanged.                        *)
(***************************************************************************)
EXTENDS ResponseMapRefinement, SequenceTheorems, TLAPS

-----------------------------------------------------------------------------
(* Inductive invariants.                                                     *)

(* A waker is read from an entry only when a task put it there. *)
StartedHasWaker ==
  \A u \in Uuid : responses[u].tag = "started" => responses[u].waker \in Task

(* Every call that has begun belongs to a conversation. *)
UsedHasUuid == \A c \in Call : call[c] # "unused" => uuid[c] \in Uuid

(* Only a call whose send returned has a future or a request on the wire, and *)
(* only a future waits.                                                       *)
KnownCalls ==
  /\ \A c \in Call : waiting[c] # NoTask => c \in alive
  /\ \A c \in alive \cup sent : call[c] \notin {"unused", "sending", "refused"}
  /\ \A i \in 1..Len(inbound) : inbound[i] \in sent

TypeInv == TypeOK /\ StartedHasWaker /\ UsedHasUuid /\ KnownCalls

(* Of two calls of one conversation, a disciplined caller has finished with   *)
(* one and replied to it: reply is called on the last Response there is.      *)
Over(c) == Finished(c) /\ c \in replied

SerialInv ==
  Disciplined =>
    \A c, d \in Call :
      c # d /\ uuid[c] = uuid[d] /\ uuid[c] # NoUuid => Over(c) \/ Over(d)

(* The answer d is at one place only: on its way, in the map, or returned.    *)
InMap(d)   == \E u \in Uuid : responses[u] = Completed(d)
OnTheWay(d) == \E i \in 1..Len(inbound) : inbound[i] = d

OneAnswer ==
  /\ \A d \in Call : OnTheWay(d) \/ InMap(d) \/ call[d] = "ok" => answers[d] > 0
  /\ \A d \in Call : OnTheWay(d) => ~InMap(d) /\ call[d] # "ok"
  /\ \A i, j \in 1..Len(inbound) : inbound[i] = inbound[j] => i = j

(* What a future finds in the map is its own answer, and a call that has not  *)
(* been handed to the channel yet has none.                                   *)
OwnEntry ==
  /\ \A c \in Call : Pending(c) /\ responses[uuid[c]].tag = "completed"
                       => responses[uuid[c]] = Completed(c)
  /\ \A c \in Call : call[c] = "sending" => responses[uuid[c]].tag # "completed"

(* A waker in the map is the one of the future that waits there, and the only *)
(* runtime on which a future can be polled inside clear() is a parallel one.  *)
WakerFits ==
  /\ \A c \in Call : Pending(c) /\ responses[uuid[c]].tag = "started"
                       => responses[uuid[c]] = Started(waiting[c])
  /\ \A c \in Call : call[c] = "sending" => responses[uuid[c]].tag \in {"absent", "none"}

ClearsAlone ==
  ~Parallel =>
    /\ conn \in {"waking", "clearing", "cleared"} => \A c \in Call : call[c] # "sending"
    /\ conn = "clearing" => \A c \in Call : Waits(c) => waiting[c] \in woken
    /\ conn \in {"cleared", "ended"} =>
         \A c \in Call : Pending(c) => responses[uuid[c]] = Absent

WakeInv ==
  Disciplined /\ ~Migrating => WakerFits /\ ClearsAlone /\ NoLostWakeup

(* For any caller: replies on the wire answer requests that were sent, what   *)
(* is stored in a conversation is one of its replies or the buffer that one   *)
(* of its futures emptied, and a future that has not resolved has no payload. *)
StoredApart(u) ==
  responses[u].tag = "completed" =>
    \/ /\ responses[u].data \in Call
       /\ uuid[responses[u].data] = u
       /\ answers[responses[u].data] > 0
    \/ responses[u].data = Drained /\ \E d \in Call : uuid[d] = u /\ TakesOwn(d)

ApartInv ==
  /\ \A i \in 1..Len(inbound) : answers[inbound[i]] > 0
  /\ \A c \in Call : answers[c] > 0 => c \in sent
  /\ \A c \in Call : call[c] # "ok" => result[c] = NoData
  /\ \A u \in Uuid : StoredApart(u)
  /\ ConversationsApart

AnswerInv ==
  Disciplined /\ MaxAnswers = 1 => OneAnswer /\ OwnEntry /\ AnswersMatch

-----------------------------------------------------------------------------
(* What poll, on_message and generate_uuid put in the map are Statuses.      *)
LEMMA StatusTypes ==
  /\ Absent \in Status /\ None \in Status
  /\ \A t \in Task : Started(t) \in Status
  /\ \A d \in Payload : Completed(d) \in Status
BY DEF Status, Absent, None, Started, Completed, Payload

(* The four Statuses are told apart by their tag.                            *)
LEMMA StatusTags ==
  /\ Absent.tag = "absent" /\ None.tag = "none"
  /\ \A t : Started(t).tag = "started" /\ Started(t).waker = t
  /\ \A d : Completed(d).tag = "completed" /\ Completed(d).data = d
BY DEF Absent, None, Started, Completed

(* The oldest reply is one the server sent to a request it received.         *)
LEMMA HeadOfInbound ==
  ASSUME TypeInv, inbound # <<>>
  PROVE  /\ Head(inbound) \in sent
         /\ Head(inbound) \in Call
         /\ uuid[Head(inbound)] \in Uuid
<1>1. Head(inbound) = inbound[1] /\ 1 \in 1..Len(inbound)
  BY DEF TypeInv, TypeOK
<1> QED BY <1>1 DEF TypeInv, TypeOK, KnownCalls, UsedHasUuid

(* Taking the oldest reply leaves the others in their order.                 *)
LEMMA TailOfInbound ==
  ASSUME TypeInv, inbound # <<>>, inbound' = Tail(inbound)
  PROVE  /\ inbound' \in Seq(Call)
         /\ Len(inbound') = Len(inbound) - 1
         /\ \A i \in 1..Len(inbound') : /\ i + 1 \in 1..Len(inbound)
                                        /\ inbound'[i] = inbound[i + 1]
BY DEF TypeInv, TypeOK

LEMMA TypeInit == Init => TypeInv
<1> SUFFICES ASSUME Init PROVE TypeInv
  OBVIOUS
<1>1. responses \in [Uuid -> Status]
  BY StatusTypes DEF Init
<1>2. answers \in [Call -> 0..MaxAnswers]
  BY ModeAssumption DEF Init
<1>3. inbound \in Seq(Call) /\ Len(inbound) = 0
  BY DEF Init
<1>4. StartedHasWaker /\ UsedHasUuid
  BY StatusTags DEF Init, StartedHasWaker, UsedHasUuid
<1>5. TypeOK
  BY <1>1, <1>2, <1>3 DEF Init, TypeOK, ConnState, CallState, Payload
<1>6. KnownCalls
  BY <1>3 DEF Init, KnownCalls
<1> QED BY <1>4, <1>5, <1>6 DEF TypeInv

LEMMA TypeStep == TypeInv /\ [Next]_vars => TypeInv'
<1> SUFFICES ASSUME TypeInv, [Next]_vars PROVE TypeInv'
  OBVIOUS
<1> USE DEF TypeInv, TypeOK, StartedHasWaker, UsedHasUuid, KnownCalls
<1>1. ASSUME NEW c \in Call, NEW u \in Uuid, GenerateUuid(c, u) PROVE TypeInv'
  BY <1>1, StatusTypes, StatusTags DEF GenerateUuid, CallState, linkVars, wireVars
<1>2. ASSUME NEW c \in Call, SendBytes(c) PROVE TypeInv'
  BY <1>2 DEF SendBytes, SendOk, SendFailed, SendRefused, CallState, linkVars
<1>3. ASSUME NEW src \in Call, NEW c \in Call, Reply(src, c) PROVE TypeInv'
  <2>1. responses' \in [Uuid -> Status] /\ StartedHasWaker'
    BY <1>3, StatusTypes, StatusTags DEF Reply
  <2>2. uuid[src] \in Uuid
    BY <1>3 DEF Reply
  <2>3. /\ call[c] = "unused"
        /\ replied' \subseteq Call /\ uuid' = [uuid EXCEPT ![c] = uuid[src]]
        /\ UNCHANGED <<conn, closing, waiting, woken, answers, inbound, result>>
    BY <1>3 DEF Reply, linkVars
  <2>4. CASE SendOk(c)
    BY <2>1, <2>2, <2>3, <2>4 DEF SendOk, CallState
  <2>5. CASE SendFailed(c)
    BY <2>1, <2>2, <2>3, <2>5 DEF SendFailed, CallState
  <2>6. CASE SendRefused(c)
    BY <2>1, <2>2, <2>3, <2>6 DEF SendRefused, CallState
  <2> QED BY <1>3, <2>4, <2>5, <2>6 DEF Reply
<1>4. ASSUME NEW c \in Call, NEW t \in Task, Poll(c, t) PROVE TypeInv'
  <2>1. CASE PollNone(c, t)
    BY <2>1, StatusTypes, StatusTags DEF PollNone, CanPoll, Pending, linkVars, wireVars
  <2>2. CASE PollStarted(c, t)
    BY <2>2 DEF PollStarted, CanPoll, Pending, linkVars, wireVars
  <2>3. CASE PollCompleted(c, t)
    <3>1. uuid[c] \in Uuid
      BY <2>3 DEF PollCompleted, CanPoll, Pending
    <3>2. responses[uuid[c]].data \in Payload
      BY <3>1 DEF Status
    <3>3. responses' \in [Uuid -> Status]
      BY <2>3, StatusTypes DEF PollCompleted, Payload
    <3> QED BY <2>3, <3>1, <3>2, <3>3, StatusTags
            DEF PollCompleted, CallState, linkVars, wireVars
  <2>4. CASE PollNotFound(c, t)
    BY <2>4 DEF PollNotFound, CanPoll, Pending, CallState, linkVars, wireVars
  <2> QED BY <1>4, <2>1, <2>2, <2>3, <2>4 DEF Poll
<1>5. ASSUME NEW c \in Call, DropFuture(c) PROVE TypeInv'
  BY <1>5, StatusTypes, StatusTags DEF DropFuture, linkVars, wireVars
<1>6. ASSUME NEW c \in Call, Answer(c) PROVE TypeInv'
  <2>1. answers' \in [Call -> 0..MaxAnswers]
    BY <1>6, ModeAssumption DEF Answer
  <2>2. /\ inbound' \in Seq(Call)
        /\ \A i \in 1..Len(inbound') : inbound'[i] \in sent
    BY <1>6 DEF Answer
  <2> QED BY <1>6, <2>1, <2>2 DEF Answer, linkVars, callVars
<1>7. ASSUME Complete PROVE TypeInv'
  <2> DEFINE h == Head(inbound)
  <2>1. h \in Call /\ uuid[h] \in Uuid
    BY <1>7, HeadOfInbound DEF Complete
  <2>2. responses' \in [Uuid -> Status] /\ StartedHasWaker'
    BY <1>7, <2>1, StatusTypes, StatusTags DEF Complete, Payload
  <2>3. woken' \subseteq Task
    BY <1>7, <2>1 DEF Complete
  <2>4. /\ inbound' \in Seq(Call)
        /\ \A i \in 1..Len(inbound') : inbound'[i] \in sent
    BY <1>7, TailOfInbound DEF Complete
  <2> QED BY <1>7, <2>2, <2>3, <2>4 DEF Complete, linkVars, callVars
<1>8. ASSUME Discard PROVE TypeInv'
  <2>1. /\ inbound' \in Seq(Call)
        /\ \A i \in 1..Len(inbound') : inbound'[i] \in sent
    BY <1>8, TailOfInbound DEF Discard
  <2> QED BY <1>8, <2>1, StatusTypes, StatusTags DEF Discard, linkVars, callVars
<1>9. CASE LinkEnd
  BY <1>9 DEF LinkEnd, ConnState, callVars
<1>10. CASE ClearWake
  BY <1>10 DEF ClearWake, ConnState, callVars, wireVars
<1>11. CASE ClearMap
  BY <1>11, StatusTypes, StatusTags DEF ClearMap, ConnState, callVars, wireVars
<1>12. CASE TaskEnd
  BY <1>12 DEF TaskEnd, ConnState, callVars, wireVars
<1>13. CASE Close
  BY <1>13 DEF Close, callVars, wireVars
<1>14. CASE Cancel
  BY <1>14 DEF Cancel, ConnState, callVars
<1>15. CASE UNCHANGED vars
  BY <1>15 DEF vars
<1> QED BY <1>1, <1>2, <1>3, <1>4, <1>5, <1>6, <1>7, <1>8, <1>9, <1>10, <1>11,
           <1>12, <1>13, <1>14, <1>15
        DEF Next, Caller, ConnectionTask, OnMessage

(* Every variable keeps its type, and a Started entry always holds a task's   *)
(* waker.                                                                     *)
THEOREM TypeCorrect == Spec => []TypeInv
BY TypeInit, TypeStep, PTL DEF Spec

(* Every variable of the client's map keeps its type, on every runtime and for *)
(* every caller.                                                              *)
THEOREM TypesHold == Spec => []TypeOK
BY TypeCorrect, PTL DEF TypeInv

-----------------------------------------------------------------------------
(* No entry without an owner.                                                *)

(* Each action either leaves an entry to the owner it had, or is the step of *)
(* the owner itself: a send keeps it, a drop removes it.                     *)
LEMMA OwnedStep == TypeInv /\ OwnedEntry /\ [Next]_vars => OwnedEntry'
<1> SUFFICES ASSUME TypeInv, OwnedEntry, [Next]_vars PROVE OwnedEntry'
  OBVIOUS
<1> USE DEF TypeInv, TypeOK, OwnedEntry
<1> DEFINE Left == {"sending", "senderr", "refused"}
           Owns(d, v) == /\ uuid[d] = v
                         /\ d \in alive \/ (responses[v] = None /\ call[d] \in Left)
<1>1. ASSUME NEW c \in Call, NEW u \in Uuid, GenerateUuid(c, u) PROVE OwnedEntry'
  <2>1. uuid'[c] = u /\ call'[c] = "sending" /\ responses'[u] = None
    BY <1>1 DEF GenerateUuid
  <2>2. \A d \in Call \ {c} : uuid'[d] = uuid[d] /\ call'[d] = call[d]
    BY <1>1 DEF GenerateUuid
  <2>3. c \notin alive /\ call[c] = "unused" /\ alive' = alive
    BY <1>1 DEF GenerateUuid, KnownCalls
  <2>4. \A v \in Uuid \ {u} : responses'[v] = responses[v]
    BY <1>1 DEF GenerateUuid
  <2>5. SUFFICES ASSUME NEW v \in Uuid, v # u, responses[v] # Absent
                 PROVE  \E d \in Call : Owns(d, v)'
    BY <2>1, <2>4
  <2>6. PICK d \in Call : Owns(d, v)
    BY <2>5
  <2> QED BY <2>2, <2>3, <2>4, <2>5, <2>6
<1>2. ASSUME NEW c \in Call, SendBytes(c) PROVE OwnedEntry'
  BY <1>2 DEF SendBytes, SendOk, SendFailed, SendRefused
<1>3. ASSUME NEW src \in Call, NEW c \in Call, Reply(src, c) PROVE OwnedEntry'
  <2>1. /\ c \notin alive /\ call[c] = "unused"
        /\ alive \subseteq alive'
        /\ \A d \in Call \ {c} : uuid'[d] = uuid[d] /\ call'[d] = call[d]
        /\ uuid'[c] = uuid[src]
        /\ c \in alive' \/ call'[c] \in Left
        /\ \A v \in Uuid : responses[v] # Absent => responses'[v] = responses[v]
        /\ \A v \in Uuid : responses[v] = Absent /\ responses'[v] # Absent
                            => v = uuid[src] /\ responses'[v] = None
    BY <1>3 DEF Reply, SendOk, SendFailed, SendRefused, KnownCalls
  <2>2. SUFFICES ASSUME NEW v \in Uuid, responses'[v] # Absent
                 PROVE  \E d \in Call : Owns(d, v)'
    OBVIOUS
  <2>3. CASE responses[v] = Absent
    BY <2>1, <2>2, <2>3
  <2>4. CASE responses[v] # Absent
    <3>1. PICK d \in Call : Owns(d, v)
      BY <2>4
    <3> QED BY <2>1, <2>4, <3>1
  <2> QED BY <2>3, <2>4
<1>4. ASSUME NEW c \in Call, NEW t \in Task, Poll(c, t) PROVE OwnedEntry'
  <2>1. /\ c \in alive
        /\ \A u \in Uuid \ {uuid[c]} : responses'[u] = responses[u]
        /\ UNCHANGED <<uuid, alive>>
        /\ \A d \in Call : call[d] \in Left => call'[d] = call[d]
        /\ responses[uuid[c]] = Absent => responses'[uuid[c]] = Absent
    BY <1>4, StatusTags
    DEF Poll, PollNone, PollStarted, PollCompleted, PollNotFound, CanPoll, Pending
  <2>2. SUFFICES ASSUME NEW v \in Uuid, responses'[v] # Absent
                 PROVE  \E d \in Call : Owns(d, v)'
    OBVIOUS
  <2>3. CASE v = uuid[c]
    BY <2>1, <2>3
  <2>4. CASE v # uuid[c]
    <3>1. PICK d \in Call : Owns(d, v)
      BY <2>1, <2>2, <2>4
    <3> QED BY <2>1, <2>4, <3>1
  <2> QED BY <2>3, <2>4
<1>5. ASSUME NEW c \in Call, DropFuture(c) PROVE OwnedEntry'
  BY <1>5 DEF DropFuture
(* An entry in which a waker was found has a live future.                    *)
<1>6. CASE Complete
  <2>1. /\ uuid[Head(inbound)] \in Uuid
        /\ responses[uuid[Head(inbound)]].tag = "started"
        /\ \A u \in Uuid \ {uuid[Head(inbound)]} : responses'[u] = responses[u]
        /\ UNCHANGED <<uuid, alive, call>>
    BY <1>6, HeadOfInbound DEF Complete, callVars
  <2>2. SUFFICES ASSUME NEW v \in Uuid, responses'[v] # Absent
                 PROVE  \E d \in Call : Owns(d, v)'
    OBVIOUS
  <2>3. CASE v = uuid[Head(inbound)]
    <3>1. responses[v] # Absent /\ responses[v] # None
      BY <2>1, <2>3, StatusTags
    <3>2. PICK d \in Call : uuid[d] = v /\ d \in alive
      BY <3>1
    <3> QED BY <2>1, <3>2
  <2>4. CASE v # uuid[Head(inbound)]
    <3>1. PICK d \in Call : Owns(d, v)
      BY <2>1, <2>2, <2>4
    <3> QED BY <2>1, <2>4, <3>1
  <2> QED BY <2>3, <2>4
<1>7. CASE Discard
  BY <1>7 DEF Discard, callVars
<1>8. CASE ClearMap
  BY <1>8 DEF ClearMap, callVars
<1>9. CASE LinkEnd \/ ClearWake \/ TaskEnd \/ Close \/ Cancel \/ UNCHANGED vars
           \/ \E c \in Call : Answer(c)
  BY <1>9 DEF LinkEnd, ClearWake, TaskEnd, Close, Cancel, Answer, callVars, vars
<1> QED BY <1>1, <1>2, <1>3, <1>4, <1>5, <1>6, <1>7, <1>8, <1>9
        DEF Next, Caller, ConnectionTask, OnMessage

(* Whatever the caller does with its futures, and however the link ends, an   *)
(* entry of the map belongs to a future; only an untouched one may belong to  *)
(* a send under way or to one that failed.                                    *)
THEOREM MapDoesNotLeak == Spec => []OwnedEntry
<1>1. Init => OwnedEntry
  BY DEF Init, OwnedEntry
<1> QED BY <1>1, OwnedStep, TypeCorrect, PTL DEF Spec

-----------------------------------------------------------------------------
(* One user of a conversation at a time.                                     *)

LEMMA SerialStep == TypeInv /\ SerialInv /\ [Next]_vars => SerialInv'
<1> SUFFICES ASSUME TypeInv, SerialInv, [Next]_vars, Disciplined,
                    NEW c \in Call, NEW d \in Call,
                    c # d, uuid'[c] = uuid'[d], uuid'[c] # NoUuid
             PROVE  Over(c)' \/ Over(d)'
  BY DEF SerialInv
<1> USE DEF TypeInv, TypeOK
<1>1. \A e \in Call : UNCHANGED <<uuid, alive, call, replied>> => (Over(e)' <=> Over(e))
  BY DEF Over, Finished
<1>2. ASSUME UNCHANGED <<uuid, alive, call, replied>> PROVE Over(c)' \/ Over(d)'
  BY <1>1, <1>2 DEF SerialInv
<1>3. ASSUME NEW e \in Call, NEW u \in Uuid, GenerateUuid(e, u)
      PROVE  Over(c)' \/ Over(d)'
  <2>1. c # e /\ d # e
    BY <1>3 DEF GenerateUuid
  <2> QED BY <1>3, <2>1 DEF GenerateUuid, SerialInv, Over, Finished
<1>4. ASSUME NEW e \in Call, SendBytes(e) PROVE Over(c)' \/ Over(d)'
  BY <1>4 DEF SendBytes, SendOk, SendFailed, SendRefused, SerialInv, Over, Finished
(* The Response that is replied to is the last of its conversation.          *)
<1>5. ASSUME NEW src \in Call, NEW e \in Call, Reply(src, e)
      PROVE  Over(c)' \/ Over(d)'
  <2>1. \A f \in Call : Over(f) => Over(f)'
    BY <1>5 DEF Reply, SendOk, SendFailed, SendRefused, Over, Finished
  <2>2. Over(src)'
    BY <1>5 DEF Reply, SendOk, SendFailed, SendRefused, Over, Finished
  <2>3. \A f \in Call : f # src /\ uuid[f] = uuid[src] => Over(f)
    BY <1>5, NullAssumption DEF Reply, SerialInv, UsedHasUuid, Over
  <2> QED BY <1>5, <2>1, <2>2, <2>3 DEF Reply, SerialInv
<1>6. ASSUME NEW e \in Call, NEW t \in Task, Poll(e, t) PROVE Over(c)' \/ Over(d)'
  BY <1>6 DEF Poll, PollNone, PollStarted, PollCompleted, PollNotFound, CanPoll,
              Pending, SerialInv, Over, Finished
<1>7. ASSUME NEW e \in Call, DropFuture(e) PROVE Over(c)' \/ Over(d)'
  BY <1>7 DEF DropFuture, SerialInv, Over, Finished
<1>8. CASE \/ OnMessage \/ LinkEnd \/ ClearWake \/ ClearMap \/ TaskEnd \/ Close
           \/ Cancel \/ UNCHANGED vars \/ \E e \in Call : Answer(e)
  BY <1>2, <1>8 DEF OnMessage, Complete, Discard, LinkEnd, ClearWake, ClearMap,
                    TaskEnd, Close, Cancel, Answer, callVars, vars
<1> QED BY <1>3, <1>4, <1>5, <1>6, <1>7, <1>8
        DEF Next, Caller, ConnectionTask

(* It holds by the caller's discipline alone, and is used by what follows.   *)
LEMMA SerialConversations == Spec => []SerialInv
<1>1. Init => SerialInv
  BY DEF Init, SerialInv
<1> QED BY <1>1, SerialStep, TypeCorrect, PTL DEF Spec

-----------------------------------------------------------------------------
(* Conversations do not mix, whatever callers do.                            *)

(* Only the poll that resolves a future gives it a payload.  A step that is   *)
(* no such poll, changes no conversation and forgets no answer keeps the      *)
(* invariant, if what it stores belongs where it stores it.                   *)
LEMMA ApartKept ==
  ASSUME TypeInv, ApartInv, UNCHANGED result,
         \A c \in Call : call[c] # "unused" => uuid'[c] = uuid[c],
         \A c \in Call : call'[c] # "ok" => call[c] # "ok",
         \A c \in Call : answers[c] > 0 => answers'[c] > 0,
         \A c \in Call : answers'[c] > 0 => c \in sent',
         \A i \in 1..Len(inbound') : answers'[inbound'[i]] > 0,
         \A u \in Uuid : \/ responses'[u] = responses[u]
                         \/ responses'[u].tag # "completed"
                         \/ StoredApart(u)'
  PROVE  ApartInv'
<1>1. \A c \in Call : answers[c] > 0 => call[c] # "unused"
  BY DEF ApartInv, TypeInv, KnownCalls
<1>2. \A c \in Call : result[c] # NoData => call[c] # "unused"
  BY DEF ApartInv
<1>3. \A c \in Call : TakesOwn(c) => TakesOwn(c)' /\ uuid'[c] = uuid[c]
  BY <1>1, <1>2, NullAssumption DEF TakesOwn
<1>4. ConversationsApart'
  BY <1>2, <1>3 DEF ApartInv, ConversationsApart
<1>5. ASSUME NEW u \in Uuid, responses'[u] = responses[u] PROVE StoredApart(u)'
  BY <1>1, <1>3, <1>5 DEF ApartInv, StoredApart
<1>6. \A u \in Uuid : StoredApart(u)'
  BY <1>5 DEF StoredApart
<1> QED BY <1>4, <1>6 DEF ApartInv

LEMMA ApartStep == TypeInv /\ ApartInv /\ [Next]_vars => ApartInv'
<1> SUFFICES ASSUME TypeInv, ApartInv, [Next]_vars PROVE ApartInv'
  OBVIOUS
<1> USE DEF TypeInv, TypeOK
<1>1. ASSUME NEW c \in Call, NEW u \in Uuid, GenerateUuid(c, u) PROVE ApartInv'
  <2>1. \A v \in Uuid : responses'[v] = responses[v] \/ responses'[v] = None
    BY <1>1 DEF GenerateUuid
  <2>2. /\ \A d \in Call : call[d] # "unused" => uuid'[d] = uuid[d]
        /\ \A d \in Call : call'[d] # "ok" => call[d] # "ok"
        /\ UNCHANGED <<result, answers, sent, inbound>>
    BY <1>1 DEF GenerateUuid, wireVars
  <2> QED BY <2>1, <2>2, ApartKept, StatusTags DEF ApartInv
<1>2. ASSUME NEW c \in Call, SendBytes(c) PROVE ApartInv'
  <2>1. /\ \A d \in Call : call'[d] # "ok" => call[d] # "ok"
        /\ UNCHANGED <<responses, uuid, result, answers, inbound>>
        /\ sent \subseteq sent'
    BY <1>2 DEF SendBytes, SendOk, SendFailed, SendRefused
  <2> QED BY <2>1, ApartKept DEF ApartInv
<1>3. ASSUME NEW src \in Call, NEW c \in Call, Reply(src, c) PROVE ApartInv'
  <2>1. \A v \in Uuid : responses'[v] = responses[v] \/ responses'[v] = None
    BY <1>3 DEF Reply
  <2>2. /\ \A d \in Call : call[d] # "unused" => uuid'[d] = uuid[d]
        /\ \A d \in Call : call'[d] # "ok" => call[d] # "ok"
        /\ UNCHANGED <<result, answers, inbound>>
        /\ sent \subseteq sent'
    BY <1>3 DEF Reply, SendOk, SendFailed, SendRefused
  <2> QED BY <2>1, <2>2, ApartKept, StatusTags DEF ApartInv
(* The future that finds the payload takes it and leaves the emptied buffer;  *)
(* the next one finds that.                                                   *)
<1>4. ASSUME NEW c \in Call, NEW t \in Task, PollCompleted(c, t) PROVE ApartInv'
  <2> DEFINE u == uuid[c]
             d == responses[u].data
  <2>1. /\ u \in Uuid /\ result[c] = NoData
        /\ responses[u].tag = "completed"
        /\ responses' = [responses EXCEPT ![u] = Completed(Drained)]
        /\ call' = [call EXCEPT ![c] = "ok"]
        /\ result' = [result EXCEPT ![c] = d]
        /\ UNCHANGED <<uuid, answers, sent, inbound>>
    BY <1>4 DEF PollCompleted, CanPoll, Pending, UsedHasUuid, ApartInv, wireVars
  <2>2. \A e \in Call : TakesOwn(e) => e # c /\ TakesOwn(e)'
    BY <2>1, NullAssumption DEF TakesOwn
  <2>3. \/ TakesOwn(c)'
        \/ result'[c] = Drained /\ \E e \in Call : uuid[e] = u /\ TakesOwn(e)
    BY <2>1 DEF ApartInv, StoredApart, TakesOwn
  <2>4. ConversationsApart'
    <3>1. ASSUME NEW e \in Call, e # c, result'[e] # NoData
          PROVE  \/ TakesOwn(e)'
                 \/ /\ result'[e] = Drained
                    /\ \E f \in Call \ {e} : uuid'[f] = uuid'[e] /\ TakesOwn(f)'
      BY <2>1, <2>2, <3>1 DEF ApartInv, ConversationsApart
    <3>2. \/ TakesOwn(c)'
          \/ /\ result'[c] = Drained
             /\ \E f \in Call \ {c} : uuid'[f] = uuid'[c] /\ TakesOwn(f)'
      BY <2>1, <2>2, <2>3
    <3> QED BY <3>1, <3>2 DEF ConversationsApart
  <2>5. StoredApart(u)'
    <3>1. \E e \in Call : uuid'[e] = u /\ TakesOwn(e)'
      BY <2>1, <2>2, <2>3
    <3>2. responses'[u].data = Drained
      BY <2>1, StatusTags
    <3> QED BY <2>1, <3>1, <3>2 DEF StoredApart
  <2>6. ASSUME NEW v \in Uuid, v # u PROVE StoredApart(v)'
    <3>1. responses'[v] = responses[v] /\ StoredApart(v)
      BY <2>1, <2>6 DEF ApartInv
    <3> QED BY <2>1, <2>2, <3>1 DEF StoredApart
  <2>7. \A v \in Uuid : StoredApart(v)'
    BY <2>1, <2>5, <2>6
  <2>8. \A e \in Call : call'[e] # "ok" => result'[e] = NoData
    BY <2>1 DEF ApartInv
  <2>9. /\ \A i \in 1..Len(inbound') : answers'[inbound'[i]] > 0
        /\ \A e \in Call : answers'[e] > 0 => e \in sent'
    BY <2>1 DEF ApartInv
  <2> QED BY <2>4, <2>7, <2>8, <2>9 DEF ApartInv
<1>5. ASSUME NEW c \in Call, NEW t \in Task,
             PollNone(c, t) \/ PollStarted(c, t) \/ PollNotFound(c, t)
      PROVE  ApartInv'
  <2>1. \A u \in Uuid : responses'[u] = responses[u] \/ responses'[u] = Started(t)
    BY <1>5 DEF PollNone, PollStarted, PollNotFound
  <2>2. /\ \A d \in Call : call'[d] # "ok" => call[d] # "ok"
        /\ UNCHANGED <<uuid, result, answers, sent, inbound>>
    BY <1>5 DEF PollNone, PollStarted, PollNotFound, CanPoll, Pending, wireVars
  <2> QED BY <2>1, <2>2, ApartKept, StatusTags DEF ApartInv
<1>6. ASSUME NEW c \in Call, Answer(c) PROVE ApartInv'
  <2>1. /\ c \in sent /\ sent' = sent
        /\ UNCHANGED <<responses, call, uuid, result>>
        /\ answers' = [answers EXCEPT ![c] = @ + 1]
        /\ inbound' = Append(inbound, c)
    BY <1>6 DEF Answer, callVars
  <2>2. /\ answers'[c] > 0
        /\ \A d \in Call \ {c} : answers'[d] = answers[d]
    BY <2>1, ModeAssumption
  <2>3. \A i \in 1..Len(inbound') : inbound'[i] = c \/ \E j \in 1..Len(inbound) : inbound'[i] = inbound[j]
    BY <2>1
  <2>4. \A i \in 1..Len(inbound) : inbound[i] \in Call
    OBVIOUS
  <2>5. \A i \in 1..Len(inbound') : answers'[inbound'[i]] > 0
    <3>1. \A j \in 1..Len(inbound) : answers'[inbound[j]] > 0
      BY <2>2, <2>4 DEF ApartInv
    <3> QED BY <2>2, <2>3, <3>1
  <2>6. \A d \in Call : answers[d] > 0 => answers'[d] > 0
    BY <2>2
  <2>7. \A d \in Call : answers'[d] > 0 => d \in sent'
    BY <2>1, <2>2 DEF ApartInv
  <2> QED BY <2>1, <2>5, <2>6, <2>7, ApartKept
(* A reply is stored in the conversation of the request it answers.           *)
<1>7. CASE Complete
  <2> DEFINE h == Head(inbound)
  <2>1. /\ h \in Call /\ uuid[h] \in Uuid
        /\ responses' = [responses EXCEPT ![uuid[h]] = Completed(h)]
        /\ UNCHANGED <<call, uuid, result, answers, sent>>
    BY <1>7, HeadOfInbound DEF Complete, callVars
  <2>2. answers[h] > 0
    BY <1>7 DEF Complete, ApartInv
  <2>3. ASSUME NEW v \in Uuid, v = uuid[h] PROVE StoredApart(v)'
    <3>1. responses'[v] = Completed(h)
      BY <2>1, <2>3
    <3> QED BY <2>1, <2>2, <2>3, <3>1, StatusTags DEF StoredApart
  <2>4. \A i \in 1..Len(inbound') : answers'[inbound'[i]] > 0
    BY <1>7, <2>1, TailOfInbound DEF Complete, ApartInv
  <2>5. \A v \in Uuid : responses'[v] = responses[v] \/ StoredApart(v)'
    BY <2>1, <2>3
  <2> QED BY <2>1, <2>4, <2>5, ApartKept DEF ApartInv
<1>8. CASE Discard
  <2>1. \A u \in Uuid : responses'[u] = responses[u] \/ responses'[u] = Absent
    BY <1>8 DEF Discard
  <2>2. \A i \in 1..Len(inbound') : answers'[inbound'[i]] > 0
    BY <1>8, TailOfInbound DEF Discard, ApartInv
  <2> QED BY <1>8, <2>1, <2>2, ApartKept, StatusTags DEF Discard, callVars, ApartInv
<1>9. CASE ClearMap \/ \E c \in Call : DropFuture(c)
  <2>1. \A u \in Uuid : responses'[u] = responses[u] \/ responses'[u] = Absent
    BY <1>9 DEF ClearMap, DropFuture
  <2>2. UNCHANGED <<call, uuid, result, answers, sent, inbound>>
    BY <1>9 DEF ClearMap, DropFuture, callVars, wireVars
  <2> QED BY <2>1, <2>2, ApartKept, StatusTags DEF ApartInv
<1>10. CASE LinkEnd \/ ClearWake \/ TaskEnd \/ Close \/ Cancel \/ UNCHANGED vars
  <2>1. /\ UNCHANGED <<responses, call, uuid, result, answers, sent>>
        /\ inbound' = inbound \/ inbound' = <<>>
    BY <1>10 DEF LinkEnd, ClearWake, TaskEnd, Close, Cancel, callVars, wireVars, vars
  <2> QED BY <2>1, ApartKept DEF ApartInv
<1> QED BY <1>1, <1>2, <1>3, <1>4, <1>5, <1>6, <1>7, <1>8, <1>9, <1>10
        DEF Next, Caller, ConnectionTask, OnMessage, Poll

(* However callers keep, move, drop and reply to their futures, and however   *)
(* often the server answers, a future resolves to a reply of its own          *)
(* conversation or to the buffer another future of it emptied: no payload     *)
(* crosses to another conversation (client.rs:187-200, response.rs:42-104).   *)
THEOREM ConversationsStayApart == Spec => []ConversationsApart
<1>1. Init => ApartInv
  BY StatusTags DEF Init, ApartInv, StoredApart, ConversationsApart
<1>2. ApartInv => ConversationsApart
  BY DEF ApartInv
<1> QED BY <1>1, <1>2, ApartStep, TypeCorrect, PTL DEF Spec

-----------------------------------------------------------------------------
(* Every await returns its own answer.                                       *)

(* A future in use shares its conversation with finished calls only.         *)
LEMMA OthersAnswered ==
  ASSUME TypeInv, SerialInv, Disciplined,
         NEW c \in Call, Pending(c) \/ call[c] = "sending",
         NEW d \in Call, d # c, uuid[d] = uuid[c]
  PROVE  call[d] = "ok" /\ d \notin alive
<1>1. uuid[c] # NoUuid /\ ~Over(c)
  BY NullAssumption DEF TypeInv, TypeOK, UsedHasUuid, Pending, Over, Finished
<1> QED BY <1>1 DEF SerialInv, Over, Finished

(* The last Response of a conversation has no entry left: reply inserts one. *)
LEMMA FreshReply ==
  ASSUME TypeInv, OwnedEntry, SerialInv, Disciplined,
         NEW src \in Call, call[src] = "ok", src \notin alive, src \notin replied
  PROVE  uuid[src] \in Uuid /\ responses[uuid[src]] = Absent
<1>1. uuid[src] \in Uuid /\ uuid[src] # NoUuid
  BY NullAssumption DEF TypeInv, UsedHasUuid
<1>2. ASSUME responses[uuid[src]] # Absent PROVE FALSE
  <2>1. PICK d \in Call :
          /\ uuid[d] = uuid[src]
          /\ d \in alive \/ call[d] \in {"sending", "senderr", "refused"}
    BY <1>1, <1>2 DEF OwnedEntry
  <2> QED BY <1>1, <2>1 DEF SerialInv, Over, Finished
<1> QED BY <1>1, <1>2

(* Steps that neither touch a reply nor complete an entry.                   *)
LEMMA AnswerQuiet ==
  ASSUME TypeInv, OneAnswer,
         \A d \in Call : InMap(d)' => InMap(d),
         \A d \in Call : call'[d] = "ok" <=> call[d] = "ok",
         UNCHANGED <<answers, inbound>>
  PROVE  OneAnswer'
BY DEF OneAnswer, OnTheWay

LEMMA AnswerStep ==
  TypeInv /\ OwnedEntry /\ SerialInv /\ AnswerInv /\ [Next]_vars => AnswerInv'
<1> SUFFICES ASSUME TypeInv, OwnedEntry, SerialInv, [Next]_vars,
                    Disciplined, MaxAnswers = 1, OneAnswer, OwnEntry, AnswersMatch
             PROVE  OneAnswer' /\ OwnEntry' /\ AnswersMatch'
  BY DEF AnswerInv
<1> USE DEF TypeInv, TypeOK
<1> DEFINE Goal == OneAnswer' /\ OwnEntry' /\ AnswersMatch'
<1>1. ASSUME NEW c \in Call, NEW u \in Uuid, GenerateUuid(c, u) PROVE Goal
  <2>1. \A d \in Call : InMap(d)' => InMap(d)
    BY <1>1, StatusTags DEF GenerateUuid, InMap
  <2>2. OneAnswer'
    BY <1>1, <2>1, AnswerQuiet DEF GenerateUuid, wireVars
  <2>3. OwnEntry'
    BY <1>1, StatusTags DEF GenerateUuid, OwnEntry, Pending, UsedHasUuid
  <2> QED BY <1>1, <2>2, <2>3 DEF GenerateUuid, AnswersMatch
<1>2. ASSUME NEW c \in Call, SendBytes(c) PROVE Goal
  <2>1. OneAnswer'
    BY <1>2, AnswerQuiet DEF SendBytes, SendOk, SendFailed, SendRefused, InMap
  <2>2. OwnEntry'
    BY <1>2 DEF SendBytes, SendOk, SendFailed, SendRefused, OwnEntry, Pending
  <2> QED BY <1>2, <2>1, <2>2 DEF SendBytes, AnswersMatch
<1>3. ASSUME NEW src \in Call, NEW c \in Call, Reply(src, c) PROVE Goal
  <2>1. /\ uuid[src] \in Uuid
        /\ responses' = [responses EXCEPT ![uuid[src]] = None]
    BY <1>3, FreshReply DEF Reply
  <2>2. \A d \in Call : InMap(d)' => InMap(d)
    BY <2>1, StatusTags DEF InMap
  <2>3. OneAnswer'
    BY <1>3, <2>2, AnswerQuiet DEF Reply, SendOk, SendFailed, SendRefused
  <2>4. OwnEntry'
    BY <1>3, <2>1, StatusTags
    DEF Reply, SendOk, SendFailed, SendRefused, OwnEntry, Pending, UsedHasUuid
  <2> QED BY <1>3, <2>3, <2>4 DEF Reply, AnswersMatch
<1>4. ASSUME NEW c \in Call, NEW t \in Task, PollCompleted(c, t) PROVE Goal
  <2>1. /\ uuid[c] \in Uuid
        /\ Pending(c)
        /\ responses[uuid[c]] = Completed(c)
        /\ responses' = [responses EXCEPT ![uuid[c]] = Completed(Drained)]
        /\ call' = [call EXCEPT ![c] = "ok"]
        /\ result' = [result EXCEPT ![c] = c]
        /\ UNCHANGED <<uuid, alive, answers, inbound>>
    BY <1>4, StatusTags
    DEF PollCompleted, CanPoll, Pending, OwnEntry, UsedHasUuid, wireVars
  <2>2. \A d \in Call : InMap(d)' => InMap(d)
    BY <2>1, StatusTags, NullAssumption DEF InMap
  <2>3. InMap(c)
    BY <2>1 DEF InMap
  <2>4. OneAnswer'
    BY <2>1, <2>2, <2>3 DEF OneAnswer, OnTheWay
  <2>5. \A d \in Call : Pending(d)' \/ call'[d] = "sending" => uuid[d] # uuid[c]
    BY <2>1, OthersAnswered DEF Pending
  <2>6. OwnEntry'
    BY <2>1, <2>5 DEF OwnEntry, Pending
  <2>7. AnswersMatch'
    BY <2>1 DEF AnswersMatch
  <2> QED BY <2>4, <2>6, <2>7
<1>5. ASSUME NEW c \in Call, NEW t \in Task,
             PollNone(c, t) \/ PollStarted(c, t) \/ PollNotFound(c, t)
      PROVE  Goal
  <2>1. \A u \in Uuid : responses'[u] = responses[u] \/ responses'[u] = Started(t)
    BY <1>5 DEF PollNone, PollStarted, PollNotFound
  <2>2. \A d \in Call : InMap(d)' => InMap(d)
    BY <2>1, StatusTags DEF InMap
  <2>3. /\ UNCHANGED <<uuid, alive, result, answers, inbound>>
        /\ \A d \in Call : call'[d] = call[d] \/ (call[d] = "future" /\ call'[d] = "notfound")
    BY <1>5 DEF PollNone, PollStarted, PollNotFound, CanPoll, Pending, wireVars
  <2>4. OneAnswer'
    BY <2>2, <2>3, AnswerQuiet
  <2>5. OwnEntry'
    BY <2>1, <2>3, StatusTags DEF OwnEntry, Pending, UsedHasUuid, KnownCalls
  <2> QED BY <2>3, <2>4, <2>5 DEF AnswersMatch
<1>6. ASSUME NEW c \in Call, DropFuture(c) PROVE Goal
  <2>1. \A d \in Call : InMap(d)' => InMap(d)
    BY <1>6, StatusTags DEF DropFuture, InMap
  <2>2. OneAnswer'
    BY <1>6, <2>1, AnswerQuiet DEF DropFuture, wireVars
  <2>3. OwnEntry'
    BY <1>6, StatusTags DEF DropFuture, OwnEntry, Pending, UsedHasUuid
  <2> QED BY <1>6, <2>2, <2>3 DEF DropFuture, AnswersMatch
<1>7. ASSUME NEW c \in Call, Answer(c) PROVE Goal
  <2>1. answers[c] = 0 /\ answers' = [answers EXCEPT ![c] = 1]
    <3>1. answers[c] \in 0..1 /\ answers[c] < 1
      BY <1>7 DEF Answer
    <3>2. answers[c] = 0
      BY <3>1
    <3>3. answers' = [answers EXCEPT ![c] = answers[c] + 1]
      BY <1>7 DEF Answer
    <3> QED BY <3>2, <3>3
  <2>2. ~OnTheWay(c) /\ ~InMap(c) /\ call[c] # "ok"
    BY <2>1 DEF OneAnswer
  <2>3. /\ Len(inbound') = Len(inbound) + 1
        /\ \A i \in 1..Len(inbound) : inbound'[i] = inbound[i]
        /\ inbound'[Len(inbound) + 1] = c
    BY <1>7 DEF Answer
  <2>4. \A d \in Call : OnTheWay(d)' => OnTheWay(d) \/ d = c
    BY <2>3 DEF OnTheWay
  <2>5. \A i, j \in 1..Len(inbound') : inbound'[i] = inbound'[j] => i = j
    BY <2>2, <2>3 DEF OneAnswer, OnTheWay
  <2>6. UNCHANGED <<responses, call, uuid, alive, result>>
    BY <1>7 DEF Answer, callVars
  <2>7. OneAnswer'
    BY <2>1, <2>2, <2>4, <2>5, <2>6 DEF OneAnswer, InMap
  <2> QED BY <2>6, <2>7 DEF OwnEntry, Pending, AnswersMatch
<1>8. ASSUME Complete PROVE Goal
  <2> DEFINE h == Head(inbound)
  <2>1. /\ h \in Call /\ h \in sent /\ uuid[h] \in Uuid
        /\ inbound[1] = h /\ 1 \in 1..Len(inbound)
    BY <1>8, HeadOfInbound DEF Complete
  <2>2. /\ responses' = [responses EXCEPT ![uuid[h]] = Completed(h)]
        /\ UNCHANGED <<call, uuid, alive, result, answers>>
    BY <1>8 DEF Complete, callVars
  <2>3. /\ Len(inbound') = Len(inbound) - 1
        /\ \A i \in 1..Len(inbound') : /\ i + 1 \in 1..Len(inbound)
                                       /\ inbound'[i] = inbound[i + 1]
    BY <1>8, TailOfInbound DEF Complete
  <2>4. OnTheWay(h) /\ call[h] # "ok" /\ call[h] # "sending"
    BY <2>1 DEF OnTheWay, OneAnswer, KnownCalls
  <2>5. \A d \in Call : OnTheWay(d)' => OnTheWay(d) /\ d # h
    BY <2>1, <2>3 DEF OnTheWay, OneAnswer
  <2>6. \A d \in Call : InMap(d)' => InMap(d) \/ d = h
    BY <2>1, <2>2, StatusTags DEF InMap
  <2>7. ASSUME NEW i \in 1..Len(inbound'), NEW j \in 1..Len(inbound'),
               inbound'[i] = inbound'[j]
        PROVE  i = j
    <3>1. inbound[i + 1] = inbound[j + 1]
      BY <2>3, <2>7
    <3>2. i + 1 = j + 1
      BY <2>3, <3>1 DEF OneAnswer
    <3> QED BY <3>2
  <2>8. OneAnswer'
    BY <2>2, <2>4, <2>5, <2>6, <2>7 DEF OneAnswer
  <2>9. \A c \in Call : /\ uuid[c] = uuid[h]
                        /\ Pending(c) \/ call[c] = "sending"
                        => c = h
    BY <2>1, <2>4, OthersAnswered
  <2>10. OwnEntry'
    BY <2>1, <2>2, <2>4, <2>9 DEF OwnEntry, Pending, UsedHasUuid, KnownCalls
  <2> QED BY <2>2, <2>8, <2>10 DEF AnswersMatch
<1>9. ASSUME Discard PROVE Goal
  <2>1. /\ UNCHANGED <<call, uuid, alive, result, answers>>
        /\ responses' = [responses EXCEPT ![uuid[Head(inbound)]] = Absent]
    BY <1>9 DEF Discard, callVars
  <2>2. /\ Len(inbound') = Len(inbound) - 1
        /\ \A i \in 1..Len(inbound') : /\ i + 1 \in 1..Len(inbound)
                                       /\ inbound'[i] = inbound[i + 1]
    BY <1>9, TailOfInbound DEF Discard
  <2>3. \A d \in Call : OnTheWay(d)' => OnTheWay(d)
    BY <2>2 DEF OnTheWay
  <2>4. \A d \in Call : InMap(d)' => InMap(d)
    BY <2>1, StatusTags DEF InMap
  <2>5. ASSUME NEW i \in 1..Len(inbound'), NEW j \in 1..Len(inbound'),
               inbound'[i] = inbound'[j]
        PROVE  i = j
    <3>1. inbound[i + 1] = inbound[j + 1]
      BY <2>2, <2>5
    <3>2. i + 1 = j + 1
      BY <2>2, <3>1 DEF OneAnswer
    <3> QED BY <3>2
  <2>6. OneAnswer'
    BY <2>1, <2>3, <2>4, <2>5 DEF OneAnswer
  <2>7. OwnEntry'
    BY <2>1, StatusTags DEF OwnEntry, Pending, UsedHasUuid, KnownCalls
  <2> QED BY <2>1, <2>6, <2>7 DEF AnswersMatch
<1>10. ASSUME LinkEnd \/ Cancel PROVE Goal
  <2>1. /\ UNCHANGED <<responses, call, uuid, alive, result, answers>>
        /\ inbound' = <<>>
    BY <1>10 DEF LinkEnd, Cancel, callVars
  <2>2. OneAnswer'
    BY <2>1 DEF OneAnswer, OnTheWay, InMap
  <2> QED BY <2>1, <2>2 DEF OwnEntry, Pending, AnswersMatch
<1>11. ASSUME ClearMap PROVE Goal
  <2>1. /\ UNCHANGED <<call, uuid, alive, result, answers, inbound>>
        /\ \A u \in Uuid : responses'[u] = Absent
    BY <1>11 DEF ClearMap, callVars, wireVars
  <2>2. \A d \in Call : ~InMap(d)'
    BY <2>1, StatusTags DEF InMap
  <2>3. OneAnswer'
    BY <2>1, <2>2, AnswerQuiet
  <2>4. OwnEntry'
    BY <2>1, StatusTags DEF OwnEntry, Pending, UsedHasUuid, KnownCalls
  <2> QED BY <2>1, <2>3, <2>4 DEF AnswersMatch
<1>12. CASE ClearWake \/ TaskEnd \/ Close \/ UNCHANGED vars
  <2>1. UNCHANGED <<responses, call, uuid, alive, result, answers, inbound>>
    BY <1>12 DEF ClearWake, TaskEnd, Close, callVars, wireVars, vars
  <2> QED BY <2>1 DEF OneAnswer, OnTheWay, InMap, OwnEntry, Pending, AnswersMatch
<1> QED BY <1>1, <1>2, <1>3, <1>4, <1>5, <1>6, <1>7, <1>8, <1>9, <1>10, <1>11, <1>12
        DEF Next, Caller, ConnectionTask, OnMessage, Poll

LEMMA AnswerInit == Init => AnswerInv
<1> SUFFICES ASSUME Init PROVE OneAnswer /\ OwnEntry /\ AnswersMatch
  BY DEF AnswerInv
<1>1. \A d \in Call : ~InMap(d) /\ ~OnTheWay(d)
  BY StatusTags DEF Init, InMap, OnTheWay
<1> QED BY <1>1 DEF Init, OneAnswer, OwnEntry, Pending, AnswersMatch

(* With a server that answers once, an await returns the answer to its own    *)
(* request, whatever the order in which answers, polls, drops, replies and    *)
(* the end of the link interleave.                                            *)
THEOREM OwnAnswers == Spec => [](AnswerInv /\ AnswersMatch)
<1>1. AnswerInv => AnswersMatch
  BY DEF AnswerInv, AnswersMatch
<1>2. Spec => []AnswerInv
  BY AnswerInit, AnswerStep, TypeCorrect, MapDoesNotLeak, SerialConversations, PTL
  DEF Spec
<1> QED BY <1>1, <1>2, PTL

(* The step of AnswerKept: only the owner of an entry, or clear(), can take a *)
(* stored answer away.                                                        *)
KeepsAnswer(c) ==
  Waits(c) /\ responses[uuid[c]].tag = "completed" =>
    \/ responses'[uuid[c]] = responses[uuid[c]]
    \/ call'[c] = "ok" \/ c \notin alive'
    \/ conn = "clearing" /\ conn' = "cleared"

LEMMA KeepStep ==
  ASSUME TypeInv, OwnedEntry, SerialInv, AnswerInv, [Next]_vars,
         Disciplined, MaxAnswers = 1, NEW c \in Call
  PROVE  KeepsAnswer(c)
<1> SUFFICES ASSUME Waits(c), responses[uuid[c]].tag = "completed"
             PROVE  \/ responses'[uuid[c]] = responses[uuid[c]]
                    \/ call'[c] = "ok" \/ c \notin alive'
                    \/ conn = "clearing" /\ conn' = "cleared"
  BY DEF KeepsAnswer
<1> DEFINE Kept == responses'[uuid[c]] = responses[uuid[c]]
<1>1. Pending(c) /\ uuid[c] \in Uuid /\ responses[uuid[c]] = Completed(c)
  BY DEF Waits, Pending, TypeInv, UsedHasUuid, AnswerInv, OwnEntry
<1>2. \A d \in Call \ {c} : uuid[d] = uuid[c] => call[d] = "ok" /\ d \notin alive
  BY <1>1, OthersAnswered
<1>3. ASSUME NEW d \in Call, NEW u \in Uuid, GenerateUuid(d, u) PROVE Kept
  BY <1>3, <1>1, StatusTags DEF GenerateUuid, TypeInv, TypeOK
<1>4. ASSUME NEW d \in Call, SendBytes(d) PROVE Kept
  BY <1>4 DEF SendBytes
<1>5. ASSUME NEW src \in Call, NEW d \in Call, Reply(src, d) PROVE Kept
  BY <1>5, <1>1, StatusTags DEF Reply, TypeInv, TypeOK
<1>6. ASSUME NEW d \in Call, NEW t \in Task, Poll(d, t)
      PROVE  Kept \/ call'[c] = "ok"
  <2>1. CASE d = c
    BY <1>6, <1>1, <2>1, StatusTags
    DEF Poll, PollNone, PollStarted, PollCompleted, PollNotFound, TypeInv, TypeOK
  <2>2. CASE d # c
    <3>1. uuid[d] # uuid[c]
      BY <1>6, <1>2, <2>2
      DEF Poll, PollNone, PollStarted, PollCompleted, PollNotFound, CanPoll, Pending
    <3> QED BY <1>6, <1>1, <3>1
            DEF Poll, PollNone, PollStarted, PollCompleted, PollNotFound, TypeInv, TypeOK
  <2> QED BY <2>1, <2>2
<1>7. ASSUME NEW d \in Call, DropFuture(d) PROVE Kept \/ c \notin alive'
  BY <1>7, <1>1, <1>2 DEF DropFuture, TypeInv, TypeOK
<1>8. CASE Complete
  BY <1>8, <1>1, HeadOfInbound, StatusTags DEF Complete, TypeInv, TypeOK
<1>9. CASE Discard
  <2> DEFINE h == Head(inbound)
  <2>1. /\ h \in Call /\ uuid[h] \in Uuid
        /\ inbound[1] = h /\ 1 \in 1..Len(inbound)
    BY <1>9, HeadOfInbound DEF Discard, TypeInv, TypeOK
  <2>2. OnTheWay(h) /\ InMap(c)
    BY <1>1, <2>1 DEF OnTheWay, InMap
  <2>3. h # c /\ call[h] # "ok"
    BY <2>1, <2>2 DEF AnswerInv, OneAnswer
  <2>4. uuid[h] # uuid[c]
    BY <1>2, <2>1, <2>3
  <2> QED BY <1>1, <1>9, <2>1, <2>4 DEF Discard, TypeInv, TypeOK
<1>10. CASE ClearMap
  BY <1>10 DEF ClearMap
<1>11. CASE LinkEnd \/ ClearWake \/ TaskEnd \/ Close \/ Cancel \/ UNCHANGED vars
            \/ \E d \in Call : Answer(d)
  BY <1>11 DEF LinkEnd, ClearWake, TaskEnd, Close, Cancel, Answer, vars
<1> QED BY <1>3, <1>4, <1>5, <1>6, <1>7, <1>8, <1>9, <1>10, <1>11
        DEF Next, Caller, ConnectionTask, OnMessage

(* An answer that reached the map of a waiting future is not lost to a late   *)
(* reply, to another future's Drop or to a new call.                          *)
THEOREM AnswersAreKept == Spec => AnswerKept
<1>1. /\ TypeInv /\ OwnedEntry /\ SerialInv /\ AnswerInv /\ [Next]_vars
      => [Disciplined /\ MaxAnswers = 1 => \A c \in Call : KeepsAnswer(c)]_vars
  BY KeepStep
<1>2. (Disciplined /\ MaxAnswers = 1 => \A c \in Call : KeepsAnswer(c))
        <=> (Disciplined /\ MaxAnswers = 1 =>
               \A c \in Call :
                 Waits(c) /\ responses[uuid[c]].tag = "completed" =>
                   \/ responses'[uuid[c]] = responses[uuid[c]]
                   \/ call'[c] = "ok" \/ c \notin alive'
                   \/ conn = "clearing" /\ conn' = "cleared")
  BY DEF KeepsAnswer
<1> QED BY <1>1, <1>2, TypeCorrect, MapDoesNotLeak, SerialConversations, OwnAnswers, PTL
        DEF Spec, AnswerKept

-----------------------------------------------------------------------------
(* No lost wake-up.                                                          *)

(* What a step must show of one call: the three parts of WakeInv about it.   *)
FitsAt(c) ==
  /\ Pending(c) /\ responses[uuid[c]].tag = "started"
       => responses[uuid[c]] = Started(waiting[c])
  /\ call[c] = "sending" => responses[uuid[c]].tag \in {"absent", "none"}

AloneAt(c) ==
  ~Parallel =>
    /\ conn \in {"waking", "clearing", "cleared"} => call[c] # "sending"
    /\ conn = "clearing" => (Waits(c) => waiting[c] \in woken)
    /\ conn \in {"cleared", "ended"} => (Pending(c) => responses[uuid[c]] = Absent)

WokenAt(c) ==
  Waits(c) =>
    \/ waiting[c] \in woken
    \/ responses[uuid[c]] = Started(waiting[c]) /\ (conn = "ended" => Parallel)
    \/ Parallel /\ conn \in {"cleared", "ended"}

WakeAt(c) == FitsAt(c) /\ AloneAt(c) /\ WokenAt(c)

LEMMA WakeByCall ==
  ASSUME Disciplined, ~Migrating
  PROVE  WakeInv <=> \A c \in Call : WakeAt(c)
BY DEF WakeInv, WakerFits, ClearsAlone, NoLostWakeup, WakeAt, FitsAt, AloneAt, WokenAt

(* A call keeps its part when nothing it depends on changes.                 *)
LEMMA WakeKept ==
  ASSUME NEW c \in Call, WakeAt(c),
         call'[c] = call[c], uuid'[c] = uuid[c], waiting'[c] = waiting[c],
         c \in alive' <=> c \in alive,
         Pending(c) \/ call[c] = "sending" => responses'[uuid[c]] = responses[uuid[c]],
         conn' = conn,
         Waits(c) /\ waiting[c] \in woken => waiting[c] \in woken'
  PROVE  WakeAt(c)'
BY DEF WakeAt, FitsAt, AloneAt, WokenAt, Waits, Pending

LEMMA WakeStep ==
  TypeInv /\ OwnedEntry /\ SerialInv /\ WakeInv /\ [Next]_vars => WakeInv'
<1> SUFFICES ASSUME TypeInv, OwnedEntry, SerialInv, [Next]_vars,
                    Disciplined, ~Migrating, \A d \in Call : WakeAt(d),
                    NEW c \in Call
             PROVE  WakeAt(c)'
  BY WakeByCall DEF WakeInv, WakerFits, ClearsAlone, NoLostWakeup, WakeAt, FitsAt,
                    AloneAt, WokenAt
<1> USE DEF TypeInv, TypeOK
<1>0. WakeAt(c)
  OBVIOUS
<1>1. ASSUME NEW d \in Call, NEW u \in Uuid, GenerateUuid(d, u) PROVE WakeAt(c)'
  <2>1. CASE c = d
    <3>1. c \notin alive /\ call'[c] = "sending" /\ alive' = alive
      BY <1>1, <2>1 DEF GenerateUuid, KnownCalls
    <3>2. responses'[uuid'[c]] = None
      BY <1>1, <2>1 DEF GenerateUuid
    <3>3. ~Parallel => conn' \notin {"waking", "clearing", "cleared"}
      BY <1>1 DEF GenerateUuid, MayRun, Busy, linkVars
    <3> QED BY <3>1, <3>2, <3>3, StatusTags
            DEF WakeAt, FitsAt, AloneAt, WokenAt, Waits, Pending
  <2>2. CASE c # d
    BY <1>0, <1>1, <2>2, WakeKept DEF GenerateUuid, linkVars
  <2> QED BY <2>1, <2>2
<1>2. ASSUME NEW d \in Call, SendBytes(d) PROVE WakeAt(c)'
  <2>1. CASE c = d
    <3>1. /\ waiting' = waiting /\ uuid' = uuid /\ conn' = conn
          /\ responses' = responses /\ woken' = woken
          /\ call'[c] # "sending"
          /\ call'[c] = "future" => conn # "ended"
          /\ responses[uuid[c]].tag \in {"absent", "none"}
          /\ call[c] = "sending"
      BY <1>0, <1>2, <2>1
      DEF SendBytes, SendOk, SendFailed, SendRefused, ChannelOpen, WakeAt, FitsAt, linkVars
    <3>2. waiting[c] = NoTask
      BY <3>1 DEF KnownCalls
    <3> QED BY <1>0, <3>1, <3>2
            DEF WakeAt, FitsAt, AloneAt, WokenAt, Waits, Pending
  <2>2. CASE c # d
    BY <1>0, <1>2, <2>2, WakeKept DEF SendBytes, SendOk, SendFailed, SendRefused, linkVars
  <2> QED BY <2>1, <2>2
<1>3. ASSUME NEW src \in Call, NEW d \in Call, Reply(src, d) PROVE WakeAt(c)'
  <2>1. /\ uuid[src] \in Uuid
        /\ responses' = [responses EXCEPT ![uuid[src]] = None]
    BY <1>3, FreshReply DEF Reply
  <2>2. CASE c = d
    <3>1. waiting[c] = NoTask /\ waiting' = waiting /\ conn' = conn
      BY <1>3, <2>2 DEF Reply, KnownCalls, linkVars
    <3>2. responses'[uuid'[c]] = None /\ call'[c] # "sending"
      BY <1>3, <2>1, <2>2 DEF Reply, SendOk, SendFailed, SendRefused
    <3>3. ~Parallel /\ conn \in {"cleared", "ended"} => ~Pending(c)'
      BY <1>3, <2>2
      DEF Reply, SendOk, SendFailed, SendRefused, ChannelOpen, MayRun, Busy, Pending
    <3> QED BY <3>1, <3>2, <3>3, StatusTags
            DEF WakeAt, FitsAt, AloneAt, WokenAt, Waits, Pending
  <2>3. CASE c # d
    <3>1. Pending(c) \/ call[c] = "sending" => uuid[c] # uuid[src]
      BY <1>3, <2>1, NullAssumption DEF Reply, SerialInv, Over, Finished, Pending
    <3> QED BY <1>0, <1>3, <2>1, <2>3, <3>1, WakeKept
            DEF Reply, SendOk, SendFailed, SendRefused, linkVars, UsedHasUuid, Pending
  <2> QED BY <2>2, <2>3
<1>4. ASSUME NEW d \in Call, NEW t \in Task, Poll(d, t), c # d PROVE WakeAt(c)'
  <2>1. /\ CanPoll(d, t)
        /\ call'[c] = call[c] /\ waiting'[c] = waiting[c]
        /\ UNCHANGED <<uuid, alive, conn>>
        /\ woken' = woken \ {t}
        /\ \A u \in Uuid \ {uuid[d]} : responses'[u] = responses[u]
    BY <1>4 DEF Poll, PollNone, PollStarted, PollCompleted, PollNotFound, linkVars
  <2>2. Pending(c) \/ call[c] = "sending" => uuid[c] # uuid[d] /\ uuid[c] \in Uuid
    BY <1>4, <2>1, OthersAnswered DEF CanPoll, Pending, UsedHasUuid
  <2>3. Waits(c) => waiting[c] # t
    BY <1>4, <2>1 DEF CanPoll
  <2> QED BY <1>0, <2>1, <2>2, <2>3, WakeKept
(* The future that polls leaves its own waker, or does not wait any more.    *)
<1>5. ASSUME NEW t \in Task, Poll(c, t) PROVE WakeAt(c)'
  <2>1. CanPoll(c, t) /\ Pending(c) /\ uuid[c] \in Uuid
    BY <1>5 DEF Poll, PollNone, PollStarted, PollCompleted, PollNotFound, CanPoll,
                Pending, UsedHasUuid
  <2>2. CASE PollCompleted(c, t) \/ PollNotFound(c, t)
    BY <2>2 DEF PollCompleted, PollNotFound, WakeAt, FitsAt, AloneAt, WokenAt,
                Waits, Pending
  <2>3. CASE PollNone(c, t) \/ PollStarted(c, t)
    <3>1. responses'[uuid'[c]] = Started(t)
      <4>1. CASE PollNone(c, t)
        BY <4>1, <2>1 DEF PollNone
      <4>2. CASE PollStarted(c, t)
        <5>1. responses[uuid[c]] = Started(waiting[c])
          BY <1>0, <2>1, <4>2 DEF PollStarted, WakeAt, FitsAt
        <5>2. waiting[c] # NoTask
          <6>1. responses[uuid[c]].tag = "started"
            BY <4>2 DEF PollStarted
          <6>2. responses[uuid[c]].waker = waiting[c]
            BY <5>1, StatusTags
          <6> QED BY <2>1, <6>1, <6>2, NullAssumption DEF StartedHasWaker
        <5>3. waiting[c] = t
          BY <2>1, <5>2 DEF CanPoll
        <5> QED BY <4>2, <5>1, <5>3 DEF PollStarted
      <4> QED BY <2>3, <4>1, <4>2
    <3>2. /\ call' = call /\ alive' = alive /\ conn' = conn
          /\ waiting'[c] = t
      BY <2>3 DEF PollNone, PollStarted, linkVars
    <3>3. ~Parallel => conn \notin {"waking", "clearing", "cleared"}
      BY <2>1 DEF CanPoll, MayUse, MayRun, Busy
    <3>4. ~Parallel => conn # "ended"
      BY <1>0, <2>1, <2>3, StatusTags DEF PollNone, PollStarted, WakeAt, AloneAt
    <3> QED BY <2>1, <3>1, <3>2, <3>3, <3>4
            DEF WakeAt, FitsAt, AloneAt, WokenAt, Pending
  <2> QED BY <1>5, <2>2, <2>3 DEF Poll
<1>6. ASSUME NEW d \in Call, DropFuture(d) PROVE WakeAt(c)'
  <2>1. CASE c = d
    BY <1>6, <2>1 DEF DropFuture, KnownCalls, WakeAt, FitsAt, AloneAt, WokenAt,
                      Waits, Pending
  <2>2. CASE c # d
    <3>1. Pending(c) \/ call[c] = "sending" => uuid[c] # uuid[d]
      BY <1>6, <2>2, OthersAnswered DEF DropFuture
    <3>2. Pending(c) \/ call[c] = "sending" => uuid[c] \in Uuid
      BY DEF UsedHasUuid, Pending
    <3> QED BY <1>0, <1>6, <2>2, <3>1, <3>2, WakeKept DEF DropFuture, linkVars
  <2> QED BY <2>1, <2>2
<1>7. CASE Complete
  <2> DEFINE h == Head(inbound)
  <2>1. /\ h \in Call /\ uuid[h] \in Uuid
        /\ responses[uuid[h]].tag = "started"
        /\ responses' = [responses EXCEPT ![uuid[h]] = Completed(h)]
        /\ woken' = woken \cup {responses[uuid[h]].waker}
        /\ conn = "running"
        /\ UNCHANGED <<call, uuid, alive, waiting, conn>>
    BY <1>7, HeadOfInbound DEF Complete, linkVars, callVars
  <2>2. CASE uuid[c] = uuid[h]
    <3>1. call[c] # "sending"
      BY <1>0, <2>1, <2>2 DEF WakeAt, FitsAt
    <3>2. Waits(c) => waiting[c] \in woken'
      BY <1>0, <2>1, <2>2, StatusTags DEF WakeAt, FitsAt, Waits
    <3>3. responses'[uuid[c]].tag = "completed"
      BY <2>1, <2>2, StatusTags
    <3> QED BY <2>1, <3>1, <3>2, <3>3
            DEF WakeAt, FitsAt, AloneAt, WokenAt, Waits, Pending
  <2>3. CASE uuid[c] # uuid[h]
    BY <1>0, <2>1, <2>3, WakeKept
  <2> QED BY <2>2, <2>3
<1>8. CASE Discard
  <2> DEFINE h == Head(inbound)
  <2>1. /\ h \in Call /\ uuid[h] \in Uuid
        /\ responses[uuid[h]].tag # "started"
        /\ responses' = [responses EXCEPT ![uuid[h]] = Absent]
        /\ conn = "running"
        /\ UNCHANGED <<call, uuid, alive, waiting, conn, woken>>
    BY <1>8, HeadOfInbound DEF Discard, linkVars, callVars
  <2>2. CASE uuid[c] = uuid[h]
    <3>1. Waits(c) => waiting[c] \in woken
      BY <1>0, <2>1, <2>2, StatusTags DEF WakeAt, WokenAt
    <3>2. responses'[uuid[c]].tag = "absent"
      BY <2>1, <2>2, StatusTags
    <3> QED BY <2>1, <3>1, <3>2
            DEF WakeAt, FitsAt, AloneAt, WokenAt, Waits, Pending
  <2>3. CASE uuid[c] # uuid[h]
    BY <1>0, <2>1, <2>3, WakeKept
  <2> QED BY <2>2, <2>3
<1>9. CASE LinkEnd
  BY <1>0, <1>9 DEF LinkEnd, callVars, MayRun, Busy, WakeAt, FitsAt, AloneAt, WokenAt,
                    Waits, Pending
(* Every waker of the map is woken before the map is emptied.                *)
<1>10. CASE ClearWake
  <2>1. /\ conn = "waking" /\ conn' = "clearing"
        /\ UNCHANGED <<responses, call, uuid, alive, waiting>>
        /\ woken \subseteq woken'
        /\ \A u \in Uuid : responses[u].tag = "started" => responses[u].waker \in woken'
    BY <1>10 DEF ClearWake, callVars
  <2>2. Waits(c) => waiting[c] \in woken'
    BY <1>0, <2>1, StatusTags DEF WakeAt, WokenAt, Waits, Pending, UsedHasUuid
  <2> QED BY <1>0, <2>1, <2>2 DEF WakeAt, FitsAt, AloneAt, WokenAt, Waits, Pending
<1>11. CASE ClearMap
  <2>1. /\ conn = "clearing" /\ conn' = "cleared"
        /\ UNCHANGED <<call, uuid, alive, waiting, woken>>
        /\ \A u \in Uuid : responses'[u] = Absent
    BY <1>11 DEF ClearMap, callVars
  <2> QED BY <1>0, <2>1, StatusTags
          DEF WakeAt, FitsAt, AloneAt, WokenAt, Waits, Pending, UsedHasUuid
<1>12. CASE TaskEnd
  BY <1>0, <1>12, StatusTags
  DEF TaskEnd, callVars, WakeAt, FitsAt, AloneAt, WokenAt, Waits, Pending
<1>13. CASE Close \/ UNCHANGED vars \/ \E d \in Call : Answer(d)
  BY <1>0, <1>13, WakeKept DEF Close, Answer, callVars, linkVars, vars
<1>14. CASE Cancel
  BY <1>0, <1>14
  DEF Cancel, callVars, WakeAt, FitsAt, AloneAt, WokenAt, Waits, Pending
<1> QED BY <1>1, <1>2, <1>3, <1>4, <1>5, <1>6, <1>7, <1>8, <1>9, <1>10, <1>11, <1>12,
           <1>13, <1>14
        DEF Next, Caller, ConnectionTask, OnMessage

(* A disciplined caller whose futures stay on their tasks loses no wake-up,   *)
(* save on a parallel runtime when it polls inside or after clear().          *)
THEOREM NoWakeupIsLost == Spec => []NoLostWakeup
<1>1. Init => WakeInv
  BY StatusTags, NullAssumption
  DEF Init, WakeInv, WakerFits, ClearsAlone, NoLostWakeup, Waits, Pending
<1>2. Spec => []WakeInv
  BY <1>1, WakeStep, TypeCorrect, MapDoesNotLeak, SerialConversations, PTL DEF Spec
<1>3. WakeInv => NoLostWakeup
  BY DEF WakeInv, NoLostWakeup
<1> QED BY <1>2, <1>3, PTL

-----------------------------------------------------------------------------
(* The promise of RequestReply.                                              *)

(* What the promise says of each state of a call. *)
LEMMA Outcomes ==
  ASSUME NEW c \in Call
  PROVE  /\ call[c] \in {"unused", "sending"} => OutcomeOf(c) = "idle"
         /\ call[c] = "future" /\ c \in alive => OutcomeOf(c) = "asked"
         /\ call[c] = "future" /\ c \notin alive => OutcomeOf(c) = "abandoned"
         /\ call[c] = "ok" => OutcomeOf(c) = "answered"
         /\ call[c] = "refused" => OutcomeOf(c) = "refused"
         /\ call[c] \in {"senderr", "notfound", "mutexerr"} => OutcomeOf(c) = "failed"
BY DEF OutcomeOf

LEMMA OutcomesAfter ==
  ASSUME NEW c \in Call
  PROVE  /\ call'[c] \in {"unused", "sending"} => OutcomeOf(c)' = "idle"
         /\ call'[c] = "future" /\ c \in alive' => OutcomeOf(c)' = "asked"
         /\ call'[c] = "future" /\ c \notin alive' => OutcomeOf(c)' = "abandoned"
         /\ call'[c] = "ok" => OutcomeOf(c)' = "answered"
         /\ call'[c] = "refused" => OutcomeOf(c)' = "refused"
         /\ call'[c] \in {"senderr", "notfound", "mutexerr"} => OutcomeOf(c)' = "failed"
BY DEF OutcomeOf

(* The mapped variables, by name. *)
outcome == [c \in Call |-> OutcomeOf(c)]
served  == {c \in Call : answers[c] > 0}
open    == conn = "running"

(* A call that a step leaves alone keeps its outcome. *)
LEMMA SameOutcome ==
  ASSUME TypeInv, NEW d \in Call,
         call'[d] = call[d], d \in alive' <=> d \in alive
  PROVE  OutcomeOf(d)' = OutcomeOf(d)
<1>1. call[d] \in {"unused", "sending", "refused", "senderr", "future", "ok", "notfound"}
  BY DEF TypeInv, TypeOK, CallState
<1> QED BY <1>1, Outcomes, OutcomesAfter

LEMMA NoOutcome ==
  ASSUME \A d \in Call : OutcomeOf(d)' = OutcomeOf(d)
  PROVE  outcome' = outcome
BY DEF outcome

LEMMA OneOutcome ==
  ASSUME NEW c \in Call, NEW v, OutcomeOf(c)' = v,
         \A d \in Call \ {c} : OutcomeOf(d)' = OutcomeOf(d)
  PROVE  outcome' = [outcome EXCEPT ![c] = v]
BY DEF outcome

(* The steps of the promise, over the mapped variables. *)
LEMMA PromiseBecomes ==
  ASSUME NEW c \in Call, NEW from, NEW to,
         OutcomeOf(c) = from, outcome' = [outcome EXCEPT ![c] = to]
  PROVE  Weak!Become(c, from, to)
<1>1. outcome[c] = from
  BY DEF outcome
<1> QED BY <1>1 DEF Weak!Become, outcome

LEMMA PromiseAsk ==
  ASSUME NEW c \in Call, OutcomeOf(c) = "idle",
         outcome' = [outcome EXCEPT ![c] = "asked"], UNCHANGED <<result, answers, conn>>
  PROVE  Weak!Next
BY PromiseBecomes DEF Weak!Ask, Weak!Next

LEMMA PromiseRefuse ==
  ASSUME NEW c \in Call, OutcomeOf(c) = "idle",
         outcome' = [outcome EXCEPT ![c] = "refused"], UNCHANGED <<result, answers, conn>>
  PROVE  Weak!Next
<1>1. Weak!Refuse(c)
  BY PromiseBecomes DEF Weak!Refuse
<1> QED BY <1>1 DEF Weak!Next

LEMMA PromiseServe ==
  ASSUME NEW c \in Call, open, OutcomeOf(c) \notin {"idle", "refused"},
         served' = served \cup {c}, UNCHANGED <<outcome, result, conn>>
  PROVE  Weak!Next
<1>1. outcome[c] \notin {"idle", "refused"}
  BY DEF outcome
<1>2. Weak!Serve(c)
  BY <1>1 DEF Weak!Serve, outcome, served, open
<1> QED BY <1>2 DEF Weak!Next

LEMMA PromiseReceive ==
  ASSUME NEW c \in Call, c \in served, OutcomeOf(c) = "asked",
         outcome' = [outcome EXCEPT ![c] = "answered"],
         result' = [result EXCEPT ![c] = c], UNCHANGED <<answers, conn>>
  PROVE  Weak!Next
<1>1. Weak!Receive(c)
  BY PromiseBecomes DEF Weak!Receive, served
<1> QED BY <1>1 DEF Weak!Next

LEMMA PromiseFail ==
  ASSUME NEW c \in Call, OutcomeOf(c) \in {"idle", "asked"},
         outcome' = [outcome EXCEPT ![c] = "failed"], UNCHANGED <<result, answers, conn>>
  PROVE  Weak!Next
<1>1. Weak!Fail(c)
  BY PromiseBecomes DEF Weak!Fail
<1> QED BY <1>1 DEF Weak!Next

LEMMA PromiseAbandon ==
  ASSUME NEW c \in Call, OutcomeOf(c) = "asked",
         outcome' = [outcome EXCEPT ![c] = "abandoned"], UNCHANGED <<result, answers, conn>>
  PROVE  Weak!Next
<1>1. Weak!Abandon(c)
  BY PromiseBecomes DEF Weak!Abandon
<1> QED BY <1>1 DEF Weak!Next

LEMMA PromiseStutters ==
  UNCHANGED <<outcome, result, served, open>> => UNCHANGED Weak!vars
BY DEF outcome, served, open, Weak!vars

(* A send that went through asks; one that did not fails or is refused. *)
LEMMA SendStep ==
  ASSUME TypeInv, NEW c \in Call, call[c] \in {"unused", "sending"},
         SendOk(c) \/ SendFailed(c) \/ SendRefused(c), UNCHANGED <<result, answers, conn>>
  PROVE  Weak!Next
<1>1. \A d \in Call \ {c} : OutcomeOf(d)' = OutcomeOf(d)
  BY SameOutcome DEF SendOk, SendFailed, SendRefused, TypeInv, TypeOK
<1>2. OutcomeOf(c) = "idle"
  BY Outcomes
<1>3. CASE SendOk(c)
  <2>1. call'[c] = "future" /\ c \in alive'
    BY <1>3 DEF SendOk, TypeInv, TypeOK
  <2>2. OutcomeOf(c)' = "asked"
    BY <2>1, OutcomesAfter
  <2>3. outcome' = [outcome EXCEPT ![c] = "asked"]
    BY <1>1, <2>2, OneOutcome
  <2> QED BY <1>2, <2>3, PromiseAsk
<1>4. CASE SendFailed(c)
  <2>1. call'[c] = "senderr"
    BY <1>4 DEF SendFailed, TypeInv, TypeOK
  <2>2. OutcomeOf(c)' = "failed"
    BY <2>1, OutcomesAfter
  <2>3. outcome' = [outcome EXCEPT ![c] = "failed"]
    BY <1>1, <2>2, OneOutcome
  <2> QED BY <1>2, <2>3, PromiseFail
<1>5. CASE SendRefused(c)
  <2>1. call'[c] = "refused"
    BY <1>5 DEF SendRefused, TypeInv, TypeOK
  <2>2. OutcomeOf(c)' = "refused"
    BY <2>1, OutcomesAfter
  <2>3. outcome' = [outcome EXCEPT ![c] = "refused"]
    BY <1>1, <2>2, OneOutcome
  <2> QED BY <1>2, <2>3, PromiseRefuse
<1> QED BY <1>3, <1>4, <1>5

(* A poll that is Ready resolves the call; Pending is not seen. *)
LEMMA PollStep ==
  ASSUME TypeInv, AnswerInv, Disciplined, MaxAnswers = 1,
         NEW c \in Call, NEW t \in Task, Poll(c, t)
  PROVE  Weak!Next \/ UNCHANGED Weak!vars
<1>1. CASE PollNone(c, t) \/ PollStarted(c, t)
  <2>1. UNCHANGED <<call, alive, result, answers, conn>>
    BY <1>1 DEF PollNone, PollStarted, linkVars, wireVars
  <2>2. \A d \in Call : OutcomeOf(d)' = OutcomeOf(d)
    BY <2>1, SameOutcome
  <2>3. outcome' = outcome
    BY <2>2, NoOutcome
  <2> QED BY <2>1, <2>3, PromiseStutters DEF served, open
<1>2. CASE PollCompleted(c, t)
  <2>1. /\ Pending(c)
        /\ call' = [call EXCEPT ![c] = "ok"]
        /\ result' = [result EXCEPT ![c] = responses[uuid[c]].data]
        /\ responses[uuid[c]].tag = "completed"
        /\ UNCHANGED <<alive, answers, conn>>
    BY <1>2 DEF PollCompleted, CanPoll, linkVars, wireVars
  <2>2. responses[uuid[c]] = Completed(c) /\ uuid[c] \in Uuid
    BY <2>1 DEF AnswerInv, OwnEntry, TypeInv, UsedHasUuid, Pending
  <2>3. result' = [result EXCEPT ![c] = c]
    BY <2>1, <2>2, StatusTags
  <2>4. c \in served
    BY <2>2 DEF AnswerInv, OneAnswer, InMap, served
  <2>5. OutcomeOf(c) = "asked" /\ OutcomeOf(c)' = "answered"
    BY <2>1, Outcomes, OutcomesAfter DEF Pending, TypeInv, TypeOK
  <2>6. \A d \in Call \ {c} : OutcomeOf(d)' = OutcomeOf(d)
    BY <2>1, SameOutcome DEF TypeInv, TypeOK
  <2>7. outcome' = [outcome EXCEPT ![c] = "answered"]
    BY <2>5, <2>6, OneOutcome
  <2> QED BY <2>1, <2>3, <2>4, <2>5, <2>7, PromiseReceive
<1>3. CASE PollNotFound(c, t)
  <2>1. /\ Pending(c)
        /\ call' = [call EXCEPT ![c] = "notfound"]
        /\ UNCHANGED <<alive, result, answers, conn>>
    BY <1>3 DEF PollNotFound, CanPoll, linkVars, wireVars
  <2>2. OutcomeOf(c) = "asked" /\ OutcomeOf(c)' = "failed"
    BY <2>1, Outcomes, OutcomesAfter DEF Pending, TypeInv, TypeOK
  <2>3. \A d \in Call \ {c} : OutcomeOf(d)' = OutcomeOf(d)
    BY <2>1, SameOutcome DEF TypeInv, TypeOK
  <2>4. outcome' = [outcome EXCEPT ![c] = "failed"]
    BY <2>2, <2>3, OneOutcome
  <2> QED BY <2>1, <2>2, <2>4, PromiseFail
<1> QED BY <1>1, <1>2, <1>3 DEF Poll

(* Dropping a future that is still pending gives the request up. *)
LEMMA DropStep ==
  ASSUME TypeInv, NEW c \in Call, DropFuture(c)
  PROVE  Weak!Next \/ UNCHANGED Weak!vars
<1>1. /\ c \in alive /\ alive' = alive \ {c}
      /\ UNCHANGED <<call, result, answers, conn>>
  BY DEF DropFuture, linkVars, wireVars
<1>2. \A d \in Call \ {c} : OutcomeOf(d)' = OutcomeOf(d)
  BY <1>1, SameOutcome
<1>3. CASE call[c] = "future"
  <2>1. OutcomeOf(c) = "asked" /\ OutcomeOf(c)' = "abandoned"
    BY <1>1, <1>3, Outcomes, OutcomesAfter
  <2>2. outcome' = [outcome EXCEPT ![c] = "abandoned"]
    BY <1>2, <2>1, OneOutcome
  <2> QED BY <1>1, <2>1, <2>2, PromiseAbandon
<1>4. CASE call[c] # "future"
  <2>1. call[c] \in {"unused", "sending", "refused", "senderr", "ok", "notfound"}
    BY <1>4 DEF TypeInv, TypeOK, CallState
  <2>2. OutcomeOf(c)' = OutcomeOf(c)
    BY <1>1, <2>1, Outcomes, OutcomesAfter
  <2>3. \A d \in Call : OutcomeOf(d)' = OutcomeOf(d)
    BY <1>2, <2>2
  <2>4. outcome' = outcome
    BY <2>3, NoOutcome
  <2> QED BY <1>1, <2>4, PromiseStutters DEF served, open
<1> QED BY <1>3, <1>4

(* The steps of the connection task that the promise does not see, and the    *)
(* two that it sees as a lost connection.                                     *)
LEMMA TaskStep ==
  ASSUME TypeInv, ConnectionTask \/ Close \/ UNCHANGED vars
  PROVE  Weak!Next \/ UNCHANGED Weak!vars
<1>1. UNCHANGED <<call, alive, result, answers>>
  BY DEF ConnectionTask, OnMessage, Complete, Discard, LinkEnd, ClearWake, ClearMap,
         TaskEnd, Cancel, Close, callVars, wireVars, vars
<1>2. \A d \in Call : OutcomeOf(d)' = OutcomeOf(d)
  BY <1>1, SameOutcome
<1>3. outcome' = outcome
  BY <1>2, NoOutcome
<1>4. open' = open \/ (open /\ ~open')
  BY DEF ConnectionTask, OnMessage, Complete, Discard, LinkEnd, ClearWake, ClearMap,
         TaskEnd, Cancel, Close, linkVars, vars, open
<1>5. CASE open' = open
  BY <1>1, <1>3, <1>5, PromiseStutters DEF served
<1>6. CASE open /\ ~open'
  <2>1. Weak!Disconnect
    BY <1>1, <1>3, <1>6 DEF Weak!Disconnect, outcome, served, open
  <2> QED BY <2>1 DEF Weak!Next
<1> QED BY <1>4, <1>5, <1>6

LEMMA WeakStep ==
  ASSUME TypeInv, AnswerInv, [Next]_vars, Disciplined, MaxAnswers = 1
  PROVE  [Weak!Next]_(Weak!vars)
<1> DEFINE Seen == Weak!Next \/ UNCHANGED Weak!vars
<1>1. ASSUME NEW c \in Call, NEW u \in Uuid, GenerateUuid(c, u) PROVE Seen
  <2>1. /\ call[c] = "unused" /\ call' = [call EXCEPT ![c] = "sending"]
        /\ UNCHANGED <<alive, result, answers, conn>>
    BY <1>1 DEF GenerateUuid, linkVars, wireVars
  <2>2. OutcomeOf(c)' = OutcomeOf(c)
    BY <2>1, Outcomes, OutcomesAfter DEF TypeInv, TypeOK
  <2>3. \A d \in Call : OutcomeOf(d)' = OutcomeOf(d)
    BY <2>1, <2>2, SameOutcome DEF TypeInv, TypeOK
  <2>4. outcome' = outcome
    BY <2>3, NoOutcome
  <2> QED BY <2>1, <2>4, PromiseStutters DEF served, open
<1>2. ASSUME NEW c \in Call, SendBytes(c) PROVE Seen
  BY <1>2, SendStep DEF SendBytes, linkVars
<1>3. ASSUME NEW src \in Call, NEW c \in Call, Reply(src, c) PROVE Seen
  BY <1>3, SendStep DEF Reply, linkVars
<1>4. ASSUME NEW c \in Call, NEW t \in Task, Poll(c, t) PROVE Seen
  BY <1>4, PollStep
<1>5. ASSUME NEW c \in Call, DropFuture(c) PROVE Seen
  BY <1>5, DropStep
(* The server answers a request that was sent: neither idle nor refused.      *)
<1>6. ASSUME NEW c \in Call, Answer(c) PROVE Seen
  <2>1. /\ c \in sent /\ conn = "running"
        /\ answers' = [answers EXCEPT ![c] = @ + 1]
        /\ UNCHANGED <<call, alive, result, conn>>
    BY <1>6 DEF Answer, callVars, linkVars
  <2>2. \A d \in Call : OutcomeOf(d)' = OutcomeOf(d)
    BY <2>1, SameOutcome
  <2>3. outcome' = outcome
    BY <2>2, NoOutcome
  <2>4. call[c] \in {"senderr", "future", "ok", "notfound"}
    BY <2>1 DEF TypeInv, TypeOK, KnownCalls, CallState
  <2>5. OutcomeOf(c) \notin {"idle", "refused"}
    BY <2>4, Outcomes
  <2>6. served' = served \cup {c}
    BY <2>1, ModeAssumption DEF served, TypeInv, TypeOK
  <2> QED BY <2>1, <2>3, <2>5, <2>6, PromiseServe DEF open
<1>7. CASE ConnectionTask \/ Close \/ UNCHANGED vars
  BY <1>7, TaskStep
<1> QED BY <1>1, <1>2, <1>3, <1>4, <1>5, <1>6, <1>7 DEF Next, Caller

LEMMA WeakInit == Init => Weak!Init
<1> SUFFICES ASSUME Init PROVE Weak!Init
  OBVIOUS
<1>1. \A c \in Call : OutcomeOf(c) = "idle"
  BY Outcomes DEF Init
<1>2. [c \in Call |-> OutcomeOf(c)] = [c \in Call |-> "idle"]
  BY <1>1
<1>3. {c \in Call : answers[c] > 0} = {}
  BY DEF Init
<1> QED BY <1>2, <1>3 DEF Init, Weak!Init

(* A future resolves at most once, to the reply the server gave to its own    *)
(* request, and never after its owner dropped it; whatever the runtime.       *)
THEOREM KeepsThePromise ==
  ASSUME Disciplined, MaxAnswers = 1
  PROVE  Spec => ImplementsWeak
<1>1. TypeInv /\ AnswerInv /\ [Next]_vars => [Weak!Next]_(Weak!vars)
  BY WeakStep
<1> QED BY <1>1, WeakInit, TypeCorrect, OwnAnswers, PTL
        DEF Spec, ImplementsWeak, Weak!Spec

-----------------------------------------------------------------------------
(* README's send-and-await on a current-thread runtime.                      *)

SendAndAwait == ~Parallel /\ AwaitAtOnce /\ Disciplined /\ MaxAnswers = 1

(* AwaitSucceeds is not inductive: besides, while the connection runs, the    *)
(* entry of a call that was not polled yet is as it was inserted, and that of *)
(* one that waits holds its waker or its answer.                              *)
AwaitAt(c) ==
  conn = "running" =>
    /\ call[c] = "sending" \/ Unpolled(c) => responses[uuid[c]] = None
    /\ Waits(c) => responses[uuid[c]].tag \in {"started", "completed"}
    /\ call[c] # "notfound"

AwaitInv == SendAndAwait => \A c \in Call : AwaitAt(c)

(* A call keeps its part when nothing it depends on changes.                 *)
LEMMA AwaitQuiet ==
  ASSUME NEW c \in Call, AwaitAt(c),
         call'[c] = call[c], uuid'[c] = uuid[c], waiting'[c] = waiting[c],
         c \in alive' <=> c \in alive,
         Pending(c) \/ call[c] = "sending" => responses'[uuid[c]] = responses[uuid[c]],
         conn' = "running" => conn = "running"
  PROVE  AwaitAt(c)'
BY DEF AwaitAt, Unpolled, Waits, Pending

LEMMA AwaitStep ==
  TypeInv /\ OwnedEntry /\ SerialInv /\ AnswerInv /\ AwaitInv /\ [Next]_vars => AwaitInv'
<1> SUFFICES ASSUME TypeInv, OwnedEntry, SerialInv, AnswerInv, [Next]_vars,
                    SendAndAwait, \A d \in Call : AwaitAt(d), NEW c \in Call
             PROVE  AwaitAt(c)'
  BY DEF AwaitInv, SendAndAwait
<1> USE DEF TypeInv, TypeOK, SendAndAwait
<1>0. AwaitAt(c)
  OBVIOUS
<1>1. ASSUME NEW d \in Call, NEW u \in Uuid, GenerateUuid(d, u) PROVE AwaitAt(c)'
  <2>1. CASE c = d
    <3>1. c \notin alive' /\ call'[c] = "sending" /\ responses'[uuid'[c]] = None
      BY <1>1, <2>1 DEF GenerateUuid, KnownCalls
    <3> QED BY <3>1 DEF AwaitAt, Unpolled, Waits, Pending
  <2>2. CASE c # d
    BY <1>0, <1>1, <2>2, AwaitQuiet DEF GenerateUuid, linkVars
  <2> QED BY <2>1, <2>2
<1>2. ASSUME NEW d \in Call, SendBytes(d) PROVE AwaitAt(c)'
  <2>1. CASE c = d
    <3>1. /\ conn' = "running" => responses[uuid[c]] = None
          /\ UNCHANGED <<conn, uuid, responses, waiting>>
          /\ call'[c] \notin {"sending", "notfound"}
          /\ waiting[c] = NoTask
      BY <1>0, <1>2, <2>1
      DEF SendBytes, SendOk, SendFailed, SendRefused, AwaitAt, KnownCalls, linkVars
    <3> QED BY <3>1 DEF AwaitAt, Unpolled, Waits, Pending
  <2>2. CASE c # d
    BY <1>0, <1>2, <2>2, AwaitQuiet DEF SendBytes, SendOk, SendFailed, SendRefused, linkVars
  <2> QED BY <2>1, <2>2
<1>3. ASSUME NEW src \in Call, NEW d \in Call, Reply(src, d) PROVE AwaitAt(c)'
  <2>1. /\ uuid[src] \in Uuid
        /\ responses' = [responses EXCEPT ![uuid[src]] = None]
    BY <1>3, FreshReply DEF Reply
  <2>2. CASE c = d
    <3>1. waiting'[c] = NoTask /\ responses'[uuid'[c]] = None
      BY <1>3, <2>1, <2>2 DEF Reply, KnownCalls
    <3>2. call'[c] \in {"future", "senderr", "refused"}
      BY <1>3, <2>2 DEF Reply, SendOk, SendFailed, SendRefused
    <3> QED BY <3>1, <3>2 DEF AwaitAt, Unpolled, Waits, Pending
  <2>3. CASE c # d
    <3>1. Pending(c) \/ call[c] = "sending" => uuid[c] # uuid[src]
      BY <1>3, <2>1, NullAssumption DEF Reply, SerialInv, Over, Finished, Pending
    <3> QED BY <1>0, <1>3, <2>1, <2>3, <3>1, AwaitQuiet
            DEF Reply, SendOk, SendFailed, SendRefused, linkVars, UsedHasUuid, Pending
  <2> QED BY <2>2, <2>3
<1>4. ASSUME NEW d \in Call, NEW t \in Task, Poll(d, t), c # d PROVE AwaitAt(c)'
  <2>1. /\ CanPoll(d, t)
        /\ call'[c] = call[c] /\ waiting'[c] = waiting[c]
        /\ UNCHANGED <<uuid, alive, conn>>
        /\ \A u \in Uuid \ {uuid[d]} : responses'[u] = responses[u]
    BY <1>4 DEF Poll, PollNone, PollStarted, PollCompleted, PollNotFound, linkVars
  <2>2. Pending(c) \/ call[c] = "sending" => uuid[c] # uuid[d] /\ uuid[c] \in Uuid
    BY <1>4, <2>1, OthersAnswered DEF CanPoll, Pending, UsedHasUuid
  <2> QED BY <1>0, <2>1, <2>2, AwaitQuiet
(* The entry is there: this poll registers a waker or returns the answer.    *)
<1>5. ASSUME NEW t \in Task, Poll(c, t) PROVE AwaitAt(c)'
  <2>1. Pending(c) /\ uuid[c] \in Uuid
    BY <1>5 DEF Poll, PollNone, PollStarted, PollCompleted, PollNotFound, CanPoll,
                Pending, UsedHasUuid
  <2>2. CASE PollNone(c, t) \/ PollStarted(c, t)
    <3>1. /\ responses'[uuid'[c]].tag = "started"
          /\ call' = call /\ waiting'[c] = t
      BY <2>1, <2>2, StatusTags DEF PollNone, PollStarted
    <3> QED BY <2>1, <3>1, NullAssumption DEF AwaitAt, Unpolled, Waits, Pending
  <2>3. CASE PollCompleted(c, t)
    BY <2>3 DEF PollCompleted, AwaitAt, Unpolled, Waits, Pending
  <2>4. CASE PollNotFound(c, t)
    <3>1. conn # "running"
      BY <1>0, <2>1, <2>4, StatusTags DEF PollNotFound, AwaitAt, Unpolled, Waits
    <3> QED BY <2>4, <3>1 DEF PollNotFound, AwaitAt, linkVars
  <2> QED BY <1>5, <2>2, <2>3, <2>4 DEF Poll
<1>6. ASSUME NEW d \in Call, DropFuture(d) PROVE AwaitAt(c)'
  <2>1. CASE c = d
    <3>1. c \notin alive' /\ call'[c] = call[c] /\ call[c] # "sending" /\ conn' = conn
      BY <1>6, <2>1 DEF DropFuture, KnownCalls, linkVars
    <3> QED BY <1>0, <3>1 DEF AwaitAt, Unpolled, Waits, Pending
  <2>2. CASE c # d
    <3>1. Pending(c) \/ call[c] = "sending" => uuid[c] # uuid[d] /\ uuid[c] \in Uuid
      BY <1>6, <2>2, OthersAnswered DEF DropFuture, UsedHasUuid, Pending
    <3> QED BY <1>0, <1>6, <2>2, <3>1, AwaitQuiet DEF DropFuture, linkVars
  <2> QED BY <2>1, <2>2
<1>7. CASE Complete
  <2> DEFINE h == Head(inbound)
  <2>1. /\ h \in Call /\ uuid[h] \in Uuid
        /\ responses[uuid[h]].tag = "started"
        /\ responses' = [responses EXCEPT ![uuid[h]] = Completed(h)]
        /\ conn = "running"
        /\ UNCHANGED <<call, uuid, alive, waiting, conn>>
    BY <1>7, HeadOfInbound DEF Complete, linkVars, callVars
  <2>2. CASE uuid[c] = uuid[h]
    <3>1. call[c] # "sending" /\ ~Unpolled(c) /\ call[c] # "notfound"
      BY <1>0, <2>1, <2>2, StatusTags DEF AwaitAt
    <3>2. responses'[uuid[c]].tag = "completed"
      BY <2>1, <2>2, StatusTags
    <3> QED BY <2>1, <3>1, <3>2 DEF AwaitAt, Unpolled, Waits, Pending
  <2>3. CASE uuid[c] # uuid[h]
    BY <1>0, <2>1, <2>3, AwaitQuiet
  <2> QED BY <2>2, <2>3
(* Nobody loses the entry that a late or early reply removes: nothing is      *)
(* unpolled or half sent when the connection task runs, a waiter's entry that *)
(* is not Started holds its answer, and then no other reply is on its way.    *)
<1>8. CASE Discard
  <2> DEFINE h == Head(inbound)
  <2>1. /\ h \in Call /\ uuid[h] \in Uuid
        /\ inbound[1] = h /\ 1 \in 1..Len(inbound)
        /\ responses[uuid[h]].tag # "started"
        /\ responses' = [responses EXCEPT ![uuid[h]] = Absent]
        /\ conn = "running" /\ MayRun
        /\ UNCHANGED <<call, uuid, alive, waiting, conn>>
    BY <1>8, HeadOfInbound DEF Discard, linkVars, callVars
  <2>2. call[c] # "sending" /\ ~Unpolled(c)
    BY <2>1 DEF MayRun, Busy
  <2>3. CASE Waits(c) /\ uuid[c] = uuid[h]
    <3>1. responses[uuid[c]] = Completed(c) /\ Pending(c)
      BY <1>0, <2>1, <2>3 DEF AwaitAt, Waits, AnswerInv, OwnEntry
    <3>2. OnTheWay(h) /\ InMap(c)
      BY <2>1, <2>3, <3>1 DEF OnTheWay, InMap
    <3>3. h # c /\ call[h] # "ok"
      BY <2>1, <3>2 DEF AnswerInv, OneAnswer
    <3> QED BY <2>1, <2>3, <3>1, <3>3, OthersAnswered
  <2>4. CASE ~Waits(c) \/ uuid[c] # uuid[h]
    BY <1>0, <2>1, <2>2, <2>4 DEF AwaitAt, Unpolled, Waits, Pending
  <2> QED BY <2>3, <2>4
<1>9. CASE LinkEnd \/ ClearWake \/ ClearMap \/ TaskEnd \/ Cancel
  BY <1>9 DEF LinkEnd, ClearWake, ClearMap, TaskEnd, Cancel, AwaitAt
<1>10. CASE Close \/ UNCHANGED vars \/ \E d \in Call : Answer(d)
  BY <1>0, <1>10, AwaitQuiet DEF Close, Answer, callVars, linkVars, vars
<1> QED BY <1>1, <1>2, <1>3, <1>4, <1>5, <1>6, <1>7, <1>8, <1>9, <1>10
        DEF Next, Caller, ConnectionTask, OnMessage

LEMMA AwaitInvariant == Spec => []AwaitInv
<1>1. Init => AwaitInv
  BY DEF Init, AwaitInv, AwaitAt, Unpolled, Waits, Pending
<1> QED BY <1>1, AwaitStep, TypeCorrect, MapDoesNotLeak, SerialConversations,
           OwnAnswers, PTL DEF Spec

(* When nothing runs between a send and the first poll, no await fails while  *)
(* the connection runs.                                                       *)
THEOREM AwaitsSucceed ==
  ASSUME SendAndAwait
  PROVE  Spec => []AwaitSucceeds
<1>1. AwaitInv => AwaitSucceeds
  BY DEF AwaitInv, AwaitAt, AwaitSucceeds
<1> QED BY <1>1, AwaitInvariant, PTL

(* The strong promise differs in Fail alone.                                 *)
LEMMA StrongFromWeak ==
  ASSUME [Weak!Next]_(Weak!vars),
         \A c \in Call : open /\ OutcomeOf(c) # "failed" => OutcomeOf(c)' # "failed"
  PROVE  [Strong!Next]_(Strong!vars)
<1>1. ASSUME NEW c \in Call, Weak!Fail(c) PROVE Strong!Fail(c)
  <2>1. OutcomeOf(c) # "failed"
    <3>1. outcome[c] \in {"idle", "asked"}
      BY <1>1 DEF Weak!Fail, Weak!Become, outcome
    <3> QED BY <3>1 DEF outcome
  <2>2. OutcomeOf(c)' = "failed"
    <3>1. outcome'[c] = "failed"
      BY <1>1 DEF Weak!Fail, Weak!Become, outcome
    <3> QED BY <3>1 DEF outcome
  <2>3. ~open
    BY <2>1, <2>2
  <2> QED BY <1>1, <2>3 DEF Weak!Fail, Weak!Become, Strong!Fail, Strong!Become, open
<1>2. ASSUME NEW c \in Call,
             \/ Weak!Ask(c) \/ Weak!Refuse(c) \/ Weak!Serve(c)
             \/ Weak!Receive(c) \/ Weak!Abandon(c)
      PROVE  \/ Strong!Ask(c) \/ Strong!Refuse(c) \/ Strong!Serve(c)
             \/ Strong!Receive(c) \/ Strong!Abandon(c)
  BY <1>2
  DEF Weak!Ask, Weak!Refuse, Weak!Serve, Weak!Receive, Weak!Abandon, Weak!Become,
      Strong!Ask, Strong!Refuse, Strong!Serve, Strong!Receive, Strong!Abandon,
      Strong!Become
<1>3. CASE Weak!Disconnect
  BY <1>3 DEF Weak!Disconnect, Strong!Disconnect, Strong!Next
<1>4. CASE UNCHANGED Weak!vars
  BY <1>4 DEF Weak!vars, Strong!vars
<1> QED BY <1>1, <1>2, <1>3, <1>4 DEF Weak!Next, Strong!Next

(* While the connection runs, no await fails, and no send of a message that   *)
(* can be written.                                                           *)
LEMMA NoNewFailure ==
  ASSUME TypeInv, AwaitInv, AwaitInv', SendAndAwait, [Next]_vars,
         NEW c \in Call, open, OutcomeOf(c) # "failed"
  PROVE  OutcomeOf(c)' # "failed"
<1> USE DEF open
<1> DEFINE Unfailed == {"unused", "sending", "refused", "future", "ok"}
<1>1. call[c] \in Unfailed
  BY Outcomes DEF TypeInv, TypeOK, CallState
<1>2. call'[c] \in Unfailed
  <2>1. CASE UNCHANGED <<call>>
    BY <1>1, <2>1
  <2>2. ASSUME NEW d \in Call, NEW u \in Uuid, GenerateUuid(d, u)
        PROVE  call'[c] \in Unfailed
    BY <1>1, <2>2 DEF GenerateUuid, TypeInv, TypeOK
  <2>3. ASSUME NEW d \in Call, SendOk(d) \/ SendFailed(d) \/ SendRefused(d)
        PROVE  call'[c] \in Unfailed
    BY <1>1, <2>3 DEF SendOk, SendFailed, SendRefused, ChannelOpen, TypeInv, TypeOK
  <2>4. ASSUME NEW d \in Call, NEW t \in Task, Poll(d, t)
        PROVE  call'[c] \in Unfailed
    <3>1. CASE PollNotFound(d, t)
      <4>1. conn' = "running" /\ call'[d] = "notfound"
        BY <3>1 DEF PollNotFound, linkVars, TypeInv, TypeOK
      <4> QED BY <4>1 DEF AwaitInv, AwaitAt
    <3>2. CASE PollNone(d, t) \/ PollStarted(d, t) \/ PollCompleted(d, t)
      BY <1>1, <3>2 DEF PollNone, PollStarted, PollCompleted, TypeInv, TypeOK
    <3> QED BY <2>4, <3>1, <3>2 DEF Poll
  <2>5. CASE ConnectionTask \/ Close \/ UNCHANGED vars
             \/ \E d \in Call : DropFuture(d) \/ Answer(d)
    <3>1. UNCHANGED <<call>>
      BY <2>5 DEF ConnectionTask, OnMessage, Complete, Discard, LinkEnd, ClearWake,
                  ClearMap, TaskEnd, Cancel, Close, DropFuture, Answer, callVars, vars
    <3> QED BY <2>1, <3>1
  <2> QED BY <2>2, <2>3, <2>4, <2>5 DEF Next, Caller, SendBytes, Reply
<1>3. OutcomeOf(c)' \in {"idle", "asked", "refused", "abandoned", "answered"}
  BY <1>2, OutcomesAfter
<1> QED BY <1>3

(* And so the stronger promise is kept: a request that was sent fails only    *)
(* once the connection is no longer up, and while it is up the only send that *)
(* fails is that of a message that cannot be written, of which nothing is     *)
(* ever served.                                                               *)
THEOREM KeepsTheStrongPromise ==
  ASSUME SendAndAwait
  PROVE  Spec => ImplementsStrong
<1>1. Disciplined /\ MaxAnswers = 1
  BY DEF SendAndAwait
<1>2. TypeInv /\ AnswerInv /\ AwaitInv /\ AwaitInv' /\ [Next]_vars
      => [Strong!Next]_(Strong!vars)
  BY <1>1, WeakStep, NoNewFailure, StrongFromWeak
<1>3. Init => Strong!Init
  BY WeakInit DEF Weak!Init, Strong!Init
<1> QED BY <1>2, <1>3, TypeCorrect, OwnAnswers, AwaitInvariant, PTL
        DEF Spec, ImplementsStrong, Strong!Spec

-----------------------------------------------------------------------------
(* What the promise comes to.  An await that returned Ok returned the reply   *)
(* to its own request, no other call has a result, and what was refused was   *)
(* never answered.                                                            *)
OkIsOwnAnswer ==
  \A c \in Call : /\ call[c] = "ok" => result[c] = c /\ answers[c] > 0
                  /\ call[c] # "ok" => result[c] = NoData
                  /\ call[c] = "refused" => answers[c] = 0

(* What became of a call stays: no future resolves twice, or after its drop.  *)
OutcomesStay ==
  \A c \in Call :
    OutcomeOf(c) \in {"answered", "failed", "refused", "abandoned"} =>
      OutcomeOf(c)' = OutcomeOf(c) /\ result'[c] = result[c]

PromiseHeld ==
  \A c \in Call : /\ outcome[c] = "answered" => result[c] = c /\ c \in served
                  /\ outcome[c] # "answered" => result[c] = NoData
                  /\ outcome[c] \in {"idle", "refused"} => c \notin served

PromisedCalls ==   \* a call is answered when its await returned Ok
  \A c \in Call : /\ outcome[c] = "answered" <=> call[c] = "ok"
                  /\ outcome[c] = "refused" <=> call[c] = "refused"

LEMMA PromiseHolds ==
  /\ Weak!Init => PromiseHeld /\ result \in [Call -> {NoData} \cup Call]
  /\ /\ PromiseHeld /\ result \in [Call -> {NoData} \cup Call]
     /\ [Weak!Next]_(Weak!vars)
     => PromiseHeld' /\ result' \in [Call -> {NoData} \cup Call]
<1> DEFINE Typed == result \in [Call -> {NoData} \cup Call]
<1>1. ASSUME Weak!Init PROVE PromiseHeld /\ Typed
  BY <1>1 DEF Weak!Init, PromiseHeld, outcome, served
<1>2. ASSUME PromiseHeld, Typed, [Weak!Next]_(Weak!vars) PROVE PromiseHeld' /\ Typed'
  <2>1. \A c \in Call : outcome[c] = OutcomeOf(c) /\ outcome'[c] = OutcomeOf(c)'
    BY DEF outcome
  <2>2. ASSUME NEW c \in Call, NEW from, NEW to, Weak!Become(c, from, to)
        PROVE  outcome[c] = from /\ outcome' = [outcome EXCEPT ![c] = to]
    BY <2>2 DEF Weak!Become, outcome
  <2>3. outcome \in [Call -> {OutcomeOf(c) : c \in Call}]
    BY DEF outcome
  <2>4. ASSUME NEW c \in Call, Weak!Receive(c) PROVE PromiseHeld' /\ Typed'
    <3>1. /\ outcome' = [outcome EXCEPT ![c] = "answered"]
          /\ result' = [result EXCEPT ![c] = c]
          /\ c \in served /\ served' = served
      BY <2>2, <2>4 DEF Weak!Receive, served
    <3> QED BY <1>2, <2>3, <3>1 DEF PromiseHeld
  <2>5. ASSUME NEW c \in Call,
               Weak!Ask(c) \/ Weak!Refuse(c) \/ Weak!Fail(c) \/ Weak!Abandon(c)
        PROVE  PromiseHeld' /\ Typed'
    <3>1. /\ outcome[c] \in {"idle", "asked"} /\ UNCHANGED <<result, served>>
          /\ \/ \E to \in {"asked", "failed", "abandoned"} :
                  outcome' = [outcome EXCEPT ![c] = to]
             \/ outcome[c] = "idle" /\ outcome' = [outcome EXCEPT ![c] = "refused"]
      BY <2>2, <2>5 DEF Weak!Ask, Weak!Refuse, Weak!Fail, Weak!Abandon, served
    <3> QED BY <1>2, <2>3, <3>1 DEF PromiseHeld
  <2>6. ASSUME NEW c \in Call, Weak!Serve(c) PROVE PromiseHeld' /\ Typed'
    <3>1. /\ outcome' = outcome /\ result' = result /\ served' = served \cup {c}
          /\ outcome[c] \notin {"idle", "refused"}
      BY <2>6 DEF Weak!Serve, outcome, served
    <3> QED BY <1>2, <3>1 DEF PromiseHeld
  <2>7. CASE Weak!Disconnect \/ UNCHANGED Weak!vars
    <3>1. outcome' = outcome /\ result' = result /\ served' = served
      BY <2>7 DEF Weak!Disconnect, Weak!vars, outcome, served
    <3> QED BY <1>2, <3>1 DEF PromiseHeld
  <2> QED BY <1>2, <2>4, <2>5, <2>6, <2>7 DEF Weak!Next
<1> QED BY <1>1, <1>2

LEMMA PromiseStays ==
  ASSUME result \in [Call -> {NoData} \cup Call], [Weak!Next]_(Weak!vars)
  PROVE  OutcomesStay
<1> SUFFICES ASSUME NEW c \in Call,
                    outcome[c] \in {"answered", "failed", "refused", "abandoned"}
             PROVE  outcome'[c] = outcome[c] /\ result'[c] = result[c]
  BY DEF OutcomesStay, outcome
<1>1. ASSUME NEW d \in Call, NEW from, NEW to, Weak!Become(d, from, to)
      PROVE  outcome[d] = from /\ outcome' = [outcome EXCEPT ![d] = to]
  BY <1>1 DEF Weak!Become, outcome
<1>2. ASSUME NEW d \in Call, \/ Weak!Ask(d) \/ Weak!Refuse(d) \/ Weak!Fail(d)
                             \/ Weak!Abandon(d) \/ Weak!Receive(d)
      PROVE  outcome'[c] = outcome[c] /\ result'[c] = result[c]
  <2>1. /\ outcome[d] \in {"idle", "asked"}
        /\ \E to : outcome' = [outcome EXCEPT ![d] = to]
        /\ result' = result \/ result' = [result EXCEPT ![d] = d]
    BY <1>1, <1>2 DEF Weak!Ask, Weak!Refuse, Weak!Fail, Weak!Abandon, Weak!Receive
  <2>2. c # d
    BY <2>1
  <2>3. DOMAIN outcome = Call
    BY DEF outcome
  <2> QED BY <2>1, <2>2, <2>3
<1>3. CASE (\E d \in Call : Weak!Serve(d)) \/ Weak!Disconnect \/ UNCHANGED Weak!vars
  BY <1>3 DEF Weak!Serve, Weak!Disconnect, Weak!vars, outcome
<1> QED BY <1>2, <1>3 DEF Weak!Next

LEMMA AnsweredIsOk ==
  ASSUME call \in [Call -> CallState \cup {"mutexerr"}]
  PROVE  PromisedCalls
BY Outcomes DEF PromisedCalls, outcome, CallState

(* Whatever keeps the promise has both.                                       *)
LEMMA PromiseKept ==
  /\ ImplementsWeak => []PromiseHeld
  /\ ImplementsWeak => [][OutcomesStay]_vars
<1> DEFINE Typed == result \in [Call -> {NoData} \cup Call]
<1>1. Weak!Init => PromiseHeld /\ Typed
  BY PromiseHolds
<1>2. PromiseHeld /\ Typed /\ [Weak!Next]_(Weak!vars) => PromiseHeld' /\ Typed'
  BY PromiseHolds
<1>3. Typed /\ [Weak!Next]_(Weak!vars) => [OutcomesStay]_vars
  BY PromiseStays
<1> QED BY <1>1, <1>2, <1>3, PTL DEF ImplementsWeak, Weak!Spec

LEMMA HeldIsOwn ==
  ASSUME PromisedCalls, PromiseHeld, answers \in [Call -> Nat]
  PROVE  OkIsOwnAnswer
<1>1. \A c \in Call : c \notin served => answers[c] = 0
  BY DEF served
<1> QED BY <1>1 DEF PromisedCalls, PromiseHeld, OkIsOwnAnswer, served

(* An await that returns Ok has the server's reply to its own request, a      *)
(* message that could not be written is never answered, and what became of a  *)
(* call, its payload included, never changes again (response.rs:78-108,       *)
(* client.rs:187-200).                                                        *)
THEOREM AwaitsAreFinal ==
  ASSUME Disciplined, MaxAnswers = 1
  PROVE  Spec => []OkIsOwnAnswer /\ [][OutcomesStay]_vars
<1>1. TypeInv /\ PromiseHeld => OkIsOwnAnswer
  <2> SUFFICES ASSUME TypeInv, PromiseHeld PROVE OkIsOwnAnswer
    OBVIOUS
  <2>1. call \in [Call -> CallState \cup {"mutexerr"}] /\ answers \in [Call -> Nat]
    BY ModeAssumption DEF TypeInv, TypeOK
  <2> QED BY <2>1, AnsweredIsOk, HeldIsOwn
<1> QED BY <1>1, TypeCorrect, KeepsThePromise, PromiseKept, PTL

=============================================================================
