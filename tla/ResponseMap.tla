---------------------------- MODULE ResponseMap ----------------------------
(***************************************************************************)
(* The client half of wsmq: SharedData.responses (the map from the uuid of *)
(* a conversation to a Status), the ResponseFutures handed to the caller,  *)
(* and the connection task that fills the map and, when the connection     *)
(* ends, clears it.  Every step that holds the mutex is one action; two    *)
(* acquisitions of the mutex are two actions.                              *)
(* A definition named ...Mutant is a plausible mistake in the action below *)
(* it; no specification uses it, and the README says what it is for.       *)
(*                                                                         *)
(* A Call is one send or reply: it names the request put on the wire, the  *)
(* ResponseFuture returned for it and, once that future is Ready(Ok), the  *)
(* Response the caller holds.  A payload is the Call that it answers.      *)
(***************************************************************************)
EXTENDS Naturals, FiniteSets, Sequences

CONSTANTS
  Uuid,         \* conversation identifiers
  Call,         \* calls of send, send_message, reply and reply_message
  Task,         \* the executor's tasks (their Wakers)
  NoUuid, NoTask, NoData,
  Drained,      \* the empty vector that drain(..) leaves behind
  MaxAnswers,   \* how many times the server replies to one request
  Parallel,     \* TRUE: multi-thread runtime; FALSE: current-thread runtime
  AwaitAtOnce,  \* current-thread only: no await point between send and poll
  Disciplined,  \* futures are consumed by .await, a Response is replied to once
  Migrating     \* a polled future may be moved to another task

ASSUME NullAssumption ==
  /\ NoUuid \notin Uuid
  /\ NoTask \notin Task
  /\ NoData \notin Call
  /\ Drained \notin Call
  /\ Drained # NoData

ASSUME ModeAssumption ==
  /\ MaxAnswers \in Nat \ {0}
  /\ {Parallel, AwaitAtOnce, Disciplined, Migrating} \subseteq BOOLEAN

VARIABLES
  responses,  \* SharedData.responses: Uuid -> Status, Absent for a missing key
  conn,       \* where the connection task is
  closing,    \* JoinHandle::abort was called
  call,       \* progress and outcome of each call
  uuid,       \* the conversation each call belongs to
  alive,      \* the ResponseFutures that exist
  waiting,    \* the task in which each future last returned Pending
  woken,      \* the tasks woken since they last polled
  replied,    \* the calls whose Response was replied to
  sent,       \* the requests accepted by the outgoing channel
  answers,    \* how many replies the server sent to each request
  inbound,    \* replies on their way to the client, oldest first
  result      \* the payload each Ready(Ok) returned

vars == <<responses, conn, closing, call, uuid, alive, waiting, woken, replied,
          sent, answers, inbound, result>>

callVars == <<call, uuid, alive, waiting, result, replied>>
linkVars == <<conn, closing>>
wireVars == <<sent, answers, inbound>>

-----------------------------------------------------------------------------
(* response::Status, with Absent for "no entry". *)
Payload == Call \cup {NoData, Drained}

Status == [tag   : {"absent", "none", "started", "completed"},
           waker : Task \cup {NoTask},
           data  : Payload]

Absent       == [tag |-> "absent",    waker |-> NoTask, data |-> NoData]
None         == [tag |-> "none",      waker |-> NoTask, data |-> NoData]
Started(t)   == [tag |-> "started",   waker |-> t,      data |-> NoData]
Completed(d) == [tag |-> "completed", waker |-> NoTask, data |-> d]

ConnState == {"running", "waking", "clearing", "cleared", "ended", "aborted"}
CallState == {"unused", "sending", "refused", "senderr", "future", "ok", "notfound"}

Init ==
  /\ responses = [u \in Uuid |-> Absent]
  /\ conn = "running"
  /\ closing = FALSE
  /\ call = [c \in Call |-> "unused"]
  /\ uuid = [c \in Call |-> NoUuid]
  /\ alive = {}
  /\ waiting = [c \in Call |-> NoTask]
  /\ woken = {}
  /\ replied = {}
  /\ sent = {}
  /\ answers = [c \in Call |-> 0]
  /\ inbound = <<>>
  /\ result = [c \in Call |-> NoData]

-----------------------------------------------------------------------------
(* Scheduling.  On a current-thread runtime a synchronous piece of code      *)
(* runs to its end before anything else does.                                *)
Pending(c)  == c \in alive /\ call[c] = "future"
Unpolled(c) == Pending(c) /\ waiting[c] = NoTask
Waits(c)    == Pending(c) /\ waiting[c] # NoTask

(* A send between its two halves, or the connection task inside clear(). *)
Busy == \/ conn \in {"waking", "clearing", "cleared"}
        \/ \E c \in Call : call[c] = "sending"

MayRun == \/ Parallel
          \/ ~Busy /\ ~(AwaitAtOnce /\ \E c \in Call : Unpolled(c))

(* The future that was just returned is used before anything else runs. *)
MayUse(c) == MayRun \/ (~Busy /\ Unpolled(c))

(* The receiving half of the outgoing channel lives in the task's future. *)
ChannelOpen == conn \notin {"ended", "aborted"}

-----------------------------------------------------------------------------
(* Client::send and Client::send_message: generate_uuid inserts the entry    *)
(* under the mutex, then the message is queued without it.  A v4 uuid was    *)
(* never used before; the loop only checks that it has no entry.             *)
GenerateUuid(c, u) ==
  /\ MayRun
  /\ call[c] = "unused"
  /\ responses[u] = Absent
  /\ \A d \in Call : uuid[d] # u
  /\ responses' = [responses EXCEPT ![u] = None]
  /\ call' = [call EXCEPT ![c] = "sending"]
  /\ uuid' = [uuid EXCEPT ![c] = u]
  /\ UNCHANGED <<linkVars, wireVars, alive, waiting, woken, replied, result>>

(* unbounded_send succeeded: the caller gets a ResponseFuture ... *)
SendOk(c) ==
  /\ ChannelOpen
  /\ call' = [call EXCEPT ![c] = "future"]
  /\ alive' = alive \cup {c}
  /\ sent' = sent \cup {c}

(* ... or it failed, the receiver being gone, ...                            *)
SendFailed(c) ==
  /\ ~ChannelOpen
  /\ call' = [call EXCEPT ![c] = "senderr"]
  /\ UNCHANGED <<alive, sent>>

(* ... or the message cannot be written (a required field of it is missing), *)
(* whatever the channel's state, and nothing is queued.  Either way the      *)
(* entry that was inserted for the call stays.                               *)
SendRefused(c) ==
  /\ call' = [call EXCEPT ![c] = "refused"]
  /\ UNCHANGED <<alive, sent>>

SendBytes(c) ==
  /\ call[c] = "sending"
  /\ SendOk(c) \/ SendFailed(c) \/ SendRefused(c)
  /\ UNCHANGED <<responses, linkVars, uuid, waiting, woken, replied, answers,
                 inbound, result>>

ReplyNoEntryMutant(src, c) ==   \* does not insert the entry its future waits on
  /\ MayRun
  /\ call[src] = "ok"
  /\ Disciplined => src \notin alive /\ src \notin replied
  /\ call[c] = "unused"
  /\ uuid' = [uuid EXCEPT ![c] = uuid[src]]
  /\ replied' = replied \cup {src}
  /\ SendOk(c) \/ SendFailed(c) \/ SendRefused(c)
  /\ UNCHANGED <<responses, linkVars, waiting, woken, answers, inbound, result>>

(* Response::reply and reply_message on the Response that src returned: the  *)
(* mutex is held from the insertion to the end of the send.                  *)
Reply(src, c) ==
  /\ MayRun
  /\ call[src] = "ok"
  /\ Disciplined => src \notin alive /\ src \notin replied
  /\ call[c] = "unused"
  /\ uuid' = [uuid EXCEPT ![c] = uuid[src]]
  /\ responses' = IF responses[uuid[src]] = Absent
                    THEN [responses EXCEPT ![uuid[src]] = None]
                    ELSE responses
  /\ replied' = replied \cup {src}
  /\ SendOk(c) \/ SendFailed(c) \/ SendRefused(c)
  /\ UNCHANGED <<linkVars, waiting, woken, answers, inbound, result>>

-----------------------------------------------------------------------------
(* Future::poll of ResponseFuture, called by task t: one action per Status.  *)
(* A task awaits one future at a time.                                       *)
CanPoll(c, t) ==
  /\ Pending(c)
  /\ MayUse(c)
  /\ waiting[c] \in {NoTask, t} \/ Migrating
  /\ \A d \in Call \ {c} : Waits(d) => waiting[d] # t

PollNone(c, t) ==
  /\ CanPoll(c, t)
  /\ responses[uuid[c]].tag = "none"
  /\ responses' = [responses EXCEPT ![uuid[c]] = Started(t)]
  /\ waiting' = [waiting EXCEPT ![c] = t]
  /\ woken' = woken \ {t}
  /\ UNCHANGED <<linkVars, wireVars, call, uuid, alive, replied, result>>

(* The waker of an earlier poll is kept, whoever polls now. *)
PollStarted(c, t) ==
  /\ CanPoll(c, t)
  /\ responses[uuid[c]].tag = "started"
  /\ waiting' = [waiting EXCEPT ![c] = t]
  /\ woken' = woken \ {t}
  /\ UNCHANGED <<responses, linkVars, wireVars, call, uuid, alive, replied, result>>

(* Ready(Ok): the payload is drained, the entry stays until the future drops. *)
PollCompleted(c, t) ==
  /\ CanPoll(c, t)
  /\ responses[uuid[c]].tag = "completed"
  /\ result' = [result EXCEPT ![c] = responses[uuid[c]].data]
  /\ responses' = [responses EXCEPT ![uuid[c]] = Completed(Drained)]
  /\ call' = [call EXCEPT ![c] = "ok"]
  /\ waiting' = [waiting EXCEPT ![c] = NoTask]
  /\ woken' = woken \ {t}
  /\ UNCHANGED <<linkVars, wireVars, uuid, alive, replied>>

PollNotFound(c, t) ==
  /\ CanPoll(c, t)
  /\ responses[uuid[c]].tag = "absent"
  /\ call' = [call EXCEPT ![c] = "notfound"]
  /\ waiting' = [waiting EXCEPT ![c] = NoTask]
  /\ woken' = woken \ {t}
  /\ UNCHANGED <<responses, linkVars, wireVars, uuid, alive, replied, result>>

Poll(c, t) == \/ PollNone(c, t)
              \/ PollStarted(c, t)
              \/ PollCompleted(c, t)
              \/ PollNotFound(c, t)

DropFutureLeakMutant(c) ==   \* a future without its Drop
  /\ c \in alive
  /\ MayUse(c)
  /\ alive' = alive \ {c}
  /\ waiting' = [waiting EXCEPT ![c] = NoTask]
  /\ UNCHANGED <<responses, linkVars, wireVars, call, uuid, woken, replied, result>>

(* Drop for ResponseFuture: the entry goes, whatever it holds and whoever    *)
(* else uses it.                                                             *)
DropFuture(c) ==
  /\ c \in alive
  /\ MayUse(c)
  /\ alive' = alive \ {c}
  /\ responses' = [responses EXCEPT ![uuid[c]] = Absent]
  /\ waiting' = [waiting EXCEPT ![c] = NoTask]
  /\ UNCHANGED <<linkVars, wireVars, call, uuid, woken, replied, result>>

-----------------------------------------------------------------------------
(* The server, seen from the client: it replies to requests it received.     *)
Answer(c) ==
  /\ conn = "running"
  /\ c \in sent
  /\ answers[c] < MaxAnswers
  /\ answers' = [answers EXCEPT ![c] = @ + 1]
  /\ inbound' = Append(inbound, c)
  /\ UNCHANGED <<responses, linkVars, callVars, woken, sent>>

CompleteMuteMutant ==   \* stores the answer and does not wake
  /\ MayRun
  /\ conn = "running"
  /\ inbound # <<>>
  /\ LET u == uuid[Head(inbound)] IN
       /\ responses[u].tag = "started"
       /\ responses' = [responses EXCEPT ![u] = Completed(Head(inbound))]
  /\ inbound' = Tail(inbound)
  /\ UNCHANGED <<linkVars, callVars, woken, sent, answers>>

CompleteAnyMutant ==   \* hands the answer to whichever future waits
  /\ MayRun
  /\ conn = "running"
  /\ inbound # <<>>
  /\ \E u \in Uuid :
       /\ responses[u].tag = "started"
       /\ responses' = [responses EXCEPT ![u] = Completed(Head(inbound))]
       /\ woken' = woken \cup {responses[u].waker}
  /\ inbound' = Tail(inbound)
  /\ UNCHANGED <<linkVars, callVars, sent, answers>>

CompleteAlwaysMutant ==   \* keeps an early answer, even one that nobody awaits
  /\ MayRun
  /\ conn = "running"
  /\ inbound # <<>>
  /\ LET u == uuid[Head(inbound)] IN
       /\ responses' = [responses EXCEPT ![u] = Completed(Head(inbound))]
       /\ woken' = woken \cup ({responses[u].waker} \ {NoTask})
  /\ inbound' = Tail(inbound)
  /\ UNCHANGED <<linkVars, callVars, sent, answers>>

(* The connection task's on_message: the entry is removed and, if a poll     *)
(* registered a waker, put back as Completed; otherwise the message is lost. *)
Complete ==
  /\ MayRun
  /\ conn = "running"
  /\ inbound # <<>>
  /\ LET u == uuid[Head(inbound)] IN
       /\ responses[u].tag = "started"
       /\ responses' = [responses EXCEPT ![u] = Completed(Head(inbound))]
       /\ woken' = woken \cup {responses[u].waker}
  /\ inbound' = Tail(inbound)
  /\ UNCHANGED <<linkVars, callVars, sent, answers>>

Discard ==
  /\ MayRun
  /\ conn = "running"
  /\ inbound # <<>>
  /\ LET u == uuid[Head(inbound)] IN
       /\ responses[u].tag # "started"
       /\ responses' = [responses EXCEPT ![u] = Absent]
  /\ inbound' = Tail(inbound)
  /\ UNCHANGED <<linkVars, callVars, woken, sent, answers>>

OnMessage == Complete \/ Discard

LinkEndClearsMutant ==   \* empties the map before anyone was woken
  /\ MayRun
  /\ conn = "running"
  /\ conn' = "waking"
  /\ responses' = [u \in Uuid |-> Absent]
  /\ inbound' = <<>>
  /\ UNCHANGED <<closing, callVars, woken, sent, answers>>

(* future::select returns: the read side or the write side has finished.     *)
LinkEnd ==
  /\ MayRun
  /\ conn = "running"
  /\ conn' = "waking"
  /\ inbound' = <<>>
  /\ UNCHANGED <<responses, closing, callVars, woken, sent, answers>>

ClearWakeMuteMutant ==   \* wakes nobody
  /\ conn = "waking"
  /\ conn' = "clearing"
  /\ UNCHANGED <<responses, closing, callVars, woken, wireVars>>

ClearWakeAllMutant ==   \* does not test the Status before it takes the waker
  /\ conn = "waking"
  /\ conn' = "clearing"
  /\ woken' = woken \cup {responses[u].waker : u \in Uuid}
  /\ UNCHANGED <<responses, closing, callVars, wireVars>>

(* SharedData::clear, first acquisition: wake every registered waker.        *)
ClearWake ==
  /\ conn = "waking"
  /\ conn' = "clearing"
  /\ woken' = woken \cup {responses[u].waker : u \in {v \in Uuid : responses[v].tag = "started"}}
  /\ UNCHANGED <<responses, closing, callVars, wireVars>>

(* SharedData::clear, second acquisition: empty the map.                     *)
ClearMap ==
  /\ conn = "clearing"
  /\ conn' = "cleared"
  /\ responses' = [u \in Uuid |-> Absent]
  /\ UNCHANGED <<closing, callVars, woken, wireVars>>

(* The task's locals, the channel's receiver among them, are dropped.        *)
TaskEnd ==
  /\ conn = "cleared"
  /\ conn' = "ended"
  /\ UNCHANGED <<responses, closing, callVars, woken, wireVars>>

(* Client::close and Drop for Client.                                        *)
Close ==
  /\ MayRun
  /\ ~closing
  /\ closing' = TRUE
  /\ UNCHANGED <<responses, conn, callVars, woken, wireVars>>

(* The runtime drops the aborted task at an await point: clear does not run. *)
Cancel ==
  /\ MayRun
  /\ closing
  /\ conn = "running"
  /\ conn' = "aborted"
  /\ inbound' = <<>>
  /\ UNCHANGED <<responses, closing, callVars, woken, sent, answers>>

ConnectionTask == OnMessage \/ LinkEnd \/ ClearWake \/ ClearMap \/ TaskEnd \/ Cancel

Caller == \/ \E c \in Call, u \in Uuid : GenerateUuid(c, u)
          \/ \E c \in Call : SendBytes(c) \/ DropFuture(c)
          \/ \E src, c \in Call : Reply(src, c)
          \/ \E c \in Call, t \in Task : Poll(c, t)
          \/ Close

Next == Caller \/ ConnectionTask \/ \E c \in Call : Answer(c)

Spec == Init /\ [][Next]_vars

(* The runtime runs the connection task while it is ready and every woken    *)
(* task; the owner of a new future polls it or drops it.  Nothing makes the  *)
(* server answer, the link fail or the caller send, close or give up.        *)
PollWoken(c, t) == t \in woken /\ waiting[c] = t /\ Poll(c, t)
FirstUse(c)     == Unpolled(c) /\ (DropFuture(c) \/ \E t \in Task : Poll(c, t))

Fairness ==
  /\ WF_vars(ClearWake \/ ClearMap \/ TaskEnd)
  /\ WF_vars(OnMessage)
  /\ \A c \in Call : WF_vars(SendBytes(c)) /\ WF_vars(FirstUse(c))
  /\ \A c \in Call, t \in Task : WF_vars(PollWoken(c, t))

FairSpec == Spec /\ Fairness

-----------------------------------------------------------------------------
(* Every variable keeps its type. *)
TypeOK ==
  /\ responses \in [Uuid -> Status]
  /\ conn \in ConnState
  /\ closing \in BOOLEAN
  /\ call \in [Call -> CallState]
  /\ uuid \in [Call -> Uuid \cup {NoUuid}]
  /\ alive \subseteq Call
  /\ waiting \in [Call -> Task \cup {NoTask}]
  /\ woken \subseteq Task
  /\ replied \subseteq Call
  /\ sent \subseteq Call
  /\ answers \in [Call -> 0..MaxAnswers]
  /\ inbound \in Seq(Call)
  /\ result \in [Call -> Payload]

(* The map does not leak: an entry that was polled, answered or drained      *)
(* belongs to a live future, which will remove it on drop; an untouched one  *)
(* also to a call that is still being sent or whose send failed (shared.rs   *)
(* returns Err without removing what generate_uuid or reply put).            *)
OwnedEntry ==
  \A u \in Uuid : responses[u] # Absent =>
    \E c \in Call :
      /\ uuid[c] = u
      /\ \/ c \in alive
         \/ responses[u] = None /\ call[c] \in {"sending", "senderr", "refused"}

(* The caller is done with a Response when its future is gone. *)
Finished(c) == call[c] = "ok" /\ c \notin alive

(* Whatever the caller does, a future resolves to a reply the server gave in *)
(* its own conversation, or to the emptied buffer of such a reply, which     *)
(* another future of the conversation was given before it.                   *)
TakesOwn(c) ==
  /\ result[c] \in Call
  /\ uuid[result[c]] = uuid[c]
  /\ answers[result[c]] > 0

ConversationsApart ==
  \A c \in Call : result[c] # NoData =>
    \/ TakesOwn(c)
    \/ /\ result[c] = Drained
       /\ \E d \in Call \ {c} : uuid[d] = uuid[c] /\ TakesOwn(d)

(* An await returns the answer to its own request, never the answer to an    *)
(* earlier message of the conversation nor the emptied buffer of one.        *)
AnswersMatch ==
  Disciplined /\ MaxAnswers = 1 => \A c \in Call : result[c] \in {NoData, c}

(* No lost wake-up: a future that returned Pending has its task's waker in   *)
(* the map of a connection that may still use it, or the task was woken.     *)
(* The exceptions are an aborted task, and, with parallel threads, a future  *)
(* polled between the two halves of clear or after them.                     *)
NoLostWakeup ==
  Disciplined /\ ~Migrating =>
    \A c \in Call : Waits(c) =>
      \/ waiting[c] \in woken
      \/ responses[uuid[c]] = Started(waiting[c]) /\ (conn = "ended" => Parallel)
      \/ Parallel /\ conn \in {"cleared", "ended"}

(* While the connection runs, no await fails with NotFound: the answer finds *)
(* the waker registered (README, "let res = client.send(..).unwrap().await   *)
(* .unwrap()").                                                              *)
AwaitSucceeds == conn = "running" => \A c \in Call : call[c] # "notfound"

(* An answer that reached the map stays there until its owner polls or drops *)
(* the future, unless clear() empties the map.                               *)
AnswerKept ==
  [][Disciplined /\ MaxAnswers = 1 =>
       \A c \in Call :
         Waits(c) /\ responses[uuid[c]].tag = "completed" =>
           \/ responses'[uuid[c]] = responses[uuid[c]]
           \/ call'[c] = "ok" \/ c \notin alive'
           \/ conn = "clearing" /\ conn' = "cleared"]_vars

(* Once the connection task has finished, no await is left hanging. *)
ClosedWaitersReturn ==
  \A c \in Call : (conn = "ended" /\ Waits(c)) ~> ~Waits(c)

(* A future whose answer is in the map is eventually polled. *)
AnsweredWaitersReturn ==
  \A c \in Call : (Waits(c) /\ responses[uuid[c]].tag = "completed") ~> ~Waits(c)

=============================================================================
