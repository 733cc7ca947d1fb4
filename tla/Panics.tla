------------------------------- MODULE Panics -------------------------------
(***************************************************************************)
(* ResponseMap when code of the caller panics.  A reply holds the mutex    *)
(* while it writes the caller's message and cuts it up (a bandwidth of 0   *)
(* makes chunks_mut panic, a protobuf message may): a panic there poisons  *)
(* the mutex for good.  A callback of the client's Config that panics      *)
(* takes the connection task with it.                                      *)
(*                                                                         *)
(* The nil uuid that generate_uuid then returns is NoUuid here; no entry   *)
(* has it.                                                                 *)
(***************************************************************************)
EXTENDS ResponseMap

VARIABLES
  poisoned   \* a thread panicked with the mutex held

allVars == <<vars, poisoned>>

InitPanics == Init /\ poisoned = FALSE

-----------------------------------------------------------------------------
(* The entry was inserted, the message did not leave, nobody has a future.   *)
ReplyPanics(src, c) ==
  /\ ~poisoned
  /\ MayRun
  /\ call[src] = "ok"
  /\ Disciplined => src \notin alive /\ src \notin replied
  /\ call[c] = "unused"
  /\ uuid' = [uuid EXCEPT ![c] = uuid[src]]
  /\ responses' = IF responses[uuid[src]] = Absent
                    THEN [responses EXCEPT ![uuid[src]] = None]
                    ELSE responses
  /\ replied' = replied \cup {src}
  /\ call' = [call EXCEPT ![c] = "senderr"]
  /\ poisoned' = TRUE
  /\ UNCHANGED <<linkVars, wireVars, alive, waiting, woken, result>>

(* A send panics without the mutex: its entry stays, and nothing else does.  *)
SendPanics(c) ==
  /\ call[c] = "sending"
  /\ call' = [call EXCEPT ![c] = "senderr"]
  /\ UNCHANGED <<responses, linkVars, wireVars, uuid, alive, waiting, woken, replied,
                 result, poisoned>>

(* on_progress or on_error panics: the task is gone, and clear does not run. *)
CallbackPanics ==
  /\ MayRun
  /\ conn = "running"
  /\ conn' = "aborted"
  /\ inbound' = <<>>
  /\ UNCHANGED <<responses, closing, callVars, woken, sent, answers, poisoned>>

-----------------------------------------------------------------------------
(* The operations on a poisoned mutex.  generate_uuid: the nil uuid. *)
NilUuid(c) ==
  /\ MayRun
  /\ call[c] = "unused"
  /\ call' = [call EXCEPT ![c] = "sending"]
  /\ UNCHANGED <<responses, linkVars, wireVars, uuid, alive, waiting, woken, replied,
                 result>>

(* reply: Err(MutexError); the Response may be replied to again. *)
ReplyRefused(src, c) ==
  /\ MayRun
  /\ call[src] = "ok" /\ call[c] = "unused"
  /\ call' = [call EXCEPT ![c] = "senderr"]
  /\ UNCHANGED <<responses, linkVars, wireVars, uuid, alive, waiting, woken, replied,
                 result>>

PollRecoversMutant(c, t) ==   \* takes the guard out of the PoisonError
  PollNone(c, t) \/ PollStarted(c, t) \/ PollCompleted(c, t)

PollPendsMutant(c, t) ==   \* hopes for a better mutex next time
  /\ CanPoll(c, t)
  /\ waiting' = [waiting EXCEPT ![c] = t]
  /\ woken' = woken \ {t}
  /\ UNCHANGED <<responses, linkVars, wireVars, call, uuid, alive, replied, result>>

(* poll: Ready(Err(MutexError)), whatever the entry holds. *)
PollMutexError(c, t) ==
  /\ CanPoll(c, t)
  /\ call' = [call EXCEPT ![c] = "mutexerr"]
  /\ waiting' = [waiting EXCEPT ![c] = NoTask]
  /\ woken' = woken \ {t}
  /\ UNCHANGED <<responses, linkVars, wireVars, uuid, alive, replied, result>>

(* drop: the entry stays. *)
DropKeeps(c) ==
  /\ c \in alive
  /\ MayUse(c)
  /\ alive' = alive \ {c}
  /\ waiting' = [waiting EXCEPT ![c] = NoTask]
  /\ UNCHANGED <<responses, linkVars, wireVars, call, uuid, woken, replied, result>>

OnMessageTakesMutant ==   \* removes the entry before it finds the mutex poisoned
  /\ MayRun
  /\ conn = "running"
  /\ inbound # <<>>
  /\ responses' = [responses EXCEPT ![uuid[Head(inbound)]] = Absent]
  /\ inbound' = Tail(inbound)
  /\ UNCHANGED <<linkVars, callVars, woken, sent, answers>>

(* on_message: on_error is called, and the answer is lost. *)
OnMessageError ==
  /\ MayRun
  /\ conn = "running"
  /\ inbound # <<>>
  /\ inbound' = Tail(inbound)
  /\ UNCHANGED <<responses, linkVars, callVars, woken, sent, answers>>

(* clear: lock().unwrap() panics, at its first lock or its second, and takes *)
(* the task with it: nobody else is woken.                                   *)
ClearPanics ==
  /\ conn \in {"waking", "clearing"}
  /\ conn' = "aborted"
  /\ UNCHANGED <<responses, closing, callVars, woken, wireVars>>

AfterPoison ==
  \/ \E c \in Call : NilUuid(c) \/ SendBytes(c) \/ DropKeeps(c) \/ Answer(c)
  \/ \E src, c \in Call : ReplyRefused(src, c)
  \/ \E c \in Call, t \in Task : PollMutexError(c, t)
  \/ OnMessageError \/ LinkEnd \/ ClearPanics \/ TaskEnd \/ Close \/ Cancel

NextPanics == \/ ~poisoned /\ Next /\ UNCHANGED poisoned
              \/ \E src, c \in Call : ReplyPanics(src, c)
              \/ \E c \in Call : SendPanics(c)
              \/ CallbackPanics
              \/ poisoned /\ AfterPoison /\ UNCHANGED poisoned

(* As in ResponseMap: tasks that were woken and new futures get polled.      *)
PollAny(c, t) == IF poisoned THEN PollMutexError(c, t) ELSE Poll(c, t)

FirstUseAny(c) ==
  /\ Unpolled(c)
  /\ (\E t \in Task : PollAny(c, t))
     \/ (IF poisoned THEN DropKeeps(c) ELSE DropFuture(c))

FairnessPanics ==
  /\ \A c \in Call : WF_allVars(FirstUseAny(c) /\ UNCHANGED poisoned)
  /\ \A c \in Call, t \in Task :
       WF_allVars(t \in woken /\ waiting[c] = t /\ PollAny(c, t) /\ UNCHANGED poisoned)

SpecPanics == InitPanics /\ [][NextPanics]_allVars /\ FairnessPanics

-----------------------------------------------------------------------------
(* Nobody starts to wait for a map that nobody can complete any more. *)
NoNewWaiters ==
  [][poisoned => \A c \in Call : Waits(c)' => Waits(c)]_allVars

(* A panic strands only futures that had their waker in the map when it came: *)
(* entries no one can take out again.  (On parallel threads also those of the *)
(* second finding, whose wakers clear threw away.)                            *)
StrandedInMap ==
  Disciplined /\ ~Migrating =>
    \A c \in Call : Waits(c) =>
      \/ waiting[c] \in woken
      \/ responses[uuid[c]] = Started(waiting[c])
      \/ Parallel /\ conn \in {"cleared", "ended"}

(* After a panic under the mutex every call still comes to an end: a future   *)
(* that does not wait already is answered with an error.                      *)
CallsStillReturn ==
  \A c \in Call :
    (poisoned /\ Pending(c) /\ (Unpolled(c) \/ waiting[c] \in woken)) ~> ~Pending(c)

=============================================================================
