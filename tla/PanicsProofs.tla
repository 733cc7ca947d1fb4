---------------------------- MODULE PanicsProofs ----------------------------
(***************************************************************************)
(* Theorems about Panics for every set of uuids, calls and tasks.  Until   *)
(* the mutex is poisoned the map is as healthy as in ResponseMap, though   *)
(* sends and callbacks may panic; afterwards nobody enters the ranks of    *)
(* those who wait, and nothing is taken from those who do.                 *)
(***************************************************************************)
EXTENDS Panics, ResponseMapProofs

-----------------------------------------------------------------------------
(* The invariants of ResponseMap, together. *)
Healthy == TypeInv /\ OwnedEntry /\ SerialInv /\ WakeInv

LEMMA HealthyInit == Init => Healthy
<1>1. Init => OwnedEntry /\ SerialInv
  BY StatusTags DEF Init, OwnedEntry, SerialInv
<1>2. Init => WakeInv
  BY StatusTags, NullAssumption
  DEF Init, WakeInv, WakerFits, ClearsAlone, NoLostWakeup, Waits, Pending
<1> QED BY <1>1, <1>2, TypeInit DEF Healthy

LEMMA HealthyStep ==
  ASSUME Healthy, [Next]_vars
  PROVE  Healthy'
BY TypeStep, OwnedStep, SerialStep, WakeStep DEF Healthy

(* A send that panics has a future no more than one that failed.             *)
LEMMA HealthySendPanics ==
  ASSUME Healthy, NEW c \in Call, SendPanics(c)
  PROVE  Healthy'
<1> USE DEF Healthy
<1>1. /\ call[c] = "sending" /\ call' = [call EXCEPT ![c] = "senderr"]
      /\ UNCHANGED <<responses, conn, closing, sent, answers, inbound, uuid, alive,
                     waiting, woken, replied, result>>
  BY DEF SendPanics, linkVars, wireVars
<1>2. call \in [Call -> CallState] /\ c \notin alive \cup sent
  BY <1>1 DEF TypeInv, TypeOK, KnownCalls
<1>3. call' \in [Call -> CallState] /\ call'[c] = "senderr"
      /\ \A d \in Call \ {c} : call'[d] = call[d]
  BY <1>1, <1>2 DEF CallState
<1>4. TypeInv'
  BY <1>1, <1>2, <1>3 DEF TypeInv, TypeOK, StartedHasWaker, UsedHasUuid, KnownCalls
<1>5. OwnedEntry'
  BY <1>1, <1>3 DEF OwnedEntry
<1>6. SerialInv'
  BY <1>1, <1>3 DEF SerialInv, Over, Finished
<1>7. WakeInv'
  BY <1>1, <1>2, <1>3
  DEF WakeInv, WakerFits, ClearsAlone, NoLostWakeup, Waits, Pending
<1> QED BY <1>4, <1>5, <1>6, <1>7

(* A connection task lost to a callback is to the map like an aborted one.   *)
LEMMA HealthyCallbackPanics ==
  ASSUME Healthy, CallbackPanics
  PROVE  Healthy'
<1> USE DEF Healthy
<1>1. /\ conn = "running" /\ conn' = "aborted" /\ inbound' = <<>>
      /\ UNCHANGED <<responses, closing, call, uuid, alive, waiting, result, replied,
                     woken, sent, answers>>
  BY DEF CallbackPanics, callVars
<1>2. inbound' \in Seq(Call) /\ Len(inbound') = 0
  BY <1>1
<1>3. TypeInv'
  BY <1>1, <1>2
  DEF TypeInv, TypeOK, ConnState, StartedHasWaker, UsedHasUuid, KnownCalls
<1>4. OwnedEntry' /\ SerialInv'
  BY <1>1 DEF OwnedEntry, SerialInv, Over, Finished
<1>5. WakeInv'
  BY <1>1 DEF WakeInv, WakerFits, ClearsAlone, NoLostWakeup, Waits, Pending
<1> QED BY <1>3, <1>4, <1>5

-----------------------------------------------------------------------------
(* What still holds of a poisoned map: who waits has a future, and the waker *)
(* that was his when the panic came is still in its place.                   *)
Waiters ==
  /\ call \in [Call -> CallState \cup {"mutexerr"}]
  /\ waiting \in [Call -> Task \cup {NoTask}]
  /\ alive \subseteq Call
  /\ \A c \in Call : waiting[c] # NoTask => c \in alive
  /\ \A c \in alive : call[c] \notin {"unused", "sending"}

Stranded(c) ==
  \/ waiting[c] \in woken
  \/ responses[uuid[c]] = Started(waiting[c])
  \/ Parallel /\ conn \in {"cleared", "ended"}

PanicInv ==
  /\ poisoned \in BOOLEAN
  /\ IF poisoned THEN Waiters /\ StrandedInMap ELSE Healthy

LEMMA HealthyWaiters ==
  ASSUME Healthy
  PROVE  Waiters /\ StrandedInMap
<1>1. Waiters
  BY DEF Healthy, TypeInv, TypeOK, KnownCalls, Waiters
<1>2. StrandedInMap
  BY DEF Healthy, WakeInv, NoLostWakeup, StrandedInMap
<1> QED BY <1>1, <1>2

(* The panic itself leaves every entry as it is, but for a new one. *)
LEMMA PoisonStep ==
  ASSUME Healthy, NEW src \in Call, NEW c \in Call, ReplyPanics(src, c)
  PROVE  Waiters' /\ StrandedInMap'
<1>1. Waiters /\ StrandedInMap
  BY HealthyWaiters
<1>2. /\ call[c] = "unused" /\ call' = [call EXCEPT ![c] = "senderr"]
      /\ uuid' = [uuid EXCEPT ![c] = uuid[src]]
      /\ UNCHANGED <<alive, waiting, woken, conn>>
      /\ \A u \in Uuid : responses[u] # Absent => responses'[u] = responses[u]
  BY DEF ReplyPanics, linkVars, wireVars, Healthy, TypeInv, TypeOK
<1>3. c \notin alive /\ waiting[c] = NoTask
  BY <1>1, <1>2 DEF Waiters
<1>4. Waiters'
  BY <1>1, <1>2, <1>3 DEF Waiters, CallState
<1>5. ASSUME NEW d \in Call, d # c, Waits(d), Stranded(d) PROVE Stranded(d)'
  <2>1. uuid'[d] = uuid[d] /\ uuid[d] \in Uuid
    BY <1>2, <1>5 DEF Waits, Pending, Healthy, TypeInv, TypeOK, UsedHasUuid
  <2>2. Started(waiting[d]) # Absent
    BY StatusTags
  <2> QED BY <1>2, <1>5, <2>1, <2>2 DEF Stranded
<1>6. \A d \in Call : Waits(d)' => d # c /\ Waits(d)
  BY <1>1, <1>2, <1>3 DEF Waits, Pending, Waiters
<1>7. StrandedInMap'
  BY <1>1, <1>5, <1>6 DEF StrandedInMap, Stranded
<1> QED BY <1>4, <1>7

(* Calls that begin, fail or get a future on a poisoned map do not wait.     *)
LEMMA CallsDoNotWait ==
  ASSUME Waiters, NEW c \in Call,
         NilUuid(c) \/ SendBytes(c) \/ \E src \in Call : ReplyRefused(src, c)
  PROVE  /\ Waiters'
         /\ UNCHANGED <<responses, uuid, waiting, woken, conn>>
         /\ \A d \in Call : Waits(d)' => Waits(d)
<1>1. /\ call[c] \in {"unused", "sending"} /\ c \notin alive /\ waiting[c] = NoTask
  BY DEF Waiters, NilUuid, SendBytes, ReplyRefused
<1>2. /\ UNCHANGED <<responses, uuid, waiting, woken, conn>>
      /\ \/ call' = [call EXCEPT ![c] = "sending"] /\ alive' = alive
         \/ call' = [call EXCEPT ![c] = "senderr"] /\ alive' = alive
         \/ call' = [call EXCEPT ![c] = "refused"] /\ alive' = alive
         \/ call' = [call EXCEPT ![c] = "future"] /\ alive' = alive \cup {c}
  BY DEF NilUuid, SendBytes, SendOk, SendFailed, SendRefused, ReplyRefused, linkVars
<1>3. Waiters'
  BY <1>1, <1>2 DEF Waiters, CallState
<1> QED BY <1>1, <1>2, <1>3 DEF Waiters, Waits, Pending

(* A poll ends the wait of its future; a task that was woken for another one  *)
(* is not polled here, since a task awaits one future at a time.              *)
LEMMA PollEndsWait ==
  ASSUME Waiters, NEW c \in Call, NEW t \in Task, PollMutexError(c, t)
  PROVE  /\ Waiters'
         /\ UNCHANGED <<responses, uuid, conn>>
         /\ \A d \in Call : Waits(d)' => /\ Waits(d) /\ waiting'[d] = waiting[d]
                                         /\ waiting[d] \in woken => waiting'[d] \in woken'
<1>1. /\ UNCHANGED <<responses, uuid, conn, alive>>
      /\ call' = [call EXCEPT ![c] = "mutexerr"]
      /\ waiting' = [waiting EXCEPT ![c] = NoTask]
      /\ woken' = woken \ {t}
      /\ \A d \in Call \ {c} : Waits(d) => waiting[d] # t
  BY DEF PollMutexError, CanPoll, linkVars
<1>2. Waiters'
  BY <1>1 DEF Waiters
<1>3. \A d \in Call : Waits(d)' => d # c /\ Waits(d) /\ waiting'[d] = waiting[d]
  BY <1>1 DEF Waits, Pending, Waiters
<1> QED BY <1>1, <1>2, <1>3

LEMMA DropEndsWait ==
  ASSUME Waiters, NEW c \in Call, DropKeeps(c)
  PROVE  /\ Waiters'
         /\ UNCHANGED <<responses, uuid, woken, conn>>
         /\ \A d \in Call : Waits(d)' => Waits(d) /\ waiting'[d] = waiting[d]
<1>1. /\ UNCHANGED <<responses, uuid, woken, conn, call>>
      /\ alive' = alive \ {c}
      /\ waiting' = [waiting EXCEPT ![c] = NoTask]
  BY DEF DropKeeps, linkVars
<1>2. Waiters'
  BY <1>1 DEF Waiters
<1> QED BY <1>1, <1>2 DEF Waits, Pending, Waiters

(* The server and the connection task leave the callers alone. *)
LEMMA TaskAlone ==
  ASSUME \/ OnMessageError \/ LinkEnd \/ ClearPanics \/ TaskEnd \/ Close \/ Cancel
         \/ UNCHANGED vars \/ \E c \in Call : Answer(c)
  PROVE  /\ UNCHANGED <<responses, call, uuid, alive, waiting, woken>>
         /\ conn \in {"cleared", "ended"} => conn' \in {"cleared", "ended"}
BY DEF OnMessageError, LinkEnd, ClearPanics, TaskEnd, Close, Cancel, Answer, vars,
       callVars, linkVars

(* After the panic: nobody begins to wait, and who waits keeps what he has.  *)
LEMMA AfterStep ==
  ASSUME Waiters, AfterPoison \/ UNCHANGED vars
  PROVE  /\ Waiters'
         /\ \A d \in Call : Waits(d)' => Waits(d) /\ (Stranded(d) => Stranded(d)')
<1>1. ASSUME NEW c \in Call,
             NilUuid(c) \/ SendBytes(c) \/ \E src \in Call : ReplyRefused(src, c)
      PROVE  /\ Waiters'
             /\ \A d \in Call : Waits(d)' => Waits(d) /\ (Stranded(d) => Stranded(d)')
  BY <1>1, CallsDoNotWait DEF Stranded
<1>2. ASSUME NEW c \in Call, NEW t \in Task, PollMutexError(c, t)
      PROVE  /\ Waiters'
             /\ \A d \in Call : Waits(d)' => Waits(d) /\ (Stranded(d) => Stranded(d)')
  BY <1>2, PollEndsWait DEF Stranded
<1>3. ASSUME NEW c \in Call, DropKeeps(c)
      PROVE  /\ Waiters'
             /\ \A d \in Call : Waits(d)' => Waits(d) /\ (Stranded(d) => Stranded(d)')
  BY <1>3, DropEndsWait DEF Stranded
<1>4. CASE \/ OnMessageError \/ LinkEnd \/ ClearPanics \/ TaskEnd \/ Close \/ Cancel
           \/ UNCHANGED vars \/ \E c \in Call : Answer(c)
  BY <1>4, TaskAlone DEF Stranded, Waiters, Waits, Pending
<1> QED BY <1>1, <1>2, <1>3, <1>4 DEF AfterPoison

-----------------------------------------------------------------------------
LEMMA PanicInvNext ==
  ASSUME PanicInv, [NextPanics]_allVars
  PROVE  PanicInv'
<1>1. CASE UNCHANGED allVars /\ ~poisoned
  BY <1>1, HealthyStep DEF PanicInv, allVars
<1>2. CASE ~poisoned /\ Next /\ UNCHANGED poisoned
  BY <1>2, HealthyStep DEF PanicInv
<1>3. ASSUME NEW src \in Call, NEW c \in Call, ReplyPanics(src, c)
      PROVE  PanicInv'
  BY <1>3, PoisonStep DEF PanicInv, ReplyPanics
<1>4. ASSUME NEW c \in Call, SendPanics(c), ~poisoned
      PROVE  PanicInv'
  BY <1>4, HealthySendPanics DEF PanicInv, SendPanics
<1>5. CASE CallbackPanics /\ ~poisoned
  BY <1>5, HealthyCallbackPanics DEF PanicInv, CallbackPanics
<1>6. CASE poisoned /\ (AfterPoison \/ UNCHANGED vars) /\ UNCHANGED poisoned
  BY <1>6, AfterStep DEF PanicInv, StrandedInMap, Stranded
<1>7. CASE UNCHANGED allVars /\ poisoned
  BY <1>6, <1>7 DEF allVars, PanicInv
<1>8. CASE poisoned /\ CallbackPanics
  <2>1. /\ UNCHANGED <<responses, call, uuid, alive, waiting, woken, poisoned>>
        /\ conn = "running"
    BY <1>8 DEF CallbackPanics, callVars
  <2> QED BY <1>8, <2>1 DEF PanicInv, Waiters, StrandedInMap, Waits, Pending
<1>9. ASSUME NEW c \in Call, SendPanics(c), poisoned
      PROVE  PanicInv'
  <2>1. /\ UNCHANGED <<responses, conn, uuid, alive, waiting, woken, poisoned>>
        /\ call[c] = "sending" /\ call' = [call EXCEPT ![c] = "senderr"]
    BY <1>9 DEF SendPanics, linkVars
  <2>2. Waiters'
    BY <1>9, <2>1 DEF PanicInv, Waiters, CallState
  <2>3. \A d \in Call : Waits(d)' => Waits(d)
    BY <1>9, <2>1 DEF PanicInv, Waiters, Waits, Pending
  <2> QED BY <1>9, <2>1, <2>2, <2>3 DEF PanicInv, StrandedInMap
<1>10. poisoned \in BOOLEAN
  BY DEF PanicInv
<1> QED BY <1>1, <1>2, <1>3, <1>4, <1>5, <1>6, <1>7, <1>8, <1>9, <1>10 DEF NextPanics

(* The inductive form: until the mutex is poisoned the map is healthy,        *)
(* afterwards who waits has a future and his waker in its place.              *)
THEOREM PanicsLeaveWaiters == SpecPanics => []PanicInv
<1>1. InitPanics => PanicInv
  BY HealthyInit DEF InitPanics, PanicInv
<1> QED BY <1>1, PanicInvNext, PTL DEF SpecPanics

(* A panic, wherever it strikes, strands only futures whose waker was in the  *)
(* map (response.rs:87-93): all others were or will be woken or refused.      *)
THEOREM OnlyRegisteredStrand == SpecPanics => []StrandedInMap
<1>1. PanicInv => StrandedInMap
  BY HealthyWaiters DEF PanicInv
<1> QED BY <1>1, PanicsLeaveWaiters, PTL

(* Once the mutex is poisoned, no future begins to wait: the first poll of    *)
(* any fails with MutexError (response.rs:81-84, shared.rs:45-52).            *)
THEOREM NobodyWaitsAnew == SpecPanics => NoNewWaiters
<1> DEFINE Step == poisoned => \A c \in Call : Waits(c)' => Waits(c)
<1>1. ASSUME PanicInv, [NextPanics]_allVars, poisoned, NEW c \in Call, Waits(c)'
      PROVE  Waits(c)
  <2>1. Waiters
    BY <1>1 DEF PanicInv
  <2>2. CASE AfterPoison \/ UNCHANGED allVars
    BY <1>1, <2>1, <2>2, AfterStep DEF allVars
  <2>3. CASE CallbackPanics
    BY <1>1, <2>3 DEF CallbackPanics, callVars, Waits, Pending
  <2>4. ASSUME NEW d \in Call, SendPanics(d) PROVE Waits(c)
    <3>1. /\ UNCHANGED <<alive, waiting>> /\ call[d] = "sending"
          /\ call' = [call EXCEPT ![d] = "senderr"]
      BY <2>4 DEF SendPanics
    <3> QED BY <1>1, <2>1, <3>1 DEF Waiters, Waits, Pending
  <2> QED BY <1>1, <2>2, <2>3, <2>4 DEF NextPanics, ReplyPanics
<1>2. PanicInv /\ [NextPanics]_allVars => [Step]_allVars
  BY <1>1
<1> QED BY <1>2, PanicsLeaveWaiters, PTL DEF SpecPanics, NoNewWaiters

-----------------------------------------------------------------------------
(* The weak promise of RequestReply holds in spite of panics.  Until the      *)
(* mutex is poisoned by AnswerInv, as without panics; afterwards because no   *)
(* call gets an answer any more.                                              *)
Known ==
  /\ answers \in [Call -> Nat]
  /\ sent \subseteq Call
  /\ \A c \in sent : call[c] \notin {"unused", "sending", "refused"}

PromiseInv == IF poisoned THEN Waiters /\ Known ELSE AnswerInv

LEMMA HealthyKnown ==
  ASSUME Healthy
  PROVE  Known
BY ModeAssumption DEF Healthy, TypeInv, TypeOK, KnownCalls, Known

(* A panic of a send, or of a callback, moves no answer. *)
LEMMA PanicsMoveNoAnswer ==
  ASSUME Healthy, AnswerInv, CallbackPanics \/ \E c \in Call : SendPanics(c)
  PROVE  AnswerInv'
<1> SUFFICES ASSUME OneAnswer, OwnEntry, AnswersMatch
             PROVE  OneAnswer' /\ OwnEntry' /\ AnswersMatch'
  BY DEF AnswerInv
<1> USE DEF Healthy, TypeInv, TypeOK
<1>1. UNCHANGED <<responses, uuid, alive, answers, result>>
  BY DEF CallbackPanics, SendPanics, callVars, wireVars
<1>2. \A d \in Call : /\ call'[d] = "ok" <=> call[d] = "ok"
                      /\ call'[d] = "future" <=> call[d] = "future"
                      /\ call'[d] = "sending" => call[d] = "sending"
  BY DEF CallbackPanics, SendPanics, callVars
<1>3. \/ inbound' = inbound
      \/ inbound' = <<>>
  BY DEF CallbackPanics, SendPanics, wireVars
<1>4. \A i \in 1..Len(inbound') : i \in 1..Len(inbound) /\ inbound'[i] = inbound[i]
  BY <1>3
<1>5. \A d \in Call : (OnTheWay(d)' => OnTheWay(d)) /\ (InMap(d)' <=> InMap(d))
  BY <1>1, <1>4 DEF OnTheWay, InMap
<1>6. OneAnswer'
  BY <1>1, <1>2, <1>4, <1>5 DEF OneAnswer
<1>7. OwnEntry'
  BY <1>1, <1>2 DEF OwnEntry, Pending
<1>8. AnswersMatch'
  BY <1>1 DEF AnswersMatch
<1> QED BY <1>6, <1>7, <1>8

(* As SameOutcome, for any state of a call. *)
LEMMA KeptOutcome ==
  ASSUME call \in [Call -> CallState \cup {"mutexerr"}], NEW d \in Call,
         call'[d] = call[d], d \in alive' <=> d \in alive
  PROVE  OutcomeOf(d)' = OutcomeOf(d)
BY Outcomes, OutcomesAfter DEF CallState

(* A call that had no future and gets none does not show, or fails. *)
LEMMA CallFails ==
  ASSUME call \in [Call -> CallState \cup {"mutexerr"}],
         NEW c \in Call, OutcomeOf(c) \in {"idle", "asked"},
         NEW to \in {"senderr", "mutexerr"},
         call' = [call EXCEPT ![c] = to], UNCHANGED <<alive, result, answers, conn>>
  PROVE  Weak!Next
<1>1. \A d \in Call \ {c} : OutcomeOf(d)' = OutcomeOf(d)
  BY KeptOutcome
<1>2. OutcomeOf(c)' = "failed"
  BY OutcomesAfter
<1>3. outcome' = [outcome EXCEPT ![c] = "failed"]
  BY <1>1, <1>2, OneOutcome
<1> QED BY <1>3, PromiseFail

(* A task that goes is a connection that goes. *)
LEMMA TaskGoes ==
  ASSUME call \in [Call -> CallState \cup {"mutexerr"}],
         UNCHANGED <<call, alive, result, answers>>, conn' = "running" => conn = "running"
  PROVE  Weak!Next \/ UNCHANGED Weak!vars
<1>1. \A d \in Call : OutcomeOf(d)' = OutcomeOf(d)
  BY KeptOutcome
<1>2. outcome' = outcome
  BY <1>1, NoOutcome
<1>3. CASE open' = open
  BY <1>2, <1>3, PromiseStutters DEF served
<1>4. CASE open' # open
  <2>1. open /\ ~open'
    BY <1>4 DEF open
  <2>2. Weak!Disconnect
    BY <1>2, <2>1 DEF Weak!Disconnect, outcome, served, open
  <2> QED BY <2>2 DEF Weak!Next
<1> QED BY <1>3, <1>4

(* What the calls do on a poisoned mutex. *)
LEMMA PoisonedCalls ==
  ASSUME Waiters, Known, NEW c \in Call,
         \/ NilUuid(c) \/ SendBytes(c) \/ DropKeeps(c)
         \/ \E src \in Call : ReplyRefused(src, c)
         \/ \E t \in Task : PollMutexError(c, t)
  PROVE  Known' /\ (Weak!Next \/ UNCHANGED Weak!vars)
<1> DEFINE Seen == Weak!Next \/ UNCHANGED Weak!vars
<1>0. call \in [Call -> CallState \cup {"mutexerr"}]
  BY DEF Waiters
<1>1. UNCHANGED <<result, answers, conn>>
  BY DEF NilUuid, SendBytes, DropKeeps, ReplyRefused, PollMutexError, linkVars, wireVars
<1>2. CASE NilUuid(c)
  <2>1. call[c] = "unused" /\ call' = [call EXCEPT ![c] = "sending"] /\ UNCHANGED <<alive, sent>>
    BY <1>2 DEF NilUuid, wireVars
  <2>2. OutcomeOf(c)' = OutcomeOf(c)
    BY <1>0, <2>1, Outcomes, OutcomesAfter
  <2>3. \A d \in Call : OutcomeOf(d)' = OutcomeOf(d)
    BY <1>0, <2>1, <2>2, KeptOutcome
  <2>4. Seen
    BY <1>1, <2>3, NoOutcome, PromiseStutters DEF served, open
  <2>5. Known'
    BY <1>0, <1>1, <2>1 DEF Known
  <2> QED BY <2>4, <2>5
<1>3. CASE SendBytes(c) /\ SendOk(c)
  <2>1. /\ call[c] = "sending" /\ call' = [call EXCEPT ![c] = "future"]
        /\ alive' = alive \cup {c} /\ sent' = sent \cup {c}
    BY <1>3 DEF SendBytes, SendOk
  <2>2. OutcomeOf(c) = "idle" /\ OutcomeOf(c)' = "asked"
    BY <1>0, <2>1, Outcomes, OutcomesAfter
  <2>3. \A d \in Call \ {c} : OutcomeOf(d)' = OutcomeOf(d)
    BY <1>0, <2>1, KeptOutcome
  <2>4. outcome' = [outcome EXCEPT ![c] = "asked"]
    BY <2>2, <2>3, OneOutcome
  <2>5. Seen
    BY <1>1, <2>2, <2>4, PromiseAsk
  <2>6. Known'
    BY <1>0, <1>1, <2>1 DEF Known
  <2> QED BY <2>5, <2>6
<1>4. CASE SendBytes(c) /\ SendFailed(c)
  <2>1. /\ call[c] = "sending" /\ call' = [call EXCEPT ![c] = "senderr"]
        /\ UNCHANGED <<alive, sent>>
    BY <1>4 DEF SendBytes, SendFailed
  <2>2. OutcomeOf(c) = "idle"
    BY <2>1, Outcomes
  <2>3. Seen
    BY <1>0, <1>1, <2>1, <2>2, CallFails
  <2>4. Known'
    BY <1>0, <1>1, <2>1 DEF Known
  <2> QED BY <2>3, <2>4
<1>5. CASE SendBytes(c) /\ SendRefused(c)
  <2>1. /\ call[c] = "sending" /\ call' = [call EXCEPT ![c] = "refused"]
        /\ UNCHANGED <<alive, sent>>
    BY <1>5 DEF SendBytes, SendRefused
  <2>2. OutcomeOf(c) = "idle" /\ OutcomeOf(c)' = "refused"
    BY <1>0, <2>1, Outcomes, OutcomesAfter
  <2>3. \A d \in Call \ {c} : OutcomeOf(d)' = OutcomeOf(d)
    BY <1>0, <2>1, KeptOutcome
  <2>4. outcome' = [outcome EXCEPT ![c] = "refused"]
    BY <2>2, <2>3, OneOutcome
  <2>5. Seen
    BY <1>1, <2>2, <2>4, PromiseRefuse
  <2>6. Known'
    BY <1>0, <1>1, <2>1 DEF Known
  <2> QED BY <2>5, <2>6
<1>6. ASSUME NEW src \in Call, ReplyRefused(src, c) PROVE Known' /\ Seen
  <2>1. /\ call[c] = "unused" /\ call' = [call EXCEPT ![c] = "senderr"]
        /\ UNCHANGED <<alive, sent>>
    BY <1>6 DEF ReplyRefused, wireVars
  <2>2. OutcomeOf(c) = "idle"
    BY <2>1, Outcomes
  <2>3. Seen
    BY <1>0, <1>1, <2>1, <2>2, CallFails
  <2>4. Known'
    BY <1>0, <1>1, <2>1 DEF Known
  <2> QED BY <2>3, <2>4
<1>7. ASSUME NEW t \in Task, PollMutexError(c, t) PROVE Known' /\ Seen
  <2>1. /\ call[c] = "future" /\ c \in alive /\ call' = [call EXCEPT ![c] = "mutexerr"]
        /\ UNCHANGED <<alive, sent>>
    BY <1>7 DEF PollMutexError, CanPoll, Pending, wireVars
  <2>2. OutcomeOf(c) = "asked"
    BY <2>1, Outcomes
  <2>3. Seen
    BY <1>0, <1>1, <2>1, <2>2, CallFails
  <2>4. Known'
    BY <1>0, <1>1, <2>1 DEF Known
  <2> QED BY <2>3, <2>4
<1>8. CASE DropKeeps(c)
  <2>1. c \in alive /\ alive' = alive \ {c} /\ call' = call /\ sent' = sent
    BY <1>8 DEF DropKeeps, wireVars
  <2>2. \A d \in Call \ {c} : OutcomeOf(d)' = OutcomeOf(d)
    BY <1>0, <2>1, KeptOutcome
  <2>3. Known'
    BY <1>1, <2>1 DEF Known
  <2>4. CASE call[c] = "future"
    <3>1. OutcomeOf(c) = "asked" /\ OutcomeOf(c)' = "abandoned"
      BY <2>1, <2>4, Outcomes, OutcomesAfter
    <3>2. outcome' = [outcome EXCEPT ![c] = "abandoned"]
      BY <2>2, <3>1, OneOutcome
    <3> QED BY <1>1, <2>3, <3>1, <3>2, PromiseAbandon
  <2>5. CASE call[c] # "future"
    <3>1. call[c] \in {"unused", "sending", "refused", "senderr", "ok", "notfound", "mutexerr"}
      BY <1>0, <2>5 DEF CallState
    <3>2. OutcomeOf(c)' = OutcomeOf(c)
      BY <2>1, <3>1, Outcomes, OutcomesAfter
    <3>3. outcome' = outcome
      BY <2>2, <3>2, NoOutcome
    <3> QED BY <1>1, <2>3, <3>3, PromiseStutters DEF served, open
  <2> QED BY <2>4, <2>5
<1> QED BY <1>2, <1>3, <1>4, <1>5, <1>6, <1>7, <1>8 DEF SendBytes

LEMMA PoisonedStep ==
  ASSUME Waiters, Known, AfterPoison \/ UNCHANGED vars
  PROVE  Known' /\ (Weak!Next \/ UNCHANGED Weak!vars)
<1> DEFINE Seen == Weak!Next \/ UNCHANGED Weak!vars
<1>0. call \in [Call -> CallState \cup {"mutexerr"}]
  BY DEF Waiters
<1>1. ASSUME NEW c \in Call,
             \/ NilUuid(c) \/ SendBytes(c) \/ DropKeeps(c)
             \/ \E src \in Call : ReplyRefused(src, c)
             \/ \E t \in Task : PollMutexError(c, t)
      PROVE  Known' /\ Seen
  BY <1>1, PoisonedCalls
<1>2. ASSUME NEW c \in Call, Answer(c) PROVE Known' /\ Seen
  <2>1. /\ c \in sent /\ conn = "running"
        /\ answers' = [answers EXCEPT ![c] = @ + 1]
        /\ UNCHANGED <<call, alive, result, conn, sent>>
    BY <1>2 DEF Answer, callVars, linkVars
  <2>2. outcome' = outcome
    BY <1>0, <2>1, KeptOutcome, NoOutcome
  <2>3. call[c] \in {"senderr", "future", "ok", "notfound", "mutexerr"}
    BY <1>0, <2>1 DEF Known, CallState
  <2>4. OutcomeOf(c) \notin {"idle", "refused"}
    BY <2>3, Outcomes
  <2>5. served' = served \cup {c}
    BY <2>1 DEF served, Known
  <2>6. Seen
    BY <2>1, <2>2, <2>4, <2>5, PromiseServe DEF open
  <2>7. Known'
    BY <2>1 DEF Known
  <2> QED BY <2>6, <2>7
<1>3. CASE OnMessageError \/ LinkEnd \/ ClearPanics \/ TaskEnd \/ Close \/ Cancel
           \/ UNCHANGED vars
  <2>1. UNCHANGED <<call, alive, result, answers, sent>>
    BY <1>3 DEF OnMessageError, LinkEnd, ClearPanics, TaskEnd, Close, Cancel, vars,
                callVars, wireVars
  <2>2. conn' = "running" => conn = "running"
    BY <1>3 DEF OnMessageError, LinkEnd, ClearPanics, TaskEnd, Close, Cancel, vars, linkVars
  <2> QED BY <1>0, <2>1, <2>2, TaskGoes DEF Known
<1> QED BY <1>1, <1>2, <1>3 DEF AfterPoison

LEMMA PromiseStep ==
  ASSUME PanicInv, PromiseInv, [NextPanics]_allVars, Disciplined, MaxAnswers = 1
  PROVE  PromiseInv' /\ [Weak!Next]_(Weak!vars)
<1> DEFINE Seen == Weak!Next \/ UNCHANGED Weak!vars
<1>1. CASE ~poisoned /\ [Next]_vars /\ UNCHANGED poisoned
  BY <1>1, AnswerStep, WeakStep DEF PanicInv, Healthy, PromiseInv
<1>2. CASE poisoned /\ (AfterPoison \/ UNCHANGED vars) /\ UNCHANGED poisoned
  <2>1. Known' /\ Seen
    BY <1>2, PoisonedStep DEF PromiseInv
  <2>2. Waiters'
    BY <1>2, AfterStep DEF PromiseInv
  <2> QED BY <1>2, <2>1, <2>2 DEF PromiseInv
<1>3. ASSUME NEW src \in Call, NEW c \in Call, ReplyPanics(src, c)
      PROVE  PromiseInv' /\ Seen
  <2>1. Healthy /\ poisoned'
    BY <1>3 DEF ReplyPanics, PanicInv
  <2>2. Waiters /\ Known /\ Waiters'
    BY <1>3, <2>1, HealthyWaiters, HealthyKnown, PoisonStep
  <2>3. /\ call[c] = "unused" /\ call' = [call EXCEPT ![c] = "senderr"]
        /\ UNCHANGED <<alive, result, answers, conn, sent>>
    BY <1>3 DEF ReplyPanics, linkVars, wireVars
  <2>4. OutcomeOf(c) = "idle"
    BY <2>3, Outcomes
  <2>5. Seen
    BY <2>2, <2>3, <2>4, CallFails DEF Waiters
  <2>6. Known'
    BY <2>2, <2>3 DEF Known, Waiters
  <2> QED BY <2>1, <2>2, <2>5, <2>6 DEF PromiseInv
<1>4. ASSUME CallbackPanics \/ \E c \in Call : SendPanics(c)
      PROVE  PromiseInv' /\ Seen
  <2>1. poisoned' = poisoned
    BY <1>4 DEF CallbackPanics, SendPanics
  <2>2. call \in [Call -> CallState \cup {"mutexerr"}]
    BY HealthyWaiters DEF PanicInv, Waiters
  <2>3. Seen
    <3>1. CASE CallbackPanics
      BY <2>2, <3>1, TaskGoes DEF CallbackPanics, callVars
    <3>2. ASSUME NEW c \in Call, SendPanics(c) PROVE Seen
      <4>1. /\ call[c] = "sending" /\ call' = [call EXCEPT ![c] = "senderr"]
            /\ UNCHANGED <<alive, result, answers, conn>>
        BY <3>2 DEF SendPanics, linkVars, wireVars
      <4>2. OutcomeOf(c) = "idle"
        BY <4>1, Outcomes
      <4> QED BY <2>2, <4>1, <4>2, CallFails
    <3> QED BY <1>4, <3>1, <3>2
  <2>4. CASE ~poisoned
    <3>1. Healthy /\ AnswerInv
      BY <2>4 DEF PanicInv, PromiseInv
    <3>2. AnswerInv'
      BY <1>4, <3>1, PanicsMoveNoAnswer
    <3> QED BY <2>1, <2>3, <2>4, <3>2 DEF PromiseInv
  <2>5. CASE poisoned
    <3>1. Waiters'
      BY <1>4, <2>1, <2>5, PanicInvNext DEF PanicInv
    <3>2. /\ UNCHANGED <<answers, sent>>
          /\ \/ call' = call
             \/ \E c \in Call : call' = [call EXCEPT ![c] = "senderr"]
      BY <1>4 DEF CallbackPanics, SendPanics, callVars, wireVars
    <3>3. Known
      BY <2>5 DEF PromiseInv
    <3>4. Known'
      BY <2>2, <3>2, <3>3 DEF Known
    <3> QED BY <2>1, <2>3, <2>5, <3>1, <3>4 DEF PromiseInv
  <2> QED BY <2>3, <2>4, <2>5
<1>5. poisoned \in BOOLEAN
  BY DEF PanicInv
<1> QED BY <1>1, <1>2, <1>3, <1>4, <1>5 DEF NextPanics, allVars

(* Whatever panics, under the mutex, in a send or in a callback: an await     *)
(* still returns the answer to its own request or an error, once, and never   *)
(* after its future was dropped (response.rs:78-108, client.rs:187-208).      *)
THEOREM PanicsKeepThePromise ==
  ASSUME Disciplined, MaxAnswers = 1
  PROVE  SpecPanics => ImplementsWeak
<1>1. InitPanics => PromiseInv /\ Weak!Init
  BY AnswerInit, WeakInit DEF InitPanics, PromiseInv
<1>2. PanicInv /\ PromiseInv /\ [NextPanics]_allVars => PromiseInv' /\ [Weak!Next]_(Weak!vars)
  BY PromiseStep
<1> QED BY <1>1, <1>2, PanicsLeaveWaiters, PTL DEF SpecPanics, ImplementsWeak, Weak!Spec

(* So no panic makes an await return what is not its answer, nor changes what *)
(* one has returned: the entries that a poisoned map keeps are never read.    *)
THEOREM PanicsSpoilNoAnswer ==
  ASSUME Disciplined, MaxAnswers = 1
  PROVE  SpecPanics => []OkIsOwnAnswer /\ [][OutcomesStay]_vars
<1>1. PanicInv /\ PromiseInv /\ PromiseHeld => OkIsOwnAnswer
  <2> SUFFICES ASSUME PanicInv, PromiseInv, PromiseHeld PROVE OkIsOwnAnswer
    OBVIOUS
  <2>1. call \in [Call -> CallState \cup {"mutexerr"}] /\ answers \in [Call -> Nat]
    BY HealthyWaiters, HealthyKnown DEF PanicInv, PromiseInv, Waiters, Known
  <2> QED BY <2>1, AnsweredIsOk, HeldIsOwn
<1>2. InitPanics => PromiseInv
  BY AnswerInit DEF InitPanics, PromiseInv
<1>3. PanicInv /\ PromiseInv /\ [NextPanics]_allVars => PromiseInv'
  BY PromiseStep
<1>4. SpecPanics => []PromiseInv
  BY <1>2, <1>3, PanicsLeaveWaiters, PTL DEF SpecPanics
<1> QED BY <1>1, <1>4, PanicsLeaveWaiters, PanicsKeepThePromise, PromiseKept, PTL

=============================================================================
