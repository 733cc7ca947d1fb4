---------------------------- MODULE ServerProofs ----------------------------
(***************************************************************************)
(* Theorems about Server, for every set of connections and all bounds: the *)
(* types, who gets a session, and that the server keeps the promise of     *)
(* Session.                                                                *)
(***************************************************************************)
EXTENDS Server, SequenceTheorems, TLAPS

Callbacks == {"refused", "connect", "message", "progress", "error", "disconnect"}

-----------------------------------------------------------------------------
(* What Append does to the two ends of a sequence. *)
LEMMA AppendEnds ==
  ASSUME NEW S, NEW s \in Seq(S), NEW e \in S
  PROVE  /\ Append(s, e) \in Seq(S)
         /\ Append(s, e) # <<>>
         /\ Len(Append(s, e)) = Len(s) + 1
         /\ Last(Append(s, e)) = e
         /\ s = <<>> => Len(Append(s, e)) = 1 /\ Head(Append(s, e)) = e
         /\ s # <<>> => Head(Append(s, e)) = Head(s)
BY DEF Last

(* Where the task is tells what was called and whether the channel is open. *)
InSession(c) ==
  /\ calls[c] # <<>>
  /\ Head(calls[c]) = "connect"
  /\ Last(calls[c]) # "disconnect"
  /\ Len(calls[c]) <= MaxEvents[c] + 1

PhaseOK(c) ==
  /\ task[c] \in {"none", "tls", "ws", "dropped", "accepted"} => calls[c] = <<>>
  /\ task[c] \in {"serving", "closing"} => InSession(c)
  /\ channel[c] = "open" => task[c] \in {"accepted", "serving"}

TypeInv == TypeOK /\ \A c \in Conn : PhaseOK(c)

(* Who has no link yet has no task. *)
LinkOK(c) ==
  /\ client[c] = "idle" => link[c] = "none"
  /\ link[c] \in {"none", "backlog"} => task[c] = "none"

LinkInv == \A c \in Conn : LinkOK(c)

LEMMA LinkInvInit == Init => LinkInv
BY DEF Init, LinkInv, LinkOK

LEMMA LinkInvNext ==
  ASSUME TypeOK, LinkInv, Next
  PROVE  LinkInv'
<1> USE DEF LinkInv, LinkOK, TypeOK, configVars, serverVars, HangUp
<1>1. CASE Start
  BY <1>1 DEF Start
<1>2. CASE AcceptFails
  BY <1>2 DEF AcceptFails
<1>3. ASSUME NEW c \in Conn, Accept(c) PROVE LinkInv'
  BY <1>3 DEF Accept
<1>4. ASSUME NEW c \in Conn, ConnectStep(c) PROVE LinkInv'
  <2>1. CASE ConnectFails(c) BY <2>1 DEF ConnectFails
  <2>2. CASE TcpConnect(c) BY <2>2 DEF TcpConnect
  <2>3. CASE ClientHello(c) BY <2>3 DEF ClientHello, Says
  <2>4. CASE Upgrade(c) BY <2>4 DEF Upgrade, Says
  <2>5. CASE ConnectOk(c) BY <2>5 DEF ConnectOk
  <2>6. CASE HandshakeFails(c) BY <2>6 DEF HandshakeFails
  <2> QED BY <1>4, <2>1, <2>2, <2>3, <2>4, <2>5, <2>6 DEF ConnectStep
<1>5. ASSUME NEW c \in Conn, TaskStep(c) PROVE LinkInv'
  <2>1. CASE TlsAccept(c) BY <2>1 DEF TlsAccept
  <2>2. CASE TlsFails(c) BY <2>2 DEF TlsFails
  <2>3. CASE WsAccept(c) BY <2>3 DEF WsAccept
  <2>4. CASE WsFails(c) BY <2>4 DEF WsFails
  <2>5. CASE OnConnect(c) BY <2>5 DEF OnConnect, Invoke
  <2>6. CASE SelectEnds(c) BY <2>6 DEF SelectEnds
  <2>7. CASE OnDisconnect(c) BY <2>7 DEF OnDisconnect, Invoke
  <2> QED BY <1>5, <2>1, <2>2, <2>3, <2>4, <2>5, <2>6, <2>7 DEF TaskStep
<1>6. ASSUME NEW c \in Conn, Traffic(c) PROVE LinkInv'
  <2>1. CASE OnFrame(c) BY <2>1 DEF OnFrame, Invoke
  <2>2. CASE OnCancel(c) BY <2>2 DEF OnCancel
  <2>3. CASE Reply(c) BY <2>3 DEF Reply
  <2> QED BY <1>6, <2>1, <2>2, <2>3 DEF Traffic
<1>7. ASSUME NEW c \in Conn, ClientGone(c) \/ LinkFails(c) PROVE LinkInv'
  BY <1>7 DEF ClientGone, LinkFails
<1> QED BY <1>1, <1>2, <1>3, <1>4, <1>5, <1>6, <1>7 DEF Next

LEMMA TypeInvInit == Init => TypeInv
BY BoundAssumption DEF Init, TypeInv, TypeOK, PhaseOK

(* A callback: the sequence grows by one at its end. *)
LEMMA InvokeTypes ==
  ASSUME TypeInv, NEW c \in Conn, NEW callback \in Callbacks, NEW after,
         Invoke(c, callback, after),
         \/ /\ task[c] = "accepted" /\ callback = "connect" /\ after = "serving"
         \/ /\ task[c] = "serving" /\ Len(calls[c]) <= MaxEvents[c]
            /\ callback # "disconnect" /\ after = "serving"
         \/ task[c] = "closing" /\ after = "ended"
  PROVE  TypeInv'
<1>1. /\ calls[c] \in Seq(Callbacks) /\ MaxEvents[c] \in Nat
      /\ PhaseOK(c)
  BY BoundAssumption DEF TypeInv, TypeOK, Callbacks
<1> DEFINE more == Append(calls[c], callback)
<1>2. /\ more \in Seq(Callbacks) /\ more # <<>>
      /\ Len(more) = Len(calls[c]) + 1
      /\ Last(more) = callback
      /\ calls[c] = <<>> => Len(more) = 1 /\ Head(more) = callback
      /\ calls[c] # <<>> => Head(more) = Head(calls[c])
  BY <1>1, AppendEnds
<1> HIDE DEF more
<1>3. calls' = [calls EXCEPT ![c] = more]
  BY DEF Invoke, more
<1>4. /\ Len(more) <= MaxEvents[c] + 2
      /\ after = "serving" => /\ Head(more) = "connect" /\ Last(more) # "disconnect"
                              /\ Len(more) <= MaxEvents[c] + 1
      /\ after \in {"serving", "ended"}
  BY <1>1, <1>2 DEF PhaseOK, InSession
<1>5. calls \in [Conn -> Seq(Callbacks)] /\ calls' \in [Conn -> Seq(Callbacks)]
  BY <1>2, <1>3 DEF TypeInv, TypeOK, Callbacks
<1>6. TypeOK'
  <2>1. \A d \in Conn : Len(calls'[d]) <= MaxEvents[d] + 2
    BY <1>3, <1>4, <1>5 DEF TypeInv, TypeOK
  <2>2. /\ task' \in [Conn -> {"none", "tls", "ws", "dropped", "refused", "accepted",
                             "serving", "closing", "ended", "panicked"}]
        /\ link' \in [Conn -> {"none", "backlog", "open", "closed"}]
        /\ channel' \in [Conn -> {"none", "open", "closed"}]
    <3>1. CASE task' = [task EXCEPT ![c] = after] /\ UNCHANGED <<link, channel>>
      BY <3>1, <1>4 DEF TypeInv, TypeOK
    <3>2. CASE /\ task' = [task EXCEPT ![c] = "panicked"]
               /\ link' = [link EXCEPT ![c] = "closed"]
               /\ channel' = [channel EXCEPT ![c] = "closed"]
      BY <3>2 DEF TypeInv, TypeOK
    <3> QED BY <3>1, <3>2 DEF Invoke, HangUp
  <2> QED
    BY <1>5, <2>1, <2>2 DEF TypeInv, TypeOK, Invoke, configVars, Callbacks
<1>7. ASSUME NEW d \in Conn PROVE PhaseOK(d)'
  <2>1. CASE d = c
    <3>1. calls'[c] = more
      BY <1>3, <1>5
    <3>2. \/ task'[c] = after /\ channel' = channel
          \/ task'[c] = "panicked" /\ channel'[c] = "closed"
      BY DEF TypeInv, TypeOK, Invoke
    <3>3. channel'[c] = "open" => channel[c] = "open" /\ task'[c] = after
      BY <3>2
    <3>4. task'[c] \in {after, "panicked"}
      BY <3>2
    <3>5. channel[c] = "open" => after = "serving"
      BY <1>1 DEF PhaseOK
    <3> QED BY <2>1, <1>2, <1>4, <3>1, <3>3, <3>4, <3>5 DEF PhaseOK, InSession
  <2>2. CASE d # c
    BY <2>2, <1>3, <1>5 DEF TypeInv, TypeOK, PhaseOK, InSession, Invoke
  <2> QED BY <2>1, <2>2
<1> QED BY <1>6, <1>7 DEF TypeInv

(* A step that calls nobody. *)
LEMMA SilentTypes ==
  ASSUME TypeInv, TypeOK', UNCHANGED calls,
         \A c \in Conn :
           \/ task'[c] = task[c] /\ channel'[c] \in {channel[c], "closed"}
           \/ /\ task[c] \in {"none", "tls", "ws"}
              /\ \/ task'[c] \in {"tls", "ws", "dropped"} /\ channel'[c] = channel[c]
                 \/ task'[c] = "accepted"
           \/ task[c] = "serving" /\ task'[c] = "closing" /\ channel'[c] = "closed"
  PROVE  TypeInv'
BY DEF TypeInv, PhaseOK, InSession

(* The task's own steps. *)
LEMMA TaskStepTypes ==
  ASSUME TypeInv, NEW c \in Conn, TaskStep(c)
  PROVE  TypeInv'
<1> USE DEF configVars, HangUp
<1>1. CASE TlsAccept(c)
  <2>1. TypeOK' BY <1>1 DEF TlsAccept, TypeInv, TypeOK
  <2> QED BY <1>1, <2>1, SilentTypes DEF TlsAccept, TypeInv, TypeOK
<1>2. CASE TlsFails(c)
  <2>1. TypeOK' BY <1>2 DEF TlsFails, TypeInv, TypeOK
  <2> QED BY <1>2, <2>1, SilentTypes DEF TlsFails, TypeInv, TypeOK
<1>3. CASE WsAccept(c)
  <2>1. TypeOK' BY <1>3 DEF WsAccept, TypeInv, TypeOK
  <2> QED BY <1>3, <2>1, SilentTypes DEF WsAccept, TypeInv, TypeOK
<1>4. CASE WsFails(c)
  <2>1. /\ calls[c] = <<>> /\ MaxEvents[c] \in Nat /\ calls[c] \in Seq(Callbacks)
        /\ calls \in [Conn -> Seq(Callbacks)]
    BY <1>4, BoundAssumption DEF WsFails, TypeInv, TypeOK, PhaseOK, Callbacks
  <2> DEFINE more == Append(calls[c], "refused")
  <2>2. more \in Seq(Callbacks) /\ Len(more) = 1
    BY <2>1, AppendEnds DEF Callbacks
  <2> HIDE DEF more
  <2>3. calls' = [calls EXCEPT ![c] = more]
    BY <1>4 DEF WsFails, more
  <2>4. \E t \in {"refused", "panicked"} : task' = [task EXCEPT ![c] = t]
    BY <1>4 DEF WsFails
  <2>5. channel' = channel /\ channel[c] # "open"
    BY <1>4 DEF WsFails, TypeInv, PhaseOK
  <2>6. TypeOK'
    <3>1. calls' \in [Conn -> Seq(Callbacks)]
      BY <2>1, <2>2, <2>3
    <3>2. ASSUME NEW d \in Conn PROVE Len(calls'[d]) <= MaxEvents[d] + 2
      <4>1. MaxEvents[d] \in Nat
        BY BoundAssumption
      <4>2. CASE d = c
        <5>1. calls'[d] = more
          BY <2>1, <2>3, <4>2
        <5>2. 1 <= MaxEvents[d] + 2
          BY <4>1
        <5> QED BY <2>2, <5>1, <5>2
      <4>3. CASE d # c
        BY <2>1, <2>3, <4>3 DEF TypeInv, TypeOK
      <4> QED BY <4>2, <4>3
    <3>3. /\ task' \in [Conn -> {"none", "tls", "ws", "dropped", "refused", "accepted",
                               "serving", "closing", "ended", "panicked"}]
          /\ link' \in [Conn -> {"none", "backlog", "open", "closed"}]
      BY <1>4, <2>4 DEF WsFails, TypeInv, TypeOK
    <3> QED BY <1>4, <3>1, <3>2, <3>3 DEF WsFails, TypeInv, TypeOK, Callbacks
  <2>7. ASSUME NEW d \in Conn PROVE PhaseOK(d)'
    <3>1. CASE d = c
      BY <3>1, <2>4, <2>5 DEF TypeInv, TypeOK, PhaseOK
    <3>2. CASE d # c
      <4>1. task'[d] = task[d] /\ calls'[d] = calls[d] /\ channel'[d] = channel[d]
        BY <3>2, <2>1, <2>3, <2>4, <2>5 DEF TypeInv, TypeOK
      <4> QED BY <4>1 DEF TypeInv, PhaseOK, InSession
    <3> QED BY <3>1, <3>2
  <2> QED BY <2>6, <2>7 DEF TypeInv
<1>5. CASE OnConnect(c)
  BY <1>5, InvokeTypes DEF OnConnect, Callbacks
<1>6. CASE SelectEnds(c)
  <2>1. TypeOK' BY <1>6 DEF SelectEnds, TypeInv, TypeOK
  <2> QED BY <1>6, <2>1, SilentTypes DEF SelectEnds, TypeInv, TypeOK
<1>7. CASE OnDisconnect(c)
  BY <1>7, InvokeTypes DEF OnDisconnect, Callbacks
<1> QED BY <1>1, <1>2, <1>3, <1>4, <1>5, <1>6, <1>7 DEF TaskStep

(* Frames, cancellation and replies. *)
LEMMA TrafficTypes ==
  ASSUME TypeInv, NEW c \in Conn, Traffic(c)
  PROVE  TypeInv'
<1>1. CASE OnFrame(c)
  BY <1>1, InvokeTypes DEF OnFrame, Callbacks
<1>2. CASE OnCancel(c)
  <2>1. /\ calls[c] \in Seq(Callbacks) /\ MaxEvents[c] \in Nat
        /\ calls \in [Conn -> Seq(Callbacks)]
        /\ Len(calls[c]) <= MaxEvents[c]
        /\ calls[c] # <<>> /\ Head(calls[c]) = "connect"
    BY <1>2, BoundAssumption DEF OnCancel, TypeInv, TypeOK, PhaseOK, InSession, Callbacks
  <2> DEFINE more == Append(calls[c], "progress")
  <2>2. /\ more \in Seq(Callbacks) /\ more # <<>>
        /\ Len(more) = Len(calls[c]) + 1
        /\ Last(more) = "progress" /\ Head(more) = "connect"
    BY <2>1, AppendEnds DEF Callbacks
  <2> HIDE DEF more
  <2>3. /\ calls' = [calls EXCEPT ![c] = more]
        /\ task' = [task EXCEPT ![c] = "closing"]
        /\ link' = [link EXCEPT ![c] = "closed"]
        /\ channel' = [channel EXCEPT ![c] = "closed"]
    BY <1>2 DEF OnCancel, HangUp, more
  <2>4. TypeOK'
    <3>1. calls' \in [Conn -> Seq(Callbacks)]
      BY <2>1, <2>2, <2>3
    <3>2. \A d \in Conn : Len(calls'[d]) <= MaxEvents[d] + 2
      BY <2>1, <2>2, <2>3 DEF TypeInv, TypeOK
    <3>3. /\ task' \in [Conn -> {"none", "tls", "ws", "dropped", "refused", "accepted",
                               "serving", "closing", "ended", "panicked"}]
          /\ link' \in [Conn -> {"none", "backlog", "open", "closed"}]
          /\ channel' \in [Conn -> {"none", "open", "closed"}]
      BY <2>3 DEF TypeInv, TypeOK
    <3> QED BY <1>2, <3>1, <3>2, <3>3 DEF OnCancel, TypeInv, TypeOK, Callbacks, configVars
  <2>5. ASSUME NEW d \in Conn PROVE PhaseOK(d)'
    <3>1. CASE d = c
      <4>1. calls'[c] = more /\ task'[c] = "closing" /\ channel'[c] = "closed"
        BY <2>1, <2>3 DEF TypeInv, TypeOK
      <4> QED BY <3>1, <4>1, <2>1, <2>2 DEF PhaseOK, InSession
    <3>2. CASE d # c
      <4>1. task'[d] = task[d] /\ calls'[d] = calls[d] /\ channel'[d] = channel[d]
        BY <3>2, <2>1, <2>3 DEF TypeInv, TypeOK
      <4> QED BY <4>1 DEF TypeInv, PhaseOK, InSession
    <3> QED BY <3>1, <3>2
  <2> QED BY <2>4, <2>5 DEF TypeInv
<1>3. CASE Reply(c)
  <2>1. TypeOK' BY <1>3, BoundAssumption DEF Reply, TypeInv, TypeOK, configVars
  <2> QED BY <1>3, <2>1, SilentTypes DEF Reply, TypeInv, TypeOK
<1> QED BY <1>1, <1>2, <1>3 DEF Traffic

(* The client's steps, the accept loop and the link: nothing is called, and   *)
(* only Accept moves a task.                                                  *)
LEMMA OtherTypes ==
  ASSUME TypeInv, LinkInv, NEW c \in Conn,
         \/ Start \/ AcceptFails \/ Accept(c) \/ ConnectStep(c) \/ ClientGone(c)
         \/ LinkFails(c)
  PROVE  TypeInv'
<1> USE DEF configVars, serverVars, HangUp
<1>1. CASE Start
  <2>1. TypeOK' BY <1>1 DEF Start, TypeInv, TypeOK
  <2> QED BY <1>1, <2>1, SilentTypes DEF Start
<1>2. CASE AcceptFails
  <2>1. TypeOK' BY <1>2 DEF AcceptFails, TypeInv, TypeOK
  <2> QED BY <1>2, <2>1, SilentTypes DEF AcceptFails
<1>3. CASE Accept(c)
  <2>1. task[c] = "none"
    BY <1>3 DEF Accept, LinkInv, LinkOK
  <2>2. TypeOK' BY <1>3 DEF Accept, TypeInv, TypeOK
  <2> QED BY <1>3, <2>1, <2>2, SilentTypes DEF Accept, TypeInv, TypeOK
<1>4. CASE ConnectStep(c)
  <2>1. TypeOK'
    BY <1>4 DEF ConnectStep, ConnectFails, TcpConnect, ClientHello, Upgrade, Says, ConnectOk,
                HandshakeFails, TypeInv, TypeOK
  <2>2. UNCHANGED <<calls, task, channel>>
    BY <1>4 DEF ConnectStep, ConnectFails, TcpConnect, ClientHello, Upgrade, Says, ConnectOk,
                HandshakeFails
  <2> QED BY <2>1, <2>2, SilentTypes
<1>5. CASE ClientGone(c)
  <2>1. TypeOK' BY <1>5 DEF ClientGone, TypeInv, TypeOK
  <2> QED BY <1>5, <2>1, SilentTypes DEF ClientGone
<1>6. CASE LinkFails(c)
  <2>1. TypeOK' BY <1>6 DEF LinkFails, TypeInv, TypeOK
  <2> QED BY <1>6, <2>1, SilentTypes DEF LinkFails
<1> QED BY <1>1, <1>2, <1>3, <1>4, <1>5, <1>6

LEMMA TypeInvNext ==
  ASSUME TypeInv, LinkInv, [Next]_vars
  PROVE  TypeInv' /\ LinkInv'
<1>1. CASE Next
  <2>1. LinkInv' BY <1>1, LinkInvNext DEF TypeInv
  <2>2. TypeInv'
    <3>1. CASE Conn = {}
      BY <3>1, <1>1 DEF Next, TypeInv, TypeOK, Start, AcceptFails, configVars, serverVars
    <3>2. CASE Conn # {}
      BY <3>2, <1>1, OtherTypes, TaskStepTypes, TrafficTypes DEF Next
    <3> QED BY <3>1, <3>2
  <2> QED BY <2>1, <2>2
<1>2. CASE UNCHANGED vars
  BY <1>2 DEF vars, TypeInv, TypeOK, PhaseOK, InSession, LinkInv, LinkOK
<1> QED BY <1>1, <1>2

(* Every variable keeps its type; no connection sees more callbacks than its  *)
(* first, those of its frames and its last.                                   *)
THEOREM TypeCorrect == Spec => [](TypeInv /\ LinkInv)
<1>1. Init => TypeInv /\ LinkInv
  BY TypeInvInit, LinkInvInit
<1>2. TypeInv /\ LinkInv /\ [Next]_vars => (TypeInv /\ LinkInv)'
  BY TypeInvNext
<1> QED BY <1>1, <1>2, PTL DEF Spec

(* Every variable of the server keeps its type, whatever clients and callbacks *)
(* do.                                                                        *)
THEOREM TypesHold == Spec => []TypeOK
<1>1. TypeInv => TypeOK BY DEF TypeInv
<1> QED BY <1>1, TypeCorrect, PTL

-----------------------------------------------------------------------------
(* The first callback stays the first. *)
LEMMA FirstCallStays ==
  ASSUME TypeInv, NEW c \in Conn, NEW callback \in Callbacks,
         calls' = [calls EXCEPT ![c] = Append(@, callback)]
  PROVE  /\ calls'[c] # <<>>
         /\ calls[c] = <<>> => Head(calls'[c]) = callback
         /\ calls[c] # <<>> => Head(calls'[c]) = Head(calls[c])
         /\ \A d \in Conn \ {c} : calls'[d] = calls[d]
<1>1. calls[c] \in Seq(Callbacks) /\ calls'[c] = Append(calls[c], callback)
  BY DEF TypeInv, TypeOK, Callbacks
<1>2. \A d \in Conn \ {c} : calls'[d] = calls[d]
  BY DEF TypeInv, TypeOK
<1> QED BY <1>1, <1>2, AppendEnds

(* Sessions begin with WsAccept, and who has one keeps it. *)
LEMMA SessionStays ==
  ASSUME TypeInv, LinkInv, Next, NEW d \in Conn
  PROVE  /\ HasSession(d) => HasSession(d)'
         /\ ~HasSession(d) => ~HasSession(d)' \/ WsAccept(d)
<1> USE DEF HasSession
<1>1. CASE UNCHANGED <<calls, task>>
  BY <1>1
<1>2. ASSUME NEW c \in Conn, Accept(c) PROVE UNCHANGED HasSession(d)
  <2>1. task[c] = "none"
    BY <1>2 DEF Accept, LinkInv, LinkOK
  <2> QED BY <1>2, <2>1 DEF Accept, TypeInv, TypeOK
<1>3. ASSUME NEW c \in Conn, TaskStep(c)
      PROVE  HasSession(d)' = HasSession(d) \/ (HasSession(d)' /\ WsAccept(d))
  <2>1. CASE TlsAccept(c) BY <2>1 DEF TlsAccept, TypeInv, TypeOK
  <2>2. CASE TlsFails(c) BY <2>2 DEF TlsFails, TypeInv, TypeOK
  <2>3. CASE WsAccept(c) BY <2>3 DEF WsAccept, TypeInv, TypeOK
  <2>4. CASE WsFails(c)
    <3>1. calls[c] = <<>> /\ calls' = [calls EXCEPT ![c] = Append(@, "refused")]
      BY <2>4 DEF WsFails, TypeInv, PhaseOK
    <3>2. /\ Head(calls'[c]) = "refused"
          /\ \A e \in Conn \ {c} : calls'[e] = calls[e]
      BY <3>1, FirstCallStays DEF Callbacks
    <3>3. /\ task[c] = "ws" /\ task'[c] \in {"refused", "panicked"}
          /\ \A e \in Conn \ {c} : task'[e] = task[e]
      BY <2>4 DEF WsFails, TypeInv, TypeOK
    <3> QED BY <3>1, <3>2, <3>3
  <2>5. CASE OnConnect(c)
    <3>1. /\ calls[c] = <<>> /\ calls' = [calls EXCEPT ![c] = Append(@, "connect")]
          /\ task[c] = "accepted"
      BY <2>5 DEF OnConnect, Invoke, TypeInv, PhaseOK
    <3>2. /\ calls'[c] # <<>> /\ Head(calls'[c]) = "connect"
          /\ \A e \in Conn \ {c} : calls'[e] = calls[e]
      BY <3>1, FirstCallStays DEF Callbacks
    <3>3. \A e \in Conn \ {c} : task'[e] = task[e]
      BY <2>5 DEF OnConnect, Invoke, TypeInv, TypeOK
    <3> QED BY <3>1, <3>2, <3>3
  <2>6. CASE SelectEnds(c) BY <2>6 DEF SelectEnds, TypeInv, TypeOK
  <2>7. CASE OnDisconnect(c)
    <3>1. /\ calls' = [calls EXCEPT ![c] = Append(@, "disconnect")]
          /\ calls[c] # <<>> /\ Head(calls[c]) = "connect"
      BY <2>7 DEF OnDisconnect, Invoke, TypeInv, PhaseOK, InSession
    <3>2. /\ calls'[c] # <<>> /\ Head(calls'[c]) = Head(calls[c])
          /\ \A e \in Conn \ {c} : calls'[e] = calls[e]
      BY <3>1, FirstCallStays DEF Callbacks
    <3>3. \A e \in Conn \ {c} : task'[e] = task[e]
      BY <2>7 DEF OnDisconnect, Invoke, TypeInv, TypeOK
    <3> QED BY <3>1, <3>2, <3>3
  <2> QED BY <1>3, <2>1, <2>2, <2>3, <2>4, <2>5, <2>6, <2>7 DEF TaskStep
<1>4. ASSUME NEW c \in Conn, OnFrame(c) \/ OnCancel(c) PROVE UNCHANGED HasSession(d)
  <2>1. /\ calls[c] # <<>> /\ Head(calls[c]) = "connect"
        /\ \E e \in Callbacks : calls' = [calls EXCEPT ![c] = Append(@, e)]
    BY <1>4 DEF OnFrame, OnCancel, Invoke, TypeInv, PhaseOK, InSession, Callbacks
  <2>2. /\ calls'[c] # <<>> /\ Head(calls'[c]) = Head(calls[c])
        /\ \A e \in Conn \ {c} : calls'[e] = calls[e]
    BY <2>1, FirstCallStays
  <2>3. \A e \in Conn \ {c} : task'[e] = task[e]
    BY <1>4 DEF OnFrame, OnCancel, Invoke, TypeInv, TypeOK
  <2> QED BY <2>1, <2>2, <2>3
<1> QED
  BY <1>1, <1>2, <1>3, <1>4
  DEF Next, Start, AcceptFails, ConnectStep, ConnectFails, TcpConnect, ClientHello, Upgrade,
      Says, ConnectOk, HandshakeFails, ClientGone, LinkFails, Traffic, Reply, serverVars

(* What was said in a handshake tells who says it to whom: TLS is spoken to a *)
(* server with a key, and the upgrade to one without or through TLS.          *)
Secured(c) == tls /\ url[c].scheme = "wss" /\ url[c].trusted

Fits(c) == Secured(c) \/ (~tls /\ url[c].scheme = "ws")

HandshakeOK(c) ==
  /\ said[c] = "hello" => url[c].scheme = "wss"
  /\ said[c] = "secure" => Secured(c)
  /\ said[c] = "upgrade" => Secured(c) \/ url[c].scheme = "ws"
  /\ said[c] = "switching" => HasSession(c)
  /\ task[c] = "tls" => tls
  /\ task[c] = "ws" => Secured(c) \/ ~tls
  /\ HasSession(c) => Fits(c)
  /\ client[c] \in {"connected", "gone"} => HasSession(c)

HandshakeInv == \A c \in Conn : HandshakeOK(c)

LEMMA HandshakeInvInit == Init => HandshakeInv
BY DEF Init, HandshakeInv, HandshakeOK, HasSession

LEMMA HandshakeInvNext ==
  ASSUME TypeInv, LinkInv, HandshakeInv, Next
  PROVE  HandshakeInv'
<1> SUFFICES ASSUME NEW d \in Conn PROVE HandshakeOK(d)'
  BY DEF HandshakeInv
<1>1. /\ HasSession(d) => HasSession(d)'
      /\ ~HasSession(d) => ~HasSession(d)' \/ WsAccept(d)
  BY SessionStays
<1>2. HandshakeOK(d) /\ TypeOK
  BY DEF HandshakeInv, TypeInv
<1>3. UNCHANGED <<tls, url>>
  BY DEF Next, Start, AcceptFails, Accept, ConnectStep, ConnectFails, TcpConnect, ClientHello,
         Upgrade, Says, ConnectOk, HandshakeFails, TaskStep, TlsAccept, TlsFails, WsAccept,
         WsFails, OnConnect, Invoke, SelectEnds, OnDisconnect, Traffic, OnFrame, OnCancel,
         Reply, ClientGone, LinkFails, configVars
<1>4. Secured(d)' = Secured(d) /\ Fits(d)' = Fits(d)
  BY <1>3 DEF Secured, Fits
<1>5. CASE WsAccept(d)
  <2>1. said[d] = "upgrade" /\ task[d] = "ws" /\ task'[d] = "accepted" /\ said'[d] = "switching"
    BY <1>2, <1>5 DEF WsAccept, TypeOK
  <2>2. Fits(d)
    BY <1>2, <2>1 DEF HandshakeOK, Fits, Secured
  <2>3. HasSession(d)'
    BY <2>1 DEF HasSession
  <2> QED BY <1>4, <2>1, <2>2, <2>3 DEF HandshakeOK
<1>6. CASE ~WsAccept(d)
  <2>1. HasSession(d)' <=> HasSession(d)
    BY <1>1, <1>6
  <2>2. CASE UNCHANGED <<said[d], task[d], client[d]>>
    BY <1>2, <1>3, <1>4, <2>1, <2>2 DEF HandshakeOK
  <2>3. CASE Accept(d)
    <3>1. /\ UNCHANGED <<said, client>>
          /\ task'[d] = "tls" => tls
          /\ task'[d] = "ws" => ~tls
      BY <1>2, <2>3 DEF Accept, TypeOK
    <3> QED BY <1>2, <1>3, <1>4, <2>1, <3>1 DEF HandshakeOK
  <2>4. CASE ConnectStep(d)
    <3>1. UNCHANGED task
      BY <2>4 DEF ConnectStep, ConnectFails, TcpConnect, ClientHello, Upgrade, Says, ConnectOk,
                  HandshakeFails, serverVars
    <3>2. CASE ConnectFails(d) \/ TcpConnect(d) \/ HandshakeFails(d)
      <4>1. said'[d] = said[d] /\ client'[d] \in {"failed", "connecting"}
        BY <1>2, <3>2 DEF ConnectFails, TcpConnect, HandshakeFails, TypeOK
      <4> QED BY <1>2, <1>3, <1>4, <2>1, <3>1, <4>1 DEF HandshakeOK
    <3>3. CASE ClientHello(d) \/ Upgrade(d)
      <4>1. UNCHANGED client
        BY <3>3 DEF ClientHello, Upgrade, Says
      <4>2. \/ said'[d] = "hello" /\ url[d].scheme = "wss"
            \/ said'[d] = "upgrade" /\ (url[d].scheme = "ws" \/ said[d] = "secure")
        BY <1>2, <3>3 DEF ClientHello, Upgrade, Says, TypeOK
      <4> QED BY <1>2, <1>3, <1>4, <2>1, <3>1, <4>1, <4>2 DEF HandshakeOK
    <3>4. CASE ConnectOk(d)
      BY <1>2, <1>3, <1>4, <2>1, <3>1, <3>4 DEF HandshakeOK, ConnectOk
    <3> QED BY <2>4, <3>2, <3>3, <3>4 DEF ConnectStep
  <2>5. CASE TaskStep(d)
    <3>1. UNCHANGED client
      BY <2>5 DEF TaskStep, TlsAccept, TlsFails, WsAccept, WsFails, OnConnect, Invoke,
                  SelectEnds, OnDisconnect
    <3>2. CASE TlsAccept(d)
      <4>1. said'[d] = "secure" /\ task'[d] = "ws" /\ Secured(d)
        BY <1>2, <3>2 DEF TlsAccept, TypeOK, HandshakeOK, Secured
      <4> QED BY <1>2, <1>3, <1>4, <2>1, <3>1, <4>1 DEF HandshakeOK
    <3>3. CASE ~TlsAccept(d)
      <4>1. said' = said /\ task'[d] \notin {"tls", "ws"}
        BY <1>2, <1>6, <2>5, <3>3
        DEF TaskStep, TlsFails, WsFails, OnConnect, Invoke, SelectEnds, OnDisconnect, TypeOK
      <4> QED BY <1>2, <1>3, <1>4, <2>1, <3>1, <4>1 DEF HandshakeOK
    <3> QED BY <3>2, <3>3
  <2>6. CASE Traffic(d) \/ ClientGone(d)
    <3>1. said' = said /\ (task'[d] = task[d] \/ task'[d] \notin {"tls", "ws"})
      BY <1>2, <2>6 DEF Traffic, OnFrame, Invoke, OnCancel, Reply, ClientGone, TypeOK, serverVars
    <3>2. client'[d] = client[d] \/ client[d] = "connected"
      BY <1>2, <2>6 DEF Traffic, OnFrame, Invoke, OnCancel, Reply, ClientGone, TypeOK
    <3> QED BY <1>2, <1>3, <1>4, <2>1, <3>1, <3>2 DEF HandshakeOK
  <2>7. CASE \E c \in Conn \ {d} : \/ Accept(c) \/ ConnectStep(c) \/ TaskStep(c)
                                  \/ Traffic(c) \/ ClientGone(c)
    <3>1. PICK c \in Conn \ {d} : \/ Accept(c) \/ ConnectStep(c) \/ TaskStep(c)
                                  \/ Traffic(c) \/ ClientGone(c)
      BY <2>7
    <3>2. said'[d] = said[d] /\ task'[d] = task[d] /\ client'[d] = client[d]
      BY <1>2, <3>1
      DEF TypeOK, Accept, ConnectStep, ConnectFails, TcpConnect, ClientHello, Upgrade, Says,
          ConnectOk, HandshakeFails, TaskStep, TlsAccept, TlsFails, WsAccept, WsFails,
          OnConnect, Invoke, SelectEnds, OnDisconnect, Traffic, OnFrame, OnCancel, Reply,
          ClientGone, serverVars
    <3> QED BY <2>2, <3>2
  <2>8. CASE Start \/ AcceptFails \/ \E c \in Conn : LinkFails(c)
    BY <2>2, <2>8 DEF Start, AcceptFails, LinkFails, serverVars
  <2> QED BY <2>3, <2>4, <2>5, <2>6, <2>7, <2>8 DEF Next
<1> QED BY <1>5, <1>6

LEMMA HandshakeCorrect == Spec => []HandshakeInv
<1>1. Init => HandshakeInv
  BY HandshakeInvInit
<1>2. TypeInv /\ LinkInv /\ HandshakeInv /\ [Next]_vars => HandshakeInv'
  <2>1. ASSUME HandshakeInv, UNCHANGED vars PROVE HandshakeInv'
    BY <2>1 DEF vars, HandshakeInv, HandshakeOK, HasSession, Secured, Fits
  <2> QED BY <2>1, HandshakeInvNext
<1> QED BY <1>1, <1>2, TypeCorrect, PTL DEF Spec

(* A server with a key serves nobody in the clear nor anybody who did not     *)
(* accept its certificate, and whoever got Ok from connect has a session.     *)
THEOREM SessionsFit == Spec => []SessionsMatchUrls
<1>1. HandshakeInv => SessionsMatchUrls
  BY DEF HandshakeInv, HandshakeOK, SessionsMatchUrls, Secured, Fits
<1> QED BY <1>1, HandshakeCorrect, PTL

-----------------------------------------------------------------------------
(* A step of a task that calls a callback is that step of Session. *)
Panicked == {c \in Conn : task[c] = "panicked"}

LEMMA CallStep ==
  ASSUME TypeInv, NEW c \in Conn, NEW callback, NEW t,
         calls' = [calls EXCEPT ![c] = Append(@, callback)],
         task' = [task EXCEPT ![c] = t],
         task[c] # "panicked",
         UNCHANGED replies
  PROVE  Promise!Call(c, callback)
<1>1. task'[c] = t /\ \A d \in Conn \ {c} : task'[d] = task[d]
  BY DEF TypeInv, TypeOK
<1>2. CASE t = "panicked"
  <2>1. Panicked' = Panicked \cup {c}
    BY <1>1, <1>2 DEF Panicked
  <2> QED BY <2>1 DEF Promise!Call, Panicked
<1>3. CASE t # "panicked"
  <2>1. Panicked' = Panicked
    BY <1>1, <1>3 DEF Panicked
  <2> QED BY <2>1 DEF Promise!Call, Panicked
<1> QED BY <1>2, <1>3

LEMMA InvokeStep ==
  ASSUME TypeInv, NEW c \in Conn, NEW callback, NEW after, task[c] # "panicked",
         Invoke(c, callback, after)
  PROVE  Promise!Call(c, callback)
BY CallStep DEF Invoke

(* A step that neither calls anybody nor makes a task panic is a stutter. *)
LEMMA SilentStep ==
  ASSUME UNCHANGED <<calls, replies>>, Panicked' = Panicked
  PROVE  UNCHANGED Promise!vars
BY DEF Promise!vars, Panicked

LEMMA SessionStep ==
  ASSUME TypeInv, LinkInv, [Next]_vars
  PROVE  [Promise!Next]_(Promise!vars)
<1>1. TypeOK /\ \A c \in Conn : PhaseOK(c)
  BY DEF TypeInv
<1>2. ASSUME NEW c \in Conn, TaskStep(c) PROVE [Promise!Next]_(Promise!vars)
  <2>1. CASE TlsAccept(c) \/ TlsFails(c) \/ WsAccept(c) \/ SelectEnds(c)
    <3>1. UNCHANGED <<calls, replies>>
      BY <2>1 DEF TlsAccept, TlsFails, WsAccept, SelectEnds
    <3>2. Panicked' = Panicked
      BY <1>1, <2>1 DEF Panicked, TypeOK, TlsAccept, TlsFails, WsAccept, SelectEnds
    <3> QED BY <3>1, <3>2, SilentStep
  <2>2. CASE WsFails(c)
    <3>1. calls[c] = <<>>
      BY <1>1, <2>2 DEF WsFails, PhaseOK
    <3>2. Promise!Call(c, "refused")
      BY <2>2, CallStep DEF WsFails
    <3> QED BY <3>1, <3>2 DEF Promise!Next, Promise!Refuse
  <2>3. CASE OnConnect(c)
    <3>1. calls[c] = <<>>
      BY <1>1, <2>3 DEF OnConnect, PhaseOK
    <3>2. Promise!Call(c, "connect")
      BY <2>3, InvokeStep DEF OnConnect
    <3> QED BY <3>1, <3>2 DEF Promise!Next, Promise!Connect
  <2>4. CASE OnDisconnect(c)
    <3>1. Promise!Open(c)
      BY <1>1, <2>4 DEF OnDisconnect, PhaseOK, InSession, Promise!Open, Last, Promise!Last
    <3>2. Promise!Call(c, "disconnect")
      BY <2>4, InvokeStep DEF OnDisconnect
    <3> QED BY <3>1, <3>2 DEF Promise!Next, Promise!Disconnect
  <2> QED BY <1>2, <2>1, <2>2, <2>3, <2>4 DEF TaskStep
<1>3. ASSUME NEW c \in Conn, OnFrame(c) \/ OnCancel(c)
      PROVE  [Promise!Next]_(Promise!vars)
  <2>1. Promise!Open(c)
    BY <1>1, <1>3 DEF OnFrame, OnCancel, PhaseOK, InSession, Promise!Open, Last, Promise!Last
  <2>2. \E e \in Promise!Events : Promise!Call(c, e)
    BY <1>3, InvokeStep, CallStep DEF OnFrame, OnCancel, Promise!Events
  <2> QED BY <2>1, <2>2 DEF Promise!Next, Promise!Event
<1>4. ASSUME NEW c \in Conn, Reply(c) PROVE [Promise!Next]_(Promise!vars)
  <2>1. calls[c] # <<>>
    BY <1>1, <1>4 DEF Reply, Contains, TypeOK
  <2>2. task[c] = "serving"
    BY <1>1, <1>4, <2>1 DEF Reply, PhaseOK
  <2>3. Promise!Open(c)
    BY <1>1, <2>2 DEF PhaseOK, InSession, Promise!Open, Last, Promise!Last
  <2>4. UNCHANGED <<calls, task>> /\ replies' = [replies EXCEPT ![c] = @ + 1]
    BY <1>4 DEF Reply
  <2> QED BY <1>4, <2>3, <2>4 DEF Promise!Next, Promise!Reply, Reply, Contains, Promise!Contains
<1>5. ASSUME NEW c \in Conn, Accept(c) PROVE [Promise!Next]_(Promise!vars)
  <2>1. task[c] = "none"
    BY <1>5 DEF Accept, LinkInv, LinkOK
  <2>2. Panicked' = Panicked
    BY <1>1, <1>5, <2>1 DEF Accept, Panicked, TypeOK
  <2> QED BY <1>5, <2>2, SilentStep DEF Accept
<1>6. CASE UNCHANGED <<calls, replies, task>>
  <2>1. Panicked' = Panicked
    BY <1>6 DEF Panicked
  <2> QED BY <1>6, <2>1, SilentStep
<1> QED
  BY <1>2, <1>3, <1>4, <1>5, <1>6
  DEF Next, Start, AcceptFails, ConnectStep, ConnectFails, TcpConnect, ClientHello, Upgrade,
      Says, ConnectOk, HandshakeFails, ClientGone, LinkFails, Traffic, serverVars, vars

(* Per connection the callbacks come in the order of Session, whatever links, *)
(* clients, callbacks and the accept loop do.                                 *)
THEOREM KeepsThePromise == Spec => ImplementsSession
<1>1. Init => Promise!Init
  BY DEF Init, Promise!Init
<1>2. TypeInv /\ LinkInv /\ [Next]_vars => [Promise!Next]_(Promise!vars)
  BY SessionStep
<1> QED BY <1>1, <1>2, TypeCorrect, PTL DEF Spec, ImplementsSession, Promise!Spec

=============================================================================
