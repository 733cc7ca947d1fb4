------------------------------- MODULE Server -------------------------------
(***************************************************************************)
(* How connections come about and end: the client's connect, the server's  *)
(* accept loop, the task it spawns for each connection with the TLS and    *)
(* websocket handshakes, and the callbacks of the server's Config.  What   *)
(* the frames of a connection hold is left to Framing and Receiver.        *)
(*                                                                         *)
(* Where a callback is not configured, its name in calls stands for the    *)
(* point at which it would be called.                                      *)
(***************************************************************************)
EXTENDS Naturals, Sequences, SequencesExt

CONSTANTS
  Conn,       \* calls of connect
  Stalling,   \* those whose client may stop in the middle of a handshake
  MaxEvents,  \* how many callbacks each session sees between its first and last (bound)
  MaxReplies  \* how many replies the user sends on a connection (bound)

ASSUME StallingAssumption == Stalling \subseteq Conn

ASSUME BoundAssumption == MaxEvents \in [Conn -> Nat] /\ MaxReplies \in Nat

VARIABLES
  tls,      \* the server's Config has a Key
  url,      \* scheme and certificate of each client
  run,      \* what became of server::run
  client,   \* what became of each connect
  link,     \* the TCP connection
  said,     \* the last thing said in the handshakes
  task,     \* the server's task for the connection
  channel,  \* the receiver of the task's outgoing channel
  calls,    \* the callbacks called
  replies   \* how many replies the channel took

vars == <<tls, url, run, client, link, said, task, channel, calls, replies>>

configVars == <<tls, url>>
serverVars == <<task, channel, calls, replies>>

(* Only a wss client looks at the certificate. *)
Url == {u \in [scheme : {"ws", "wss", "other"}, trusted : BOOLEAN] :
          u.scheme # "wss" => u.trusted}

Init ==
  /\ tls \in BOOLEAN
  /\ url \in [Conn -> Url]
  /\ run = "starting"
  /\ client = [c \in Conn |-> "idle"]
  /\ link = [c \in Conn |-> "none"]
  /\ said = [c \in Conn |-> "nothing"]
  /\ task = [c \in Conn |-> "none"]
  /\ channel = [c \in Conn |-> "none"]
  /\ calls = [c \in Conn |-> <<>>]
  /\ replies = [c \in Conn |-> 0]

-----------------------------------------------------------------------------
(* server::run.  The address does not parse or cannot be bound: Err.  A key  *)
(* that cannot be read, or an on_started that panics, takes run with it.     *)
Start ==
  /\ run = "starting"
  /\ run' \in {"listening", "err", "panicked"}
  /\ UNCHANGED <<configVars, client, link, said, serverVars>>

AcceptInlineMutant(c) ==   \* shakes hands in the accept loop
  /\ run = "listening"
  /\ link[c] = "backlog"
  /\ \A d \in Conn : task[d] \notin {"tls", "ws"}
  /\ link' = [link EXCEPT ![c] = "open"]
  /\ task' = [task EXCEPT ![c] = IF tls THEN "tls" ELSE "ws"]
  /\ UNCHANGED <<configVars, run, client, said, channel, calls, replies>>

Accept(c) ==
  /\ run = "listening"
  /\ link[c] = "backlog"
  /\ link' = [link EXCEPT ![c] = "open"]
  /\ task' = [task EXCEPT ![c] = IF tls THEN "tls" ELSE "ws"]
  /\ UNCHANGED <<configVars, run, client, said, channel, calls, replies>>

(* Any error of accept ends the loop and run returns Ok; the listener and    *)
(* what waited in its backlog go, the tasks stay.                            *)
AcceptFails ==
  /\ run = "listening"
  /\ run' = "ok"
  /\ link' = [c \in Conn |-> IF link[c] = "backlog" THEN "closed" ELSE link[c]]
  /\ UNCHANGED <<configVars, client, said, serverVars>>

-----------------------------------------------------------------------------
(* client::connect. *)
HangUp(c) == link' = [link EXCEPT ![c] = "closed"]

(* No host, no port and no scheme to tell it, or nobody listens. *)
ConnectFails(c) ==
  /\ client[c] = "idle"
  /\ url[c].scheme = "other" \/ run # "listening"
  /\ client' = [client EXCEPT ![c] = "failed"]
  /\ UNCHANGED <<configVars, run, link, said, serverVars>>

TcpConnect(c) ==
  /\ client[c] = "idle"
  /\ run = "listening"
  /\ client' = [client EXCEPT ![c] = "connecting"]
  /\ link' = [link EXCEPT ![c] = "backlog"]
  /\ UNCHANGED <<configVars, run, said, serverVars>>

Connected(c) == client[c] = "connecting" /\ link[c] \in {"backlog", "open"}

Says(c, what) ==
  /\ said' = [said EXCEPT ![c] = what]
  /\ UNCHANGED <<configVars, run, client, link, serverVars>>

ClientHello(c) ==
  /\ Connected(c) /\ url[c].scheme = "wss" /\ said[c] = "nothing"
  /\ Says(c, "hello")

Upgrade(c) ==
  /\ Connected(c)
  /\ \/ url[c].scheme = "ws"  /\ said[c] = "nothing"
     \/ url[c].scheme = "wss" /\ said[c] = "secure"
  /\ Says(c, "upgrade")

(* The server's 101 has arrived: Ok(Client). *)
ConnectOk(c) ==
  /\ client[c] = "connecting"
  /\ said[c] = "switching"
  /\ client' = [client EXCEPT ![c] = "connected"]
  /\ UNCHANGED <<configVars, run, link, said, serverVars>>

(* The server hung up, its certificate does not verify (and the Config did   *)
(* not say no_certificate_verification), or the url has a port but neither   *)
(* scheme, which the library finds out after the TCP connection.             *)
HandshakeFails(c) ==
  /\ client[c] = "connecting"
  /\ \/ link[c] = "closed"
     \/ task[c] = "tls" /\ said[c] = "hello" /\ ~url[c].trusted
     \/ url[c].scheme = "other"
  /\ client' = [client EXCEPT ![c] = "failed"]
  /\ HangUp(c)
  /\ UNCHANGED <<configVars, run, said, serverVars>>

(* Client::close, or its drop. *)
ClientGone(c) ==
  /\ client[c] = "connected"
  /\ client' = [client EXCEPT ![c] = "gone"]
  /\ HangUp(c)
  /\ UNCHANGED <<configVars, run, said, serverVars>>

LinkFails(c) ==
  /\ link[c] \in {"backlog", "open"}
  /\ HangUp(c)
  /\ UNCHANGED <<configVars, run, client, said, serverVars>>

-----------------------------------------------------------------------------
(* The spawned task: acceptor.accept ... *)
TlsAccept(c) ==
  /\ task[c] = "tls"
  /\ link[c] = "open" /\ said[c] = "hello" /\ url[c].trusted
  /\ said' = [said EXCEPT ![c] = "secure"]
  /\ task' = [task EXCEPT ![c] = "ws"]
  /\ UNCHANGED <<configVars, run, client, link, channel, calls, replies>>

TlsFailsOpenMutant(c) ==   \* goes on in the clear
  /\ task[c] = "tls"
  /\ said[c] = "upgrade" \/ link[c] = "closed"
  /\ task' = [task EXCEPT ![c] = "ws"]
  /\ UNCHANGED <<configVars, run, client, link, said, channel, calls, replies>>

(* ... which ends the task without a word when the client speaks no TLS, or  *)
(* hung up.                                                                  *)
TlsFails(c) ==
  /\ task[c] = "tls"
  /\ said[c] = "upgrade" \/ link[c] = "closed"
  /\ task' = [task EXCEPT ![c] = "dropped"]
  /\ HangUp(c)
  /\ UNCHANGED <<configVars, run, client, said, channel, calls, replies>>

(* accept_async: the response to the upgrade is written, the channel made.   *)
WsAccept(c) ==
  /\ task[c] = "ws"
  /\ said[c] = "upgrade"
  /\ said' = [said EXCEPT ![c] = "switching"]
  /\ task' = [task EXCEPT ![c] = "accepted"]
  /\ channel' = [channel EXCEPT ![c] = "open"]
  /\ UNCHANGED <<configVars, run, client, link, calls, replies>>

(* A callback returns or panics; a panic ends the task, and its locals, the  *)
(* socket and the channel's receiver among them, are dropped.                *)
Invoke(c, callback, after) ==
  /\ calls' = [calls EXCEPT ![c] = Append(@, callback)]
  /\ \/ task' = [task EXCEPT ![c] = after] /\ UNCHANGED <<link, channel>>
     \/ /\ task' = [task EXCEPT ![c] = "panicked"]
        /\ HangUp(c)
        /\ channel' = [channel EXCEPT ![c] = "closed"]
  /\ UNCHANGED <<configVars, run, client, said, replies>>

WsFailsMuteMutant(c) ==   \* treated like a failed TLS handshake
  /\ task[c] = "ws"
  /\ said[c] = "hello" \/ link[c] = "closed"
  /\ task' = [task EXCEPT ![c] = "dropped"]
  /\ HangUp(c)
  /\ UNCHANGED <<configVars, run, client, said, channel, calls, replies>>

(* The client speaks TLS to a server without a key, or hung up: the stream   *)
(* is gone and on_error gets no context.                                     *)
WsFails(c) ==
  /\ task[c] = "ws"
  /\ said[c] = "hello" \/ link[c] = "closed"
  /\ calls' = [calls EXCEPT ![c] = Append(@, "refused")]
  /\ task' \in {[task EXCEPT ![c] = "refused"], [task EXCEPT ![c] = "panicked"]}
  /\ HangUp(c)
  /\ UNCHANGED <<configVars, run, client, said, channel, replies>>

OnConnect(c) == task[c] = "accepted" /\ Invoke(c, "connect", "serving")

(* message_dispatch! calls on_message, on_progress and on_error, for frames of *)
(* a client that is connected or was: what it sent before the link went down  *)
(* may still be read.                                                         *)
OnFrame(c) ==
  /\ task[c] = "serving"
  /\ client[c] \in {"connected", "gone"}
  /\ Len(calls[c]) <= MaxEvents[c]
  /\ \E e \in {"message", "progress", "error"} : Invoke(c, e, "serving")

(* A progress callback calls cancel(): the read half fails. *)
OnCancel(c) ==
  /\ task[c] = "serving"
  /\ client[c] \in {"connected", "gone"}
  /\ Len(calls[c]) <= MaxEvents[c]
  /\ calls' = [calls EXCEPT ![c] = Append(@, "progress")]
  /\ task' = [task EXCEPT ![c] = "closing"]
  /\ HangUp(c)
  /\ channel' = [channel EXCEPT ![c] = "closed"]
  /\ UNCHANGED <<configVars, run, client, said, replies>>

SelectJoinMutant(c) ==   \* waits for both halves, and the channel has its sender
  /\ task[c] = "serving"
  /\ link[c] = "closed" /\ channel[c] = "closed"
  /\ task' = [task EXCEPT ![c] = "closing"]
  /\ UNCHANGED <<configVars, run, client, link, said, channel, calls, replies>>

SelectKeepsMutant(c) ==   \* drops the halves after on_disconnect
  /\ task[c] = "serving"
  /\ link[c] = "closed"
  /\ task' = [task EXCEPT ![c] = "closing"]
  /\ UNCHANGED <<configVars, run, client, link, said, channel, calls, replies>>

(* The select returns with the first half that ends, and both are dropped.   *)
SelectEnds(c) ==
  /\ task[c] = "serving"
  /\ link[c] = "closed"
  /\ task' = [task EXCEPT ![c] = "closing"]
  /\ channel' = [channel EXCEPT ![c] = "closed"]
  /\ UNCHANGED <<configVars, run, client, link, said, calls, replies>>

OnDisconnectAgainMutant(c) ==   \* the task does not finish with it
  task[c] = "closing" /\ Invoke(c, "disconnect", "closing")

OnDisconnect(c) == task[c] = "closing" /\ Invoke(c, "disconnect", "ended")

(* A Response may be kept and replied to at any time, from any thread.       *)
Reply(c) ==
  /\ Contains(calls[c], "message")
  /\ channel[c] = "open"
  /\ replies[c] < MaxReplies
  /\ replies' = [replies EXCEPT ![c] = @ + 1]
  /\ UNCHANGED <<configVars, run, client, link, said, task, channel, calls>>

-----------------------------------------------------------------------------
ConnectStep(c) == \/ ConnectFails(c) \/ TcpConnect(c) \/ ClientHello(c)
                  \/ Upgrade(c) \/ ConnectOk(c) \/ HandshakeFails(c)

TaskStep(c) == \/ TlsAccept(c) \/ TlsFails(c) \/ WsAccept(c) \/ WsFails(c)
               \/ OnConnect(c) \/ SelectEnds(c) \/ OnDisconnect(c)

Traffic(c) == OnFrame(c) \/ OnCancel(c) \/ Reply(c)

Next == \/ Start \/ AcceptFails
        \/ \E c \in Conn : \/ Accept(c) \/ ConnectStep(c) \/ TaskStep(c) \/ Traffic(c)
                           \/ ClientGone(c) \/ LinkFails(c)

Spec == Init /\ [][Next]_vars

(* The server's runtime polls the accept loop and the tasks; a client's does *)
(* the same unless the client is one that stalls.  Nothing makes a link      *)
(* fail, a client leave, a callback panic or accept return an error.         *)
Fairness ==
  /\ \A c \in Conn : WF_vars(Accept(c)) /\ WF_vars(TaskStep(c))
  /\ \A c \in Conn \ Stalling : WF_vars(ConnectStep(c))

FairSpec == Spec /\ Fairness

-----------------------------------------------------------------------------
(* Every variable keeps its type, and no callback comes after the last one. *)
TypeOK ==
  /\ tls \in BOOLEAN /\ url \in [Conn -> Url]
  /\ run \in {"starting", "listening", "ok", "err", "panicked"}
  /\ client \in [Conn -> {"idle", "connecting", "connected", "failed", "gone"}]
  /\ link \in [Conn -> {"none", "backlog", "open", "closed"}]
  /\ said \in [Conn -> {"nothing", "hello", "secure", "upgrade", "switching"}]
  /\ task \in [Conn -> {"none", "tls", "ws", "dropped", "refused", "accepted",
                        "serving", "closing", "ended", "panicked"}]
  /\ channel \in [Conn -> {"none", "open", "closed"}]
  /\ calls \in [Conn -> Seq({"refused", "connect", "message", "progress", "error",
                             "disconnect"})]
  /\ \A c \in Conn : Len(calls[c]) <= MaxEvents[c] + 2
  /\ replies \in [Conn -> 0..MaxReplies]

(* A server with a key serves nobody in the clear nor anybody who did not     *)
(* accept its certificate, one without a key nobody who asked for TLS; and    *)
(* whoever got Ok from connect has a session, or had one.                     *)
HasSession(c) ==
  task[c] = "accepted" \/ (calls[c] # <<>> /\ Head(calls[c]) = "connect")

SessionsMatchUrls ==
  \A c \in Conn :
    /\ HasSession(c) =>
         url[c].scheme = (IF tls THEN "wss" ELSE "ws") /\ (tls => url[c].trusted)
    /\ client[c] \in {"connected", "gone"} => HasSession(c)

(* connect returns, whatever other clients do: nobody waits for the handshake *)
(* of another, and a server that stops hangs up on those in its backlog.      *)
ConnectReturns ==
  \A c \in Conn \ Stalling : client[c] = "connecting" ~> client[c] # "connecting"

(* The user hears of every connection that got past TLS, unless its client    *)
(* stalls: on_connect or on_error.  (A failed TLS handshake is silent.)       *)
HandshakeIsSeen ==
  \A c \in Conn \ Stalling : task[c] = "ws" ~> calls[c] # <<>>

(* Every session whose link ends gets its on_disconnect, unless one of its    *)
(* callbacks panicked, also after the accept loop has ended.                  *)
SessionsEnd ==
  \A c \in Conn : (task[c] = "serving" /\ link[c] = "closed")
                    ~> task[c] = "panicked" \/ Contains(calls[c], "disconnect")

-----------------------------------------------------------------------------
(* Per connection the callbacks come in the order of Session, and a reply is  *)
(* taken only between on_message and on_disconnect.                           *)
Promise == INSTANCE Session WITH panicked <- {c \in Conn : task[c] = "panicked"}

ImplementsSession == Promise!Spec

=============================================================================
