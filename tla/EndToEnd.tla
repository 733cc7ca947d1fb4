------------------------------ MODULE EndToEnd ------------------------------
(***************************************************************************)
(* A client and the server's session at the other end of its connection.   *)
(* The client is ResponseMap, action by action; what that module leaves to *)
(* the imagination, a server that answers requests it got and a link that  *)
(* ends, is here the client's outgoing channel, the socket, the session's  *)
(* task and its outgoing channel.  Messages travel whole: that frames come *)
(* together to messages is Framing's subject.                              *)
(***************************************************************************)
EXTENDS ResponseMap

VARIABLES
  requests,  \* the client's outgoing channel
  link,      \* the connection, as either side may find it
  upstream,  \* messages in the socket, on their way to the server
  session,   \* the server's task for the connection
  received,  \* the requests on_message was called with
  replies    \* the session's outgoing channel

serverVars == <<session, received, replies>>
peerVars   == <<requests, link, upstream, serverVars>>
systemVars == <<vars, peerVars>>

SystemInit ==
  /\ Init
  /\ requests = <<>>
  /\ link = "up"
  /\ upstream = <<>>
  /\ session = "serving"
  /\ received = {}
  /\ replies = <<>>

-----------------------------------------------------------------------------
(* The client's actions, with what they do to its channel and its socket: a  *)
(* send that returned Ok has queued its message, any other has queued none.  *)
Enqueue(c) ==
  /\ requests' = IF c \in sent' THEN Append(requests, c) ELSE requests
  /\ UNCHANGED <<link, upstream, serverVars>>

ClientSends ==
  \/ \E c \in Call : SendBytes(c) /\ Enqueue(c)
  \/ \E src, c \in Call : Reply(src, c) /\ Enqueue(c)

(* The write half: rx.forward(write), for as long as the select lasts.      *)
ForwardRequest ==
  /\ conn = "running" /\ link = "up"
  /\ requests # <<>>
  /\ requests' = Tail(requests)
  /\ upstream' = Append(upstream, Head(requests))
  /\ UNCHANGED <<vars, link, serverVars>>

HangUpLateMutant ==   \* the socket's halves are kept with the Client
  /\ TaskEnd \/ Cancel
  /\ requests' = <<>>
  /\ UNCHANGED <<link, upstream, serverVars>>

(* The task's future is dropped, when it has finished or was aborted, and    *)
(* with it the channel's receiver and both halves of the socket.             *)
HangUp ==
  /\ TaskEnd \/ Cancel
  /\ link' = "down"
  /\ requests' = <<>>
  /\ UNCHANGED <<upstream, serverVars>>

ClientOther ==
  /\ \/ \E c \in Call, u \in Uuid : GenerateUuid(c, u)
     \/ \E c \in Call, t \in Task : Poll(c, t)
     \/ \E c \in Call : DropFuture(c)
     \/ Close \/ OnMessage \/ LinkEnd \/ ClearWake \/ ClearMap
  /\ UNCHANGED peerVars

ClientStep == ClientSends \/ ForwardRequest \/ HangUp \/ ClientOther

LinkFails ==
  /\ link = "up"
  /\ link' = "down"
  /\ UNCHANGED <<vars, requests, upstream, serverVars>>

-----------------------------------------------------------------------------
(* The session's read half calls on_message, which gets a Response.          *)
ServerReceive ==
  /\ session = "serving"
  /\ upstream # <<>>
  /\ received' = received \cup {Head(upstream)}
  /\ upstream' = Tail(upstream)
  /\ UNCHANGED <<vars, requests, link, session, replies>>

(* A Response may be replied to at once or later, while the channel is open. *)
Queued(c) == Cardinality({i \in DOMAIN replies : replies[i] = c})

ServerReply(c) ==
  /\ session = "serving"
  /\ c \in received
  /\ answers[c] + Queued(c) < MaxAnswers
  /\ replies' = Append(replies, c)
  /\ UNCHANGED <<vars, requests, link, upstream, session, received>>

ForwardReplyLossyMutant ==   \* takes the frame before the sink is ready for it
  /\ session = "serving" /\ conn = "running" /\ link = "up"
  /\ replies # <<>>
  /\ replies' = Tail(replies)
  /\ UNCHANGED <<vars, requests, link, upstream, session, received>>

ForwardReplyTwiceMutant ==   \* leaves the frame in the channel
  /\ session = "serving" /\ conn = "running" /\ link = "up"
  /\ replies # <<>>
  /\ inbound' = Append(inbound, Head(replies))
  /\ answers' = [answers EXCEPT ![Head(replies)] = @ + 1]
  /\ UNCHANGED <<responses, linkVars, callVars, woken, sent>>
  /\ UNCHANGED <<requests, link, upstream, serverVars>>

(* The session's write half; when the client's select is over nobody reads.  *)
ForwardReply ==
  /\ session = "serving" /\ conn = "running" /\ link = "up"
  /\ replies # <<>>
  /\ replies' = Tail(replies)
  /\ inbound' = Append(inbound, Head(replies))
  /\ answers' = [answers EXCEPT ![Head(replies)] = @ + 1]
  /\ UNCHANGED <<responses, linkVars, callVars, woken, sent>>
  /\ UNCHANGED <<requests, link, upstream, session, received>>

(* Both halves are dropped: what they had not sent or read yet is lost.      *)
LeaveKeepsSocketMutant(next) ==   \* the halves live until the task ends
  /\ session = "serving"
  /\ session' = next
  /\ link' = link
  /\ upstream' = <<>>
  /\ replies' = <<>>
  /\ UNCHANGED <<vars, requests, received>>

Leave(next) ==
  /\ session = "serving"
  /\ session' = next
  /\ link' = "down"
  /\ upstream' = <<>>
  /\ replies' = <<>>
  /\ UNCHANGED <<vars, requests, received>>

(* The select returns when a half finds the link down, and when on_progress  *)
(* called cancel() in the middle of a request.                               *)
SelectEnds   == link = "down" /\ Leave("closing")
CancelsLink  == upstream # <<>> /\ Leave("closing")

(* A callback panics: the task ends without on_disconnect.                   *)
Panics       == upstream # <<>> /\ Leave("ended")

OnDisconnect ==
  /\ session = "closing"
  /\ session' = "ended"
  /\ UNCHANGED <<vars, requests, link, upstream, received, replies>>

ServerStep == \/ ServerReceive \/ ForwardReply \/ SelectEnds \/ CancelsLink
              \/ Panics \/ OnDisconnect \/ \E c \in Call : ServerReply(c)

SystemNext == ClientStep \/ LinkFails \/ ServerStep

SystemSpec == SystemInit /\ [][SystemNext]_systemVars

(* To the client's fairness come the four halves: each is polled while it    *)
(* has something to do, and finds out when the link is down.  The user's     *)
(* callback need not reply, and no link need fail.                           *)
SystemFairness ==
  /\ Fairness
  /\ WF_systemVars(ForwardRequest) /\ WF_vars(link = "down" /\ LinkEnd)
  /\ WF_systemVars(ServerReceive \/ SelectEnds \/ OnDisconnect)
  /\ WF_systemVars(ForwardReply)

FairSystemSpec == SystemSpec /\ SystemFairness

-----------------------------------------------------------------------------
(* Everything under way was sent by the client, everything the session is    *)
(* still sending was received by it, and no request is replied to too often. *)
SystemInv ==
  /\ requests \in Seq(sent) /\ upstream \in Seq(sent)
  /\ received \subseteq sent
  /\ replies \in Seq(received)
  /\ \A c \in Call : answers[c] + Queued(c) <= MaxAnswers

(* What ResponseMap assumes of its surroundings is what a wsmq server on the *)
(* other side does: the client within the whole is a client of ResponseMap.  *)
(* (server.rs:209-251 against Answer and LinkEnd.)                           *)
ImplementsResponseMap == Spec

(* An await returns once the server has taken on the reply to it, whichever  *)
(* side ends afterwards; but not if the client's task is aborted.            *)
RepliedReturns ==
  \A c \in Call :
    (Waits(c) /\ \E i \in DOMAIN replies : replies[i] = c)
      ~> ~Waits(c) \/ conn = "aborted"

(* An await that the server will not answer any more returns, however the    *)
(* session ended: link failure, cancel() or panic of a callback.             *)
SessionEndReturns ==
  \A c \in Call : (session = "ended" /\ Waits(c)) ~> ~Waits(c) \/ conn = "aborted"

(* The session does not outlive its client, closed, dropped or finished.     *)
SessionFollowsClient == conn \in {"ended", "aborted"} ~> session = "ended"

=============================================================================
