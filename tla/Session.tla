------------------------------ MODULE Session ------------------------------
(***************************************************************************)
(* What a server promises the callbacks of its Config, per connection: one *)
(* on_error without a context if the connection never came about, and else *)
(* on_connect, then any number of on_message, on_progress and on_error     *)
(* with the context, then on_disconnect, once each and in this order.  A   *)
(* callback that panics is the last one.  Replies are taken after a        *)
(* message and before on_disconnect.                                       *)
(***************************************************************************)
EXTENDS Naturals, Sequences, SequencesExt

CONSTANTS Conn

VARIABLES
  calls,     \* the callbacks called for each connection, in order
  panicked,  \* the connections of which a callback panicked
  replies    \* how many replies the channel took

vars == <<calls, panicked, replies>>

Events == {"message", "progress", "error"}

Init ==
  /\ calls = [c \in Conn |-> <<>>]
  /\ panicked = {}
  /\ replies = [c \in Conn |-> 0]

Open(c) ==
  /\ c \notin panicked
  /\ calls[c] # <<>>
  /\ Head(calls[c]) = "connect"
  /\ Last(calls[c]) # "disconnect"

Call(c, callback) ==
  /\ calls' = [calls EXCEPT ![c] = Append(@, callback)]
  /\ panicked' \in {panicked, panicked \cup {c}}
  /\ UNCHANGED replies

Refuse(c) == calls[c] = <<>> /\ Call(c, "refused")

Connect(c) == calls[c] = <<>> /\ Call(c, "connect")

Event(c) == Open(c) /\ \E e \in Events : Call(c, e)

Disconnect(c) == Open(c) /\ Call(c, "disconnect")

Reply(c) ==
  /\ Open(c)
  /\ Contains(calls[c], "message")
  /\ replies' = [replies EXCEPT ![c] = @ + 1]
  /\ UNCHANGED <<calls, panicked>>

Next == \E c \in Conn : Refuse(c) \/ Connect(c) \/ Event(c) \/ Disconnect(c) \/ Reply(c)

Spec == Init /\ [][Next]_vars

=============================================================================
