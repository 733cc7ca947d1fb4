---------------------------- MODULE RequestReply ----------------------------
(***************************************************************************)
(* What a wsmq client promises its caller about each request, with no map, *)
(* waker or task in sight.  A request that was sent is answered at most    *)
(* once and only by a reply the server gave to that request; or it fails;  *)
(* or its caller gives it up.  A request whose message cannot be written   *)
(* is refused on the spot, and the server never hears of it.               *)
(*                                                                         *)
(* Two promises are stated.  The weak one lets a request fail at any time; *)
(* under the strong one (Reliable) nothing but a refusal fails a request   *)
(* while the connection is open, and never one that was sent.              *)
(***************************************************************************)
CONSTANTS Call, NoData, Reliable

VARIABLES
  outcome,  \* what became of each request
  got,      \* the reply its caller was given
  served,   \* the requests the server has replied to
  open      \* the connection is up

vars == <<outcome, got, served, open>>

Outcome == {"idle", "asked", "answered", "failed", "refused", "abandoned"}

Init ==
  /\ outcome = [c \in Call |-> "idle"]
  /\ got = [c \in Call |-> NoData]
  /\ served = {}
  /\ open = TRUE

Become(c, from, to) ==
  /\ outcome[c] = from
  /\ outcome' = [outcome EXCEPT ![c] = to]

Ask(c) == Become(c, "idle", "asked") /\ UNCHANGED <<got, served, open>>

Refuse(c) == Become(c, "idle", "refused") /\ UNCHANGED <<got, served, open>>

(* The server replies to a request it received; the caller may have left. *)
Serve(c) ==
  /\ open
  /\ outcome[c] \notin {"idle", "refused"}
  /\ served' = served \cup {c}
  /\ UNCHANGED <<outcome, got, open>>

Receive(c) ==
  /\ c \in served
  /\ Become(c, "asked", "answered")
  /\ got' = [got EXCEPT ![c] = c]
  /\ UNCHANGED <<served, open>>

Fail(c) ==
  /\ Reliable => ~open
  /\ Become(c, "idle", "failed") \/ Become(c, "asked", "failed")
  /\ UNCHANGED <<got, served, open>>

Abandon(c) == Become(c, "asked", "abandoned") /\ UNCHANGED <<got, served, open>>

Disconnect == open /\ open' = FALSE /\ UNCHANGED <<outcome, got, served>>

Next == \/ \E c \in Call : \/ Ask(c) \/ Refuse(c) \/ Serve(c)
                          \/ Receive(c) \/ Fail(c) \/ Abandon(c)
        \/ Disconnect

Spec == Init /\ [][Next]_vars

=============================================================================
