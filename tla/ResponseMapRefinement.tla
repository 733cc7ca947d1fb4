----------------------- MODULE ResponseMapRefinement -----------------------
(* ResponseMap implements RequestReply: the map, the wakers and the two-step *)
(* clear are hidden, the outcome of each call is what remains.               *)
EXTENDS ResponseMap

(* A call fails with MutexError only after a panic, which is Panics' subject. *)
OutcomeOf(c) ==
  CASE call[c] \in {"unused", "sending"}   -> "idle"
    [] call[c] = "future" /\ c \in alive    -> "asked"
    [] call[c] = "future" /\ c \notin alive -> "abandoned"
    [] call[c] = "ok"                       -> "answered"
    [] call[c] = "refused"                  -> "refused"
    [] call[c] \in {"senderr", "notfound", "mutexerr"} -> "failed"

Weak == INSTANCE RequestReply
  WITH Reliable <- FALSE,
       outcome <- [c \in Call |-> OutcomeOf(c)],
       got <- result,
       served <- {c \in Call : answers[c] > 0},
       open <- conn = "running"

Strong == INSTANCE RequestReply
  WITH Reliable <- TRUE,
       outcome <- [c \in Call |-> OutcomeOf(c)],
       got <- result,
       served <- {c \in Call : answers[c] > 0},
       open <- conn = "running"

(* On any runtime: a future resolves at most once, to a reply the server gave *)
(* to that very request, and never after its owner dropped it.                *)
ImplementsWeak == Weak!Spec

(* On a current-thread runtime with README's send-and-await: besides, while   *)
(* the connection is up nothing fails but the send of a message that cannot   *)
(* be written; a request that was sent fails only once the connection is down.*)
ImplementsStrong == Strong!Spec

=============================================================================
