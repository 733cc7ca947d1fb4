------------------------------ MODULE Mailbox ------------------------------
(***************************************************************************)
(* What one direction of a wsmq connection promises: messages arrive whole *)
(* and at most once, in the order in which their sending was completed.    *)
(* The connection may break: then the tail of what was under way is lost,  *)
(* and nothing posted later arrives.                                       *)
(***************************************************************************)
EXTENDS Naturals, Sequences

CONSTANTS Msg

VARIABLES
  posted,     \* the messages whose sending was completed
  transit,    \* those under way, oldest first
  delivered,  \* those that arrived, oldest first
  broken      \* the connection lost something or may have

vars == <<posted, transit, delivered, broken>>

Init ==
  /\ posted = {}
  /\ transit = <<>>
  /\ delivered = <<>>
  /\ broken = FALSE

Post(m) ==
  /\ m \notin posted
  /\ posted' = posted \cup {m}
  /\ transit' = IF broken THEN transit ELSE Append(transit, m)
  /\ UNCHANGED <<delivered, broken>>

Deliver ==
  /\ transit # <<>>
  /\ delivered' = Append(delivered, Head(transit))
  /\ transit' = Tail(transit)
  /\ UNCHANGED <<posted, broken>>

Break ==
  /\ broken' = TRUE
  /\ \E n \in 0..Len(transit) : transit' = SubSeq(transit, 1, n)
  /\ UNCHANGED <<posted, delivered>>

Next == (\E m \in Msg : Post(m)) \/ Deliver \/ Break

Spec == Init /\ [][Next]_vars

=============================================================================
