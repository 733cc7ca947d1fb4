----------------------------- MODULE MCFraming -----------------------------
(* Instances of Framing: one small and one large message sent, and large     *)
(* replies of one conversation; or sends that share the nil uuid.            *)
EXTENDS FramingRefinement

CONSTANTS small, large, reply1, reply2, u1, u2, u3

MCUuidOf ==
  [m \in Msg |-> IF Poisoned THEN u1
                 ELSE IF m \in Replies THEN u1
                 ELSE IF m = small THEN u2 ELSE u3]

(* With Bandwidth 2: one Oneshot frame for small, two Process frames for      *)
(* reply1, one for each of the others.                                        *)
MCRawLen == [m \in Msg |-> IF m = small THEN 2 ELSE 5]
MCSnapLen == [m \in Msg |-> IF m = reply1 THEN 3 ELSE IF m = reply2 THEN 2 ELSE 1]

=============================================================================
