------------------------- MODULE FramingRefinement -------------------------
(* Framing implements Mailbox.  A message is posted with its last frame, and *)
(* is under way while that frame is in the channel or in the socket of a     *)
(* receiver that still reads.                                                *)
EXTENDS Framing

IsLast(f) == f.type \in {"oneshot", "end"}

(* The messages whose last frame is among some frames, in order. *)
Completed(frames) ==
  LET upto[i \in 0..Len(frames)] ==
        IF i = 0 THEN <<>>
        ELSE IF IsLast(frames[i]) THEN Append(upto[i - 1], frames[i].msg)
        ELSE upto[i - 1]
  IN  upto[Len(frames)]

UnderWay == IF up THEN wire \o chan ELSE <<>>

Box == INSTANCE Mailbox
  WITH posted <- {m \in Msg : state[m] = "sent"},
       transit <- Completed(UnderWay),
       broken <- ~open \/ ~up

(* Whole messages, at most once, in order, and nothing after a loss: what the *)
(* tests assert of 128 MB messages, for any threads and any moment of failure.*)
ImplementsMailbox == Box!Spec

=============================================================================
