------------------------------ MODULE MCServer ------------------------------
(* An instance of Server for TLC: a client that goes on, and whose session   *)
(* sees two callbacks, next to one that may stall in its handshake.          *)
EXTENDS Server

MCMaxEvents == [c \in Conn |-> IF c \in Stalling THEN 0 ELSE 2]

=============================================================================
