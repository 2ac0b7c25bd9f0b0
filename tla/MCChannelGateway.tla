-------------------------- MODULE MCChannelGateway --------------------------
(* A small instance of ChannelGateway for TLC. *)
EXTENDS ChannelGateway

CONSTANTS c1, c2, w1, w2, w3, w4, w5

\* w2 is the same platform message as w1; w5 belongs to another conversation.
MCConv == [w \in Works |-> IF w = w5 THEN c2 ELSE c1]
MCMessage == [w \in Works |-> IF w = w2 THEN w1 ELSE w]
=============================================================================
