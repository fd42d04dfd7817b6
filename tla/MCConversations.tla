-------------------------- MODULE MCConversations --------------------------
(* TLC instances of Conversations. *)
EXTENDS Conversations

CONSTANTS p1, p2, d1, d2, m1, m2, m3, u1, u2, x1, a1, a2
=============================================================================
