---------------------------- MODULE MCSessionPage ----------------------------
(* One session page: two messages that may say the same, a question, a child's *)
(* approval, a message to continue from.                                       *)
EXTENDS SessionPage
=============================================================================
