---------------------------- MODULE MCCommandLog ----------------------------
(* CommandLog on the mailbox of a fork, with a control and inputs, the first *)
(* two of them first sends of the same draft.                                *)
EXTENDS CommandLog

MCDraftOf == [c \in Cmd |-> IF c \in {"first", "second"} THEN "draft" ELSE NoDraft]
=============================================================================
