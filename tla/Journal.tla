------------------------------ MODULE Journal ------------------------------
(***************************************************************************)
(* What a session's journal promises to everything above it: facts are      *)
(* appended one after another, an append is acknowledged while its fact is   *)
(* the last one, and the only facts that may ever disappear are a suffix no  *)
(* caller was told about.  The other models of this project take a journal   *)
(* append as one such atomic step.                                           *)
(***************************************************************************)
EXTENDS Integers, Sequences

CONSTANT Payload   \* what a fact can say

VARIABLES facts,   \* the journal: facts[i] has sequence number i
          acked    \* the envelopes whose append returned

Init == facts = <<>> /\ acked = {}

Extend ==
  \E f \in Payload : facts' = Append(facts, [seq |-> Len(facts) + 1, fact |-> f])
                 /\ UNCHANGED acked

Acknowledge ==
  /\ facts # <<>>
  /\ acked' = acked \cup {facts[Len(facts)]}
  /\ UNCHANGED facts

Lose ==
  \E k \in 0..Len(facts) :
    /\ \A e \in acked : e.seq <= k
    /\ facts' = SubSeq(facts, 1, k)
    /\ UNCHANGED acked

Next == Extend \/ Acknowledge \/ Lose

Spec == Init /\ [][Next]_<<facts, acked>>
=============================================================================
