--------------------------- MODULE MCSessionInbox ---------------------------
(* Delivery on a handful of commands, named for what they do: inputs that    *)
(* queue, steer, are vetoed, withdrawn and promoted; inputs with more         *)
(* withdrawals, or promotions, than their channel holds; apart, commands of   *)
(* every kind, questions and tree messages among them, where the two channels *)
(* of the loop may overtake each other.                                       *)
EXTENDS Delivery

KindsOf(cmds) ==
  [c \in cmds |-> CASE c \in {"revoke", "unsend"} -> "revoke"
                    [] c \in {"promote", "hurry"} -> "promote"
                    [] c = "answer" -> "answer"
                    [] OTHER -> "input"]
CastOf(cmds, steer, peer, vetoed, questions) ==
  [kindOf |-> KindsOf(cmds), targetOf |-> [c \in cmds |-> "queued"],
   steer |-> steer, peer |-> peer, vetoed |-> vetoed, asks |-> questions]

Inputs  == CastOf({"queued", "later", "steer", "revoke", "promote"},
                  {"steer"}, {}, {"later"}, 0)
AnyKind == CastOf({"queued", "peer", "revoke", "answer"},
                  {}, {"peer"}, {"queued"}, 1)
Peers   == CastOf({"queued", "later", "peer"}, {}, {"peer"}, {}, 0)
Unsends == CastOf({"queued", "later", "revoke", "unsend"}, {}, {}, {}, 0)
Hurries == CastOf({"queued", "later", "promote", "hurry"}, {}, {}, {}, 0)
MCCasts == {Inputs, AnyKind, Unsends, Hurries}
PeerCasts == {Peers}
=============================================================================
