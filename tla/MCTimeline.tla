----------------------------- MODULE MCTimeline -----------------------------
(* The thread on small journals, with one event type of each class of row:   *)
(* short ones with failures, retries and asides over a replayable and an      *)
(* ordinary tool, and long smooth ones, in which one turn runs two tools, of  *)
(* one category or of two, with narration between them, and is settled.       *)
EXTENDS Timeline

MCActs == {"read1", "bash1", "bash2"}
MCCategory == [a \in MCActs |-> IF a = "read1" THEN "read" ELSE "bash"]
MCReplayable == {"read1"}
MCJournaled == {"subagent_completed", "spec_changed", "goal_resumed",
                "goal_achieved", "limit_exceeded", "context_compacted",
                "unknown_event"}
Short == [events |-> 11, inputs |-> 2, asides |-> 1, retries |-> 2,
          faults |-> TRUE, acts |-> {"read1", "bash1"}]
Long(acts) == [events |-> 17, inputs |-> 1, asides |-> 0, retries |-> 0,
               faults |-> FALSE, acts |-> acts]
MCJournals == {Short, Long({"read1", "bash1"}), Long({"bash1", "bash2"})}
=============================================================================
