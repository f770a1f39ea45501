------------------------------ MODULE MCEffects ------------------------------
(* Small instances of Effects: the calls are numbered from one.  In the     *)
(* first the daemon may crash or shut down once and hosts the session       *)
(* again; in the others, of two calls, it may also be stopped, hooks may    *)
(* come and go between the hostings, and with background work two faults    *)
(* fall.                                                                    *)
EXTENDS Effects

Hosted ==
  [calls |-> {1, 2, 3}, reads |-> {}, remotes |-> {2}, shells |-> {1},
   jobs |-> {3}, outside |-> {2}, twins |-> {}, pipelines |-> {FALSE},
   causes |-> {"shutdown"}, faults |-> 1]

Foreground ==
  [calls |-> {1, 2}, reads |-> {2}, remotes |-> {}, shells |-> {1},
   jobs |-> {}, outside |-> {2}, twins |-> {1, 2}, pipelines |-> BOOLEAN,
   causes |-> {"stop", "shutdown"}, faults |-> 1]

TwoFaults ==
  [Foreground EXCEPT !.reads = {}, !.jobs = {2}, !.faults = 2]

MCBatches == {Hosted, Foreground, TwoFaults}
=============================================================================
