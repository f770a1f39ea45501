------------------------------- MODULE MCSeries -------------------------------
(* Small instances of Series.                                              *)
EXTENDS Series

Base == [schedule |-> "interval", every |-> 1, overlap |-> "skip",
         onFailure |-> "stop", attempts |-> 1, onNoIntent |-> "finish",
         patience |-> 0, cap |-> 0, judged |-> FALSE]

IntervalSkip     == [Base EXCEPT !.cap = 2]
IntervalCoalesce == [Base EXCEPT !.overlap = "coalesce", !.onFailure = "surface"]
BackToBack       == [Base EXCEPT !.every = 0, !.onFailure = "retry", !.attempts = 2]
Cron             == [Base EXCEPT !.schedule = "cron", !.every = 2, !.onFailure = "surface",
                                 !.judged = TRUE, !.patience = 1]
SelfPaced        == [Base EXCEPT !.schedule = "self_paced"]
SelfPacedOn      == [SelfPaced EXCEPT !.onNoIntent = "continue", !.onFailure = "surface"]
Goal             == [Base EXCEPT !.schedule = "immediate", !.judged = TRUE, !.patience = 1]

Shapes == {IntervalSkip, IntervalCoalesce, BackToBack, Cron, SelfPaced, SelfPacedOn, Goal}
Coalescing == {IntervalCoalesce}
Retrying == {[BackToBack EXCEPT !.cap = 1]}
Paused == {IntervalSkip}
PausedPaced == {SelfPacedOn}
=============================================================================
