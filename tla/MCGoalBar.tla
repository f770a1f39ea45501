----------------------------- MODULE MCGoalBar ------------------------------
(* The two standing orders of a session, each alone: a goal with a budget of *)
(* two checks and the bar that shows it, and a schedule with a budget of two *)
(* wakes.                                                                    *)
EXTENDS GoalBar, Schedule

VARIABLE part
MCInit ==
  /\ part \in {"goal", "schedule"} /\ Init /\ ScheduleInit
  /\ IF part = "goal" THEN ~sch.on ELSE ~watched
Pursued == part = "goal" /\ Next /\ UNCHANGED <<part, schVars>>
Recurring == part = "schedule" /\ ScheduleNext /\ UNCHANGED <<part, vars>>
mcvars == <<vars, schVars, part>>
MCNext == Pursued \/ Recurring
OnGoal(step) == part = "goal" /\ step /\ UNCHANGED <<part, schVars>>
OnSchedule(step) == part = "schedule" /\ step /\ UNCHANGED <<part, vars>>
\* Loop and daemon are goroutines; nobody owes a command, and the clock of the
\* schedule stops at its bound.
MCSpec ==
  /\ MCInit /\ [][MCNext]_mcvars
  /\ WF_mcvars(OnGoal(LoopStep /\ Remote))
  /\ WF_mcvars(OnGoal(watched /\ PollEvents))
  /\ WF_mcvars(OnGoal(CallFails)) /\ WF_mcvars(OnGoal(Ceiling))
  /\ WF_mcvars(OnSchedule(Host))

MCTypeOK == TypeOK /\ ScheduleTypeOK

\* The bar tells the goal's time and its refused controls as they were; no
\* standing prompt joins another, the budget of wakes is kept, and a parked
\* session has the timer of its next slot and no other.
StandingIsExact ==
  /\ part = "goal" => BarIsExact
  /\ part = "schedule" => OnePromptATurn /\ BudgetKept /\ ParkedIsArmed

\* No step is judged twice and no outcome is without its verdict; no slot has
\* a second wake, nor one from before it was asked for.
StandingIsSound ==
  [][OneVerdictPerStep /\ OutcomeFollowsVerdict /\ WakeIsNew]_mcvars

\* The goal comes to rest, and so does its bar; a due slot is served.
StandingSettles ==
  /\ part = "goal" => GoalAndBarSettle
  /\ SlotsAreServed
=============================================================================
