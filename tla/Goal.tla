-------------------------------- MODULE Goal --------------------------------
(***************************************************************************)
(* The goal of a session (internal/agent/goal.go, its fold in              *)
(* internal/state/state.go and its place in the drive loop).               *)
(*                                                                         *)
(* Goal controls wait in the mailbox and are applied at the loop's safe    *)
(* point.  At every graceful end of a turn an active goal is judged: the   *)
(* verdict is journalled as a checkpoint, and a second event follows it    *)
(* (achieved, exhausted, or the feedback as an input that starts the next  *)
(* turn).  A crash may land between any two appends; goalRecover and       *)
(* goalResumeCheck repair what it tore, at the next safe point.            *)
(*                                                                         *)
(* The verdict itself (commands, judge, the model's claim) is a choice.    *)
(* Ticks of the clock are there for the readers of the journal (GoalBar).  *)
(***************************************************************************)
EXTENDS Integers, Sequences, FiniteSets, SequencesExt

CONSTANTS MaxChecks,   \* the goal's check budget
          MaxSteps     \* controls, ticks, crashes, tool steps, failures, messages

ASSUME GoalAssumption == MaxChecks \in Nat \ {0} /\ MaxSteps \in Nat

VARIABLES
    event,    \* what this step appended to the journal, if anything
    goal,     \* the fold's goal
    genStep,  \* generation steps started
    input,    \* an input waits after the last assistant message
    more,     \* tool results wait for the next generation
    turnOpen, \* a generation has started and not ended
    ended,    \* how the last turn ended
    mail,     \* controls accepted and not applied
    pc, back, quiesced,  \* the process: lost in a crash
    barrier,  \* the boundary's quiescent sequence: owed, taken, or lost in a crash
    clock, spent,        \* time, and the part of it spent pursuing the goal
    steps

durable == <<goal, genStep, input, more, turnOpen, ended, mail>>
process == <<pc, back, quiesced, barrier>>
goalVars == <<event, durable, process, clock, spent, steps>>

Controls == {"attach", "pause", "resume", "update", "cancel"}
NoGoal == [on |-> FALSE, paused |-> FALSE, exhausted |-> FALSE, checks |-> 0,
           chkStep |-> 0, pass |-> FALSE, feedback |-> FALSE]

Status(g) == CASE ~g.on -> "none"
               [] g.on /\ g.exhausted -> "exhausted"
               [] g.on /\ g.paused /\ ~g.exhausted -> "paused"
               [] OTHER -> "active"

\* One event folded into the goal.  A paused goal stays paused when it is
\* updated; a resume does not clear exhaustion; cancelled and achieved detach.
FoldEvent(g, type) ==
    CASE type = "attached"  -> [NoGoal EXCEPT !.on = TRUE]
      [] type = "updated"   -> [g EXCEPT !.exhausted = FALSE, !.chkStep = 0,
                                         !.pass = FALSE, !.feedback = FALSE]
      [] type = "paused"    -> [g EXCEPT !.paused = TRUE]
      [] type = "resumed"   -> [g EXCEPT !.paused = FALSE]
      [] type = "exhausted" -> [g EXCEPT !.exhausted = TRUE]
      [] type = "no_op"     -> g
      [] OTHER              -> NoGoal

Append1(type) ==
    /\ event' = type
    /\ goal' = FoldEvent(goal, type)
    /\ spent' = IF type = "attached" THEN 0 ELSE spent
Nothing == event' = "none"
NoAppend == Nothing /\ UNCHANGED <<goal, spent>>
Goto(p) == pc' = p /\ UNCHANGED back
Spend == steps < MaxSteps /\ steps' = steps + 1
Free == UNCHANGED steps

(***************************************************************************)
(* The safe point: controls, then the two repairs, then the decision.      *)
(***************************************************************************)
EventOf == [attach |-> "attached", pause |-> "paused", resume |-> "resumed",
            update |-> "updated", cancel |-> "cancelled"]
Wakes(c) ==   \* the control is followed by an input (goalReinject)
    \/ c = "attach"
    \/ c = "resume" /\ ~goal.exhausted
    \/ c = "update" /\ ~goal.paused

ApplyGoalControl ==
    /\ pc = "drain" /\ mail # <<>>
    /\ LET c == Head(mail) IN
         IF c = "attach" \/ goal.on
         THEN /\ Append1(EventOf[c])
              /\ Goto(IF Wakes(c) THEN "inject" ELSE "drain")
         ELSE Append1("no_op") /\ Goto("drain")
    /\ mail' = Tail(mail)
    /\ Free
    /\ UNCHANGED <<genStep, input, more, turnOpen, ended, quiesced, barrier, clock>>

Reinject ==
    /\ pc = "inject" /\ input' = TRUE /\ Goto("drain")
    /\ NoAppend /\ Free
    /\ UNCHANGED <<genStep, more, turnOpen, ended, mail, quiesced, barrier, clock>>

\* Mutant: the feedback of a checkpoint is not injected again.
OwedNoFeedback ==
    IF ~goal.on \/ goal.chkStep # genStep THEN "nothing"
    ELSE IF goal.pass THEN "achieved"
    ELSE IF goal.checks >= MaxChecks THEN "exhausted" ELSE "nothing"

\* Mutant: the checkpoint of an earlier generation step is repaired too.
OwedAnyStep ==
    IF ~goal.on THEN "nothing"
    ELSE IF goal.pass THEN "achieved"
    ELSE IF goal.checks >= MaxChecks THEN "exhausted"
    ELSE IF goal.feedback /\ ~input THEN "feedback" ELSE "nothing"

\* What the checkpoint of this generation step may still lack.
Owed ==
    IF ~goal.on \/ goal.chkStep # genStep THEN "nothing"
    ELSE IF goal.pass THEN "achieved"
    ELSE IF goal.checks >= MaxChecks THEN "exhausted"
    ELSE IF goal.feedback /\ ~input THEN "feedback" ELSE "nothing"

GoalRecover ==
    /\ pc = "drain" /\ mail = <<>> /\ Goto("check")
    /\ IF Owed \in {"achieved", "exhausted"} THEN Append1(Owed) ELSE NoAppend
    /\ input' = (input \/ Owed = "feedback")
    /\ Free
    /\ UNCHANGED <<genStep, more, turnOpen, ended, mail, quiesced, barrier, clock>>

Quiescent == ~input /\ ~more /\ ~turnOpen
Judgeable == /\ goal.on /\ ~goal.paused /\ ~goal.exhausted
             /\ ended = "completed" /\ goal.chkStep # genStep
Judge(after) ==
    \E pass \in BOOLEAN :
        LET check == goal.checks + 1 IN
        /\ event' = "checkpoint"
        /\ goal' = [goal EXCEPT !.checks = check, !.chkStep = genStep, !.pass = pass,
                                !.feedback = ~pass /\ check < MaxChecks]
        /\ pc' = "follow" /\ back' = after /\ UNCHANGED spent

\* The turn ended and the process died before the boundary judged it.
MissedBoundary == genStep > 0 /\ Judgeable /\ Quiescent
GoalResumeCheck ==
    /\ pc = "check" /\ MissedBoundary /\ Judge("decide")
    /\ Free
    /\ UNCHANGED <<genStep, input, more, turnOpen, ended, mail, quiesced, barrier, clock>>

(***************************************************************************)
(* Turns.                                                                  *)
(***************************************************************************)
Deciding == pc = "decide" \/ (pc = "check" /\ ~MissedBoundary)
Generate ==
    /\ Deciding /\ (turnOpen \/ more \/ input)
    /\ Goto("turn") /\ turnOpen' = TRUE
    /\ IF turnOpen THEN UNCHANGED <<genStep, more>>
                   ELSE genStep' = genStep + 1 /\ more' = FALSE
    /\ NoAppend /\ Free
    /\ UNCHANGED <<input, ended, mail, quiesced, barrier, clock>>

\* Nothing to do: the quiescent sequence, whose last cell is goalCheckpoint.
IdleOrReturn ==
    /\ Deciding /\ Quiescent /\ quiesced' = TRUE
    /\ barrier' = IF quiesced THEN barrier ELSE "taken"
    /\ IF ~quiesced /\ Judgeable THEN Judge("idle") ELSE NoAppend /\ Goto("idle")
    /\ Free
    /\ UNCHANGED <<genStep, input, more, turnOpen, ended, mail, clock>>

\* The event that follows a checkpoint; an input it injects starts a turn.
FollowUp ==
    /\ pc = "follow"
    /\ IF Owed \in {"achieved", "exhausted"}
       THEN Append1(Owed) /\ UNCHANGED <<input, quiesced>> /\ Goto(back)
       ELSE /\ NoAppend /\ input' = TRUE /\ quiesced' = FALSE
            /\ Goto(IF back = "idle" THEN "drain" ELSE back)
    /\ Free
    /\ UNCHANGED <<genStep, more, turnOpen, ended, mail, barrier, clock>>

\* An assistant message ends the generation: the turn is over, or its tools
\* ask for another one.
EndGeneration(how) ==
    /\ pc = "turn" /\ turnOpen' = FALSE /\ input' = FALSE
    /\ IF how = "completed" THEN Free ELSE Spend
    /\ IF how = "tools" THEN more' = TRUE /\ UNCHANGED ended
                        ELSE ended' = how /\ UNCHANGED more
    /\ quiesced' = FALSE /\ barrier' = "owed"
    /\ Goto("drain")
    /\ NoAppend
    /\ UNCHANGED <<genStep, mail, clock>>

Wake ==
    /\ pc = "idle" /\ mail # <<>> /\ Goto("drain")
    /\ NoAppend /\ Free
    /\ UNCHANGED <<genStep, input, more, turnOpen, ended, mail, quiesced, barrier, clock>>
Message ==
    /\ pc = "idle" /\ Spend /\ input' = TRUE /\ Goto("drain")
    /\ NoAppend
    /\ UNCHANGED <<genStep, more, turnOpen, ended, mail, quiesced, barrier, clock>>

(***************************************************************************)
(* The environment.                                                        *)
(***************************************************************************)
Accept(c) ==
    /\ Spend /\ mail' = Append(mail, c)
    /\ NoAppend
    /\ UNCHANGED <<genStep, input, more, turnOpen, ended, pc, back, quiesced, barrier, clock>>
Tick ==
    /\ Spend /\ Nothing /\ clock' = clock + 1
    /\ spent' = spent + (IF Status(goal) = "active" THEN 1 ELSE 0)
    /\ UNCHANGED <<durable, process>>
Crash ==
    /\ pc # "down" /\ Spend /\ Nothing
    /\ pc' = "down" /\ back' = "decide" /\ quiesced' = FALSE
    /\ barrier' = "lost"
    /\ UNCHANGED <<durable, clock, spent>>
Restart ==
    /\ pc = "down" /\ Nothing /\ Goto("drain") /\ quiesced' = Quiescent
    /\ Free
    /\ UNCHANGED <<durable, barrier, clock, spent>>

\* A session opened with a goal: its prompt is the first input.
GoalInit ==
    /\ event = "attached" /\ goal = FoldEvent(NoGoal, event) /\ genStep = 0
    /\ input = TRUE /\ more = FALSE /\ turnOpen = FALSE /\ ended = "completed"
    /\ mail = <<>> /\ pc = "drain" /\ back = "decide" /\ quiesced = FALSE
    /\ barrier = "owed"
    /\ clock = 0 /\ spent = 0 /\ steps \in 0..MaxSteps

LoopStep ==
    \/ ApplyGoalControl \/ Reinject \/ GoalRecover \/ GoalResumeCheck \/ Generate
    \/ EndGeneration("completed") \/ IdleOrReturn \/ FollowUp \/ Wake \/ Restart
Surprise == EndGeneration("tools") \/ EndGeneration("failed") \/ Message \/ Crash

GoalNext == LoopStep \/ Surprise \/ Tick \/ \E c \in Controls : Accept(c)
=============================================================================
