---------------------------- MODULE StandingProof -----------------------------
(***************************************************************************)
(* Proofs about the standing orders of a session: a goal with the bar that *)
(* shows it, and a recurring schedule, for every budget, interval and      *)
(* bound.                                                                  *)
(*                                                                         *)
(* The goal's invariant relates the fold of its journal to the clock the   *)
(* bar derives from the same events.  The schedule's is about the facts    *)
(* not yet appended: what the fold lacks, they bring, whatever crash falls *)
(* between two of them.  Neither order changes the other's state, so that  *)
(* each invariant is inductive by itself and MCSpec has both.              *)
(***************************************************************************)
EXTENDS MCGoalBar, SequenceTheorems, FiniteSetTheorems, TLAPS

(***************************************************************************)
(* The inductive invariant of the goal and its bar.                        *)
(***************************************************************************)
Events == {"none", "no_op", "checkpoint", "attached", "updated", "paused",
           "resumed", "cancelled", "achieved", "exhausted"}
GoalRecord == [on : BOOLEAN, paused : BOOLEAN, exhausted : BOOLEAN, checks : Nat,
               chkStep : Nat, pass : BOOLEAN, feedback : BOOLEAN]
Phases == {"none", "active", "paused", "stopped", "cancelled", "achieved"}
BarRecord == [phase : Phases, activeMs : Int, since : Int, attachedAt : Int,
              endedAt : Int]

\* The types of what the loop keeps, and of what the page keeps.
LoopTyped ==
  /\ event \in Events /\ goal \in GoalRecord
  /\ genStep \in Nat /\ mail \in Seq(Controls) /\ steps \in 0..MaxSteps
  /\ clock \in Nat /\ spent \in 0..clock
BarTyped ==
  /\ full \in BarRecord /\ noops \in Nat
  /\ seenNoops \in 0..noops /\ base \in 0..noops /\ told \in Int
  /\ pendingAction \in {"none", "pause", "resume", "cancel"}
  /\ failing \in BOOLEAN /\ hydrated \in BOOLEAN
  /\ watched \in BOOLEAN /\ plain \in BOOLEAN

\* A verdict belongs to a generation step that has begun, and a goal stopped by
\* a missed verdict does not hold a passed one.
Verdicts ==
  /\ goal.chkStep \in 0..genStep
  /\ goal.checks > 0 => genStep > 0
  /\ goal.pass => goal.chkStep > 0
  /\ goal.exhausted => goal.on /\ ~goal.pass

\* What the folded journal says of the clock while the goal is in each state.
Running ==
  Status(goal) = "active" =>
    /\ full.phase = "active" /\ full.since \in 0..clock
    /\ full.activeMs + (clock - full.since) = spent
Resting ==
  Status(goal) = "paused" =>
    full.phase = "paused" /\ full.since = -1 /\ full.activeMs = spent
Settled ==
  Status(goal) \in {"none", "exhausted"} =>
    /\ IsGoalTerminal(full.phase)
    /\ Bank(full, full.endedAt) = spent
ClockFits == plain => Running /\ Resting /\ Settled

GoalInv ==
  LoopTyped /\ BarTyped /\ Verdicts /\ full.phase # "none" /\ ClockFits
    /\ NoopsToldOnce

(***************************************************************************)
(* The inductive invariant of the schedule.                                *)
(***************************************************************************)
SchRecord == [on : BOOLEAN, paused : BOOLEAN, id : 0..MaxMoves, last : 0..MaxTime,
              wakes : Nat]
TimerRecord == [id : 0..MaxMoves, at : 1..(MaxTime + Every)]
CommandRecord == [kind : Kinds, id : 0..MaxMoves]
FactTypes == {"attached", "paused", "resumed", "wake", "detached", "set", "fired",
              "cancelled", "entered", "resolved", "closed", "started", "input",
              "prompt", "handled"}
FactRecord == [type : FactTypes, id : 0..MaxMoves, at : 0..(MaxTime + Every),
               skipped : BOOLEAN, cmd : BOOLEAN]
HostStates == {"down", "failed", "crashed", "resume", "drain", "close", "check",
               "decide", "turn", "idle"}

FoldTyped ==
  /\ sch \in SchRecord
  /\ timers \subseteq TimerRecord /\ IsFiniteSet(timers)
  /\ waiting \in BOOLEAN /\ closed \in BOOLEAN /\ sealed \in BOOLEAN
  /\ unanswered \in BOOLEAN /\ turn \in BOOLEAN
HostTyped ==
  /\ commands \in Seq(CommandRecord) /\ todo \in Seq(FactRecord)
  /\ closing \in BOOLEAN /\ sent \in BOOLEAN /\ results \in BOOLEAN
  /\ host \in HostStates /\ resumed \in BOOLEAN
  /\ now \in 0..MaxTime /\ moves \in 0..MaxMoves
  /\ asked \in 0..MaxTime /\ prompts \in 0..1
  /\ lost \subseteq {"detached", "cancelled", "hint"}

\* The facts of a batch, and those not yet appended.
Facts(b) == {b[i] : i \in DOMAIN b}
Ahead == Facts(todo)
AheadOf(type) == {f \in Ahead : f.type = type}
Drops(t) == Timed("cancelled", t.id, t.at)
Sets(t) == Timed("set", t.id, t.at)

\* What an append may write, wherever it stands in its batch.
Sound(f) ==
  /\ f.type \in {"attached", "resumed", "wake"} => f.at \in 0..MaxTime
  /\ f.type = "set" => f.at > 0
  /\ f.type \in {"set", "fired", "cancelled"} => f = Timed(f.type, f.id, f.at)
FactsSound == \A f \in Ahead : Sound(f)

\* A fact settles a command that is there; a batch settles one at most.
Once(I) == \A i, j \in I : i = j
Settling(b) == {i \in DOMAIN b : b[i].cmd}
OneSettles ==
  /\ Settling(todo) # {} => commands # <<>>
  /\ Once(Settling(todo))

\* A standing prompt is asked for when nothing is unanswered, and once.
Prompting(b) == {i \in DOMAIN b : b[i].type = "prompt"}
OnePrompt ==
  /\ prompts = 1 => unanswered
  /\ Prompting(todo) # {} => prompts = 0
  /\ Once(Prompting(todo))

\* A wake is the first fact of its batch and of a slot after the last; the slot
\* that was asked for last is the anchor of the cadence.
WakeFirst(b) == \A i \in DOMAIN b : b[i].type = "wake" => i = 1
WakeLeads ==
  /\ sch.on => asked = sch.last
  /\ WakeFirst(todo)
  /\ \A f \in AheadOf("wake") : sch.on /\ f.at > sch.last

\* The slot and the count that the wake in hand, if any, leads to.
Waking == AheadOf("wake") # {}
SlotAhead == IF Waking THEN Head(todo).at + Every ELSE Next1
WakesAhead ==
  sch.wakes + (IF Waking /\ ~Head(todo).skipped THEN 1 ELSE 0)

\* The removal of a spent schedule is in the batch of its last wake.
Unbudgeted == MaxWakes = 0 \/ "detached" \in lost
BudgetAhead ==
  \/ Unbudgeted
  \/ WakesAhead < MaxWakes
  \/ WakesAhead = MaxWakes /\ AheadOf("detached") # {}

\* A batch that pauses or removes the schedule cancels its timers afterwards.
Disarming == {"paused", "detached"}
CancelsAfter(b, T) ==
  \A i \in DOMAIN b :
    b[i].type \in Disarming =>
      \A t \in T : \E j \in DOMAIN b : j > i /\ b[j] = Drops(t)
PausesCancel == CancelsAfter(todo, timers)

\* An inactive schedule has timers only while their cancellation is in hand, and
\* a timer is set for an active one only.
Disarmed == \A t \in timers : Drops(t) \in Ahead
AtRest == ~sch.on \/ sch.paused \/ (~Active /\ host \in {"decide", "idle"})
RestsDisarmed == AtRest => "cancelled" \in lost \/ Disarmed
SetsActive ==
  AheadOf("set") # {} => Active /\ \A f \in Ahead : f.type \notin Disarming

\* What the loop has in hand at each of its places.
Serving == {"wake", "prompt", "detached", "cancelled", "set"}
Places ==
  /\ host = "idle" => Ahead \subseteq {Fact("entered")}
  /\ host = "decide" => \A f \in Ahead : f.type \in Serving
  /\ host # "decide" => AheadOf("set") \cup AheadOf("wake") = {}
  /\ todo # <<>> => host \in {"drain", "close", "decide", "turn", "idle"}

\* An active schedule is parked with the timer of its next slot, or what is in
\* hand sets it.
ArmedFor(T, b) ==
  /\ \A t \in timers : t = T \/ Drops(t) \in Facts(b)
  /\ T \in timers \/ Sets(T) \in Facts(b)
  /\ Drops(T) \notin Facts(b)
  /\ \A f \in Facts(b) : f.type = "set" => f = Sets(T)
Armed ==
  host \in {"decide", "idle"} /\ Active /\ AheadOf("detached") = {} =>
    ArmedFor([id |-> sch.id, at |-> SlotAhead], todo)

ScheduleInv ==
  /\ FoldTyped /\ HostTyped /\ FactsSound /\ OneSettles /\ OnePrompt /\ WakeLeads
  /\ BudgetAhead /\ PausesCancel /\ RestsDisarmed /\ SetsActive /\ Places /\ Armed

\* While the schedule runs, the goal's journal is silent.
Apart == part = "schedule" => event = "attached"
IInv == GoalInv /\ ScheduleInv /\ Apart

-----------------------------------------------------------------------------
(* The steps of the goal, by what they append.                               *)

\* Nothing is appended: the goal and its clock stay.
Quiet ==
  /\ event' = "none" /\ goal' = goal /\ spent' = spent /\ clock' = clock
  /\ genStep' \in {genStep, genStep + 1}
\* An event is appended, for a reason.
Written(type) ==
  /\ event' = type /\ goal' = FoldEvent(goal, type) /\ clock' = clock
  /\ spent' = (IF type = "attached" THEN 0 ELSE spent)
  /\ genStep' = genStep
Asked == {"updated", "paused", "resumed", "cancelled"}
Reason(type) ==
  \/ type = "attached" \/ type = "no_op"
  \/ type \in Asked /\ goal.on
  \/ type \in {"achieved", "exhausted"} /\ Owed = type
\* A verdict is appended.
Judged ==
  \E pass \in BOOLEAN :
    /\ Judgeable /\ event' = "checkpoint"
    /\ goal' = [goal EXCEPT !.checks = goal.checks + 1, !.chkStep = genStep,
                            !.pass = pass,
                            !.feedback = ~pass /\ goal.checks + 1 < MaxChecks]
    /\ spent' = spent /\ clock' = clock /\ genStep' = genStep
\* Time passes.
Passed ==
  /\ event' = "none" /\ goal' = goal /\ genStep' = genStep /\ clock' = clock + 1
  /\ spent' = spent + (IF Status(goal) = "active" THEN 1 ELSE 0)
Moved == Quiet \/ (\E type \in Events : Written(type) /\ Reason(type)) \/ Judged \/ Passed

\* A control that is applied is written under its own name, or as a no_op.
LEMMA ControlMoves ==
  ASSUME LoopTyped, ApplyGoalControl PROVE Moved
<1>1. PICK c \in Controls :
        IF c = "attach" \/ goal.on THEN Append1(EventOf[c]) ELSE Append1("no_op")
  <2>1. Head(mail) \in Controls
    BY HeadTailProperties DEF LoopTyped, ApplyGoalControl
  <2> QED BY <2>1 DEF ApplyGoalControl
<1>2. genStep' = genStep /\ clock' = clock BY DEF ApplyGoalControl
<1>3. CASE c = "attach"
  <2>1. EventOf[c] = "attached" BY <1>3 DEF EventOf
  <2>2. Written("attached") BY <1>1, <1>2, <1>3, <2>1 DEF Append1, Written
  <2> QED BY <2>2 DEF Moved, Reason, Events
<1>4. CASE c # "attach" /\ goal.on
  <2>1. EventOf[c] \in Asked BY <1>4, <1>1 DEF EventOf, Controls, Asked
  <2>2. Written(EventOf[c]) BY <1>1, <1>2, <1>4, <2>1 DEF Append1, Written, Asked
  <2> QED BY <1>4, <2>1, <2>2 DEF Moved, Reason, Events, Asked
<1>5. CASE c # "attach" /\ ~goal.on
  <2>1. Written("no_op") BY <1>1, <1>2, <1>5 DEF Append1, Written
  <2> QED BY <2>1 DEF Moved, Reason, Events
<1> QED BY <1>3, <1>4, <1>5

\* A verdict follows the guards of the boundary.
LEMMA JudgeMoves ==
  ASSUME NEW after, Judgeable, Judge(after), genStep' = genStep, clock' = clock
  PROVE  Moved
BY DEF Judge, Moved, Judged

\* What a checkpoint lacks is written, or nothing is.
LEMMA OwedMoves ==
  ASSUME IF Owed \in {"achieved", "exhausted"} THEN Append1(Owed) ELSE NoAppend,
         genStep' = genStep, clock' = clock
  PROVE  Moved
<1>1. CASE Owed \in {"achieved", "exhausted"}
  <2>1. Written(Owed) BY <1>1 DEF Append1, Written
  <2> QED BY <1>1, <2>1 DEF Moved, Reason, Events
<1>2. CASE Owed \notin {"achieved", "exhausted"}
  BY <1>2 DEF NoAppend, Nothing, Moved, Quiet
<1> QED BY <1>1, <1>2

\* Every step of the loop and of its surroundings is one of these.
LEMMA GoalMoves ==
  ASSUME LoopTyped, GoalNext PROVE Moved
<1>1. CASE ApplyGoalControl BY <1>1, ControlMoves
<1>2. CASE GoalRecover BY <1>2, OwedMoves DEF GoalRecover
<1>3. CASE GoalResumeCheck
  BY <1>3, JudgeMoves DEF GoalResumeCheck, MissedBoundary
<1>4. CASE IdleOrReturn
  <2>1. CASE ~quiesced /\ Judgeable BY <1>4, <2>1, JudgeMoves DEF IdleOrReturn
  <2>2. CASE ~(~quiesced /\ Judgeable)
    BY <1>4, <2>2 DEF IdleOrReturn, NoAppend, Nothing, Moved, Quiet
  <2> QED BY <2>1, <2>2
<1>5. CASE FollowUp
  <2>1. IF Owed \in {"achieved", "exhausted"} THEN Append1(Owed) ELSE NoAppend
    BY <1>5 DEF FollowUp
  <2> QED BY <1>5, <2>1, OwedMoves DEF FollowUp
<1>6. CASE Reinject \/ Generate \/ Wake \/ Restart \/ Message \/ Crash
          \/ EndGeneration("completed") \/ EndGeneration("tools") \/ EndGeneration("failed")
          \/ \E c \in Controls : Accept(c)
  <2>1. event' = "none" /\ goal' = goal /\ spent' = spent /\ clock' = clock
          /\ genStep' \in {genStep, genStep + 1}
    BY <1>6 DEF Reinject, Generate, Wake, Restart, Message, Crash, EndGeneration, Accept,
                NoAppend, Nothing, durable
  <2> QED BY <2>1 DEF Moved, Quiet
<1>7. CASE Tick BY <1>7 DEF Tick, Nothing, durable, Moved, Passed
<1> QED
  BY <1>1, <1>2, <1>3, <1>4, <1>5, <1>6, <1>7 DEF GoalNext, LoopStep, Surprise

\* A step of the page appends nothing, and leaves the journal as it is.
LEMMA PageMoves ==
  ASSUME PollEvents \/ Click \/ CallFails \/ Ceiling \/ Reopen
  PROVE  /\ Quiet /\ genStep' = genStep
         /\ full' = full /\ noops' = noops /\ plain' = plain /\ watched' = watched
<1>1. CASE PollEvents
  BY <1>1 DEF PollEvents, Nothing, durable, Quiet
<1>2. CASE Click
  <2>1. PICK action, ok, gone : GoalAction(action, ok, gone)
    BY <1>2 DEF Click
  <2> QED BY <2>1 DEF GoalAction, Unheard, Accept, NoAppend, Nothing, durable, Quiet
<1>3. CASE CallFails \/ Ceiling \/ Reopen
  BY <1>3 DEF CallFails, Ceiling, Reopen, Unheard, Nothing, durable, Quiet
<1> QED BY <1>1, <1>2, <1>3

-----------------------------------------------------------------------------
(* The goal's invariant, part by part.                                       *)

USE GoalAssumption

\* The record of the goal keeps its type.
LEMMA FoldTypes ==
  ASSUME NEW g \in GoalRecord, NEW type \in Events
  PROVE  FoldEvent(g, type) \in GoalRecord
BY DEF GoalRecord, Events, FoldEvent, NoGoal

LEMMA GoalTyped ==
  ASSUME LoopTyped, Moved
  PROVE  /\ event' \in Events /\ goal' \in GoalRecord /\ genStep' \in Nat
         /\ clock' \in Nat /\ spent' \in 0..clock'
<1>1. CASE Quiet BY <1>1 DEF LoopTyped, Quiet, Events
<1>2. CASE \E type \in Events : Written(type) /\ Reason(type)
  <2>1. PICK type \in Events : Written(type) BY <1>2
  <2>2. goal' \in GoalRecord BY <2>1, FoldTypes DEF LoopTyped, Written
  <2> QED BY <2>1, <2>2 DEF LoopTyped, Written
<1>3. CASE Judged
  <2>0. goal.checks + 1 \in Nat /\ genStep \in Nat BY DEF LoopTyped, GoalRecord
  <2>2. PICK pass \in BOOLEAN :
          goal' = [goal EXCEPT !.checks = goal.checks + 1, !.chkStep = genStep,
                               !.pass = pass,
                               !.feedback = ~pass /\ goal.checks + 1 < MaxChecks]
    BY <1>3 DEF Judged
  <2>3. (~pass /\ goal.checks + 1 < MaxChecks) \in BOOLEAN OBVIOUS
  <2>1. goal' \in GoalRecord BY <2>0, <2>2, <2>3 DEF LoopTyped, GoalRecord
  <2> QED BY <1>3, <2>1 DEF LoopTyped, Judged, Events
<1>4. CASE Passed
  <2>1. spent' \in 0..clock' BY <1>4 DEF LoopTyped, Passed
  <2> QED BY <1>4, <2>1 DEF LoopTyped, Passed, Events
<1> QED BY <1>1, <1>2, <1>3, <1>4 DEF Moved

\* The mailbox holds controls; the surroundings keep to their bound.
LEMMA MailTyped ==
  ASSUME LoopTyped, [Next]_vars
  PROVE  mail' \in Seq(Controls) /\ steps' \in 0..MaxSteps
<1>1. mail \in Seq(Controls) /\ steps \in 0..MaxSteps BY DEF LoopTyped
<1>2. steps' \in 0..MaxSteps
  <2>1. Spend => steps' \in 0..MaxSteps BY <1>1 DEF Spend
  <2>2. Free => steps' \in 0..MaxSteps BY <1>1 DEF Free
  <2>3. CASE Remote
    BY <2>1, <2>2, <2>3
       DEF Remote, GoalNext, LoopStep, Surprise, ApplyGoalControl, Reinject, GoalRecover,
           GoalResumeCheck, Generate, EndGeneration, IdleOrReturn, FollowUp, Wake, Restart,
           Message, Crash, Tick, Accept
  <2>4. CASE PollEvents \/ CallFails \/ Ceiling \/ Reopen
    BY <1>1, <2>1, <2>4 DEF PollEvents, CallFails, Ceiling, Reopen
  <2>5. CASE Click
    BY <2>1, <2>5 DEF Click, GoalAction, Accept
  <2>6. CASE UNCHANGED vars BY <1>1, <2>6 DEF vars, goalVars
  <2> QED BY <2>3, <2>4, <2>5, <2>6 DEF Next
<1>3. mail' \in Seq(Controls)
  <2>1. ASSUME NEW c \in Controls, Accept(c) PROVE mail' \in Seq(Controls)
    BY <1>1, <2>1, AppendProperties DEF Accept
  <2>2. CASE Remote
    <3>1. CASE ApplyGoalControl
      BY <1>1, <3>1, HeadTailProperties DEF ApplyGoalControl
    <3>2. CASE \E c \in Controls : Accept(c) BY <2>1, <3>2
    <3>3. CASE ~ApplyGoalControl /\ ~\E c \in Controls : Accept(c)
      <4>1. mail' = mail
        BY <2>2, <3>3
           DEF Remote, GoalNext, LoopStep, Surprise, Reinject, GoalRecover,
               GoalResumeCheck, Generate, EndGeneration, IdleOrReturn, FollowUp, Wake,
               Restart, Message, Crash, Tick, durable
      <4> QED BY <1>1, <4>1
    <3> QED BY <3>1, <3>2, <3>3
  <2>3. CASE PollEvents \/ CallFails \/ Ceiling \/ Reopen
    BY <1>1, <2>3 DEF PollEvents, CallFails, Ceiling, Reopen, Unheard, durable
  <2>4. CASE Click
    <3>0. PICK action \in {"pause", "resume", "cancel"} :
            \E ok \in BOOLEAN, gone \in BOOLEAN : GoalAction(action, ok, gone)
      BY <2>4 DEF Click
    <3>1. PICK ok \in BOOLEAN, gone \in BOOLEAN : GoalAction(action, ok, gone) BY <3>0
    <3>2. action \in Controls BY DEF Controls
    <3>3. CASE gone BY <1>1, <3>1, <3>3 DEF GoalAction, Unheard, durable
    <3>4. CASE ~gone BY <2>1, <3>1, <3>2, <3>4 DEF GoalAction
    <3> QED BY <3>3, <3>4
  <2>5. CASE UNCHANGED vars BY <1>1, <2>5 DEF vars, goalVars, durable
  <2> QED BY <2>2, <2>3, <2>4, <2>5 DEF Next
<1> QED BY <1>2, <1>3

\* A verdict is of a step that has begun; a goal that was stopped was missed.
LEMMA VerdictsHold ==
  ASSUME LoopTyped, Verdicts, Moved PROVE Verdicts'
<1> USE DEF Verdicts
<1>0. goal \in GoalRecord /\ genStep \in Nat BY DEF LoopTyped
<1>1. CASE Quiet BY <1>0, <1>1 DEF Quiet, GoalRecord
<1>2. CASE Passed BY <1>0, <1>2 DEF Passed, GoalRecord
<1>3. CASE Judged
  <2>1. genStep > 0 BY <1>0, <1>3 DEF Judged, Judgeable, GoalRecord
  <2> QED BY <1>0, <1>3, <2>1 DEF Judged, Judgeable, GoalRecord
<1>4. CASE \E type \in Events : Written(type) /\ Reason(type)
  <2>1. PICK type \in Events : Written(type) /\ Reason(type) BY <1>4
  <2>2. goal' = FoldEvent(goal, type) /\ genStep' = genStep BY <2>1 DEF Written
  <2>3. CASE type = "paused"
    <3>1. goal' = [goal EXCEPT !.paused = TRUE] BY <2>2, <2>3 DEF FoldEvent
    <3> QED BY <1>0, <2>2, <3>1 DEF GoalRecord
  <2>8. CASE type = "resumed"
    <3>1. goal' = [goal EXCEPT !.paused = FALSE] BY <2>2, <2>8 DEF FoldEvent
    <3> QED BY <1>0, <2>2, <3>1 DEF GoalRecord
  <2>4. CASE type = "updated"
    <3> DEFINE g1 == [goal EXCEPT !.exhausted = FALSE, !.chkStep = 0]
    <3>1. goal' = [goal EXCEPT !.exhausted = FALSE, !.chkStep = 0, !.pass = FALSE,
                               !.feedback = FALSE]
      BY <2>2, <2>4 DEF FoldEvent
    <3>2. goal' = [g1 EXCEPT !.pass = FALSE, !.feedback = FALSE] BY <3>1
    <3>3. g1 \in GoalRecord /\ g1.checks = goal.checks /\ g1.chkStep = 0 /\ ~g1.exhausted
      BY <1>0 DEF GoalRecord
    <3> HIDE DEF g1
    <3>4. goal'.checks = goal.checks /\ goal'.chkStep = 0 /\ ~goal'.exhausted /\ ~goal'.pass
      BY <3>2, <3>3 DEF GoalRecord
    <3> QED BY <1>0, <2>2, <3>4 DEF GoalRecord
  <2>5. CASE type = "exhausted"
    <3>1. goal.on /\ ~goal.pass BY <2>1, <2>5 DEF Reason, Owed, Asked
    <3> QED BY <1>0, <2>2, <2>5, <3>1 DEF FoldEvent, GoalRecord
  <2>6. CASE type \in {"attached", "cancelled", "achieved"}
    BY <1>0, <2>2, <2>6 DEF FoldEvent, NoGoal, GoalRecord
  <2>7. CASE type = "no_op" BY <1>0, <2>2, <2>7 DEF FoldEvent
  <2> QED BY <2>1, <2>3, <2>4, <2>5, <2>6, <2>7, <2>8 DEF Reason, Asked
<1> QED BY <1>1, <1>2, <1>3, <1>4 DEF Moved

\* deriveGoalState, event by event.
LEMMA DeriveIs ==
  ASSUME NEW G, G.phase # "none"
  PROVE  /\ Derive(G, "attached") =
              [NoState EXCEPT !.phase = "active", !.attachedAt = clock, !.since = clock]
         /\ Derive(G, "updated") =
              [G EXCEPT !.phase = "active", !.endedAt = -1,
                        !.since = IF IsGoalTerminal(G.phase) \/ G.since = -1
                                  THEN clock ELSE G.since]
         /\ Derive(G, "paused") =
              IF IsGoalTerminal(G.phase) THEN G
              ELSE [G EXCEPT !.phase = "paused", !.activeMs = Bank(G, clock),
                             !.since = -1]
         /\ Derive(G, "resumed") =
              IF IsGoalTerminal(G.phase) THEN G
              ELSE [G EXCEPT !.phase = "active",
                             !.since = IF G.since = -1 THEN clock ELSE G.since]
         /\ Derive(G, "cancelled") = [G EXCEPT !.phase = "cancelled", !.endedAt = clock]
         /\ Derive(G, "achieved") = [G EXCEPT !.phase = "achieved", !.endedAt = clock]
         /\ Derive(G, "exhausted") = [G EXCEPT !.phase = "stopped", !.endedAt = clock]
         /\ \A type \in {"none", "no_op", "checkpoint"} : Derive(G, type) = G
<1>1. Derive(G, "attached") =
        [NoState EXCEPT !.phase = "active", !.attachedAt = clock, !.since = clock]
  BY DEF Derive
<1>2. Derive(G, "updated") =
        [G EXCEPT !.phase = "active", !.endedAt = -1,
                  !.since = IF IsGoalTerminal(G.phase) \/ G.since = -1
                            THEN clock ELSE G.since]
  BY DEF Derive
<1>3. Derive(G, "paused") =
        IF IsGoalTerminal(G.phase) THEN G
        ELSE [G EXCEPT !.phase = "paused", !.activeMs = Bank(G, clock), !.since = -1]
  BY DEF Derive
<1>4. Derive(G, "resumed") =
        IF IsGoalTerminal(G.phase) THEN G
        ELSE [G EXCEPT !.phase = "active",
                       !.since = IF G.since = -1 THEN clock ELSE G.since]
  BY DEF Derive
<1>5. Derive(G, "cancelled") = [G EXCEPT !.phase = "cancelled", !.endedAt = clock]
  BY DEF Derive
<1>6. Derive(G, "achieved") = [G EXCEPT !.phase = "achieved", !.endedAt = clock]
  BY DEF Derive
<1>7. Derive(G, "exhausted") = [G EXCEPT !.phase = "stopped", !.endedAt = clock]
  BY DEF Derive
<1>8. Derive(G, "none") = G /\ Derive(G, "no_op") = G /\ Derive(G, "checkpoint") = G
  BY DEF Derive
<1> QED BY <1>1, <1>2, <1>3, <1>4, <1>5, <1>6, <1>7, <1>8

\* What the bar derives from an event keeps its type, and never forgets that
\* there was a goal.
LEMMA DeriveTypes ==
  ASSUME LoopTyped, full \in BarRecord, full.phase # "none", NEW type \in Events
  PROVE  Derive(full, type) \in BarRecord /\ Derive(full, type).phase # "none"
<1> DEFINE D == Derive(full, type)
<1>0. full.phase # "none" /\ full \in BarRecord OBVIOUS
<1>1. clock \in Int BY DEF LoopTyped
<1>2. Bank(full, clock) \in Int BY <1>1 DEF Bank, BarRecord
<1>4. CASE type = "attached"
  <2>1. D = [NoState EXCEPT !.phase = "active", !.attachedAt = clock, !.since = clock]
    BY <1>0, <1>4, DeriveIs, Zenon
  <2> DEFINE H == [NoState EXCEPT !.phase = "active", !.attachedAt = clock]
  <2>2. NoState \in BarRecord BY DEF NoState, BarRecord, Phases
  <2>3. H \in BarRecord /\ H.phase = "active" BY <1>1, <2>2 DEF BarRecord, Phases
  <2>4. D = [H EXCEPT !.since = clock] BY <2>1
  <2> HIDE DEF D, H
  <2>5. D \in BarRecord /\ D.phase = "active" BY <1>1, <2>3, <2>4 DEF BarRecord
  <2> QED BY <2>5 DEF D
<1>5. CASE type = "updated"
  <2> DEFINE s == IF IsGoalTerminal(full.phase) \/ full.since = -1 THEN clock ELSE full.since
  <2>1. D = [full EXCEPT !.phase = "active", !.endedAt = -1, !.since = s]
    BY <1>0, <1>5, DeriveIs
  <2>2. s \in Int BY <1>1 DEF BarRecord
  <2> DEFINE H == [full EXCEPT !.phase = "active", !.endedAt = -1]
  <2>3. H \in BarRecord /\ H.phase = "active"
    <3>1. -1 \in Int /\ "active" \in Phases BY DEF Phases
    <3> QED BY <1>0, <3>1 DEF BarRecord
  <2>4. D = [H EXCEPT !.since = s] BY <2>1
  <2> HIDE DEF s, D, H
  <2>5. D \in BarRecord /\ D.phase = "active" BY <2>2, <2>3, <2>4 DEF BarRecord
  <2> QED BY <2>5 DEF D
<1>12. CASE type \in {"paused", "resumed"} /\ IsGoalTerminal(full.phase)
  BY <1>0, <1>12, DeriveIs
<1>6. CASE type = "paused" /\ ~IsGoalTerminal(full.phase)
  <2>1. D = [full EXCEPT !.phase = "paused", !.activeMs = Bank(full, clock),
                      !.since = -1]
    BY <1>0, <1>6, DeriveIs
  <2> DEFINE H == [full EXCEPT !.phase = "paused", !.activeMs = Bank(full, clock)]
  <2>3. H \in BarRecord /\ H.phase = "paused" BY <1>2 DEF BarRecord, Phases
  <2>4. D = [H EXCEPT !.since = -1] BY <2>1
  <2> HIDE DEF D, H
  <2>5. D \in BarRecord /\ D.phase = "paused" BY <2>3, <2>4 DEF BarRecord
  <2> QED BY <2>5 DEF D
<1>7. CASE type = "resumed" /\ ~IsGoalTerminal(full.phase)
  <2>1. D = [full EXCEPT !.phase = "active",
                      !.since = IF full.since = -1 THEN clock ELSE full.since]
    BY <1>0, <1>7, DeriveIs
  <2>2. (IF full.since = -1 THEN clock ELSE full.since) \in Int
    BY <1>1 DEF BarRecord
  <2> QED BY <1>0, <1>1, <1>2, <2>1, <2>2 DEF BarRecord, Phases
<1>8. CASE type = "cancelled"
  <2>1. D = [full EXCEPT !.phase = "cancelled", !.endedAt = clock]
    BY <1>0, <1>8, DeriveIs
  <2> QED BY <1>0, <1>1, <1>2, <2>1 DEF BarRecord, Phases
<1>9. CASE type = "achieved"
  <2>1. D = [full EXCEPT !.phase = "achieved", !.endedAt = clock]
    BY <1>0, <1>9, DeriveIs
  <2> QED BY <1>0, <1>1, <1>2, <2>1 DEF BarRecord, Phases
<1>10. CASE type = "exhausted"
  <2>1. D = [full EXCEPT !.phase = "stopped", !.endedAt = clock]
    BY <1>0, <1>10, DeriveIs
  <2> QED BY <1>0, <1>1, <1>2, <2>1 DEF BarRecord, Phases
<1>11. CASE type \in {"none", "no_op", "checkpoint"} BY <1>0, <1>11, DeriveIs
<1> QED BY <1>4, <1>5, <1>6, <1>7, <1>8, <1>9, <1>10, <1>11, <1>12 DEF Events

\* The three states of the clock, as one fact about two records.
Fits(g, G, c, s) ==
  /\ Status(g) = "active" =>
       G.phase = "active" /\ G.since \in 0..c /\ G.activeMs + (c - G.since) = s
  /\ Status(g) = "paused" =>
       G.phase = "paused" /\ G.since = -1 /\ G.activeMs = s
  /\ Status(g) \in {"none", "exhausted"} =>
       IsGoalTerminal(G.phase) /\ Bank(G, G.endedAt) = s
LEMMA FitsIsClock == ClockFits <=> (plain => Fits(goal, full, clock, spent))
BY DEF ClockFits, Running, Resting, Settled, Fits

\* The status of a goal after each event.
LEMMA StatusAfter ==
  ASSUME NEW g \in GoalRecord
  PROVE  /\ Status(FoldEvent(g, "attached")) = "active"
         /\ Status(FoldEvent(g, "cancelled")) = "none"
         /\ Status(FoldEvent(g, "achieved")) = "none"
         /\ g.on => Status(FoldEvent(g, "exhausted")) = "exhausted"
         /\ Status(g) = "active" => Status(FoldEvent(g, "updated")) = "active"
         /\ g.on /\ ~g.exhausted => Status(FoldEvent(g, "paused")) = "paused"
         /\ g.on /\ ~g.exhausted => Status(FoldEvent(g, "resumed")) = "active"
         /\ g.exhausted /\ g.on =>
              /\ Status(FoldEvent(g, "paused")) = "exhausted"
              /\ Status(FoldEvent(g, "resumed")) = "exhausted"
<1>1. Status(FoldEvent(g, "attached")) = "active" BY DEF FoldEvent, NoGoal, Status
<1>2. Status(FoldEvent(g, "cancelled")) = "none" BY DEF FoldEvent, NoGoal, Status
<1>3. Status(FoldEvent(g, "achieved")) = "none" BY DEF FoldEvent, NoGoal, Status
<1>4. g.on => Status(FoldEvent(g, "exhausted")) = "exhausted"
  BY DEF FoldEvent, GoalRecord, Status
<1>5. Status(g) = "active" => Status(FoldEvent(g, "updated")) = "active"
  BY DEF FoldEvent, GoalRecord, Status
<1>6. g.on /\ ~g.exhausted => Status(FoldEvent(g, "paused")) = "paused"
  BY DEF FoldEvent, GoalRecord, Status
<1>7. g.on /\ ~g.exhausted => Status(FoldEvent(g, "resumed")) = "active"
  BY DEF FoldEvent, GoalRecord, Status
<1>8. g.exhausted /\ g.on => /\ Status(FoldEvent(g, "paused")) = "exhausted"
                             /\ Status(FoldEvent(g, "resumed")) = "exhausted"
  BY DEF FoldEvent, GoalRecord, Status
<1> QED BY <1>1, <1>2, <1>3, <1>4, <1>5, <1>6, <1>7, <1>8

\* What a status says of the goal.
LEMMA StatusMeans ==
  ASSUME NEW g \in GoalRecord
  PROVE  /\ Status(g) = "none" <=> ~g.on
         /\ Status(g) = "exhausted" <=> g.on /\ g.exhausted
         /\ Status(g) = "paused" <=> g.on /\ g.paused /\ ~g.exhausted
         /\ Status(g) = "active" <=> g.on /\ ~g.paused /\ ~g.exhausted
         /\ Status(g) \in {"none", "exhausted", "paused", "active"}
BY DEF Status, GoalRecord

\* A goal that ends has its running segment banked, once.
LEMMA EndingFits ==
  ASSUME LoopTyped, full \in BarRecord, Fits(goal, full, clock, spent),
         Status(goal) \in {"active", "paused"}, NEW p \in {"cancelled", "achieved", "stopped"},
         NEW D, D = [full EXCEPT !.phase = p, !.endedAt = clock]
  PROVE  IsGoalTerminal(D.phase) /\ Bank(D, D.endedAt) = spent
<1>1. D.phase = p /\ D.endedAt = clock /\ D.since = full.since /\ D.activeMs = full.activeMs
  BY DEF BarRecord
<1>2. full.since \in Int /\ full.activeMs \in Int /\ clock \in Nat /\ spent \in Int
  BY DEF BarRecord, LoopTyped
<1>3. CASE Status(goal) = "active"
  <2>1. full.since \in 0..clock /\ full.activeMs + (clock - full.since) = spent
    BY <1>3 DEF Fits
  <2> QED BY <1>1, <1>2, <2>1 DEF Bank, IsGoalTerminal
<1>4. CASE Status(goal) = "paused"
  <2>1. full.since = -1 /\ full.activeMs = spent BY <1>4 DEF Fits
  <2> QED BY <1>1, <1>2, <2>1 DEF Bank, IsGoalTerminal
<1> QED BY <1>3, <1>4

\* What an event of the journal does to the bar, it does to the goal.
LEMMA EventFits ==
  ASSUME LoopTyped, full \in BarRecord, full.phase # "none", Verdicts,
         Fits(goal, full, clock, spent),
         NEW type \in Events, Reason(type), type # "attached",
         type = "updated" => Status(goal) = "active",
         type \in {"exhausted", "cancelled"} => Status(goal) # "exhausted"
  PROVE  Fits(FoldEvent(goal, type), Derive(full, type), clock, spent)
<1> DEFINE D == Derive(full, type)
           g == FoldEvent(goal, type)
<1>1. full.since \in Int /\ full.activeMs \in Int /\ clock \in Nat /\ spent \in Int
  BY DEF BarRecord, LoopTyped
<1>2. goal \in GoalRecord /\ full \in BarRecord /\ full.phase # "none" BY DEF LoopTyped
<1>3. type = "achieved" => Status(goal) # "exhausted"
  <2>1. type = "achieved" => goal.pass BY DEF Reason, Asked, Owed
  <2> QED BY <1>2, <2>1, StatusMeans DEF Verdicts
<1>4. type # "no_op" => goal.on /\ Status(goal) # "none"
  <2>1. type # "no_op" => goal.on BY DEF Reason, Asked, Owed
  <2> QED BY <1>2, <2>1, StatusMeans
<1>5. CASE type = "no_op"
  <2>1. g = goal BY <1>5 DEF FoldEvent
  <2>2. D = full BY <1>2, <1>5, DeriveIs
  <2> QED BY <2>1, <2>2
<1>6. CASE type = "updated"
  <2>1. Status(goal) = "active" /\ Status(g) = "active" BY <1>2, <1>6, StatusAfter
  <2>2. full.phase = "active" /\ full.since \in 0..clock
          /\ full.activeMs + (clock - full.since) = spent
    BY <2>1 DEF Fits
  <2>3. ~(IsGoalTerminal(full.phase) \/ full.since = -1) BY <1>1, <2>2 DEF IsGoalTerminal
  <2>4. D = [full EXCEPT !.phase = "active", !.endedAt = -1, !.since = full.since]
    BY <1>2, <1>6, <2>3, DeriveIs
  <2>5. D.phase = "active" /\ D.since = full.since /\ D.activeMs = full.activeMs
    BY <1>2, <2>4 DEF BarRecord
  <2> HIDE DEF D, g
  <2>6. Fits(g, D, clock, spent) BY <2>1, <2>2, <2>5 DEF Fits
  <2> QED BY <2>6 DEF D, g
<1>7. CASE type \in {"paused", "resumed"} /\ goal.exhausted
  <2>1. Status(goal) = "exhausted" /\ Status(g) = "exhausted"
    BY <1>2, <1>4, <1>7, StatusMeans, StatusAfter
  <2>2. IsGoalTerminal(full.phase) BY <2>1 DEF Fits
  <2>3. D = full BY <1>2, <1>7, <2>2, DeriveIs
  <2> HIDE DEF D, g
  <2>4. Fits(g, D, clock, spent) BY <2>1, <2>3 DEF Fits
  <2> QED BY <2>4 DEF D, g
<1>8. CASE type \in {"paused", "resumed"} /\ ~goal.exhausted
  <2>1. Status(goal) \in {"active", "paused"} BY <1>2, <1>4, <1>8, StatusMeans
  <2>2. ~IsGoalTerminal(full.phase) BY <2>1 DEF Fits, IsGoalTerminal
  <2>3. CASE type = "paused"
    <3>1. D = [full EXCEPT !.phase = "paused", !.activeMs = Bank(full, clock), !.since = -1]
      BY <1>2, <2>2, <2>3, DeriveIs
    <3>2. D.phase = "paused" /\ D.since = -1 /\ D.activeMs = Bank(full, clock)
      BY <1>2, <3>1 DEF BarRecord
    <3>3. Bank(full, clock) = spent BY <1>1, <2>1 DEF Fits, Bank
    <3>4. Status(g) = "paused" BY <1>2, <1>4, <1>8, <2>3, StatusAfter
    <3> HIDE DEF D, g
    <3>5. Fits(g, D, clock, spent) BY <3>2, <3>3, <3>4 DEF Fits
    <3> QED BY <3>5 DEF D, g
  <2>4. CASE type = "resumed"
    <3>1. D = [full EXCEPT !.phase = "active",
                           !.since = IF full.since = -1 THEN clock ELSE full.since]
      BY <1>2, <2>2, <2>4, DeriveIs
    <3>2. D.phase = "active" /\ D.activeMs = full.activeMs
            /\ D.since = (IF full.since = -1 THEN clock ELSE full.since)
      BY <1>2, <3>1 DEF BarRecord
    <3>3. Status(g) = "active" BY <1>2, <1>4, <1>8, <2>4, StatusAfter
    <3> HIDE DEF D, g
    <3>4. Fits(g, D, clock, spent) BY <1>1, <2>1, <3>2, <3>3 DEF Fits
    <3> QED BY <3>4 DEF D, g
  <2> QED BY <1>8, <2>3, <2>4
<1>9. CASE type \in {"cancelled", "achieved", "exhausted"}
  <2>1. Status(goal) \in {"active", "paused"}
    BY <1>2, <1>3, <1>4, <1>9, StatusMeans
  <2>2. PICK p \in {"cancelled", "achieved", "stopped"} :
          D = [full EXCEPT !.phase = p, !.endedAt = clock]
    BY <1>2, <1>9, DeriveIs
  <2>3. Status(g) \in {"none", "exhausted"} BY <1>2, <1>4, <1>9, StatusAfter
  <2> HIDE DEF D, g
  <2>4. IsGoalTerminal(D.phase) /\ Bank(D, D.endedAt) = spent
    BY <2>1, <2>2, EndingFits
  <2>5. Fits(g, D, clock, spent) BY <2>3, <2>4 DEF Fits
  <2> QED BY <2>5 DEF D, g
<1> QED BY <1>5, <1>6, <1>7, <1>8, <1>9 DEF Reason, Asked

\* A step of the session keeps the bar's clock on the goal's.
LEMMA ClockHolds ==
  ASSUME LoopTyped, full \in BarRecord, full.phase # "none", Verdicts, ClockFits, Moved,
         full' = Derive(full, event'), plain \in BOOLEAN,
         plain' = (\/ event' = "attached"
                   \/ /\ plain
                      /\ event' = "updated" => Status(goal) = "active"
                      /\ event' \in {"exhausted", "cancelled"} =>
                           Status(goal) # "exhausted")
  PROVE  ClockFits'
<1> SUFFICES ASSUME plain' PROVE Fits(goal', full', clock', spent')
  BY DEF ClockFits, Running, Resting, Settled, Fits
<1>1. goal \in GoalRecord /\ clock \in Nat /\ spent \in Int
        /\ full.since \in Int /\ full.activeMs \in Int
  BY DEF LoopTyped, BarRecord
<1>2. event' # "attached" => plain /\ Fits(goal, full, clock, spent)
  BY FitsIsClock
<1>3. CASE Quiet
  <2>1. full' = full BY <1>3, DeriveIs DEF Quiet
  <2> QED BY <1>2, <1>3, <2>1 DEF Quiet
<1>4. CASE Passed
  <2>1. full' = full BY <1>4, DeriveIs DEF Passed
  <2>2. Fits(goal, full, clock, spent) BY <1>2, <1>4 DEF Passed
  <2>3. CASE Status(goal) = "active"
    BY <1>1, <1>4, <2>1, <2>2, <2>3 DEF Passed, Fits
  <2>4. CASE Status(goal) # "active"
    <3>1. spent' = spent /\ goal' = goal BY <1>1, <1>4, <2>4 DEF Passed
    <3> QED BY <2>1, <2>2, <2>4, <3>1 DEF Fits
  <2> QED BY <2>3, <2>4
<1>5. CASE Judged
  <2>1. full' = full BY <1>5, DeriveIs DEF Judged
  <2>2. Status(goal) = "active" BY <1>1, <1>5, StatusMeans DEF Judged, Judgeable
  <2>3. goal'.on = goal.on /\ goal'.paused = goal.paused /\ goal'.exhausted = goal.exhausted
    BY <1>1, <1>5 DEF Judged, GoalRecord
  <2>4. Status(goal') = "active" BY <2>2, <2>3 DEF Status
  <2>5. Fits(goal, full, clock, spent) BY <1>2, <1>5 DEF Judged
  <2>6. clock' = clock /\ spent' = spent BY <1>5 DEF Judged
  <2> QED BY <2>1, <2>2, <2>4, <2>5, <2>6 DEF Fits
<1>6. CASE \E type \in Events : Written(type) /\ Reason(type)
  <2>1. PICK type \in Events : Written(type) /\ Reason(type) BY <1>6
  <2>2. event' = type /\ goal' = FoldEvent(goal, type) /\ clock' = clock
          /\ full' = Derive(full, type)
    BY <2>1 DEF Written
  <2>3. CASE type = "attached"
    <3>1. Status(goal') = "active" BY <1>1, <2>2, <2>3, StatusAfter
    <3>2. spent' = 0 BY <2>1, <2>3 DEF Written
    <3>3. full' = [NoState EXCEPT !.phase = "active", !.attachedAt = clock, !.since = clock]
      BY <2>2, <2>3, DeriveIs
    <3>4. full'.phase = "active" /\ full'.since = clock /\ full'.activeMs = 0
      BY <3>3 DEF NoState
    <3> QED BY <1>1, <2>2, <3>1, <3>2, <3>4 DEF Fits
  <2>4. CASE type # "attached"
    <3>1. spent' = spent BY <2>1, <2>4 DEF Written
    <3>2. type = "updated" => Status(goal) = "active" BY <2>2, <2>4
    <3>3. type \in {"exhausted", "cancelled"} => Status(goal) # "exhausted" BY <2>2, <2>4
    <3>4. Fits(goal, full, clock, spent) BY <1>2, <2>2, <2>4
    <3>5. Fits(FoldEvent(goal, type), Derive(full, type), clock, spent)
      BY <2>1, <2>4, <3>2, <3>3, <3>4, EventFits
    <3> QED BY <2>2, <3>1, <3>5
  <2> QED BY <2>3, <2>4
<1> QED BY <1>3, <1>4, <1>5, <1>6 DEF Moved

\* The page's own variables: what it saw of the receipts, and what it told.
PageTyped ==
  /\ seenNoops \in 0..noops /\ base \in 0..noops /\ told \in Int
  /\ pendingAction \in {"none", "pause", "resume", "cancel"}
  /\ failing \in BOOLEAN /\ hydrated \in BOOLEAN
LEMMA PageHolds ==
  ASSUME noops \in Nat, PageTyped, NoopsToldOnce,
         PollEvents \/ Click \/ CallFails \/ Ceiling \/ Reopen
  PROVE  PageTyped' /\ NoopsToldOnce'
<1>1. seenNoops \in Nat /\ base \in Nat /\ noops \in Nat /\ seenNoops <= noops
  BY DEF PageTyped
<1>2. CASE PollEvents
  <2>1. noops' = noops /\ seenNoops' = noops /\ hydrated' = TRUE /\ failing' = failing
          /\ base' = (IF hydrated THEN base ELSE noops)
          /\ told' = (IF hydrated THEN told + (noops - seenNoops) ELSE 0)
    BY <1>2 DEF PollEvents, NewBase
  <2>2. pendingAction' = pendingAction \/ pendingAction' = "none" BY <1>2 DEF PollEvents
  <2>3. CASE hydrated BY <1>1, <2>1, <2>2, <2>3 DEF PageTyped, NoopsToldOnce
  <2>4. CASE ~hydrated BY <1>1, <2>1, <2>2, <2>4 DEF PageTyped, NoopsToldOnce
  <2> QED BY <2>3, <2>4
<1>3. CASE Click
  <2>1. PICK action \in {"pause", "resume", "cancel"} :
          \E ok \in BOOLEAN, gone \in BOOLEAN : GoalAction(action, ok, gone)
    BY <1>3 DEF Click
  <2>2. PICK ok \in BOOLEAN, gone \in BOOLEAN : GoalAction(action, ok, gone) BY <2>1
  <2>3. noops' = noops /\ seenNoops' = seenNoops /\ hydrated' = hydrated /\ base' = base
          /\ told' = told
    BY <2>2 DEF GoalAction
  <2>4. pendingAction' \in {"none", "pause", "resume", "cancel"} BY <2>2 DEF GoalAction
  <2>5. failing' \in BOOLEAN BY Zenon, <2>2 DEF GoalAction
  <2> QED BY <2>3, <2>4, <2>5 DEF PageTyped, NoopsToldOnce
<1>4. CASE CallFails \/ Ceiling
  <2>1. noops' = noops /\ seenNoops' = seenNoops /\ hydrated' = hydrated /\ base' = base
          /\ told' = told /\ pendingAction' = "none"
    BY <1>4 DEF CallFails, Ceiling
  <2>2. failing' \in BOOLEAN BY <1>4 DEF CallFails, Ceiling, PageTyped
  <2> QED BY <2>1, <2>2 DEF PageTyped, NoopsToldOnce
<1>5. CASE Reopen
  <2>1. noops' = noops /\ seenNoops' = 0 /\ base' = 0 /\ told' = 0
          /\ pendingAction' = "none"
    BY <1>5 DEF Reopen
  <2>2. failing' \in BOOLEAN /\ hydrated' \in BOOLEAN /\ ~hydrated' BY <1>5 DEF Reopen
  <2> QED BY <1>1, <2>1, <2>2 DEF PageTyped, NoopsToldOnce
<1> QED BY <1>2, <1>3, <1>4, <1>5

\* The parts together.
LEMMA BarTypedIs ==
  BarTyped <=> full \in BarRecord /\ noops \in Nat /\ PageTyped
                 /\ watched \in BOOLEAN /\ plain \in BOOLEAN
BY DEF BarTyped, PageTyped

LEMMA GoalStart == Init => GoalInv
<1> SUFFICES ASSUME Init PROVE GoalInv OBVIOUS
<1> USE DEF Init, GoalInit
<1>1. goal = [on |-> TRUE, paused |-> FALSE, exhausted |-> FALSE, checks |-> 0,
              chkStep |-> 0, pass |-> FALSE, feedback |-> FALSE]
  BY DEF FoldEvent, NoGoal
<1>6. full = [phase |-> "active", activeMs |-> 0, since |-> 0, attachedAt |-> 0,
              endedAt |-> -1]
  BY DEF NoState
<1>2. goal \in GoalRecord /\ goal.on /\ ~goal.paused /\ ~goal.exhausted /\ ~goal.pass
        /\ goal.chkStep = 0 /\ goal.checks = 0
  BY ONLY <1>1 DEF GoalRecord
<1>3. Status(goal) = "active" BY <1>2, StatusMeans
<1>4. steps \in 0..MaxSteps
  BY Zenon
<1>5. LoopTyped
  <2>1. mail \in Seq(Controls) BY Zenon, EmptySeq
  <2> QED BY <1>2, <1>4, <2>1 DEF LoopTyped, Events
<1>7. full \in BarRecord /\ full.phase = "active" /\ full.since = 0 /\ full.activeMs = 0
  BY ONLY <1>6 DEF BarRecord, Phases
<1>8. BarTyped
  <2>1. noops = 0 /\ seenNoops = 0 /\ base = 0 /\ told = 0 /\ pendingAction = "none"
    OBVIOUS
  <2>2. failing \in BOOLEAN /\ hydrated \in BOOLEAN /\ plain \in BOOLEAN /\ watched \in BOOLEAN
    BY Zenon
  <2> QED BY <1>7, <2>1, <2>2 DEF BarTyped
<1>9. Verdicts BY <1>2 DEF Verdicts
<1>10. ClockFits
  BY <1>3, <1>7 DEF ClockFits, Running, Resting, Settled
<1>11. NoopsToldOnce BY Zenon DEF NoopsToldOnce
<1> QED BY <1>5, <1>7, <1>8, <1>9, <1>10, <1>11 DEF GoalInv

LEMMA GoalStep == GoalInv /\ [Next]_vars => GoalInv'
<1> SUFFICES ASSUME GoalInv, [Next]_vars PROVE GoalInv' OBVIOUS
<1>1. LoopTyped /\ BarTyped /\ Verdicts /\ full.phase # "none" /\ ClockFits /\ NoopsToldOnce
  BY DEF GoalInv
<1>2. full \in BarRecord /\ noops \in Nat /\ PageTyped /\ watched \in BOOLEAN
        /\ plain \in BOOLEAN
  BY <1>1, BarTypedIs
<1>3. CASE UNCHANGED vars
  BY <1>1, <1>3 DEF vars, goalVars, barVars, durable, process, GoalInv, LoopTyped, BarTyped,
     Verdicts, ClockFits, Running, Resting, Settled, NoopsToldOnce
<1>4. mail' \in Seq(Controls) /\ steps' \in 0..MaxSteps BY <1>1, MailTyped
<1>5. ASSUME Moved PROVE LoopTyped' /\ Verdicts'
  BY <1>1, <1>4, <1>5, GoalTyped, VerdictsHold DEF LoopTyped
<1>6. CASE Remote
  <2>1. Moved /\ event' \in Events BY <1>1, <1>6, GoalMoves, GoalTyped DEF Remote
  <2>2. full' = Derive(full, event') BY <1>6 DEF Remote
  <2>3. full' \in BarRecord /\ full'.phase # "none" BY <1>1, <1>2, <2>1, <2>2, DeriveTypes
  <2>4. plain' \in BOOLEAN BY Zenon, <1>6 DEF Remote
  <2>5. ClockFits' BY <1>1, <1>2, <1>6, <2>1, <2>2, ClockHolds DEF Remote
  <2>6. seenNoops' = seenNoops /\ hydrated' = hydrated /\ base' = base /\ told' = told
          /\ pendingAction' = pendingAction /\ failing' = failing /\ watched' = watched
          /\ noops' = noops + (IF event' = "no_op" THEN 1 ELSE 0)
    BY <1>6 DEF Remote
  <2>7. noops' \in Nat /\ noops <= noops' BY <1>2, <2>6
  <2>8. PageTyped' BY <1>2, <2>6, <2>7 DEF PageTyped
  <2>9. BarTyped' BY <1>2, <2>3, <2>4, <2>6, <2>7, <2>8, BarTypedIs DEF BarTyped, PageTyped
  <2>10. NoopsToldOnce' BY <1>1, <2>6 DEF NoopsToldOnce
  <2> QED BY <1>5, <2>1, <2>3, <2>5, <2>9, <2>10 DEF GoalInv
<1>7. CASE PollEvents \/ Click \/ CallFails \/ Ceiling \/ Reopen
  <2>1. Quiet /\ full' = full /\ noops' = noops /\ plain' = plain /\ watched' = watched
    BY <1>7, PageMoves
  <2>2. LoopTyped' /\ Verdicts' BY <1>5, <2>1 DEF Moved
  <2>3. PageTyped' /\ NoopsToldOnce' BY <1>1, <1>2, <1>7, PageHolds
  <2>4. BarTyped' BY <1>2, <2>1, <2>3 DEF BarTyped, PageTyped
  <2>5. ClockFits'
    BY <1>1, <2>1 DEF Quiet, ClockFits, Running, Resting, Settled
  <2> QED BY <1>1, <2>1, <2>2, <2>3, <2>4, <2>5 DEF GoalInv
<1> QED BY <1>3, <1>6, <1>7 DEF Next

\* The type invariant, and what the bar tells.
LEMMA GoalTypes == GoalInv => TypeOK
<1> SUFFICES ASSUME GoalInv PROVE TypeOK OBVIOUS
<1>1. LoopTyped /\ BarTyped /\ Verdicts BY DEF GoalInv
<1>2. Status(goal) \in {"none", "active", "paused", "exhausted"}
  BY <1>1, StatusMeans DEF LoopTyped
<1>3. ToSet(mail) \subseteq Controls
  <2>1. \A i \in DOMAIN mail : mail[i] \in Controls
    BY <1>1, ElementOfSeq, LenProperties DEF LoopTyped
  <2> QED BY <2>1 DEF ToSet
<1> QED BY <1>1, <1>2, <1>3 DEF TypeOK, LoopTyped, BarTyped, Verdicts

LEMMA BarReads == GoalInv => BarIsExact
<1> SUFFICES ASSUME GoalInv, plain PROVE Reading(Close(full), clock) = spent
  BY DEF GoalInv, BarIsExact, ReadingExact
<1>1. full \in BarRecord /\ goal \in GoalRecord /\ clock \in Nat /\ spent \in Int
  BY DEF GoalInv, LoopTyped, BarTyped
<1>2. full.since \in Int /\ full.activeMs \in Int BY <1>1 DEF BarRecord
<1>3. Running /\ Resting /\ Settled BY DEF GoalInv, ClockFits
<1>4. CASE Status(goal) = "active"
  <2>1. Close(full) = full BY <1>3, <1>4 DEF Running, Close, IsGoalTerminal
  <2> QED BY <1>1, <1>2, <1>3, <1>4, <2>1 DEF Running, Reading
<1>5. CASE Status(goal) = "paused"
  <2>1. Close(full) = full BY <1>3, <1>5 DEF Resting, Close, IsGoalTerminal
  <2> QED BY <1>1, <1>2, <1>3, <1>5, <2>1 DEF Resting, Reading
<1>6. CASE Status(goal) \in {"none", "exhausted"}
  <2>1. Close(full) = [full EXCEPT !.activeMs = Bank(full, full.endedAt), !.since = -1]
    BY <1>3, <1>6 DEF Settled, Close
  <2>2. Close(full).activeMs = Bank(full, full.endedAt) /\ Close(full).since = -1
    BY <1>1, <2>1 DEF BarRecord
  <2> QED BY <1>1, <1>3, <1>6, <2>2 DEF Settled, Reading
<1> QED BY <1>1, <1>4, <1>5, <1>6, StatusMeans

\* What a step may append, by what the goal holds.
LEMMA GoalSound ==
  ASSUME GoalInv, Next PROVE OneVerdictPerStep /\ OutcomeFollowsVerdict
<1>1. LoopTyped /\ Verdicts BY DEF GoalInv
<1>2. Moved
  <2>1. CASE Remote BY <1>1, <2>1, GoalMoves DEF Remote
  <2>2. CASE PollEvents \/ Click \/ CallFails \/ Ceiling \/ Reopen
    BY <2>2, PageMoves DEF Moved
  <2> QED BY <2>1, <2>2 DEF Next
<1>3. CASE Quiet \/ Passed
  BY <1>3 DEF Quiet, Passed, OneVerdictPerStep, OutcomeFollowsVerdict
<1>4. CASE Judged
  BY <1>4 DEF Judged, Judgeable, OneVerdictPerStep, OutcomeFollowsVerdict
<1>5. CASE \E type \in Events : Written(type) /\ Reason(type)
  <2>1. PICK type \in Events : event' = type /\ Reason(type) BY <1>5 DEF Written
  <2>2. type # "checkpoint" BY <2>1 DEF Reason, Asked
  <2>3. ASSUME type \in {"achieved", "exhausted"}
        PROVE  /\ goal.chkStep = genStep /\ genStep > 0
               /\ goal.pass = (type = "achieved")
               /\ goal.pass \/ goal.checks >= MaxChecks
    <3>1. Owed = type BY <2>1, <2>3 DEF Reason, Asked
    <3>2. goal \in GoalRecord /\ genStep \in Nat BY <1>1 DEF LoopTyped
    <3>3. goal.chkStep = genStep BY <2>3, <3>1 DEF Owed
    <3>4. CASE type = "achieved"
      <4>1. goal.pass BY <3>1, <3>4 DEF Owed
      <4>2. goal.pass = TRUE BY <3>2, <4>1 DEF GoalRecord
      <4> QED BY <1>1, <3>2, <3>3, <3>4, <4>1, <4>2 DEF Verdicts
    <3>5. CASE type = "exhausted"
      <4>1. ~goal.pass /\ goal.checks >= MaxChecks BY <3>1, <3>5 DEF Owed
      <4>2. goal.pass = FALSE BY <3>2, <4>1 DEF GoalRecord
      <4>3. goal.checks > 0 BY <3>2, <4>1 DEF GoalRecord
      <4> QED BY <1>1, <3>2, <3>3, <3>5, <4>1, <4>2, <4>3 DEF Verdicts
    <3> QED BY <2>3, <3>4, <3>5
  <2> QED BY <2>1, <2>2, <2>3 DEF OneVerdictPerStep, OutcomeFollowsVerdict
<1> QED BY <1>2, <1>3, <1>4, <1>5 DEF Moved

-----------------------------------------------------------------------------
(* Batches of facts: what a tail, a concatenation and a list of timers hold. *)

LEMMA TailFacts ==
  ASSUME NEW b \in Seq(FactRecord), b # <<>>
  PROVE  /\ Tail(b) \in Seq(FactRecord) /\ Head(b) \in FactRecord
         /\ 1 \in DOMAIN b /\ b[1] = Head(b)
         /\ \A i \in DOMAIN Tail(b) : i + 1 \in DOMAIN b /\ Tail(b)[i] = b[i + 1]
         /\ \A i \in DOMAIN b : i # 1 => i - 1 \in DOMAIN Tail(b)
         /\ DOMAIN b \subseteq Nat \ {0} /\ DOMAIN Tail(b) \subseteq Nat \ {0}
         /\ Facts(b) = {Head(b)} \cup Facts(Tail(b))
<1>1. Tail(b) \in Seq(FactRecord) /\ Head(b) \in FactRecord /\ Head(b) = b[1]
        /\ Len(Tail(b)) = Len(b) - 1 /\ \A i \in 1..Len(Tail(b)) : Tail(b)[i] = b[i + 1]
  BY HeadTailProperties
<1>2. Len(b) \in Nat \ {0} /\ DOMAIN b = 1..Len(b) BY EmptySeq, LenProperties
<1>3. DOMAIN Tail(b) = 1..(Len(b) - 1) BY <1>1, LenProperties
<1>4. 1 \in DOMAIN b BY <1>2
<1>5. \A i \in DOMAIN Tail(b) : i + 1 \in DOMAIN b /\ Tail(b)[i] = b[i + 1]
  BY <1>1, <1>2, <1>3
<1>6. \A i \in DOMAIN b : i # 1 => i - 1 \in DOMAIN Tail(b) BY <1>2, <1>3
<1>7. DOMAIN b \subseteq Nat \ {0} /\ DOMAIN Tail(b) \subseteq Nat \ {0} BY <1>2, <1>3
<1>8. ASSUME NEW f \in Facts(b) PROVE f \in {Head(b)} \cup Facts(Tail(b))
  <2>1. PICK i \in DOMAIN b : f = b[i] BY DEF Facts
  <2>2. CASE i = 1 BY <1>1, <2>1, <2>2
  <2>3. CASE i # 1
    <3>1. i - 1 \in DOMAIN Tail(b) BY <1>6, <2>3
    <3>2. Tail(b)[i - 1] = b[i] BY <1>2, <1>5, <2>1, <3>1
    <3> QED BY <2>1, <3>1, <3>2 DEF Facts
  <2> QED BY <2>2, <2>3
<1>9. Head(b) \in Facts(b) BY <1>1, <1>4 DEF Facts
<1>10. Facts(Tail(b)) \subseteq Facts(b) BY <1>5 DEF Facts
<1> QED BY <1>1, <1>4, <1>5, <1>6, <1>7, <1>8, <1>9, <1>10

LEMMA ConcatFacts ==
  ASSUME NEW a \in Seq(FactRecord), NEW b \in Seq(FactRecord)
  PROVE  /\ a \o b \in Seq(FactRecord)
         /\ DOMAIN a = 1..Len(a) /\ DOMAIN b = 1..Len(b)
         /\ DOMAIN (a \o b) = 1..(Len(a) + Len(b))
         /\ Len(a) \in Nat /\ Len(b) \in Nat
         /\ \A i \in DOMAIN a : (a \o b)[i] = a[i]
         /\ \A i \in DOMAIN b : (a \o b)[Len(a) + i] = b[i]
         /\ \A i \in DOMAIN (a \o b) : i \in DOMAIN a \/ i - Len(a) \in DOMAIN b
         /\ Facts(a \o b) = Facts(a) \cup Facts(b)
<1>1. a \o b \in Seq(FactRecord) /\ Len(a \o b) = Len(a) + Len(b)
        /\ \A i \in 1..(Len(a) + Len(b)) :
             (a \o b)[i] = IF i <= Len(a) THEN a[i] ELSE b[i - Len(a)]
  BY ConcatProperties
<1>2. DOMAIN a = 1..Len(a) /\ DOMAIN b = 1..Len(b) /\ Len(a) \in Nat /\ Len(b) \in Nat
        /\ DOMAIN (a \o b) = 1..(Len(a) + Len(b))
  BY <1>1, LenProperties
<1>3. \A i \in DOMAIN a : i \in DOMAIN (a \o b) /\ (a \o b)[i] = a[i]
  BY <1>1, <1>2
<1>4. \A i \in DOMAIN b : Len(a) + i \in DOMAIN (a \o b) /\ (a \o b)[Len(a) + i] = b[i]
  BY <1>1, <1>2
<1>5. \A i \in DOMAIN (a \o b) :
        i \in DOMAIN a \/ (i - Len(a) \in DOMAIN b /\ i = Len(a) + (i - Len(a)))
  BY <1>2
<1>6. Facts(a \o b) \subseteq Facts(a) \cup Facts(b)
  <2>1. SUFFICES ASSUME NEW i \in DOMAIN (a \o b)
                 PROVE  (a \o b)[i] \in Facts(a) \cup Facts(b)
    BY DEF Facts
  <2>2. CASE i \in DOMAIN a BY <1>3, <2>2 DEF Facts
  <2>3. CASE i - Len(a) \in DOMAIN b /\ i = Len(a) + (i - Len(a))
    BY <1>4, <2>3 DEF Facts
  <2> QED BY <1>5, <2>2, <2>3
<1>7. Facts(a) \cup Facts(b) \subseteq Facts(a \o b) BY <1>3, <1>4 DEF Facts
<1> QED BY <1>1, <1>2, <1>3, <1>4, <1>5, <1>6, <1>7

LEMMA OneFact ==
  ASSUME NEW f \in FactRecord
  PROVE  <<f>> \in Seq(FactRecord) /\ Facts(<<f>>) = {f} /\ <<f>> # <<>>
         /\ DOMAIN <<f>> = {1} /\ <<f>>[1] = f /\ Len(<<f>>) = 1
<1>1. <<f>> \in Seq(FactRecord) /\ Len(<<f>>) = 1 /\ <<f>>[1] = f OBVIOUS
<1>2. DOMAIN <<f>> = {1} OBVIOUS
<1>3. <<f>> # <<>> BY <1>1, EmptySeq
<1> QED BY <1>1, <1>2, <1>3 DEF Facts

LEMMA NoFacts ==
  <<>> \in Seq(FactRecord) /\ Facts(<<>>) = {} /\ DOMAIN <<>> = {}
<1>1. <<>> \in Seq(FactRecord) BY EmptySeq
<1>2. DOMAIN <<>> = {} BY EmptySeq, LenProperties
<1> QED BY <1>1, <1>2 DEF Facts

LEMMA FactsEmpty ==
  ASSUME NEW b \in Seq(FactRecord)
  PROVE  b = <<>> <=> Facts(b) = {}
<1>1. b # <<>> => 1 \in DOMAIN b BY TailFacts
<1> QED BY <1>1, NoFacts DEF Facts

USE ScheduleAssumption

\* The records of facts, field by field.
LEMMA FactIs ==
  ASSUME NEW type \in FactTypes
  PROVE  /\ Fact(type) \in FactRecord /\ Fact(type).type = type
         /\ Fact(type).id = 0 /\ Fact(type).at = 0
         /\ ~Fact(type).skipped /\ ~Fact(type).cmd
<1>1. Fact(type) = [type |-> type, id |-> 0, at |-> 0, skipped |-> FALSE, cmd |-> FALSE]
  BY DEF Fact
<1> QED BY <1>1 DEF FactRecord

LEMMA TimedIs ==
  ASSUME NEW type \in FactTypes, NEW id \in 0..MaxMoves, NEW at \in 0..(MaxTime + Every)
  PROVE  /\ Timed(type, id, at) \in FactRecord
         /\ Timed(type, id, at).type = type
         /\ Timed(type, id, at).id = id
         /\ Timed(type, id, at).at = at
         /\ ~Timed(type, id, at).skipped /\ ~Timed(type, id, at).cmd
<1> DEFINE f == Fact(type)
           g == [f EXCEPT !.id = id]
<1>1. f \in FactRecord /\ f.type = type /\ ~f.skipped /\ ~f.cmd BY FactIs
<1>2. Timed(type, id, at) = [g EXCEPT !.at = at] BY DEF Timed
<1> HIDE DEF f
<1>3. g \in FactRecord /\ g.type = type /\ g.id = id /\ ~g.skipped /\ ~g.cmd
  BY <1>1 DEF FactRecord
<1> HIDE DEF g
<1> QED BY <1>2, <1>3 DEF FactRecord

LEMMA OfCommandIs ==
  ASSUME NEW f \in FactRecord
  PROVE  /\ OfCommand(f) \in FactRecord /\ OfCommand(f).type = f.type
         /\ OfCommand(f).id = f.id /\ OfCommand(f).at = f.at
         /\ OfCommand(f).skipped = f.skipped /\ OfCommand(f).cmd
BY DEF OfCommand, FactRecord

LEMMA TimedTimer ==
  ASSUME NEW t \in TimerRecord, NEW type \in FactTypes
  PROVE  /\ Timed(type, t.id, t.at) \in FactRecord
         /\ Timed(type, t.id, t.at).type = type
         /\ Timed(type, t.id, t.at).id = t.id
         /\ Timed(type, t.id, t.at).at = t.at
         /\ ~Timed(type, t.id, t.at).skipped /\ ~Timed(type, t.id, t.at).cmd
<1>1. t.id \in 0..MaxMoves /\ t.at \in 0..(MaxTime + Every) BY DEF TimerRecord
<1> QED BY <1>1, TimedIs

\* A list of timers has one fact for each.
LEMMA TimersListed ==
  ASSUME NEW T \in SUBSET TimerRecord, IsFiniteSet(T), NEW type \in FactTypes
  PROVE  /\ OnTimers(type, T) \in Seq(FactRecord)
         /\ Facts(OnTimers(type, T)) = {Timed(type, t.id, t.at) : t \in T}
<1> DEFINE s == SetToSeq(T)
           n == Cardinality(T)
<1>1. n \in Nat /\ ExistsBijection(1..n, T) BY FS_CardinalityType
<1>2. \E f \in [1..n -> T] : IsInjective(f)
  <2>1. PICK f : f \in Bijection(1..n, T) BY <1>1 DEF ExistsBijection
  <2> QED BY <2>1 DEF Bijection, Injection
<1>3. s \in [1..n -> T] /\ IsInjective(s) BY <1>2 DEF SetToSeq
<1>4. s \in Surjection(1..n, T)
  <2>1. s \in Injection(1..n, T) BY <1>3 DEF Injection
  <2>2. IsFiniteSet(1..n) /\ Cardinality(1..n) = n BY <1>1, FS_Interval
  <2> QED BY <2>1, <2>2, FS_Injection
<1>5. \A t \in T : \E i \in 1..n : s[i] = t BY <1>4 DEF Surjection
<1> HIDE DEF s, n
<1>6. OnTimers(type, T) = [i \in 1..n |-> Timed(type, s[i].id, s[i].at)]
  <2>1. DOMAIN s = 1..n BY <1>3
  <2> QED BY <2>1 DEF OnTimers, s
<1>7. \A i \in 1..n : Timed(type, s[i].id, s[i].at) \in FactRecord
  BY <1>3, TimedTimer
<1>8. OnTimers(type, T) \in Seq(FactRecord)
  BY <1>1, <1>6, <1>7, IsASeq
<1>9. Facts(OnTimers(type, T)) = {Timed(type, s[i].id, s[i].at) : i \in 1..n}
  BY <1>6 DEF Facts
<1> QED BY <1>3, <1>5, <1>8, <1>9

-----------------------------------------------------------------------------
(* One append: what is in hand becomes what the fold holds.                  *)

\* The head of the batch, the batch left, and the positions of the one in the
\* other.
LEMMA AppendTakes ==
  ASSUME ScheduleInv, AppendFact
  PROVE  LET f == Head(todo) IN
         /\ todo \in Seq(FactRecord) /\ todo # <<>> /\ todo' = Tail(todo)
         /\ f \in FactRecord /\ f \in Ahead /\ Sound(f)
         /\ Ahead = {f} \cup Ahead' /\ Ahead' \subseteq Ahead
         /\ sch' = FoldSch(f) /\ timers' = FoldTimers(f)
         /\ host' = host /\ lost' = lost /\ now' = now /\ moves' = moves
         /\ resumed' = resumed /\ results' = results
<1>1. todo \in Seq(FactRecord) BY DEF ScheduleInv, HostTyped
<1>2. todo # <<>> /\ todo' = Tail(todo) BY DEF AppendFact
<1>3. Head(todo) \in FactRecord /\ Facts(todo) = {Head(todo)} \cup Facts(Tail(todo))
  BY <1>1, <1>2, TailFacts
<1>4. Ahead = {Head(todo)} \cup Ahead' BY <1>2, <1>3 DEF Ahead
<1>5. Sound(Head(todo)) BY <1>4 DEF ScheduleInv, FactsSound
<1> QED BY <1>1, <1>2, <1>3, <1>4, <1>5 DEF AppendFact

\* FoldSch, field by field.
LEMMA FoldSchIs ==
  ASSUME sch \in SchRecord, NEW f \in FactRecord, Sound(f)
  PROVE  /\ FoldSch(f) \in SchRecord
         /\ f.type = "attached" =>
              /\ FoldSch(f).on /\ ~FoldSch(f).paused /\ FoldSch(f).last = f.at
              /\ FoldSch(f).wakes = 0
         /\ f.type = "paused" =>
              /\ FoldSch(f).paused /\ FoldSch(f).on = sch.on
              /\ FoldSch(f).last = sch.last /\ FoldSch(f).wakes = sch.wakes
         /\ f.type = "resumed" =>
              /\ ~FoldSch(f).paused /\ FoldSch(f).on = sch.on
              /\ FoldSch(f).last = f.at /\ FoldSch(f).wakes = sch.wakes
         /\ f.type = "wake" =>
              /\ FoldSch(f).on = sch.on /\ FoldSch(f).paused = sch.paused
              /\ FoldSch(f).id = sch.id /\ FoldSch(f).last = f.at
              /\ FoldSch(f).wakes = sch.wakes + (IF f.skipped THEN 0 ELSE 1)
         /\ f.type = "detached" => ~FoldSch(f).on /\ FoldSch(f).wakes = 0
         /\ f.type \notin {"attached", "paused", "resumed", "wake", "detached"} =>
              FoldSch(f) = sch
<1>0. sch.wakes \in Nat /\ MaxTime \in Nat /\ MaxMoves \in Nat
  BY DEF SchRecord
<1>1. NoSch \in SchRecord /\ ~NoSch.on /\ ~NoSch.paused /\ NoSch.wakes = 0
        /\ NoSch.last = 0 /\ NoSch.id = 0
  BY DEF NoSch, SchRecord
<1>2. CASE f.type = "attached"
  <2> DEFINE g == [NoSch EXCEPT !.on = TRUE, !.id = f.id]
  <2>1. FoldSch(f) = [g EXCEPT !.last = f.at] BY <1>2 DEF FoldSch
  <2>2. f.id \in 0..MaxMoves /\ f.at \in 0..MaxTime BY <1>2 DEF FactRecord, Sound
  <2>3. g \in SchRecord /\ g.on /\ ~g.paused /\ g.wakes = 0
    BY <1>1, <2>2 DEF SchRecord
  <2> HIDE DEF g
  <2>4. [g EXCEPT !.last = f.at] \in SchRecord /\ [g EXCEPT !.last = f.at].on
          /\ ~[g EXCEPT !.last = f.at].paused /\ [g EXCEPT !.last = f.at].last = f.at
          /\ [g EXCEPT !.last = f.at].wakes = 0
    BY <2>2, <2>3 DEF SchRecord
  <2> QED BY <1>2, <2>1, <2>4
<1>3. CASE f.type = "paused"
  <2>1. FoldSch(f) = [sch EXCEPT !.paused = TRUE] BY <1>3 DEF FoldSch
  <2> QED BY <1>3, <2>1 DEF SchRecord
<1>4. CASE f.type = "resumed"
  <2>1. FoldSch(f) = [sch EXCEPT !.paused = FALSE, !.last = f.at] BY <1>4 DEF FoldSch
  <2>2. f.at \in 0..MaxTime BY <1>4 DEF Sound
  <2> QED BY <1>4, <2>1, <2>2 DEF SchRecord
<1>5. CASE f.type = "wake"
  <2> DEFINE w == sch.wakes + (IF f.skipped THEN 0 ELSE 1)
  <2>1. FoldSch(f) = [sch EXCEPT !.last = f.at, !.wakes = w] BY <1>5 DEF FoldSch
  <2>2. f.at \in 0..MaxTime /\ w \in Nat BY <1>0, <1>5 DEF Sound
  <2> HIDE DEF w
  <2>3. /\ FoldSch(f) \in SchRecord
        /\ FoldSch(f).on = sch.on /\ FoldSch(f).paused = sch.paused
        /\ FoldSch(f).id = sch.id /\ FoldSch(f).last = f.at /\ FoldSch(f).wakes = w
    BY <2>1, <2>2 DEF SchRecord
  <2> QED BY <1>5, <2>3 DEF w
<1>6. CASE f.type = "detached"
  <2>1. FoldSch(f) = NoSch BY <1>6 DEF FoldSch
  <2> QED BY <1>1, <1>6, <2>1
<1>7. CASE f.type \notin {"attached", "paused", "resumed", "wake", "detached"}
  <2>1. FoldSch(f) = sch BY <1>7 DEF FoldSch
  <2> QED BY <1>7, <2>1
<1> QED BY <1>2, <1>3, <1>4, <1>5, <1>6, <1>7

\* FoldTimers, on its three kinds of facts.
LEMMA FoldTimersIs ==
  ASSUME NEW f \in FactRecord
  PROVE  /\ f.type = "set" => FoldTimers(f) = timers \cup {[id |-> f.id, at |-> f.at]}
         /\ f.type \in {"fired", "cancelled"} =>
              FoldTimers(f) = timers \ {[id |-> f.id, at |-> f.at]}
         /\ f.type \notin {"set", "fired", "cancelled"} => FoldTimers(f) = timers
BY DEF FoldTimers

LEMMA AppendTyped ==
  ASSUME ScheduleInv, AppendFact PROVE FoldTyped' /\ HostTyped' /\ FactsSound'
<1> DEFINE f == Head(todo)
<1>1. todo # <<>> /\ todo \in Seq(FactRecord) /\ f \in FactRecord /\ Sound(f) /\ f \in Ahead
        /\ sch' = FoldSch(f) /\ timers' = FoldTimers(f) /\ Ahead' \subseteq Ahead
        /\ host' = host /\ lost' = lost /\ now' = now /\ moves' = moves
        /\ resumed' = resumed /\ results' = results /\ todo' = Tail(todo)
  BY AppendTakes
<1>2. FoldTyped /\ HostTyped /\ FactsSound /\ OneSettles /\ OnePrompt BY DEF ScheduleInv
<1>3. sch' \in SchRecord BY <1>1, <1>2, FoldSchIs DEF FoldTyped
<1>4. timers' \subseteq TimerRecord /\ IsFiniteSet(timers')
  <2> DEFINE r == [id |-> f.id, at |-> f.at]
  <2>1. timers \subseteq TimerRecord /\ IsFiniteSet(timers) BY <1>2 DEF FoldTyped
  <2>2. CASE f.type = "set"
    <3>1. r \in TimerRecord
      BY <1>1, <2>2 DEF Sound, FactRecord, TimerRecord
    <3>2. timers' = timers \cup {r} BY <1>1, <2>2, FoldTimersIs
    <3>3. IsFiniteSet(timers \cup {r}) BY <2>1, FS_AddElement
    <3> QED BY <2>1, <3>1, <3>2, <3>3
  <2>3. CASE f.type \in {"fired", "cancelled"}
    <3>2. timers' = timers \ {r} BY <1>1, <2>3, FoldTimersIs
    <3>3. IsFiniteSet(timers \ {r}) BY <2>1, FS_RemoveElement
    <3> QED BY <2>1, <3>2, <3>3
  <2>4. CASE f.type \notin {"set", "fired", "cancelled"}
    BY <1>1, <2>1, <2>4, FoldTimersIs
  <2> QED BY <2>2, <2>3, <2>4
<1>5. waiting' \in BOOLEAN /\ closed' \in BOOLEAN /\ sealed' \in BOOLEAN
        /\ unanswered' \in BOOLEAN /\ turn' \in BOOLEAN /\ closing' \in BOOLEAN
        /\ sent' \in BOOLEAN
  BY Zenon DEF AppendFact
<1>6. commands' \in Seq(CommandRecord)
  <2>1. commands \in Seq(CommandRecord) BY <1>2 DEF HostTyped
  <2>2. CASE f.cmd
    <3>1. commands # <<>>
      <4>1. 1 \in Settling(todo) BY <1>1, <2>2, TailFacts DEF Settling
      <4> QED BY <1>2, <4>1 DEF OneSettles
    <3>2. commands' = Tail(commands) BY <2>2 DEF AppendFact
    <3> QED BY <2>1, <3>1, <3>2, HeadTailProperties
  <2>3. CASE ~f.cmd
    <3>1. commands' = commands BY <2>3 DEF AppendFact
    <3> QED BY <2>1, <3>1
  <2> QED BY <2>2, <2>3
<1>7. asked' \in 0..MaxTime
  BY <1>1, <1>2 DEF AppendFact, Sound, HostTyped
<1>8. prompts' \in 0..1
  <2>1. CASE f.type = "prompt"
    <3>1. 1 \in Prompting(todo) BY <1>1, <2>1, TailFacts DEF Prompting
    <3>2. prompts = 0 BY <1>2, <3>1 DEF OnePrompt
    <3> QED BY <2>1, <3>2 DEF AppendFact
  <2>2. CASE f.type # "prompt"
    <3>1. prompts' = prompts + 0 BY <2>2 DEF AppendFact
    <3> QED BY <1>2, <3>1 DEF HostTyped
  <2> QED BY <2>1, <2>2
<1>9. todo' \in Seq(FactRecord) BY <1>1, TailFacts
<1>10. FactsSound' BY <1>1, <1>2 DEF FactsSound, Sound
<1>11. FoldTyped' BY <1>3, <1>4, <1>5 DEF FoldTyped
<1>12. HostTyped' BY <1>1, <1>2, <1>5, <1>6, <1>7, <1>8, <1>9 DEF HostTyped
<1> QED BY <1>10, <1>11, <1>12

\* Positions in what is left.
LEMMA TailKeeps ==
  ASSUME NEW b \in Seq(FactRecord), b # <<>>
  PROVE  /\ Once(Settling(b)) => Once(Settling(Tail(b)))
         /\ Once(Settling(b)) /\ Head(b).cmd => Settling(Tail(b)) = {}
         /\ Settling(Tail(b)) # {} => Settling(b) # {}
         /\ Once(Prompting(b)) => Once(Prompting(Tail(b)))
         /\ Once(Prompting(b)) /\ Head(b).type = "prompt" => Prompting(Tail(b)) = {}
         /\ Prompting(Tail(b)) # {} => Prompting(b) # {}
         /\ WakeFirst(b) => \A f \in Facts(Tail(b)) : f.type # "wake"
         /\ \A T : CancelsAfter(b, T) => CancelsAfter(Tail(b), T)
<1> DEFINE r == Tail(b)
<1>1. /\ 1 \in DOMAIN b /\ b[1] = Head(b)
      /\ \A i \in DOMAIN r : i + 1 \in DOMAIN b /\ r[i] = b[i + 1]
      /\ \A i \in DOMAIN b : i # 1 => i - 1 \in DOMAIN r
      /\ DOMAIN b \subseteq Nat \ {0} /\ DOMAIN r \subseteq Nat \ {0}
  BY TailFacts
<1> HIDE DEF r
<1>2. \A i \in Settling(r) : i + 1 \in Settling(b) /\ i + 1 # 1 /\ i \in Nat
  BY <1>1 DEF Settling
<1>3. \A i \in Prompting(r) : i + 1 \in Prompting(b) /\ i + 1 # 1 /\ i \in Nat
  BY <1>1 DEF Prompting
<1>4. Head(b).cmd => 1 \in Settling(b) BY <1>1 DEF Settling
<1>5. Head(b).type = "prompt" => 1 \in Prompting(b) BY <1>1 DEF Prompting
<1>6. Once(Settling(b)) => Once(Settling(r)) BY <1>2 DEF Once
<1>7. Once(Settling(b)) /\ Head(b).cmd => Settling(r) = {} BY <1>2, <1>4 DEF Once
<1>8. Once(Prompting(b)) => Once(Prompting(r)) BY <1>3 DEF Once
<1>9. Once(Prompting(b)) /\ Head(b).type = "prompt" => Prompting(r) = {}
  BY <1>3, <1>5 DEF Once
<1>10. WakeFirst(b) => \A f \in Facts(r) : f.type # "wake"
  <2> SUFFICES ASSUME WakeFirst(b), NEW i \in DOMAIN r PROVE r[i].type # "wake"
    BY DEF Facts
  <2>1. i + 1 \in DOMAIN b /\ r[i] = b[i + 1] /\ i + 1 # 1 BY <1>1
  <2> QED BY <2>1 DEF WakeFirst
<1>11. ASSUME NEW T, CancelsAfter(b, T) PROVE CancelsAfter(r, T)
  <2> SUFFICES ASSUME NEW i \in DOMAIN r, r[i].type \in Disarming, NEW t \in T
               PROVE  \E j \in DOMAIN r : j > i /\ r[j] = Drops(t)
    BY DEF CancelsAfter
  <2>1. i + 1 \in DOMAIN b /\ b[i + 1].type \in Disarming BY <1>1
  <2>2. PICK j \in DOMAIN b : j > i + 1 /\ b[j] = Drops(t)
    BY <1>11, <2>1 DEF CancelsAfter
  <2>3. j \in Nat /\ i \in Nat /\ i > 0 BY <1>1
  <2>4. j - 1 \in DOMAIN r /\ j - 1 > i /\ (j - 1) + 1 = j BY <1>1, <2>2, <2>3
  <2>5. r[j - 1] = b[j] BY <1>1, <2>4
  <2> QED BY <2>2, <2>4, <2>5
<1> QED BY <1>2, <1>3, <1>6, <1>7, <1>8, <1>9, <1>10, <1>11 DEF r

\* The parts of the invariant that speak of what is in hand, after an append.
LEMMA AppendOnce ==
  ASSUME ScheduleInv, AppendFact PROVE OneSettles' /\ OnePrompt'
<1> DEFINE f == Head(todo)
<1>1. todo # <<>> /\ todo \in Seq(FactRecord) /\ f \in FactRecord /\ todo' = Tail(todo)
  BY AppendTakes
<1>2. OneSettles /\ OnePrompt /\ HostTyped BY DEF ScheduleInv
<1>3. Settling(todo)' = Settling(Tail(todo)) /\ Prompting(todo)' = Prompting(Tail(todo))
  BY <1>1 DEF Settling, Prompting
<1>4. Once(Settling(Tail(todo))) /\ Once(Prompting(Tail(todo)))
  BY <1>1, <1>2, TailKeeps DEF OneSettles, OnePrompt
<1>5. Settling(Tail(todo)) # {} => commands' # <<>>
  <2>1. SUFFICES ASSUME Settling(Tail(todo)) # {} PROVE commands' # <<>> OBVIOUS
  <2>2. Settling(todo) # {} /\ ~f.cmd
    BY <1>1, <1>2, <2>1, TailKeeps DEF OneSettles
  <2>3. commands' = commands BY <2>2 DEF AppendFact
  <2> QED BY <1>2, <2>2, <2>3 DEF OneSettles
<1>6. prompts' = 1 => unanswered'
  <2>1. CASE f.type = "prompt" BY <2>1 DEF AppendFact
  <2>2. CASE f.type # "prompt"
    <3>1. prompts' = prompts + 0 BY <2>2 DEF AppendFact
    <3>2. prompts' = prompts BY <1>2, <3>1 DEF HostTyped
    <3>3. unanswered => unanswered' BY DEF AppendFact
    <3> QED BY <1>2, <3>2, <3>3 DEF OnePrompt
  <2> QED BY <2>1, <2>2
<1>7. Prompting(Tail(todo)) # {} => prompts' = 0
  <2>1. SUFFICES ASSUME Prompting(Tail(todo)) # {} PROVE prompts' = 0 OBVIOUS
  <2>2. f.type # "prompt" /\ Prompting(todo) # {}
    BY <1>1, <1>2, <2>1, TailKeeps DEF OnePrompt
  <2>3. prompts' = prompts + 0 BY <2>2 DEF AppendFact
  <2> QED BY <1>2, <2>2, <2>3 DEF OnePrompt
<1>8. OneSettles'
  <2>1. Once(Settling(todo)') BY <1>3, <1>4 DEF Once
  <2> QED BY <1>3, <1>5, <2>1 DEF OneSettles, Once
<1>9. OnePrompt'
  BY <1>3, <1>4, <1>6, <1>7 DEF OnePrompt, Once
<1> QED BY <1>8, <1>9

\* A wake in hand is the head.
LEMMA WakeIsHead ==
  ASSUME ScheduleInv, todo # <<>>
  PROVE  Waking <=> Head(todo).type = "wake"
<1>1. todo \in Seq(FactRecord) /\ WakeFirst(todo) BY DEF ScheduleInv, HostTyped, WakeLeads
<1>2. Facts(todo) = {Head(todo)} \cup Facts(Tail(todo)) BY <1>1, TailFacts
<1>3. \A f \in Facts(Tail(todo)) : f.type # "wake" BY <1>1, TailKeeps
<1> QED BY <1>2, <1>3 DEF Waking, AheadOf, Ahead

LEMMA AppendWake ==
  ASSUME ScheduleInv, AppendFact PROVE WakeLeads' /\ ~Waking'
<1> DEFINE f == Head(todo)
<1>1. todo # <<>> /\ todo \in Seq(FactRecord) /\ f \in FactRecord /\ Sound(f) /\ f \in Ahead
        /\ todo' = Tail(todo) /\ sch' = FoldSch(f)
  BY AppendTakes
<1>2. WakeLeads /\ FoldTyped BY DEF ScheduleInv
<1>3. \A h \in Ahead' : h.type # "wake"
  <2>1. \A h \in Facts(Tail(todo)) : h.type # "wake"
    BY <1>1, <1>2, TailKeeps DEF WakeLeads
  <2>2. Ahead' = Facts(Tail(todo)) BY <1>1 DEF Ahead, Facts
  <2> QED BY <2>1, <2>2
<1>4. ~Waking' BY <1>3 DEF Waking, AheadOf
<1>5. WakeFirst(todo)'
  <2>1. \A i \in DOMAIN todo' : todo'[i] \in Ahead' BY DEF Ahead, Facts
  <2> QED BY <1>3, <2>1 DEF WakeFirst
<1>6. sch'.on => asked' = sch'.last
  <2>1. CASE f.type \in {"attached", "resumed", "wake"}
    <3>1. asked' = f.at BY <2>1 DEF AppendFact
    <3> QED BY <1>1, <1>2, <2>1, <3>1, FoldSchIs DEF FoldTyped
  <2>2. CASE f.type \notin {"attached", "resumed", "wake"}
    <3>1. asked' = asked BY <2>2 DEF AppendFact
    <3>2. sch'.on => sch.on /\ sch'.last = sch.last
      BY <1>1, <1>2, <2>2, FoldSchIs DEF FoldTyped
    <3> QED BY <1>2, <3>1, <3>2 DEF WakeLeads
  <2> QED BY <2>1, <2>2
<1> QED BY <1>3, <1>4, <1>5, <1>6 DEF WakeLeads, AheadOf

LEMMA AppendBudget ==
  ASSUME ScheduleInv, AppendFact PROVE BudgetAhead'
<1> DEFINE f == Head(todo)
<1>1. todo # <<>> /\ f \in FactRecord /\ Sound(f) /\ Ahead = {f} \cup Ahead'
        /\ sch' = FoldSch(f) /\ lost' = lost
  BY AppendTakes
<1>2. BudgetAhead /\ FoldTyped BY DEF ScheduleInv
<1>3. sch \in SchRecord /\ sch.wakes \in Nat BY <1>2 DEF FoldTyped, SchRecord
<1>4. sch' \in SchRecord /\ sch'.wakes \in Nat
  BY <1>1, <1>3, FoldSchIs DEF SchRecord
<1>5. WakesAhead' = sch'.wakes BY <1>4, AppendWake DEF WakesAhead
<1>6. CASE f.type \in {"attached", "detached"}
  <2>1. sch'.wakes = 0 BY <1>1, <1>3, <1>6, FoldSchIs
  <2> QED BY <1>5, <2>1 DEF BudgetAhead, Unbudgeted
<1>7. CASE f.type \notin {"attached", "detached"}
  <2>1. WakesAhead = sch'.wakes
    <3>1. CASE f.type = "wake"
      <4>1. sch'.wakes = sch.wakes + (IF f.skipped THEN 0 ELSE 1)
        BY <1>1, <1>3, <3>1, FoldSchIs
      <4>2. Waking BY <1>1, <3>1, WakeIsHead
      <4> QED BY <4>1, <4>2 DEF WakesAhead
    <3>2. CASE f.type # "wake"
      <4>1. sch'.wakes = sch.wakes BY <1>1, <1>3, <1>7, <3>2, FoldSchIs
      <4>2. ~Waking BY <1>1, <3>2, WakeIsHead
      <4> QED BY <1>3, <4>1, <4>2 DEF WakesAhead
    <3> QED BY <3>1, <3>2
  <2>2. AheadOf("detached")' = AheadOf("detached") BY <1>1, <1>7 DEF AheadOf
  <2> QED BY <1>1, <1>2, <1>5, <2>1, <2>2 DEF BudgetAhead, Unbudgeted
<1> QED BY <1>6, <1>7

\* What an append does not take stays in hand; an active schedule stays so
\* while the loop serves it.
LEMMA AppendRests ==
  ASSUME ScheduleInv, AppendFact
  PROVE  PausesCancel' /\ SetsActive' /\ Places' /\ RestsDisarmed'
<1> DEFINE f == Head(todo)
<1>1. todo # <<>> /\ todo \in Seq(FactRecord) /\ f \in FactRecord /\ Sound(f) /\ f \in Ahead
        /\ Ahead = {f} \cup Ahead' /\ Ahead' \subseteq Ahead /\ todo' = Tail(todo)
        /\ sch' = FoldSch(f) /\ timers' = FoldTimers(f) /\ host' = host /\ lost' = lost
  BY AppendTakes
<1>2. FoldTyped /\ PausesCancel /\ SetsActive /\ Places /\ RestsDisarmed /\ FactsSound
  BY DEF ScheduleInv
<1>3. sch \in SchRecord /\ timers \subseteq TimerRecord BY <1>2 DEF FoldTyped
<1>4. Places'
  BY <1>1, <1>2 DEF Places, AheadOf
<1>5. PausesCancel'
  <2>1. CancelsAfter(Tail(todo), timers) BY <1>1, <1>2, TailKeeps DEF PausesCancel
  <2>2. CASE f.type = "set"
    <3>1. \A h \in Ahead' : h.type \notin Disarming
      BY <1>1, <1>2, <2>2 DEF SetsActive, AheadOf
    <3> QED BY <3>1 DEF PausesCancel, CancelsAfter, Ahead, Facts
  <2>3. CASE f.type # "set"
    <3>1. timers' \subseteq timers BY <1>1, <2>3, FoldTimersIs
    <3> QED BY <1>1, <2>1, <3>1 DEF PausesCancel, CancelsAfter, Drops
  <2> QED BY <2>2, <2>3
<1>6. SetsActive'
  <2> SUFFICES ASSUME AheadOf("set")' # {}
               PROVE  Active' /\ \A h \in Ahead' : h.type \notin Disarming
    BY DEF SetsActive
  <2>1. AheadOf("set") # {} BY <1>1 DEF AheadOf
  <2>2. Active /\ (\A h \in Ahead : h.type \notin Disarming) /\ host = "decide"
    BY <1>2, <2>1 DEF SetsActive, Places
  <2>3. f.type \in Serving /\ f.type \notin Disarming BY <1>1, <1>2, <2>2 DEF Places
  <2>4. sch'.on = sch.on /\ sch'.paused = sch.paused
    BY <1>1, <1>3, <2>3, FoldSchIs DEF Serving, Disarming
  <2>5. f.type # "closed" BY <2>3 DEF Serving
  <2>6. closed' => closed BY <2>5 DEF AppendFact
  <2> QED BY <1>1, <2>2, <2>4, <2>6 DEF Active
<1>7. RestsDisarmed'
  <2> SUFFICES ASSUME AtRest', "cancelled" \notin lost PROVE Disarmed'
    BY <1>1 DEF RestsDisarmed
  <2>1. CASE f.type \in Disarming
    <3>1. timers' = timers BY <1>1, <2>1, FoldTimersIs DEF Disarming
    <3>2. ASSUME NEW t \in timers PROVE Drops(t) \in Facts(Tail(todo))
      <4>1. 1 \in DOMAIN todo /\ todo[1].type \in Disarming BY <1>1, <2>1, TailFacts
      <4>2. PICK j \in DOMAIN todo : j > 1 /\ todo[j] = Drops(t)
        BY <1>2, <4>1 DEF PausesCancel, CancelsAfter
      <4>3. DOMAIN todo \subseteq Nat \ {0} /\ j - 1 \in DOMAIN Tail(todo)
        BY <1>1, <4>2, TailFacts
      <4>4. Tail(todo)[j - 1] = todo[(j - 1) + 1] BY <1>1, <4>3, TailFacts
      <4>5. (j - 1) + 1 = j BY <4>2, <4>3
      <4> QED BY <4>2, <4>3, <4>4, <4>5 DEF Facts
    <3>3. Ahead' = Facts(Tail(todo)) BY <1>1 DEF Ahead, Facts
    <3> QED BY <3>1, <3>2, <3>3 DEF Disarmed, Drops
  <2>2. CASE f.type \notin Disarming
    <3>1. AtRest
      <4>1. CASE ~sch'.on \/ sch'.paused
        <5>1. f.type # "attached"
          BY <1>1, <1>3, <4>1, FoldSchIs
        <5>2. ~sch.on \/ sch.paused
          BY <1>1, <1>3, <2>2, <4>1, <5>1, FoldSchIs DEF Disarming
        <5> QED BY <5>2 DEF AtRest
      <4>2. CASE sch'.on /\ ~sch'.paused
        <5>1. host \in {"decide", "idle"} /\ ~Active' BY <1>1, <4>2 DEF AtRest
        <5>2. f.type \in Serving \/ f = Fact("entered") BY <1>1, <1>2, <5>1 DEF Places
        <5>3. Fact("entered").type = "entered" BY FactIs DEF FactTypes
        <5>4. f.type \notin {"attached", "resumed", "closed"}
          BY <5>2, <5>3 DEF Serving
        <5>5. sch'.on = sch.on /\ sch'.paused = sch.paused
          BY <1>1, <1>3, <2>2, <5>4, FoldSchIs DEF Disarming
        <5>6. closed' => closed BY <5>4 DEF AppendFact
        <5>7. closed' BY <4>2, <5>1 DEF Active
        <5> QED BY <5>1, <5>6, <5>7 DEF AtRest, Active
      <4> QED BY <4>1, <4>2
    <3>2. Disarmed BY <1>2, <3>1 DEF RestsDisarmed
    <3>3. f.type # "set"
      <4>1. SUFFICES ASSUME f.type = "set" PROVE FALSE OBVIOUS
      <4>2. Active /\ sch' = sch /\ host = "decide"
        BY <1>1, <1>2, <1>3, <4>1, FoldSchIs DEF SetsActive, Places, AheadOf
      <4>3. closed' => closed BY <4>1 DEF AppendFact
      <4>4. Active' BY <4>2, <4>3 DEF Active
      <4> QED BY <4>4 DEF AtRest, Active
    <3>4. ASSUME NEW t \in timers' PROVE Drops(t) \in Ahead'
      <4>1. t \in timers BY <1>1, <3>3, <3>4, FoldTimersIs
      <4>2. Drops(t) \in Ahead BY <3>2, <4>1 DEF Disarmed
      <4>3. CASE Drops(t) = f
        <5>1. f.type = "cancelled" /\ f.id = t.id /\ f.at = t.at
          BY <1>3, <4>1, <4>3, TimedTimer DEF Drops, FactTypes
        <5>2. timers' = timers \ {[id |-> f.id, at |-> f.at]} BY <1>1, <5>1, FoldTimersIs
        <5>3. t = [id |-> t.id, at |-> t.at] BY <1>3, <4>1 DEF TimerRecord
        <5> QED BY <3>4, <5>1, <5>2, <5>3
      <4> QED BY <1>1, <4>2, <4>3
    <3> QED BY <3>4 DEF Disarmed, Drops
  <2> QED BY <2>1, <2>2
<1> QED BY <1>4, <1>5, <1>6, <1>7

\* The slot ahead is a time.
LEMMA SlotTyped ==
  ASSUME ScheduleInv PROVE SlotAhead \in 1..(MaxTime + Every)
<1>1. sch \in SchRecord /\ todo \in Seq(FactRecord) /\ FactsSound /\ WakeLeads
  BY DEF ScheduleInv, FoldTyped, HostTyped
<1>2. sch.last \in 0..MaxTime BY <1>1 DEF SchRecord
<1>3. CASE Waking
  <2>1. todo # <<>> BY <1>3, NoFacts DEF Waking, AheadOf, Ahead
  <2>2. Head(todo).type = "wake" BY <1>3, <2>1, WakeIsHead
  <2>3. Head(todo) \in Ahead BY <1>1, <2>1, TailFacts DEF Ahead
  <2>4. Head(todo).at \in 0..MaxTime BY <1>1, <2>2, <2>3 DEF FactsSound, Sound
  <2> QED BY <1>3, <2>4 DEF SlotAhead
<1>4. CASE ~Waking BY <1>2, <1>4 DEF SlotAhead, Next1
<1> QED BY <1>3, <1>4

\* An append takes the schedule towards the timer of its next slot.
LEMMA AppendArms ==
  ASSUME ScheduleInv, AppendFact PROVE Armed'
<1> DEFINE f == Head(todo)
           T == [id |-> sch.id, at |-> SlotAhead]
           T1 == [id |-> sch'.id, at |-> SlotAhead']
<1>1. todo # <<>> /\ todo \in Seq(FactRecord) /\ f \in FactRecord /\ Sound(f) /\ f \in Ahead
        /\ Ahead = {f} \cup Ahead' /\ Ahead' \subseteq Ahead /\ todo' = Tail(todo)
        /\ sch' = FoldSch(f) /\ timers' = FoldTimers(f) /\ host' = host
  BY AppendTakes
<1>2. FoldTyped /\ Places /\ Armed BY DEF ScheduleInv
<1>3. sch \in SchRecord /\ timers \subseteq TimerRecord BY <1>2 DEF FoldTyped
<1> SUFFICES ASSUME host \in {"decide", "idle"}, Active', AheadOf("detached")' = {}
             PROVE  ArmedFor(T, todo)'
  BY <1>1 DEF Armed
<1>4. f.type \in Serving \cup {"entered"}
  <2>1. Fact("entered").type = "entered" BY FactIs DEF FactTypes
  <2> QED BY <1>1, <1>2, <2>1 DEF Places
<1>5. f.type # "detached"
  <2>1. f.type = "detached" => ~sch'.on BY <1>1, <1>3, FoldSchIs
  <2> QED BY <2>1 DEF Active
<1>6. sch'.on = sch.on /\ sch'.paused = sch.paused /\ sch'.id = sch.id
  BY <1>1, <1>3, <1>4, <1>5, FoldSchIs DEF Serving
<1>7. Active
  <2>1. f.type # "closed" BY <1>4 DEF Serving
  <2>2. closed => closed' \/ f.type = "started" BY DEF AppendFact
  <2>3. f.type # "started" BY <1>4 DEF Serving
  <2> QED BY <1>6, <2>2, <2>3 DEF Active
<1>8. AheadOf("detached") = {} BY <1>1, <1>5 DEF AheadOf
<1>9. ArmedFor(T, todo) BY <1>2, <1>7, <1>8 DEF Armed
<1>10. SlotAhead' = SlotAhead
  <2>1. SlotAhead' = sch'.last + Every
    BY AppendWake DEF SlotAhead, Next1
  <2>2. CASE f.type = "wake"
    <3>1. sch'.last = f.at BY <1>1, <1>3, <2>2, FoldSchIs
    <3>2. SlotAhead = f.at + Every BY <1>1, <2>2, WakeIsHead DEF SlotAhead
    <3> QED BY <2>1, <3>1, <3>2
  <2>3. CASE f.type # "wake"
    <3>1. sch' = sch BY <1>1, <1>3, <1>4, <1>5, <2>3, FoldSchIs DEF Serving
    <3>2. SlotAhead = Next1 BY <1>1, <2>3, WakeIsHead DEF SlotAhead
    <3> QED BY <2>1, <3>1, <3>2 DEF Next1
  <2> QED BY <2>2, <2>3
<1>11. T1 = T BY <1>6, <1>10
<1>12. Drops(T) \notin Ahead /\ (\A h \in Ahead : h.type = "set" => h = Sets(T))
         /\ (\A t \in timers : t = T \/ Drops(t) \in Ahead)
         /\ (T \in timers \/ Sets(T) \in Ahead)
  BY <1>9 DEF ArmedFor, Ahead
<1> HIDE DEF T, T1
<1>13. ASSUME NEW t \in timers', t # T PROVE Drops(t) \in Ahead'
  <2>1. t \in timers
    <3>1. CASE f.type = "set"
      <4>1. f = Sets(T) BY <1>1, <1>12, <3>1
      <4>2. timers' = timers \cup {[id |-> f.id, at |-> f.at]} BY <1>1, <3>1, FoldTimersIs
      <4>3. f.id = T.id /\ f.at = T.at
        <5>1. T.id \in 0..MaxMoves BY <1>3 DEF T, SchRecord
        <5>2. f = Timed("set", f.id, f.at) /\ f.id \in 0..MaxMoves /\ f.at \in 0..(MaxTime + Every)
          BY <1>1, <3>1 DEF Sound, FactRecord
        <5>3. SlotAhead \in 0..(MaxTime + Every)
          BY SlotTyped
        <5>4. T.at \in 0..(MaxTime + Every) BY <5>3 DEF T
        <5> QED BY <4>1, <5>1, <5>4, TimedIs DEF Sets, FactTypes
      <4>4. [id |-> f.id, at |-> f.at] = T BY <4>3 DEF T
      <4> QED BY <1>13, <4>2, <4>4
    <3>2. CASE f.type # "set" BY <1>1, <1>13, <3>2, FoldTimersIs
    <3> QED BY <3>1, <3>2
  <2>2. Drops(t) \in Ahead BY <1>12, <1>13, <2>1
  <2>3. Drops(t) # f
    <3>1. SUFFICES ASSUME Drops(t) = f PROVE FALSE OBVIOUS
    <3>2. f.type = "cancelled" /\ f.id = t.id /\ f.at = t.at
      BY <1>3, <2>1, <3>1, TimedTimer DEF Drops, FactTypes
    <3>3. timers' = timers \ {[id |-> f.id, at |-> f.at]} BY <1>1, <3>2, FoldTimersIs
    <3>4. t = [id |-> t.id, at |-> t.at] BY <1>3, <2>1 DEF TimerRecord
    <3> QED BY <1>13, <3>2, <3>3, <3>4
  <2> QED BY <1>1, <2>2, <2>3
<1>14. T \in timers' \/ Sets(T) \in Ahead'
  <2>1. CASE Sets(T) = f
    <3>1. SlotAhead \in 0..(MaxTime + Every) /\ sch.id \in 0..MaxMoves
      BY <1>3, SlotTyped DEF SchRecord
    <3>2. f.type = "set" /\ f.id = sch.id /\ f.at = SlotAhead
      BY <2>1, <3>1, TimedIs DEF Sets, T, FactTypes
    <3>3. timers' = timers \cup {[id |-> f.id, at |-> f.at]} BY <1>1, <3>2, FoldTimersIs
    <3> QED BY <3>2, <3>3 DEF T
  <2>2. CASE Sets(T) # f /\ Sets(T) \in Ahead BY <1>1, <2>2
  <2>3. CASE T \in timers
    <3>1. CASE f.type \in {"cancelled", "fired"}
      <4>1. f = Timed("cancelled", f.id, f.at) BY <1>1, <1>4, <3>1 DEF Sound, Serving
      <4>2. timers' = timers \ {[id |-> f.id, at |-> f.at]} BY <1>1, <3>1, FoldTimersIs
      <4>3. [id |-> f.id, at |-> f.at] # T
        <5>1. SUFFICES ASSUME f.id = T.id, f.at = T.at PROVE FALSE BY DEF T
        <5>2. f = Drops(T) BY <4>1, <5>1 DEF Drops
        <5> QED BY <1>1, <1>12, <5>2
      <4> QED BY <2>3, <4>2, <4>3
    <3>2. CASE f.type \notin {"cancelled", "fired"}
      BY <1>1, <2>3, <3>2, FoldTimersIs
    <3> QED BY <3>1, <3>2
  <2> QED BY <1>12, <2>1, <2>2, <2>3
<1>15. Drops(T) \notin Ahead' /\ \A h \in Ahead' : h.type = "set" => h = Sets(T)
  BY <1>1, <1>12
<1>16. /\ \A t \in timers' : t = T1 \/ Drops(t) \in Ahead'
       /\ T1 \in timers' \/ Sets(T1) \in Ahead'
       /\ Drops(T1) \notin Ahead'
       /\ \A h \in Ahead' : h.type = "set" => h = Sets(T1)
  BY <1>11, <1>13, <1>14, <1>15
<1> QED BY <1>16 DEF T, T1, ArmedFor, Ahead, Drops, Sets

-----------------------------------------------------------------------------
(* The steps that take a batch in hand.                                      *)

\* What the invariant says when nothing is in hand.
LEMMA NothingAhead ==
  ASSUME ScheduleInv, todo = <<>>
  PROVE  /\ Ahead = {} /\ ~Waking
         /\ AtRest => "cancelled" \in lost \/ timers = {}
         /\ Unbudgeted \/ sch.wakes < MaxWakes
         /\ host \in {"decide", "idle"} /\ Active =>
              timers = {[id |-> sch.id, at |-> Next1]}
<1>1. Ahead = {} BY NoFacts DEF Ahead
<1>2. ~Waking BY <1>1 DEF Waking, AheadOf
<1>3. AtRest => "cancelled" \in lost \/ timers = {}
  BY <1>1 DEF ScheduleInv, RestsDisarmed, Disarmed
<1>4. Unbudgeted \/ sch.wakes < MaxWakes
  <2>1. sch.wakes \in Nat BY DEF ScheduleInv, FoldTyped, SchRecord
  <2>2. WakesAhead = sch.wakes BY <1>2, <2>1 DEF WakesAhead
  <2>3. AheadOf("detached") = {} BY <1>1 DEF AheadOf
  <2> QED BY <2>2, <2>3 DEF ScheduleInv, BudgetAhead
<1>5. ASSUME host \in {"decide", "idle"}, Active
      PROVE  timers = {[id |-> sch.id, at |-> Next1]}
  <2>1. SlotAhead = Next1 BY <1>2 DEF SlotAhead
  <2>2. AheadOf("detached") = {} BY <1>1 DEF AheadOf
  <2>3. ArmedFor([id |-> sch.id, at |-> Next1], todo)
    BY <1>5, <2>1, <2>2 DEF ScheduleInv, Armed
  <2> QED BY <1>1, <2>3 DEF ArmedFor, Ahead
<1> QED BY <1>1, <1>2, <1>3, <1>4, <1>5

\* A step that leaves the fold, the clients and the histories as they are.
LEMMA SameKeeps ==
  ASSUME Same
  PROVE  /\ sch' = sch /\ timers' = timers /\ waiting' = waiting /\ closed' = closed
         /\ sealed' = sealed /\ unanswered' = unanswered /\ turn' = turn
         /\ commands' = commands /\ closing' = closing /\ sent' = sent
         /\ results' = results /\ now' = now /\ moves' = moves
         /\ asked' = asked /\ prompts' = prompts /\ lost' = lost
BY DEF Same, facts, accepted, history

\* What any batch must satisfy, whatever it holds.
Fit(b) ==
  /\ b \in Seq(FactRecord) /\ \A f \in Facts(b) : Sound(f)
  /\ Once(Settling(b)) /\ (Settling(b) # {} => commands # <<>>)
LEMMA BatchTyped ==
  ASSUME ScheduleInv, Same, Fit(todo'), host' \in HostStates, resumed' \in BOOLEAN
  PROVE  FoldTyped' /\ HostTyped' /\ FactsSound' /\ OneSettles'
<1>1. FoldTyped /\ HostTyped BY DEF ScheduleInv
<1>2. FoldTyped' BY <1>1, SameKeeps DEF FoldTyped
<1>3. HostTyped' BY <1>1, SameKeeps DEF HostTyped, Fit
<1>4. FactsSound' BY DEF FactsSound, Fit, Ahead, Facts, Sound
<1>5. OneSettles' BY SameKeeps DEF OneSettles, Fit, Settling, Once
<1> QED BY <1>2, <1>3, <1>4, <1>5

\* A batch that neither wakes nor sets, pauses, removes or prompts.
Plain1 == {"wake", "set", "paused", "detached", "prompt"}
Mild(b) == \A f \in Facts(b) : f.type \notin Plain1
LEMMA MildBatch ==
  ASSUME ScheduleInv, todo = <<>>, Same, Fit(todo'), Mild(todo'),
         host' \in HostStates, resumed' \in BOOLEAN, host' # "decide",
         host' = "idle" => host = "decide" /\ Facts(todo') \subseteq {Fact("entered")},
         todo' # <<>> => host' \in {"drain", "close", "turn", "idle"}
  PROVE  ScheduleInv'
<1>1. FoldTyped' /\ HostTyped' /\ FactsSound' /\ OneSettles' BY BatchTyped
<1>2. \A i \in DOMAIN todo' : todo'[i].type \notin Plain1 BY DEF Mild, Facts
<1>3. AheadOf("wake")' = {} /\ AheadOf("set")' = {} /\ AheadOf("detached")' = {}
  BY DEF Mild, AheadOf, Ahead, Plain1, Facts
<1>4. /\ Ahead = {} /\ ~Waking
      /\ AtRest => "cancelled" \in lost \/ timers = {}
      /\ Unbudgeted \/ sch.wakes < MaxWakes
      /\ host \in {"decide", "idle"} /\ Active =>
           timers = {[id |-> sch.id, at |-> Next1]}
  BY NothingAhead
<1>5. ~Waking' BY <1>3 DEF Waking
<1>6. OnePrompt'
  <2>1. Prompting(todo)' = {} BY <1>2 DEF Prompting, Plain1
  <2> QED BY <2>1, SameKeeps DEF ScheduleInv, OnePrompt, Once
<1>7. WakeLeads'
  <2>1. WakeFirst(todo)' BY <1>2 DEF WakeFirst, Plain1
  <2> QED BY <1>3, <2>1, SameKeeps DEF ScheduleInv, WakeLeads
<1>8. BudgetAhead'
  <2>1. sch'.wakes \in Nat BY <1>1 DEF FoldTyped, SchRecord
  <2>2. WakesAhead' = sch'.wakes BY <1>5, <2>1 DEF WakesAhead
  <2> QED BY <1>4, <2>2, SameKeeps DEF BudgetAhead, Unbudgeted
<1>9. PausesCancel' BY <1>2 DEF PausesCancel, CancelsAfter, Disarming, Plain1
<1>10. RestsDisarmed'
  <2>1. AtRest' => AtRest BY SameKeeps DEF AtRest, Active
  <2> QED BY <1>4, <2>1, SameKeeps DEF RestsDisarmed, Disarmed
<1>11. SetsActive' BY <1>3 DEF SetsActive
<1>12. Places' BY <1>3 DEF Places, Ahead, Facts
<1>13. Armed'
  <2> SUFFICES ASSUME host' = "idle", Active'
               PROVE  ArmedFor([id |-> sch.id, at |-> SlotAhead], todo)'
    BY DEF Armed
  <2>1. SlotAhead' = Next1 BY <1>5, SameKeeps DEF SlotAhead, Next1
  <2>2. Active BY SameKeeps DEF Active
  <2>3. timers' = {[id |-> sch'.id, at |-> SlotAhead']} BY <1>4, <2>1, <2>2, SameKeeps
  <2>4. \A f \in Facts(todo') : f.type = "entered"
    <3>1. Fact("entered").type = "entered" BY FactIs DEF FactTypes
    <3> QED BY <3>1
  <2>5. SlotAhead' \in 0..(MaxTime + Every) /\ sch'.id \in 0..MaxMoves
    <3>1. sch'.last \in 0..MaxTime /\ sch'.id \in 0..MaxMoves
      BY <1>1 DEF FoldTyped, SchRecord
    <3>2. SlotAhead' = sch'.last + Every BY <2>1, SameKeeps DEF Next1
    <3> QED BY <3>1, <3>2
  <2>6. Timed("cancelled", sch'.id, SlotAhead').type = "cancelled"
    BY <2>5, TimedIs DEF FactTypes
  <2> QED BY <2>3, <2>4, <2>6 DEF ArmedFor, Drops, Facts
<1> QED
  BY <1>1, <1>6, <1>7, <1>8, <1>9, <1>10, <1>11, <1>12, <1>13 DEF ScheduleInv

\* Batches that are fit: none, one fact, two, the timers fired or cancelled.
LEMMA FitNone ==
  /\ Fit(<<>>) /\ Mild(<<>>) /\ Facts(<<>>) = {}
BY NoFacts DEF Fit, Mild, Settling, Once
LEMMA FitOne ==
  ASSUME NEW f \in FactRecord, Sound(f), f.cmd => commands # <<>>
  PROVE  Fit(<<f>>) /\ (f.type \notin Plain1 => Mild(<<f>>)) /\ Facts(<<f>>) = {f}
<1>1. /\ <<f>> \in Seq(FactRecord) /\ Facts(<<f>>) = {f}
      /\ DOMAIN <<f>> = {1} /\ <<f>>[1] = f
  BY OneFact
<1>2. Settling(<<f>>) = (IF f.cmd THEN {1} ELSE {}) BY <1>1 DEF Settling
<1> QED BY <1>1, <1>2 DEF Fit, Mild, Once
LEMMA FitConcat ==
  ASSUME NEW a, NEW b, Fit(a), Fit(b), Settling(a) = {} \/ Settling(b) = {}
  PROVE  Fit(a \o b) /\ (Mild(a) /\ Mild(b) => Mild(a \o b))
         /\ Facts(a \o b) = Facts(a) \cup Facts(b)
         /\ (Settling(a) = {} /\ Settling(b) = {} => Settling(a \o b) = {})
<1>1. a \in Seq(FactRecord) /\ b \in Seq(FactRecord) BY DEF Fit
<1>2. /\ a \o b \in Seq(FactRecord)
      /\ DOMAIN a = 1..Len(a) /\ DOMAIN b = 1..Len(b)
      /\ DOMAIN (a \o b) = 1..(Len(a) + Len(b))
      /\ Len(a) \in Nat /\ Len(b) \in Nat
      /\ \A i \in DOMAIN a : (a \o b)[i] = a[i]
      /\ \A i \in DOMAIN b : (a \o b)[Len(a) + i] = b[i]
      /\ \A i \in DOMAIN (a \o b) : i \in DOMAIN a \/ i - Len(a) \in DOMAIN b
      /\ Facts(a \o b) = Facts(a) \cup Facts(b)
  BY <1>1, ConcatFacts
<1>3. \A i \in Settling(a \o b) : i \in Settling(a) \/ i - Len(a) \in Settling(b)
  <2> SUFFICES ASSUME NEW i \in DOMAIN (a \o b), (a \o b)[i].cmd
               PROVE  i \in Settling(a) \/ i - Len(a) \in Settling(b)
    BY DEF Settling
  <2>1. CASE i \in DOMAIN a BY <1>2, <2>1 DEF Settling
  <2>2. CASE i - Len(a) \in DOMAIN b
    <3>1. Len(a) + (i - Len(a)) = i BY <1>2
    <3>2. (a \o b)[i] = b[i - Len(a)] BY <1>2, <2>2, <3>1
    <3> QED BY <2>2, <3>2 DEF Settling
  <2> QED BY <1>2, <2>1, <2>2
<1>4. Settling(a \o b) \subseteq Int /\ Len(a) \in Int BY <1>2 DEF Settling
<1>5. Once(Settling(a \o b))
  <2>1. Once(Settling(a)) /\ Once(Settling(b)) BY DEF Fit
  <2> SUFFICES ASSUME NEW i \in Settling(a \o b), NEW j \in Settling(a \o b) PROVE i = j
    BY DEF Once
  <2>2. CASE Settling(b) = {}
    <3>1. i \in Settling(a) /\ j \in Settling(a) BY <1>3, <2>2
    <3> QED BY <2>1, <3>1 DEF Once
  <2>3. CASE Settling(a) = {}
    <3>1. i - Len(a) \in Settling(b) /\ j - Len(a) \in Settling(b) BY <1>3, <2>3
    <3>2. i - Len(a) = j - Len(a) BY <2>1, <3>1 DEF Once
    <3> QED BY <1>4, <3>2
  <2> QED BY <2>2, <2>3
<1>6. Settling(a \o b) # {} => commands # <<>> BY <1>3 DEF Fit
<1>7. Mild(a) /\ Mild(b) => Mild(a \o b) BY <1>2 DEF Mild
<1>8. \A f \in Facts(a \o b) : Sound(f) BY <1>2 DEF Fit
<1> QED BY <1>2, <1>3, <1>5, <1>6, <1>7, <1>8 DEF Fit
LEMMA FitTimers ==
  ASSUME NEW T \in SUBSET TimerRecord, IsFiniteSet(T), NEW type \in {"fired", "cancelled"}
  PROVE  /\ Fit(OnTimers(type, T)) /\ Mild(OnTimers(type, T)) /\ Settling(OnTimers(type, T)) = {}
         /\ Facts(OnTimers(type, T)) = {Timed(type, t.id, t.at) : t \in T}
         /\ \A f \in Facts(OnTimers(type, T)) : f.type = type
<1> DEFINE b == OnTimers(type, T)
<1>1. type \in FactTypes BY DEF FactTypes
<1>2. b \in Seq(FactRecord) /\ Facts(b) = {Timed(type, t.id, t.at) : t \in T}
  BY <1>1, TimersListed
<1> HIDE DEF b
<1>3. \A f \in Facts(b) : f.type = type /\ f = Timed(f.type, f.id, f.at) /\ ~f.cmd
  <2> SUFFICES ASSUME NEW t \in T
               PROVE  LET f == Timed(type, t.id, t.at) IN
                        f.type = type /\ f = Timed(f.type, f.id, f.at) /\ ~f.cmd
    BY <1>2
  <2> QED BY <1>1, TimedTimer
<1>4. \A f \in Facts(b) : Sound(f) BY <1>3 DEF Sound
<1>5. Settling(b) = {} BY <1>3 DEF Settling, Facts
<1>6. Mild(b) BY <1>3 DEF Mild, Plain1
<1> QED BY <1>2, <1>3, <1>4, <1>5, <1>6 DEF Fit, Once, b

\* A fact of a type the loop writes by name.
LEMMA FactFits ==
  ASSUME NEW type \in FactTypes \ Plain1, type \notin {"fired", "cancelled"}
  PROVE  /\ Fit(<<Fact(type)>>) /\ Mild(<<Fact(type)>>)
         /\ Facts(<<Fact(type)>>) = {Fact(type)} /\ Settling(<<Fact(type)>>) = {}
         /\ <<Fact(type)>> # <<>>
<1>1. Fact(type) \in FactRecord /\ Fact(type).type = type /\ Fact(type).at = 0
        /\ ~Fact(type).cmd
  BY FactIs
<1>2. Sound(Fact(type)) BY <1>1 DEF Sound, Plain1
<1>3. Settling(<<Fact(type)>>) = {} BY <1>1, OneFact DEF Settling
<1> QED BY <1>1, <1>2, <1>3, FitOne, OneFact

LEMMA FitTwo ==
  ASSUME NEW f \in FactRecord, NEW g \in FactRecord, Fit(<<f>>), Fit(<<g>>), Mild(<<f>>), Mild(<<g>>),
         Settling(<<f>>) = {}
  PROVE  Fit(<<f, g>>) /\ Mild(<<f, g>>) /\ <<f, g>> # <<>>
<1>1. <<f, g>> = <<f>> \o <<g>>
  <2> DEFINE s == <<f, g>>
             t == <<f>> \o <<g>>
  <2>1. s \in Seq(FactRecord) /\ Len(s) = 2 /\ s[1] = f /\ s[2] = g OBVIOUS
  <2>2. t \in Seq(FactRecord) /\ Len(t) = 2 /\ t[1] = f /\ t[2] = g
    <3>1. <<f>> \in Seq(FactRecord) /\ Len(<<f>>) = 1 /\ <<f>>[1] = f BY OneFact
    <3>2. <<g>> \in Seq(FactRecord) /\ Len(<<g>>) = 1 /\ <<g>>[1] = g BY OneFact
    <3>3. 1 \in 1..2 /\ 2 \in 1..2 /\ 2 - 1 = 1 /\ 1 <= 1 /\ ~(2 <= 1) /\ 1 + 1 = 2 OBVIOUS
    <3>4. t \in Seq(FactRecord) /\ Len(t) = 1 + 1
            /\ \A i \in 1..(1 + 1) : t[i] = IF i <= 1 THEN <<f>>[i] ELSE <<g>>[i - 1]
      BY <3>1, <3>2, ConcatProperties
    <3> QED BY <3>1, <3>2, <3>3, <3>4
  <2> HIDE DEF s, t
  <2>3. \A i \in 1..Len(s) : s[i] = t[i]
    <3>1. \A i \in 1..Len(s) : i = 1 \/ i = 2 BY <2>1
    <3> QED BY <2>1, <2>2, <3>1
  <2>4. s = t BY <2>1, <2>2, <2>3, SeqEqual
  <2> QED BY <2>4 DEF s, t
<1>2. <<f, g>> # <<>>
  <2>1. Len(<<f, g>>) = 2 OBVIOUS
  <2> QED BY <2>1, EmptySeq
<1> QED BY <1>1, <1>2, FitConcat

LEMMA ResumeKeeps ==
  ASSUME ScheduleInv, Resume PROVE ScheduleInv'
<1> DEFINE a == IF sent THEN <<Fact("input")>> ELSE <<>>
           b == OnTimers("fired", Expired)
<1>1. todo = <<>> /\ Same /\ host' = "drain" /\ todo' = a \o b /\ resumed' = TRUE
  BY DEF Resume, At, To
<1>2. Fit(a) /\ Mild(a) /\ Settling(a) = {}
  <2>1. "input" \in FactTypes \ Plain1 BY DEF FactTypes, Plain1
  <2>2. Settling(<<>>) = {} BY NoFacts DEF Settling
  <2> QED BY <2>1, <2>2, FactFits, FitNone
<1>3. Fit(b) /\ Mild(b) /\ Settling(b) = {}
  <2>1. timers \subseteq TimerRecord /\ IsFiniteSet(timers) BY DEF ScheduleInv, FoldTyped
  <2>2. Expired \in SUBSET TimerRecord /\ IsFiniteSet(Expired)
    BY <2>1, FS_Subset DEF Expired
  <2> QED BY <2>2, FitTimers
<1> HIDE DEF a, b
<1>4. Fit(todo') /\ Mild(todo') BY <1>1, <1>2, <1>3, FitConcat
<1> QED BY <1>1, <1>4, MildBatch DEF HostStates

\* The controls, the safe point and the idle: batches that leave the schedule.
LEMMA QuietAsks ==
  ASSUME ScheduleInv, Closed \/ Decide \/ IdleTimer \/ IdleInput \/ IdleControl
                        \/ TimerDue \/ Boot
  PROVE  ScheduleInv'
<1>0. HostTyped /\ FoldTyped /\ Places BY DEF ScheduleInv
<1>1. todo = <<>> /\ Same /\ resumed' \in BOOLEAN
  <2>1. CASE Boot
    <3>1. todo = <<>> BY <1>0, <2>1 DEF Boot, Places
    <3> QED BY <2>1, <3>1 DEF Boot
  <2>2. CASE ~Boot
    BY <1>0, <2>2 DEF Closed, Decide, IdleTimer, IdleInput, IdleControl, TimerDue, At, Still,
                 HostTyped
  <2> QED BY <2>1, <2>2
<1>2. \A type \in {"resolved", "input", "entered", "started"} :
        type \in FactTypes \ Plain1 /\ type \notin {"fired", "cancelled"}
  BY DEF FactTypes, Plain1
<1>3. CASE Closed
  BY <1>1, <1>3, FitNone, MildBatch DEF Closed, To, HostStates
<1>4. CASE Decide
  <2>1. host = "decide" BY <1>4 DEF Decide, At
  <2>2. \/ host' = "drain" /\ todo' = <<Fact("resolved")>>
        \/ host' = "idle" /\ todo' = <<>>
        \/ host' = "turn" /\ todo' = <<>>
        \/ host' = "turn" /\ todo' = <<Fact("started")>>
        \/ host' = "idle" /\ todo' = <<Fact("entered")>>
    BY <1>4 DEF Decide, To
  <2>3. Fit(todo') /\ Mild(todo') /\ host' \in {"drain", "idle", "turn"}
          /\ (host' = "idle" => Facts(todo') \subseteq {Fact("entered")})
    BY <1>2, <2>2, FactFits, FitNone
  <2> QED BY <1>1, <2>1, <2>3, MildBatch DEF HostStates
<1>5. CASE IdleTimer
  <2>1. PICK t \in timers :
          host' = "drain" /\ todo' = <<Timed("fired", t.id, t.at), Fact("resolved")>>
    BY <1>5 DEF IdleTimer, To, Expired
  <2> DEFINE f == Timed("fired", t.id, t.at)
  <2>2. f \in FactRecord /\ f.type = "fired" /\ f.id = t.id /\ f.at = t.at /\ ~f.cmd
    BY <1>0, TimedTimer DEF FoldTyped, FactTypes
  <2>3. Sound(f) BY <2>2 DEF Sound
  <2>4. Fit(<<f>>) /\ Mild(<<f>>) BY <2>2, <2>3, FitOne DEF Plain1
  <2>5. Settling(<<f>>) = {} BY <2>2, OneFact DEF Settling
  <2> HIDE DEF f
  <2>6. Fit(<<f, Fact("resolved")>>) /\ Mild(<<f, Fact("resolved")>>)
    BY <1>2, <2>2, <2>4, <2>5, FactFits, FactIs, FitTwo
  <2>7. Fit(todo') /\ Mild(todo') BY <2>1, <2>6 DEF f
  <2> QED BY <1>1, <2>1, <2>7, MildBatch DEF HostStates
<1>6. CASE IdleInput
  <2>1. host' = "drain" /\ todo' = <<Fact("input"), Fact("resolved")>>
    BY <1>6 DEF IdleInput, To
  <2>2. Fit(todo') /\ Mild(todo') BY <1>2, <2>1, FactFits, FactIs, FitTwo
  <2> QED BY <1>1, <2>1, <2>2, MildBatch DEF HostStates
<1>7. CASE IdleControl
  <2>1. host' = "drain" /\ todo' = <<Fact("resolved")>> BY <1>7 DEF IdleControl, To
  <2> QED BY <1>1, <1>2, <2>1, FactFits, MildBatch DEF HostStates
<1>8. CASE TimerDue \/ Boot
  <2>1. host' \in {"resume", "down"} /\ todo' = <<>> BY <1>8 DEF TimerDue, Boot, To
  <2> QED BY <1>1, <2>1, FitNone, MildBatch DEF HostStates
<1> QED BY <1>3, <1>4, <1>5, <1>6, <1>7, <1>8

\* The cancellation of all timers.
LEMMA CancelsFit ==
  ASSUME FoldTyped
  PROVE  /\ Fit(Cancels(timers)) /\ Mild(Cancels(timers)) /\ Settling(Cancels(timers)) = {}
         /\ Facts(Cancels(timers)) = {Drops(t) : t \in timers}
         /\ \A f \in Facts(Cancels(timers)) : f.type = "cancelled"
BY FitTimers DEF FoldTyped, Cancels, Drops

\* After a pause or a removal, the list of the timers.
LEMMA CancelsFollow ==
  ASSUME FoldTyped, NEW f \in FactRecord
  PROVE  CancelsAfter(<<f>> \o Cancels(timers), timers)
<1> DEFINE c == Cancels(timers)
           b == <<f>> \o c
<1>1. /\ Fit(c) /\ Facts(c) = {Drops(t) : t \in timers}
      /\ \A h \in Facts(c) : h.type = "cancelled"
  BY CancelsFit
<1>2. c \in Seq(FactRecord) /\ <<f>> \in Seq(FactRecord) /\ DOMAIN <<f>> = {1} /\ Len(<<f>>) = 1
  BY <1>1, OneFact DEF Fit
<1> HIDE DEF c
<1>3. /\ DOMAIN c = 1..Len(c) /\ Len(c) \in Nat /\ DOMAIN b = 1..(Len(<<f>>) + Len(c))
      /\ \A i \in DOMAIN c : b[Len(<<f>>) + i] = c[i]
  BY <1>2, ConcatFacts
<1>4. DOMAIN b = 1..(1 + Len(c)) /\ \A k \in DOMAIN c : b[1 + k] = c[k] BY <1>2, <1>3
<1> HIDE DEF b
<1> SUFFICES ASSUME NEW i \in DOMAIN b, b[i].type \in Disarming, NEW t \in timers
             PROVE  \E j \in DOMAIN b : j > i /\ b[j] = Drops(t)
  BY DEF CancelsAfter, b, c
<1>5. i = 1
  <2>1. SUFFICES ASSUME i # 1 PROVE FALSE OBVIOUS
  <2>2. i - 1 \in DOMAIN c /\ 1 + (i - 1) = i BY <1>3, <1>4, <2>1
  <2>3. b[i] = c[i - 1] BY <1>4, <2>2
  <2>4. c[i - 1].type = "cancelled" BY <1>1, <2>2 DEF Facts
  <2> QED BY <2>3, <2>4 DEF Disarming
<1>6. PICK k \in DOMAIN c : c[k] = Drops(t) BY <1>1 DEF Facts
<1>7. 1 + k \in DOMAIN b /\ 1 + k > 1 BY <1>3, <1>4
<1> QED BY <1>4, <1>5, <1>6, <1>7

\* A pause and a removal by command: the cancellations follow the fact.
LEMMA DisarmKeeps ==
  ASSUME ScheduleInv, todo = <<>>, Same, host = "drain", host' = "drain", commands # <<>>,
         resumed' = resumed, NEW type \in Disarming,
         todo' = <<OfCommand(Fact(type))>> \o Cancels(timers)
  PROVE  ScheduleInv'
<1> DEFINE f == OfCommand(Fact(type))
           c == Cancels(timers)
<1>0. FoldTyped /\ HostTyped BY DEF ScheduleInv
<1>1. f \in FactRecord /\ f.type = type /\ f.cmd /\ type \in {"paused", "detached"}
  <2>1. Fact(type) \in FactRecord /\ Fact(type).type = type
    BY FactIs DEF FactTypes, Disarming
  <2> QED BY <2>1, OfCommandIs DEF Disarming
<1>2. Fit(c) /\ Settling(c) = {} /\ Facts(c) = {Drops(t) : t \in timers}
        /\ (\A h \in Facts(c) : h.type = "cancelled")
  BY <1>0, CancelsFit
<1> HIDE DEF f, c
<1>3. todo' = <<f>> \o c BY DEF f, c
<1>4. Fit(<<f>>) /\ Facts(<<f>>) = {f}
  <2>1. Sound(f) BY <1>1 DEF Sound
  <2> QED BY <1>1, <2>1, FitOne
<1>5. Fit(todo') /\ Facts(todo') = {f} \cup Facts(c)
  <2>1. Fit(<<f>> \o c) /\ Facts(<<f>> \o c) = Facts(<<f>>) \cup Facts(c)
    BY <1>2, <1>4, FitConcat
  <2> QED BY <1>3, <1>4, <2>1
<1>6. FoldTyped' /\ HostTyped' /\ FactsSound' /\ OneSettles'
  BY <1>0, <1>5, BatchTyped DEF HostTyped, HostStates
<1>7. \A h \in Facts(todo') : h.type \in {"paused", "detached", "cancelled"}
  BY <1>1, <1>2, <1>5
<1>8. Ahead' = Facts(todo') BY DEF Ahead, Facts
<1>9. \A i \in DOMAIN todo' : todo'[i].type \in {"paused", "detached", "cancelled"}
  BY <1>7 DEF Facts
<1>10. AheadOf("wake")' = {} /\ AheadOf("set")' = {}
  BY <1>7, <1>8 DEF AheadOf
<1>11. OnePrompt'
  <2>1. Prompting(todo)' = {} BY <1>9 DEF Prompting
  <2> QED BY <2>1, SameKeeps DEF ScheduleInv, OnePrompt, Once
<1>12. WakeLeads'
  <2>1. WakeFirst(todo)' BY <1>9 DEF WakeFirst
  <2> QED BY <1>10, <2>1, SameKeeps DEF ScheduleInv, WakeLeads
<1>13. BudgetAhead'
  <2>1. sch'.wakes \in Nat BY <1>6 DEF FoldTyped, SchRecord
  <2>2. WakesAhead' = sch'.wakes BY <1>10, <2>1 DEF WakesAhead, Waking
  <2>3. Unbudgeted \/ sch.wakes < MaxWakes BY NothingAhead
  <2> QED BY <2>2, <2>3, SameKeeps DEF BudgetAhead, Unbudgeted
<1>14. PausesCancel'
  <2>1. CancelsAfter(todo', timers) BY <1>0, <1>1, <1>3, CancelsFollow DEF c
  <2> QED BY <2>1, SameKeeps DEF PausesCancel, CancelsAfter, Drops
<1>15. RestsDisarmed'
  <2>1. \A t \in timers : Drops(t) \in Facts(todo') BY <1>2, <1>5
  <2> QED BY <1>8, <2>1, SameKeeps DEF RestsDisarmed, Disarmed, Drops
<1>16. SetsActive' BY <1>10 DEF SetsActive
<1>17. Places' BY <1>10 DEF Places
<1>18. Armed' BY DEF Armed
<1> QED
  BY <1>6, <1>11, <1>12, <1>13, <1>14, <1>15, <1>16, <1>17, <1>18 DEF ScheduleInv

\* A fact that settles a command, in a batch that leaves the schedule.
LEMMA FitCommand ==
  ASSUME commands # <<>>, NEW f \in FactRecord, Sound(f),
         f.type \notin Plain1 \cup {"fired", "cancelled"}
  PROVE  Fit(<<OfCommand(f)>>) /\ Mild(<<OfCommand(f)>>)
<1> DEFINE g == OfCommand(f)
<1>1. g \in FactRecord /\ g.type = f.type /\ g.at = f.at BY OfCommandIs
<1>2. g.type \notin Plain1 \cup {"fired", "cancelled"} BY <1>1
<1>3. Sound(g) BY <1>1, <1>2 DEF Sound, Plain1
<1> HIDE DEF g
<1>4. Fit(<<g>>) /\ Mild(<<g>>) BY <1>1, <1>2, <1>3, FitOne
<1> QED BY <1>4 DEF g

LEMMA ControlKeeps ==
  ASSUME ScheduleInv, DrainControls, commands # <<>> PROVE ScheduleInv'
<1> DEFINE c == Head(commands)
           k == Cancels(timers)
<1>0. FoldTyped /\ HostTyped BY DEF ScheduleInv
<1>1. host = "drain" /\ todo = <<>> /\ Same /\ resumed' = resumed /\ resumed' \in BOOLEAN
        /\ host' = "drain" /\ todo' = ControlFacts(c)
  BY <1>0 DEF DrainControls, At, Still, To, HostTyped
<1>2. Fit(k) /\ Mild(k) /\ Settling(k) = {} BY <1>0, CancelsFit
<1>3. c \in CommandRecord BY <1>0, HeadTailProperties DEF HostTyped
<1>4. c.id \in 0..MaxMoves /\ now \in 0..MaxTime /\ now \in 0..(MaxTime + Every) /\ c.kind \in Kinds
        /\ 0 \in 0..MaxMoves
  BY <1>0, <1>3 DEF CommandRecord, HostTyped
<1>5. \/ /\ c.kind = "attach"
         /\ todo' = k \o <<OfCommand(Timed("attached", c.id, now))>>
      \/ todo' = <<OfCommand(Fact("paused"))>> \o Cancels(timers)
      \/ todo' = <<OfCommand(Timed("resumed", 0, now))>>
      \/ todo' = <<OfCommand(Fact("detached"))>> \o Cancels(timers)
      \/ todo' = <<OfCommand(Fact("handled"))>>
  BY <1>1 DEF ControlFacts
<1> HIDE DEF c, k
<1>6. ASSUME NEW type \in {"attached", "resumed"}, NEW id \in 0..MaxMoves
      PROVE  Fit(<<OfCommand(Timed(type, id, now))>>)
               /\ Mild(<<OfCommand(Timed(type, id, now))>>)
  <2> DEFINE f == Timed(type, id, now)
  <2>1. f \in FactRecord /\ f.type = type /\ f.at = now BY <1>4, TimedIs DEF FactTypes
  <2> HIDE DEF f
  <2>2. Sound(f) BY <1>4, <2>1 DEF Sound
  <2>3. f.type \notin Plain1 \cup {"fired", "cancelled"} BY <2>1 DEF Plain1
  <2>4. Fit(<<OfCommand(f)>>) /\ Mild(<<OfCommand(f)>>) BY <2>1, <2>2, <2>3, FitCommand
  <2> QED BY <2>4 DEF f
<1>7. CASE todo' = k \o <<OfCommand(Timed("attached", c.id, now))>>
  <2>1. Fit(todo') /\ Mild(todo') BY <1>2, <1>4, <1>6, <1>7, FitConcat
  <2> QED BY <1>1, <2>1, MildBatch DEF HostStates
<1>8. CASE todo' = <<OfCommand(Timed("resumed", 0, now))>>
  <2>1. Fit(todo') /\ Mild(todo') BY <1>4, <1>6, <1>8
  <2> QED BY <1>1, <2>1, MildBatch DEF HostStates
<1>9. CASE todo' = <<OfCommand(Fact("handled"))>>
  <2>1. Fact("handled") \in FactRecord /\ Fact("handled").type = "handled"
    BY FactIs DEF FactTypes
  <2>2. Sound(Fact("handled")) BY <2>1 DEF Sound
  <2>3. Fact("handled").type \notin Plain1 \cup {"fired", "cancelled"} BY <2>1 DEF Plain1
  <2>4. Fit(todo') /\ Mild(todo') BY <1>9, <2>1, <2>2, <2>3, FitCommand
  <2> QED BY <1>1, <2>4, MildBatch DEF HostStates
<1>10. CASE \E type \in Disarming : todo' = <<OfCommand(Fact(type))>> \o Cancels(timers)
  BY <1>1, <1>10, DisarmKeeps
<1> QED BY <1>5, <1>7, <1>8, <1>9, <1>10 DEF Disarming

LEMMA DrainKeeps ==
  ASSUME ScheduleInv, DrainControls PROVE ScheduleInv'
<1> DEFINE k == Cancels(timers)
<1>0. FoldTyped /\ HostTyped BY DEF ScheduleInv
<1>1. host = "drain" /\ todo = <<>> /\ Same /\ resumed' \in BOOLEAN
  BY <1>0 DEF DrainControls, At, Still, HostTyped
<1>2. CASE commands # <<>> BY <1>2, ControlKeeps
<1>3. CASE ~(commands # <<>>)
  <2>1. \/ host' = "close" /\ todo' = k \o <<Fact("closed")>>
        \/ host' = "check" /\ todo' = <<>>
    BY <1>3 DEF DrainControls, To
  <2>2. Fit(k) /\ Mild(k) /\ Settling(k) = {} BY <1>0, CancelsFit
  <2>3. Fit(<<Fact("closed")>>) /\ Mild(<<Fact("closed")>>)
    <3>1. "closed" \in FactTypes \ Plain1 BY DEF FactTypes, Plain1
    <3> QED BY <3>1, FactFits
  <2> HIDE DEF k
  <2>4. Fit(k \o <<Fact("closed")>>) /\ Mild(k \o <<Fact("closed")>>)
    BY <2>2, <2>3, FitConcat
  <2>5. CASE host' = "close" /\ todo' = k \o <<Fact("closed")>>
    BY <1>1, <2>4, <2>5, MildBatch DEF HostStates
  <2>6. CASE host' = "check" /\ todo' = <<>>
    BY <1>1, <2>6, FitNone, MildBatch DEF HostStates
  <2> QED BY <2>1, <2>5, <2>6
<1> QED BY <1>2, <1>3

-----------------------------------------------------------------------------
(* The safe point of the schedule.                                           *)

\* The timers of a slot: every other one is cancelled, and its own is set.
LEMMA ArmIs ==
  ASSUME FoldTyped, NEW at \in 1..(MaxTime + Every)
  PROVE  LET T == [id |-> sch.id, at |-> at] IN
         /\ Fit(Arm(at)) /\ Settling(Arm(at)) = {}
         /\ \A f \in Facts(Arm(at)) : f.type \in {"cancelled", "set"}
         /\ ArmedFor(T, Arm(at))
<1> DEFINE T == [id |-> sch.id, at |-> at]
           a == Cancels(timers \ {T})
           s == Timed("set", sch.id, at)
           c == IF T \in timers THEN <<>> ELSE <<s>>
<1>1. sch.id \in 0..MaxMoves /\ timers \subseteq TimerRecord /\ IsFiniteSet(timers)
        /\ at \in 0..(MaxTime + Every)
  BY DEF FoldTyped, SchRecord
<1>2. Fit(a) /\ Settling(a) = {} /\ (\A f \in Facts(a) : f.type = "cancelled")
        /\ Facts(a) = {Drops(t) : t \in timers \ {T}}
  <2>1. timers \ {T} \in SUBSET TimerRecord /\ IsFiniteSet(timers \ {T})
    BY <1>1, FS_Subset
  <2> QED BY <2>1, FitTimers DEF Cancels, Drops
<1>3. s \in FactRecord /\ s.type = "set" /\ s.id = sch.id /\ s.at = at /\ ~s.cmd
        /\ s = Timed(s.type, s.id, s.at)
  BY <1>1, TimedIs DEF FactTypes
<1>4. Sound(s) BY <1>3 DEF Sound
<1>5. s = Sets(T) /\ T.id = sch.id /\ T.at = at BY DEF Sets
<1>6. T \in TimerRecord BY <1>1 DEF TimerRecord
<1>7. Arm(at) = a \o c BY DEF Arm
<1> HIDE DEF T, a, s
<1>8. Fit(c) /\ Settling(c) = {} /\ Facts(c) = (IF T \in timers THEN {} ELSE {s})
  <2>1. Fit(<<s>>) /\ Facts(<<s>>) = {s} BY <1>3, <1>4, FitOne
  <2>2. Settling(<<s>>) = {} BY <1>3, OneFact DEF Settling
  <2>3. Settling(<<>>) = {} BY NoFacts DEF Settling
  <2> QED BY <2>1, <2>2, <2>3, FitNone
<1> HIDE DEF c
<1>9. Fit(a \o c) /\ Settling(a \o c) = {} /\ Facts(a \o c) = Facts(a) \cup Facts(c)
  BY <1>2, <1>8, FitConcat
<1>10. Drops(T) \notin Facts(a)
  <2>1. SUFFICES ASSUME NEW t \in timers \ {T}, Drops(T) = Drops(t) PROVE FALSE BY <1>2
  <2>2. Drops(T).id = T.id /\ Drops(T).at = T.at /\ Drops(t).id = t.id /\ Drops(t).at = t.at
    BY <1>1, <1>6, <2>1, TimedTimer DEF Drops, FactTypes
  <2>3. t = [id |-> t.id, at |-> t.at] /\ T = [id |-> T.id, at |-> T.at]
    BY <1>1, <1>6, <2>1 DEF TimerRecord
  <2> QED BY <2>1, <2>2, <2>3
<1>11. Drops(T) # s
  <2>1. Drops(T).type = "cancelled" BY <1>6, TimedTimer DEF Drops, FactTypes
  <2> QED BY <1>3, <2>1
<1>12. ArmedFor(T, a \o c)
  <2>1. Facts(a \o c) = {Drops(t) : t \in timers \ {T}} \cup (IF T \in timers THEN {} ELSE {s})
    BY <1>2, <1>8, <1>9
  <2>2. \A t \in timers : t = T \/ Drops(t) \in Facts(a \o c) BY <2>1
  <2>3. T \in timers \/ Sets(T) \in Facts(a \o c) BY <1>5, <2>1
  <2>4. Drops(T) \notin Facts(a \o c) BY <1>2, <1>8, <1>9, <1>10, <1>11
  <2>5. \A f \in Facts(a \o c) : f.type = "set" => f = Sets(T) BY <1>2, <1>5, <1>8, <1>9
  <2> QED BY <2>2, <2>3, <2>4, <2>5 DEF ArmedFor
<1>13. \A f \in Facts(a \o c) : f.type \in {"cancelled", "set"} BY <1>2, <1>3, <1>8, <1>9
<1> QED BY <1>7, <1>9, <1>12, <1>13 DEF T

\* The slot a due wake serves: after the last, and not in the future.
LEMMA LatestDueIs ==
  ASSUME sch \in SchRecord, now \in 0..MaxTime, Next1 <= now
  PROVE  LatestDue \in 0..MaxTime /\ LatestDue > sch.last /\ LatestDue + Every \in 1..(MaxTime + Every)
<1> DEFINE d == now - sch.last
           q == d \div Every
<1>1. sch.last \in 0..MaxTime /\ Every \in Nat /\ Every > 0 /\ now \in Nat /\ MaxTime \in Nat
  BY DEF SchRecord
<1>2. sch.last + Every <= now BY DEF Next1
<1>3. d \in Nat /\ d >= Every BY <1>1, <1>2
<1> HIDE DEF d
<1>4. q \in Int /\ Every * q <= d /\ d < Every * (q + 1) BY <1>1, <1>3
<1> HIDE DEF q
<1>5. q >= 1
  <2>1. SUFFICES ASSUME q + 1 <= 1 PROVE FALSE BY <1>4
  <2>2. Every * (q + 1) <= Every BY <1>1, <1>4, <2>1
  <2> QED BY <1>1, <1>3, <1>4, <2>2
<1>6. Every * q >= Every /\ Every * q \in Int BY <1>1, <1>4, <1>5
<1>7. LatestDue = sch.last + Every * q BY DEF LatestDue, d, q
<1>8. sch.last + d = now BY <1>1 DEF d
<1> DEFINE p == Every * q
<1>9. p \in Int /\ p >= Every /\ p <= d /\ LatestDue = sch.last + p BY <1>4, <1>6, <1>7
<1> HIDE DEF p
<1> QED BY <1>1, <1>3, <1>8, <1>9

\* A safe point that serves no slot: it cancels, or arms the next slot.
LEMMA QuietCheck ==
  ASSUME ScheduleInv, todo = <<>>, Same, host' = "decide", resumed' \in BOOLEAN,
         Fit(todo'), \A f \in Facts(todo') : f.type \in {"cancelled", "set"},
         Active => ArmedFor([id |-> sch.id, at |-> Next1], todo'),
         ~Active => \A f \in Facts(todo') : f.type = "cancelled",
         sch.on /\ ~sch.paused /\ ~Active => \A t \in timers : Drops(t) \in Facts(todo')
  PROVE  ScheduleInv'
<1>1. FoldTyped' /\ HostTyped' /\ FactsSound' /\ OneSettles' BY BatchTyped DEF HostStates
<1>2. \A i \in DOMAIN todo' : todo'[i].type \in {"cancelled", "set"} BY DEF Facts
<1>3. Ahead' = Facts(todo') BY DEF Ahead, Facts
<1>4. AheadOf("wake")' = {} /\ AheadOf("detached")' = {} BY <1>3 DEF AheadOf
<1>5. ~Waking' BY <1>4 DEF Waking
<1>6. Active' <=> Active BY SameKeeps DEF Active
<1>7. OnePrompt'
  <2>1. Prompting(todo)' = {} BY <1>2 DEF Prompting
  <2> QED BY <2>1, SameKeeps DEF ScheduleInv, OnePrompt, Once
<1>8. WakeLeads'
  <2>1. WakeFirst(todo)' BY <1>2 DEF WakeFirst
  <2> QED BY <1>4, <2>1, SameKeeps DEF ScheduleInv, WakeLeads
<1>9. BudgetAhead'
  <2>1. sch'.wakes \in Nat BY <1>1 DEF FoldTyped, SchRecord
  <2>2. WakesAhead' = sch'.wakes BY <1>5, <2>1 DEF WakesAhead
  <2>3. Unbudgeted \/ sch.wakes < MaxWakes BY NothingAhead
  <2> QED BY <2>2, <2>3, SameKeeps DEF BudgetAhead, Unbudgeted
<1>10. PausesCancel' BY <1>2 DEF PausesCancel, CancelsAfter, Disarming
<1>11. RestsDisarmed'
  <2>1. CASE ~sch.on \/ sch.paused
    <3>1. AtRest BY <2>1 DEF AtRest
    <3>2. "cancelled" \in lost \/ timers = {} BY <3>1, NothingAhead
    <3> QED BY <3>2, SameKeeps DEF RestsDisarmed, Disarmed
  <2>2. CASE sch.on /\ ~sch.paused /\ ~Active
    BY <1>3, <2>2, SameKeeps DEF RestsDisarmed, Disarmed, Drops
  <2>3. CASE Active
    BY <1>6, <2>3, SameKeeps DEF RestsDisarmed, AtRest, Active
  <2> QED BY <2>1, <2>2, <2>3
<1>12. SetsActive'
  <2>1. \A f \in Ahead' : f.type \notin Disarming BY <1>3 DEF Disarming
  <2>2. AheadOf("set")' # {} => Active BY <1>3 DEF AheadOf
  <2> QED BY <1>6, <2>1, <2>2 DEF SetsActive, Disarming
<1>13. Places' BY <1>3 DEF Places, Serving
<1>14. Armed'
  <2>1. SlotAhead' = Next1 /\ sch'.id = sch.id BY <1>5, SameKeeps DEF SlotAhead, Next1
  <2>2. Active' => ArmedFor([id |-> sch'.id, at |-> SlotAhead'], todo') BY <1>6, <2>1
  <2> QED BY <2>2, SameKeeps DEF Armed, ArmedFor, Drops, Sets, Facts
<1> QED
  BY <1>1, <1>7, <1>8, <1>9, <1>10, <1>11, <1>12, <1>13, <1>14 DEF ScheduleInv

\* What follows the fact of a wake: its prompt, and the timer of the next slot
\* or, when the budget is spent, the removal.
Prompts == IF Busy THEN <<>> ELSE <<Fact("prompt")>>
Counted == sch.wakes + (IF Busy THEN 0 ELSE 1)
Ends == IF Spent(Counted) THEN <<Fact("detached")>> \o Cancels(timers)
        ELSE Arm(LatestDue + Every)
LEMMA PromptsAre ==
  /\ Fit(Prompts) /\ Settling(Prompts) = {} /\ DOMAIN Prompts \subseteq {1}
  /\ \A f \in Facts(Prompts) : f.type = "prompt" /\ ~Busy
<1>1. CASE Busy
  <2>1. Settling(<<>>) = {} BY NoFacts DEF Settling
  <2> QED BY <1>1, <2>1, FitNone, NoFacts DEF Prompts
<1>2. CASE ~Busy
  <2> DEFINE f == Fact("prompt")
  <2>1. f \in FactRecord /\ f.type = "prompt" /\ ~f.cmd BY FactIs DEF FactTypes
  <2>2. Sound(f) BY <2>1 DEF Sound
  <2>3. Prompts = <<f>> BY <1>2 DEF Prompts
  <2> HIDE DEF f
  <2>4. Fit(<<f>>) /\ Facts(<<f>>) = {f} /\ DOMAIN <<f>> = {1} BY <2>1, <2>2, FitOne, OneFact
  <2>5. Settling(<<f>>) = {} BY <2>1, OneFact DEF Settling
  <2> QED BY <1>2, <2>1, <2>3, <2>4, <2>5
<1> QED BY <1>1, <1>2

LEMMA EndsAre ==
  ASSUME FoldTyped, now \in 0..MaxTime, Next1 <= now
  PROVE  /\ Fit(Ends) /\ Settling(Ends) = {} /\ CancelsAfter(Ends, timers)
         /\ \A f \in Facts(Ends) : f.type \in {"detached", "cancelled", "set"}
         /\ Spent(Counted) =>
              /\ \E f \in Facts(Ends) : f.type = "detached"
              /\ \A f \in Facts(Ends) : f.type # "set"
         /\ ~Spent(Counted) =>
              /\ \A f \in Facts(Ends) : f.type # "detached"
              /\ ArmedFor([id |-> sch.id, at |-> LatestDue + Every], Ends)
<1>1. LatestDue + Every \in 1..(MaxTime + Every) BY LatestDueIs DEF FoldTyped
<1>2. CASE Spent(Counted)
  <2> DEFINE f == Fact("detached")
             c == Cancels(timers)
  <2>1. f \in FactRecord /\ f.type = "detached" /\ ~f.cmd BY FactIs DEF FactTypes
  <2>2. Sound(f) BY <2>1 DEF Sound
  <2>3. CancelsAfter(<<f>> \o c, timers) BY <2>1, CancelsFollow
  <2>4. Fit(c) /\ Settling(c) = {} /\ \A h \in Facts(c) : h.type = "cancelled" BY CancelsFit
  <2>5. Ends = <<f>> \o c BY <1>2 DEF Ends
  <2> HIDE DEF f, c
  <2>6. Fit(<<f>>) /\ Facts(<<f>>) = {f} BY <2>1, <2>2, FitOne
  <2>7. Settling(<<f>>) = {} BY <2>1, OneFact DEF Settling
  <2>8. Fit(<<f>> \o c) /\ Settling(<<f>> \o c) = {}
          /\ Facts(<<f>> \o c) = Facts(<<f>>) \cup Facts(c)
    BY <2>4, <2>6, <2>7, FitConcat
  <2>9. f \in Facts(Ends) /\ \A h \in Facts(Ends) : h = f \/ h.type = "cancelled"
    BY <2>4, <2>5, <2>6, <2>8
  <2> QED BY <1>2, <2>1, <2>3, <2>5, <2>8, <2>9
<1>3. CASE ~Spent(Counted)
  <2> DEFINE b == Arm(LatestDue + Every)
  <2>1. Ends = b BY <1>3 DEF Ends
  <2>2. /\ Fit(b) /\ Settling(b) = {}
        /\ \A f \in Facts(b) : f.type \in {"cancelled", "set"}
        /\ ArmedFor([id |-> sch.id, at |-> LatestDue + Every], b)
    BY <1>1, ArmIs
  <2> HIDE DEF b
  <2>3. CancelsAfter(b, timers) BY <2>2 DEF CancelsAfter, Facts, Disarming
  <2> QED BY <1>3, <2>1, <2>2, <2>3
<1> QED BY <1>2, <1>3

\* The fact of a wake, and the batch it leads.
DueWake == [Timed("wake", sch.id, LatestDue) EXCEPT !.skipped = Busy]
LEMMA DueWakeIs ==
  ASSUME FoldTyped, HostTyped, Next1 <= now
  PROVE  /\ DueWake \in FactRecord /\ DueWake.type = "wake" /\ DueWake.at = LatestDue
         /\ (DueWake.skipped <=> Busy) /\ ~DueWake.cmd /\ Sound(DueWake)
<1> DEFINE f == Timed("wake", sch.id, LatestDue)
<1>1. LatestDue \in 0..MaxTime /\ sch.id \in 0..MaxMoves
  BY LatestDueIs DEF FoldTyped, HostTyped, SchRecord
<1>2. LatestDue \in 0..(MaxTime + Every) BY <1>1
<1>3. f \in FactRecord /\ f.type = "wake" /\ f.at = LatestDue /\ ~f.cmd
  BY <1>1, <1>2, TimedIs DEF FactTypes
<1>4. Busy \in BOOLEAN
  <2>1. unanswered \in BOOLEAN /\ results \in BOOLEAN BY DEF FoldTyped, HostTyped
  <2> QED BY <2>1 DEF Busy
<1> HIDE DEF f
<1>5. DueWake = [f EXCEPT !.skipped = Busy] BY DEF DueWake, f
<1>6. DueWake \in FactRecord /\ DueWake.type = "wake" /\ DueWake.at = LatestDue /\ ~DueWake.cmd
        /\ DueWake.skipped = Busy
  BY <1>3, <1>4, <1>5 DEF FactRecord
<1>7. Sound(DueWake) BY <1>1, <1>6 DEF Sound
<1> QED BY <1>6, <1>7

LEMMA TickIs ==
  ASSUME FoldTyped, HostTyped, Next1 <= now
  PROVE  /\ Fit(ServeTick) /\ Facts(ServeTick) = {DueWake} \cup Facts(Prompts) \cup Facts(Ends)
         /\ Head(ServeTick) = DueWake /\ ServeTick # <<>>
         /\ WakeFirst(ServeTick) /\ Once(Prompting(ServeTick))
         /\ CancelsAfter(ServeTick, timers)
<1> DEFINE w == <<DueWake>>
           q == Prompts \o Ends
           b == w \o q
<1>0. now \in 0..MaxTime BY DEF HostTyped
<1>1. DueWake \in FactRecord /\ DueWake.type = "wake" /\ ~DueWake.cmd /\ Sound(DueWake) BY DueWakeIs
<1>2. /\ Fit(Prompts) /\ Settling(Prompts) = {} /\ DOMAIN Prompts \subseteq {1}
      /\ \A f \in Facts(Prompts) : f.type = "prompt"
  BY PromptsAre
<1>3. /\ Fit(Ends) /\ Settling(Ends) = {} /\ CancelsAfter(Ends, timers)
      /\ \A f \in Facts(Ends) : f.type \in {"detached", "cancelled", "set"}
  BY <1>0, EndsAre
<1>4. Fit(w) /\ Settling(w) = {} /\ Facts(w) = {DueWake} /\ w \in Seq(FactRecord) /\ Len(w) = 1
        /\ DOMAIN w = {1} /\ w[1] = DueWake
  BY <1>1, FitOne, OneFact DEF Settling
<1>5. Prompts \in Seq(FactRecord) /\ Ends \in Seq(FactRecord) BY <1>2, <1>3 DEF Fit
<1>6. ServeTick = b
  <2>1. ServeTick = (w \o Prompts) \o Ends BY DEF ServeTick, DueWake, Prompts, Ends, Counted
  <2> HIDE DEF w
  <2>2. \A s, t, u \in Seq(FactRecord) : (s \o t) \o u = s \o (t \o u)
    BY ConcatAssociative
  <2>4. w \in Seq(FactRecord) /\ Prompts \in Seq(FactRecord) /\ Ends \in Seq(FactRecord)
    BY <1>4, <1>5
  <2>3. (w \o Prompts) \o Ends = w \o (Prompts \o Ends) BY ONLY <2>2, <2>4
  <2> QED BY <2>1, <2>3
<1> HIDE DEF w
<1>7. Fit(q) /\ Settling(q) = {} /\ Facts(q) = Facts(Prompts) \cup Facts(Ends) /\ q \in Seq(FactRecord)
  BY <1>2, <1>3, FitConcat DEF Fit
<1>8. /\ DOMAIN Prompts = 1..Len(Prompts) /\ DOMAIN Ends = 1..Len(Ends)
      /\ Len(Prompts) \in Nat /\ Len(Ends) \in Nat
      /\ DOMAIN q = 1..(Len(Prompts) + Len(Ends))
      /\ \A i \in DOMAIN Prompts : q[i] = Prompts[i]
      /\ \A i \in DOMAIN Ends : q[Len(Prompts) + i] = Ends[i]
      /\ \A i \in DOMAIN q : i \in DOMAIN Prompts \/ i - Len(Prompts) \in DOMAIN Ends
  BY <1>5, ConcatFacts
<1>9. \A i \in DOMAIN q : q[i].type = "prompt" => i = 1
  <2> SUFFICES ASSUME NEW i \in DOMAIN q, q[i].type = "prompt" PROVE i = 1 OBVIOUS
  <2>1. CASE i \in DOMAIN Prompts BY <1>2, <2>1
  <2>2. CASE i - Len(Prompts) \in DOMAIN Ends
    <3>1. Len(Prompts) + (i - Len(Prompts)) = i BY <1>8
    <3>2. q[i] = Ends[i - Len(Prompts)] BY <1>8, <2>2, <3>1
    <3>3. q[i] \in Facts(Ends) BY <2>2, <3>2 DEF Facts
    <3> QED BY <1>3, <3>3
  <2> QED BY <1>8, <2>1, <2>2
<1>10. CancelsAfter(q, timers)
  <2> SUFFICES ASSUME NEW i \in DOMAIN q, q[i].type \in Disarming, NEW t \in timers
               PROVE  \E j \in DOMAIN q : j > i /\ q[j] = Drops(t)
    BY DEF CancelsAfter
  <2>1. i \notin DOMAIN Prompts
    <3>1. SUFFICES ASSUME i \in DOMAIN Prompts PROVE FALSE OBVIOUS
    <3>2. q[i] \in Facts(Prompts) BY <1>8, <3>1 DEF Facts
    <3> QED BY <1>2, <3>2 DEF Disarming
  <2> DEFINE k == i - Len(Prompts)
  <2>2. k \in DOMAIN Ends /\ Len(Prompts) + k = i BY <1>8, <2>1
  <2> HIDE DEF k
  <2>3. q[i] = Ends[k] BY <1>8, <2>2
  <2>4. PICK j \in DOMAIN Ends : j > k /\ Ends[j] = Drops(t)
    BY <1>3, <2>2, <2>3 DEF CancelsAfter
  <2>5. Len(Prompts) + j \in DOMAIN q /\ Len(Prompts) + j > i /\ q[Len(Prompts) + j] = Drops(t)
    BY <1>8, <2>2, <2>4
  <2> QED BY <2>5
<1>11. \A i \in DOMAIN q : q[i].type # "wake"
  <2>1. \A f \in Facts(q) : f.type # "wake" BY <1>2, <1>3, <1>7
  <2> QED BY <2>1 DEF Facts
<1> HIDE DEF q
<1>12. Fit(b) /\ Facts(b) = {DueWake} \cup Facts(q) BY <1>4, <1>7, FitConcat
<1>13. /\ DOMAIN q = 1..Len(q) /\ Len(q) \in Nat /\ DOMAIN b = 1..(1 + Len(q))
       /\ b[1] = DueWake /\ \A i \in DOMAIN q : b[1 + i] = q[i]
       /\ b \in Seq(FactRecord)
  <2>1. /\ DOMAIN q = 1..Len(q) /\ Len(q) \in Nat /\ DOMAIN b = 1..(Len(w) + Len(q))
        /\ \A i \in DOMAIN w : b[i] = w[i]
        /\ \A i \in DOMAIN q : b[Len(w) + i] = q[i]
        /\ b \in Seq(FactRecord)
    BY <1>4, <1>7, ConcatFacts
  <2>2. 1 \in DOMAIN w BY <1>4
  <2> HIDE DEF b
  <2> QED BY <1>4, <2>1, <2>2
<1>14. b # <<>> /\ Head(b) = DueWake
  <2>1. b # <<>> BY <1>13, NoFacts
  <2> QED BY <1>13, <2>1, HeadTailProperties
<1> HIDE DEF b
<1>15. \A i \in DOMAIN b : i = 1 \/ (i - 1 \in DOMAIN q /\ b[i] = q[i - 1])
  <2> SUFFICES ASSUME NEW i \in DOMAIN b, i # 1 PROVE i - 1 \in DOMAIN q /\ b[i] = q[i - 1]
    OBVIOUS
  <2>1. i - 1 \in DOMAIN q /\ 1 + (i - 1) = i BY <1>13
  <2> QED BY <1>13, <2>1
<1>16. WakeFirst(b) BY <1>11, <1>15 DEF WakeFirst
<1>17. Once(Prompting(b))
  <2>1. \A i \in DOMAIN b : b[i].type = "prompt" => i - 1 = 1 /\ i \in Int
    BY <1>1, <1>9, <1>13, <1>15
  <2>2. \A i \in DOMAIN b : b[i].type = "prompt" => i = 2 BY <2>1
  <2> QED BY <2>2 DEF Once, Prompting
<1>18. CancelsAfter(b, timers)
  <2> SUFFICES ASSUME NEW i \in DOMAIN b, b[i].type \in Disarming, NEW t \in timers
               PROVE  \E j \in DOMAIN b : j > i /\ b[j] = Drops(t)
    BY DEF CancelsAfter
  <2>1. i - 1 \in DOMAIN q /\ b[i] = q[i - 1] BY <1>1, <1>13, <1>15 DEF Disarming
  <2>2. PICK j \in DOMAIN q : j > i - 1 /\ q[j] = Drops(t) BY <1>10, <2>1 DEF CancelsAfter
  <2>3. 1 + j \in DOMAIN b /\ 1 + j > i /\ b[1 + j] = Drops(t) BY <1>13, <2>2
  <2> QED BY <2>3
<1>19. Facts(ServeTick) = {DueWake} \cup Facts(Prompts) \cup Facts(Ends) BY <1>6, <1>7, <1>12
<1> QED BY <1>6, <1>12, <1>14, <1>16, <1>17, <1>18, <1>19

LEMMA TickKeeps ==
  ASSUME ScheduleInv, todo = <<>>, Same, host' = "decide", resumed' \in BOOLEAN, IsDue,
         todo' = ServeTick
  PROVE  ScheduleInv'
<1>0. FoldTyped /\ HostTyped /\ OnePrompt /\ WakeLeads BY DEF ScheduleInv
<1>1. Next1 <= now /\ Active /\ now \in 0..MaxTime BY <1>0 DEF IsDue, HostTyped
<1>2. /\ Fit(todo') /\ Facts(todo') = {DueWake} \cup Facts(Prompts) \cup Facts(Ends)
      /\ Head(todo') = DueWake /\ todo' # <<>> /\ WakeFirst(todo') /\ Once(Prompting(todo'))
      /\ CancelsAfter(todo', timers)
  BY <1>0, <1>1, TickIs
<1>3. /\ DueWake \in FactRecord /\ DueWake.type = "wake" /\ DueWake.at = LatestDue
      /\ (DueWake.skipped <=> Busy)
  BY <1>0, <1>1, DueWakeIs
<1>4. \A f \in Facts(Prompts) : f.type = "prompt" /\ ~Busy BY PromptsAre
<1>5. /\ \A f \in Facts(Ends) : f.type \in {"detached", "cancelled", "set"}
      /\ Spent(Counted) =>
           /\ \E f \in Facts(Ends) : f.type = "detached"
           /\ \A f \in Facts(Ends) : f.type # "set"
      /\ ~Spent(Counted) =>
           /\ \A f \in Facts(Ends) : f.type # "detached"
           /\ ArmedFor([id |-> sch.id, at |-> LatestDue + Every], Ends)
  BY <1>0, <1>1, EndsAre
<1>6. FoldTyped' /\ HostTyped' /\ FactsSound' /\ OneSettles'
  BY <1>2, BatchTyped DEF HostStates
<1>7. Ahead' = {DueWake} \cup Facts(Prompts) \cup Facts(Ends) BY <1>2 DEF Ahead, Facts
<1>8. Waking' BY <1>3, <1>7 DEF Waking, AheadOf
<1>9. OnePrompt'
  <2>1. Once(Prompting(todo))' BY <1>2 DEF Once, Prompting
  <2>2. Prompting(todo)' # {} => prompts = 0
    <3>1. SUFFICES ASSUME NEW i \in DOMAIN todo', todo'[i].type = "prompt" PROVE prompts = 0
      BY DEF Prompting
    <3>2. todo'[i] \in Facts(todo') BY DEF Facts
    <3>3. ~Busy BY <1>2, <1>3, <1>4, <1>5, <3>1, <3>2
    <3>4. ~unanswered /\ prompts \in 0..1 BY <1>0, <3>3 DEF Busy, HostTyped
    <3> QED BY <1>0, <3>4 DEF OnePrompt
  <2> QED BY <1>0, <2>1, <2>2, SameKeeps DEF OnePrompt
<1>10. WakeLeads'
  <2>1. \A f \in AheadOf("wake")' : f = DueWake BY <1>4, <1>5, <1>7 DEF AheadOf
  <2>2. LatestDue > sch.last BY <1>0, <1>1, LatestDueIs DEF FoldTyped
  <2>3. sch'.on /\ asked' = sch'.last BY <1>0, <1>1, SameKeeps DEF Active, WakeLeads
  <2>4. \A f \in AheadOf("wake")' : sch'.on /\ f.at > sch'.last
    BY <1>3, <2>1, <2>2, <2>3, SameKeeps
  <2> QED BY <1>2, <2>3, <2>4 DEF WakeLeads, WakeFirst
<1>11. BudgetAhead'
  <2>1. sch.wakes \in Nat BY <1>0 DEF FoldTyped, SchRecord
  <2>2. WakesAhead' = Counted
    <3>1. WakesAhead' = sch'.wakes + (IF ~DueWake.skipped THEN 1 ELSE 0)
      BY <1>2, <1>8 DEF WakesAhead
    <3> QED BY <1>3, <2>1, <3>1, SameKeeps DEF Counted
  <2>3. Unbudgeted \/ sch.wakes < MaxWakes BY NothingAhead
  <2>4. Unbudgeted \/ Counted <= MaxWakes
    <3>1. Counted \in {sch.wakes, sch.wakes + 1} BY <2>1 DEF Counted
    <3> QED BY <2>1, <2>3, <3>1
  <2>5. Counted \in Nat BY <2>1 DEF Counted
  <2>6. Spent(Counted) => AheadOf("detached")' # {} BY <1>5, <1>7 DEF AheadOf
  <2>7. ~Spent(Counted) => Unbudgeted \/ Counted < MaxWakes
    BY <2>5 DEF Spent, Unbudgeted
  <2>8. Counted <= MaxWakes => Counted < MaxWakes \/ Counted = MaxWakes BY <2>5
  <2> QED BY <2>2, <2>4, <2>6, <2>7, <2>8, SameKeeps DEF BudgetAhead, Unbudgeted
<1>12. PausesCancel' BY <1>2, SameKeeps DEF PausesCancel, CancelsAfter, Drops
<1>13. Active' BY <1>1, SameKeeps DEF Active
<1>14. RestsDisarmed' BY <1>13 DEF RestsDisarmed, AtRest, Active
<1>15. SetsActive'
  <2>1. SUFFICES ASSUME AheadOf("set")' # {} PROVE \A f \in Ahead' : f.type \notin Disarming
    BY <1>13 DEF SetsActive, Disarming
  <2>2. ~Spent(Counted)
    <3>1. PICK f \in Ahead' : f.type = "set" BY <2>1 DEF AheadOf
    <3>2. f \in Facts(Ends) BY <1>3, <1>4, <1>7, <3>1
    <3> QED BY <1>5, <3>1, <3>2
  <2>3. \A f \in Ahead' : f.type \in {"wake", "prompt", "cancelled", "set"}
    BY <1>3, <1>4, <1>5, <1>7, <2>2
  <2> QED BY <2>3 DEF Disarming
<1>16. Places'
  <2>1. \A f \in Ahead' : f.type \in {"wake", "prompt", "detached", "cancelled", "set"}
    BY <1>3, <1>4, <1>5, <1>7
  <2> QED BY <2>1 DEF Places, Serving
<1>17. Armed'
  <2>1. SUFFICES ASSUME AheadOf("detached")' = {}
                 PROVE  ArmedFor([id |-> sch.id, at |-> SlotAhead], todo)'
    BY DEF Armed
  <2>2. ~Spent(Counted) BY <1>5, <1>7, <2>1 DEF AheadOf
  <2> DEFINE T == [id |-> sch.id, at |-> LatestDue + Every]
  <2>3. ArmedFor(T, Ends) BY <1>5, <2>2
  <2>4. SlotAhead' = LatestDue + Every BY <1>2, <1>3, <1>8 DEF SlotAhead
  <2>5. [id |-> sch'.id, at |-> SlotAhead'] = T BY <2>4, SameKeeps
  <2>6. Drops(T).type = "cancelled"
    <3>1. LatestDue + Every \in 1..(MaxTime + Every) BY <1>0, <1>1, LatestDueIs DEF FoldTyped
    <3>2. LatestDue + Every \in 0..(MaxTime + Every) BY <3>1
    <3>3. sch.id \in 0..MaxMoves BY <1>0 DEF FoldTyped, SchRecord
    <3> QED BY <3>2, <3>3, TimedIs DEF Drops, FactTypes
  <2> HIDE DEF T
  <2>7. /\ \A t \in timers : t = T \/ Drops(t) \in Facts(Ends)
        /\ T \in timers \/ Sets(T) \in Facts(Ends)
        /\ Drops(T) \notin Facts(Ends)
        /\ \A f \in Facts(Ends) : f.type = "set" => f = Sets(T)
    BY <2>3 DEF ArmedFor
  <2>8. /\ \A t \in timers : t = T \/ Drops(t) \in Facts(todo')
        /\ T \in timers \/ Sets(T) \in Facts(todo')
        /\ Drops(T) \notin Facts(todo')
        /\ \A f \in Facts(todo') : f.type = "set" => f = Sets(T)
    BY <1>2, <1>3, <1>4, <2>6, <2>7
  <2> QED BY <2>5, <2>8, SameKeeps DEF ArmedFor, Drops, Sets, Facts
<1> QED
  BY <1>6, <1>9, <1>10, <1>11, <1>12, <1>14, <1>15, <1>16, <1>17 DEF ScheduleInv

LEMMA CheckKeeps ==
  ASSUME ScheduleInv, CheckSchedule PROVE ScheduleInv'
<1>0. FoldTyped /\ HostTyped BY DEF ScheduleInv
<1>1. todo = <<>> /\ Same /\ host' = "decide" /\ resumed' \in BOOLEAN /\ todo' = ScheduleFacts
  BY <1>0 DEF CheckSchedule, At, Still, To, HostTyped
<1>2. CASE ~sch.on \/ sch.paused
  <2> DEFINE none == <<>>
  <2>1. ScheduleFacts = none
    <3>1. ~(sch.on /\ ~sch.paused /\ closed) /\ ~(Active /\ ~IsDue) /\ ~IsDue
      BY <1>2 DEF IsDue, Active
    <3> HIDE DEF none
    <3> QED BY <1>2, <3>1, Zenon DEF ScheduleFacts, none
  <2>2. ~Active BY <1>2 DEF Active
  <2>3. Fit(none) /\ Facts(none) = {} BY FitNone
  <2> HIDE DEF none
  <2>4. Fit(todo') /\ Facts(todo') = {} BY <1>1, <2>1, <2>3
  <2>5. \A f \in Facts(todo') : f.type = "cancelled" BY <2>4
  <2>6. /\ Active => ArmedFor([id |-> sch.id, at |-> Next1], todo')
        /\ sch.on /\ ~sch.paused /\ ~Active => \A t \in timers : Drops(t) \in Facts(todo')
    BY <1>2, <2>2
  <2>7. \A f \in Facts(todo') : f.type \in {"cancelled", "set"} BY <2>5
  <2>8. ~Active => \A f \in Facts(todo') : f.type = "cancelled" BY <2>5
  <2>9. Fit(todo') BY <2>4
  <2> HIDE DEF none
  <2> QED BY <1>1, <2>6, <2>7, <2>8, <2>9, QuietCheck
<1>3. CASE sch.on /\ ~sch.paused /\ closed
  <2>1. todo' = Cancels(timers)
    <3>1. ~(~sch.on \/ sch.paused) /\ ~(Active /\ ~IsDue) /\ ~IsDue
      BY <1>3 DEF IsDue, Active
    <3>2. ScheduleFacts = Cancels(timers) BY <1>3, <3>1, Zenon DEF ScheduleFacts
    <3> QED BY <1>1, <3>2
  <2>2. ~Active BY <1>3 DEF Active
  <2>3. Fit(todo') /\ Facts(todo') = {Drops(t) : t \in timers}
          /\ \A f \in Facts(todo') : f.type = "cancelled"
    BY <1>0, <2>1, CancelsFit
  <2>4. \A t \in timers : Drops(t) \in Facts(todo') BY <2>3
  <2> QED BY <1>1, <2>2, <2>3, <2>4, QuietCheck
<1>4. CASE Active /\ ~IsDue
  <2>1. todo' = Arm(Next1)
    <3>1. ~(~sch.on \/ sch.paused) /\ ~(sch.on /\ ~sch.paused /\ closed)
      BY <1>4 DEF Active
    <3>2. ScheduleFacts = Arm(Next1) BY <1>4, <3>1, Zenon DEF ScheduleFacts
    <3> QED BY <1>1, <3>2
  <2>2. Next1 \in 1..(MaxTime + Every) BY <1>0 DEF FoldTyped, SchRecord, Next1
  <2> DEFINE b == Arm(Next1)
  <2>3. Fit(b) /\ (\A f \in Facts(b) : f.type \in {"cancelled", "set"})
          /\ ArmedFor([id |-> sch.id, at |-> Next1], b)
    BY <1>0, <2>2, ArmIs
  <2> HIDE DEF b
  <2>4. Fit(todo') /\ (\A f \in Facts(todo') : f.type \in {"cancelled", "set"})
          /\ ArmedFor([id |-> sch.id, at |-> Next1], todo')
    BY <2>1, <2>3 DEF b
  <2> QED BY <1>1, <1>4, <2>4, QuietCheck
<1>5. CASE IsDue
  <2>1. todo' = ServeTick
    <3>1. ~(~sch.on \/ sch.paused) /\ ~(sch.on /\ ~sch.paused /\ closed)
            /\ ~(Active /\ ~IsDue)
      BY <1>5 DEF IsDue, Active
    <3>2. ScheduleFacts = ServeTick BY <1>5, <3>1, Zenon DEF ScheduleFacts
    <3> QED BY <1>1, <3>2
  <2> QED BY <1>1, <1>5, <2>1, TickKeeps
<1> QED BY <1>0, <1>2, <1>3, <1>4, <1>5 DEF Active, FoldTyped

-----------------------------------------------------------------------------
(* Every step keeps the invariant.                                           *)

LEMMA AppendKeeps ==
  ASSUME ScheduleInv, AppendFact PROVE ScheduleInv'
BY AppendTyped, AppendOnce, AppendWake, AppendBudget, AppendRests, AppendArms DEF ScheduleInv

\* A step of a client or of the clock, that leaves the loop what it has.
LEMMA ClientsKeep ==
  ASSUME ScheduleInv, UNCHANGED <<facts, todo, history>>, HostTyped',
         commands # <<>> => commands' # <<>>,
         host' = host \/ (host' = "resume" /\ host \in {"down", "failed"})
  PROVE  ScheduleInv'
<1>0. /\ FoldTyped /\ FactsSound /\ OneSettles /\ OnePrompt /\ WakeLeads /\ BudgetAhead
      /\ PausesCancel /\ RestsDisarmed /\ SetsActive /\ Places /\ Armed
  BY DEF ScheduleInv
<1>1. /\ sch' = sch /\ timers' = timers /\ waiting' = waiting /\ closed' = closed
      /\ sealed' = sealed /\ unanswered' = unanswered /\ turn' = turn /\ todo' = todo
      /\ asked' = asked /\ prompts' = prompts /\ lost' = lost
  BY DEF facts, history
<1>2. Ahead' = Ahead BY <1>1 DEF Ahead, Facts
<1>3. \A type : AheadOf(type)' = AheadOf(type) BY <1>2 DEF AheadOf
<1>4. SlotAhead' = SlotAhead /\ WakesAhead' = WakesAhead
  <2>1. Waking' <=> Waking BY <1>3 DEF Waking
  <2> QED BY <1>1, <2>1 DEF SlotAhead, WakesAhead, Next1
<1>5. Active' <=> Active BY <1>1 DEF Active
<1>6. host' \in {"decide", "idle"} => host' = host OBVIOUS
<1>7. FoldTyped' BY <1>0, <1>1 DEF FoldTyped
<1>8. FactsSound' BY <1>0, <1>2 DEF FactsSound, Sound
<1>9. OneSettles' BY <1>0, <1>1 DEF OneSettles, Settling, Once
<1>10. OnePrompt' BY <1>0, <1>1 DEF OnePrompt, Prompting, Once
<1>11. WakeLeads' BY <1>0, <1>1, <1>3 DEF WakeLeads, WakeFirst
<1>12. BudgetAhead' BY <1>0, <1>1, <1>3, <1>4 DEF BudgetAhead, Unbudgeted
<1>13. PausesCancel' BY <1>0, <1>1 DEF PausesCancel, CancelsAfter, Drops
<1>14. RestsDisarmed'
  <2>1. AtRest' => AtRest BY <1>1, <1>5, <1>6 DEF AtRest
  <2> QED BY <1>0, <1>1, <1>2, <2>1 DEF RestsDisarmed, Disarmed, Drops
<1>15. SetsActive' BY <1>0, <1>2, <1>3, <1>5 DEF SetsActive
<1>16. Places'
  <2>1. CASE host' = host BY <1>0, <1>1, <1>2, <1>3, <2>1 DEF Places
  <2>2. CASE host' = "resume" /\ host \in {"down", "failed"}
    BY <1>0, <1>1, <1>3, <2>2 DEF Places
  <2> QED BY <2>1, <2>2
<1>17. Armed'
  <2> SUFFICES ASSUME host' \in {"decide", "idle"}, Active', AheadOf("detached")' = {}
               PROVE  ArmedFor([id |-> sch.id, at |-> SlotAhead], todo)'
    BY DEF Armed
  <2>1. ArmedFor([id |-> sch.id, at |-> SlotAhead], todo) BY <1>0, <1>3, <1>5, <1>6 DEF Armed
  <2> QED BY <1>1, <1>4, <2>1 DEF ArmedFor, Facts, Drops, Sets
<1> QED
  BY <1>7, <1>8, <1>9, <1>10, <1>11, <1>12, <1>13, <1>14, <1>15, <1>16, <1>17
  DEF ScheduleInv

\* The end of a turn, of a host or of its process: nothing is in hand, and what
\* was is remembered as lost.
LEMMA EndKeeps ==
  ASSUME ScheduleInv, FoldTyped', HostTyped', todo' = <<>>,
         sch' = sch, timers' = timers, asked' = asked, lost \subseteq lost',
         host' \notin {"decide", "idle"},
         prompts' = 0 \/ (prompts' = prompts /\ unanswered' = unanswered),
         AheadOf("detached") # {} => "detached" \in lost',
         AheadOf("cancelled") # {} => "cancelled" \in lost'
  PROVE  ScheduleInv'
<1>0. /\ FoldTyped /\ HostTyped /\ OnePrompt /\ WakeLeads /\ BudgetAhead /\ RestsDisarmed
  BY DEF ScheduleInv
<1>1. DOMAIN todo' = {} /\ Facts(todo') = {} BY NoFacts
<1>2. Ahead' = {} BY <1>1 DEF Ahead, Facts
<1>3. \A type : AheadOf(type)' = {} BY <1>2 DEF AheadOf
<1>4. ~Waking' BY <1>3 DEF Waking
<1>5. FactsSound' BY <1>2 DEF FactsSound
<1>6. OneSettles'
  <2>1. Settling(todo)' = {} BY <1>1 DEF Settling
  <2> QED BY <2>1 DEF OneSettles, Once
<1>7. OnePrompt'
  <2>1. Prompting(todo)' = {} BY <1>1 DEF Prompting
  <2>2. prompts' = 1 => unanswered' BY <1>0 DEF OnePrompt
  <2> QED BY <2>1, <2>2 DEF OnePrompt, Once
<1>8. WakeLeads'
  <2>1. WakeFirst(todo)' BY <1>1 DEF WakeFirst
  <2> QED BY <1>0, <1>3, <2>1 DEF WakeLeads
<1>9. BudgetAhead'
  <2>1. sch.wakes \in Nat /\ sch'.wakes \in Nat BY <1>0 DEF FoldTyped, SchRecord
  <2>2. WakesAhead' = sch.wakes BY <1>4, <2>1 DEF WakesAhead
  <2>3. WakesAhead \in Nat /\ sch.wakes <= WakesAhead BY <2>1 DEF WakesAhead
  <2>4. Unbudgeted' \/ WakesAhead < MaxWakes BY <1>0 DEF BudgetAhead, Unbudgeted
  <2> QED BY <2>1, <2>2, <2>3, <2>4 DEF BudgetAhead, Unbudgeted
<1>10. PausesCancel' BY <1>1 DEF PausesCancel, CancelsAfter
<1>11. RestsDisarmed'
  <2>1. AtRest' => AtRest BY DEF AtRest
  <2>2. Disarmed => timers = {} \/ AheadOf("cancelled") # {}
    <3>1. SUFFICES ASSUME NEW t \in timers, Drops(t) \in Ahead PROVE AheadOf("cancelled") # {}
      BY DEF Disarmed
    <3>2. Drops(t).type = "cancelled"
      <4>1. t \in TimerRecord BY <1>0, <3>1 DEF FoldTyped
      <4> QED BY <4>1, TimedTimer DEF Drops, FactTypes
    <3> QED BY <3>1, <3>2 DEF AheadOf
  <2>3. timers = {} => Disarmed' BY DEF Disarmed
  <2> QED BY <1>0, <2>1, <2>2, <2>3 DEF RestsDisarmed
<1>12. SetsActive' BY <1>3 DEF SetsActive
<1>13. Places' BY <1>2, <1>3 DEF Places
<1>14. Armed' BY DEF Armed
<1> QED
  BY <1>5, <1>6, <1>7, <1>8, <1>9, <1>10, <1>11, <1>12, <1>13, <1>14 DEF ScheduleInv

LEMMA MoveCounts ==
  ASSUME HostTyped, Move PROVE moves' \in 0..MaxMoves
BY DEF HostTyped, Move

LEMMA ClientSteps ==
  ASSUME ScheduleInv,
         (\E kind \in Kinds : Control(kind)) \/ CloseSession \/ Send \/ TimePasses
           \/ UNCHANGED schVars
  PROVE  ScheduleInv'
<1>0. HostTyped /\ FoldTyped BY DEF ScheduleInv
<1>1. ASSUME Move, Hosted, UNCHANGED <<facts, history, results, now>>,
             commands' \in Seq(CommandRecord), commands # <<>> => commands' # <<>>,
             closing' \in BOOLEAN, sent' \in BOOLEAN
      PROVE  ScheduleInv'
  <2>1. todo' = todo /\ resumed' = resumed /\ results' = results /\ now' = now
          /\ asked' = asked /\ prompts' = prompts /\ lost' = lost
    BY <1>1 DEF Hosted, history
  <2>2. host' = host \/ (host' = "resume" /\ host \in {"down", "failed"}) BY <1>1 DEF Hosted
  <2>3. host' \in HostStates BY <1>0, <2>2 DEF HostTyped, HostStates
  <2>4. HostTyped' BY <1>0, <1>1, <2>1, <2>3, MoveCounts DEF HostTyped
  <2> QED BY <1>1, <2>1, <2>2, <2>4, ClientsKeep
<1>2. ASSUME NEW kind \in Kinds, Control(kind) PROVE ScheduleInv'
  <2> DEFINE c == [kind |-> kind, id |-> moves']
  <2>1. commands' = Append(commands, c) /\ Move /\ Hosted /\ closing' = closing /\ sent' = sent
          /\ UNCHANGED <<facts, history, results, now>>
    BY <1>2 DEF Control
  <2>2. moves' \in 0..MaxMoves BY <1>0, <2>1, MoveCounts
  <2>3. c \in CommandRecord BY <2>2 DEF CommandRecord
  <2> HIDE DEF c
  <2>4. commands' \in Seq(CommandRecord) /\ commands' # <<>>
    BY <1>0, <2>1, <2>3, AppendProperties DEF HostTyped
  <2> QED BY <1>0, <1>1, <2>1, <2>4 DEF HostTyped
<1>3. CASE CloseSession
  <2>1. closing' \in BOOLEAN BY <1>3, Zenon DEF CloseSession
  <2> QED BY <1>0, <1>1, <1>3, <2>1 DEF CloseSession, HostTyped
<1>4. CASE Send
  <2>1. sent' \in BOOLEAN BY <1>4, Zenon DEF Send
  <2> QED BY <1>0, <1>1, <1>4, <2>1 DEF Send, HostTyped
<1>5. CASE TimePasses
  <2>1. now' \in 0..MaxTime BY <1>0, <1>5 DEF TimePasses, HostTyped
  <2>2. /\ todo' = todo /\ resumed' = resumed /\ results' = results /\ moves' = moves
        /\ asked' = asked /\ prompts' = prompts /\ lost' = lost /\ commands' = commands
        /\ closing' = closing /\ sent' = sent /\ host' = host
        /\ UNCHANGED <<facts, todo, history>>
    BY <1>5 DEF TimePasses, history, accepted
  <2>3. HostTyped' BY <1>0, <2>1, <2>2 DEF HostTyped
  <2> QED BY <2>2, <2>3, ClientsKeep
<1>6. CASE UNCHANGED schVars
  <2>1. /\ todo' = todo /\ resumed' = resumed /\ results' = results /\ moves' = moves
        /\ asked' = asked /\ prompts' = prompts /\ lost' = lost /\ commands' = commands
        /\ closing' = closing /\ sent' = sent /\ host' = host /\ now' = now
        /\ UNCHANGED <<facts, todo, history>>
    BY <1>6 DEF schVars, history, accepted
  <2>2. HostTyped' BY <1>0, <2>1 DEF HostTyped
  <2> QED BY <2>1, <2>2, ClientsKeep
<1> QED BY <1>2, <1>3, <1>4, <1>5, <1>6

LEMMA EndSteps ==
  ASSUME ScheduleInv, EndTurn \/ ToolCalls \/ Stop \/ TurnFails \/ HostDies
  PROVE  ScheduleInv'
<1>0. HostTyped /\ FoldTyped BY DEF ScheduleInv
<1>1. /\ sch' = sch /\ timers' = timers /\ asked' = asked /\ now' = now
      /\ commands' = commands /\ closing' = closing /\ sent' = sent /\ resumed' = resumed
  BY DEF EndTurn, ToolCalls, Stop, TurnFails, HostDies, accepted, facts, history
<1>2. todo' = <<>> /\ host' \in {"drain", "failed", "resume", "down", "crashed"}
  BY DEF EndTurn, ToolCalls, Stop, TurnFails, HostDies, GiveUp, To
<1>3. todo' \in Seq(FactRecord) /\ host' \in HostStates /\ host' \notin {"decide", "idle"}
  BY <1>2, NoFacts DEF HostStates
<1>4. moves' \in 0..MaxMoves
  <2>1. CASE EndTurn BY <1>0, <2>1 DEF EndTurn, HostTyped
  <2>2. CASE Move BY <1>0, <2>2, MoveCounts
  <2> QED BY <2>1, <2>2 DEF ToolCalls, Stop, TurnFails, HostDies
<1>5. CASE EndTurn \/ ToolCalls
  <2>1. /\ waiting' = waiting /\ closed' = closed /\ lost' = lost /\ prompts' = 0
        /\ todo = <<>>
    BY <1>5 DEF EndTurn, ToolCalls, At
  <2>2. unanswered' \in BOOLEAN /\ turn' \in BOOLEAN /\ sealed' \in BOOLEAN
          /\ results' \in BOOLEAN
    BY <1>5, Zenon DEF EndTurn, ToolCalls
  <2>3. FoldTyped' BY <1>0, <1>1, <2>1, <2>2 DEF FoldTyped
  <2>4. HostTyped' BY <1>0, <1>1, <1>3, <1>4, <2>1, <2>2 DEF HostTyped
  <2>5. \A type : AheadOf(type) = {} BY <2>1, NoFacts DEF AheadOf, Ahead
  <2> QED BY <1>1, <1>2, <1>3, <2>1, <2>3, <2>4, <2>5, EndKeeps
<1>6. CASE Stop
  <2>1. /\ unanswered' = unanswered /\ turn' = turn /\ results' = results
        /\ prompts' = prompts /\ lost' = lost /\ todo = <<>>
    BY <1>6 DEF Stop, At, history
  <2>2. waiting' \in BOOLEAN /\ closed' \in BOOLEAN /\ sealed' \in BOOLEAN
    <3>1. CASE host = "turn"
      <4>1. closed' = TRUE /\ sealed' = TRUE /\ waiting' = FALSE BY <1>6, <3>1, Zenon DEF Stop
      <4> QED BY <4>1, Zenon
    <3>2. CASE host # "turn" BY <1>0, <1>6, <3>2 DEF Stop, FoldTyped
    <3> QED BY <3>1, <3>2
  <2>3. FoldTyped' BY <1>0, <1>1, <2>1, <2>2 DEF FoldTyped
  <2>4. HostTyped' BY <1>0, <1>1, <1>3, <1>4, <2>1 DEF HostTyped
  <2>5. \A type : AheadOf(type) = {} BY <2>1, NoFacts DEF AheadOf, Ahead
  <2> QED BY <1>1, <1>2, <1>3, <2>1, <2>3, <2>4, <2>5, EndKeeps
<1>7. CASE TurnFails
  <2>1. /\ UNCHANGED <<waiting, closed, sealed, unanswered, turn>> /\ results' = results
        /\ prompts' = prompts /\ lost' = lost /\ todo = <<>>
    BY <1>7 DEF TurnFails, At, history, facts
  <2>2. FoldTyped' BY <1>0, <1>1, <2>1 DEF FoldTyped
  <2>3. HostTyped' BY <1>0, <1>1, <1>3, <1>4, <2>1 DEF HostTyped
  <2>4. \A type : AheadOf(type) = {} BY <2>1, NoFacts DEF AheadOf, Ahead
  <2> QED BY <1>1, <1>2, <1>3, <2>1, <2>2, <2>3, <2>4, EndKeeps
<1>8. CASE HostDies
  <2>1. /\ UNCHANGED <<waiting, closed, sealed, unanswered, turn>> /\ results' = results
        /\ prompts' = prompts
        /\ lost' = lost \cup (Types(todo) \cap {"detached", "cancelled"})
                     \cup {x \in {"hint"} : Active /\ Forgotten}
    BY <1>8 DEF HostDies, facts
  <2>2. lost \subseteq lost' /\ lost' \subseteq {"detached", "cancelled", "hint"}
    BY <1>0, <2>1 DEF HostTyped
  <2>3. \A type \in {"detached", "cancelled"} : AheadOf(type) # {} => type \in lost'
    <3>1. SUFFICES ASSUME NEW type \in {"detached", "cancelled"}, NEW f \in Ahead, f.type = type
                   PROVE  type \in Types(todo)
      BY <2>1 DEF AheadOf
    <3> QED BY <3>1 DEF Ahead, Facts, Types
  <2>4. FoldTyped' BY <1>0, <1>1, <2>1 DEF FoldTyped
  <2>5. HostTyped' BY <1>0, <1>1, <1>3, <1>4, <2>1, <2>2 DEF HostTyped
  <2> QED BY <1>1, <1>2, <1>3, <2>1, <2>2, <2>3, <2>4, <2>5, EndKeeps
<1> QED BY <1>5, <1>6, <1>7, <1>8

\* Every step of the schedule keeps its invariant.
LEMMA ScheduleStep ==
  ASSUME ScheduleInv, [ScheduleNext]_schVars PROVE ScheduleInv'
<1>1. CASE AppendFact BY <1>1, AppendKeeps
<1>2. CASE Resume BY <1>2, ResumeKeeps
<1>3. CASE DrainControls BY <1>3, DrainKeeps
<1>4. CASE CheckSchedule BY <1>4, CheckKeeps
<1>5. CASE Closed \/ Decide \/ IdleTimer \/ IdleInput \/ IdleControl \/ TimerDue \/ Boot
  BY <1>5, QuietAsks
<1>6. CASE EndTurn \/ ToolCalls \/ Stop \/ TurnFails \/ HostDies BY <1>6, EndSteps
<1>7. CASE (\E kind \in Kinds : Control(kind)) \/ CloseSession \/ Send \/ TimePasses
             \/ UNCHANGED schVars
  BY <1>7, ClientSteps
<1> QED BY <1>1, <1>2, <1>3, <1>4, <1>5, <1>6, <1>7 DEF ScheduleNext, Host

LEMMA ScheduleStart ==
  ASSUME ScheduleInit PROVE ScheduleInv
<1>1. /\ waiting \in BOOLEAN /\ closed \in BOOLEAN /\ sealed \in BOOLEAN /\ unanswered \in BOOLEAN
      /\ turn \in BOOLEAN /\ results \in BOOLEAN /\ closing \in BOOLEAN /\ sent \in BOOLEAN
      /\ resumed \in BOOLEAN /\ ~closed
  BY Zenon DEF ScheduleInit
<1>2. host = "idle" /\ now = 0 /\ moves = 0 /\ asked = 0 /\ prompts = 0 /\ lost = {}
  BY DEF ScheduleInit
<1>3. todo = <<>> /\ commands = <<>> BY DEF ScheduleInit
<1>4. todo \in Seq(FactRecord) /\ Ahead = {} /\ DOMAIN todo = {} BY <1>3, NoFacts DEF Ahead
<1>5. commands \in Seq(CommandRecord) BY <1>3, EmptySeq
<1>6. NoSch \in SchRecord /\ ~NoSch.on /\ NoSch.wakes = 0 /\ NoSch.last = 0 /\ NoSch.id = 0
        /\ ~NoSch.paused
  BY DEF NoSch, SchRecord
<1>7. /\ sch \in SchRecord /\ sch.last = 0 /\ sch.wakes \in {0, 1}
      /\ \/ ~sch.on /\ timers = {}
         \/ sch.on /\ timers = {[id |-> sch.id, at |-> Every]}
  <2>1. CASE sch = NoSch /\ timers = {} BY <1>6, <2>1
  <2>2. CASE sch = [NoSch EXCEPT !.on = TRUE, !.wakes = 1]
               /\ timers = {[id |-> sch.id, at |-> Every]}
    <3> DEFINE s == [NoSch EXCEPT !.on = TRUE, !.wakes = 1]
    <3>1. s \in SchRecord /\ s.on /\ s.wakes = 1 /\ s.last = 0
      <4> HIDE DEF NoSch
      <4> QED BY <1>6 DEF SchRecord
    <3> HIDE DEF s
    <3> QED BY <2>2, <3>1 DEF s
  <2> QED BY <2>1, <2>2 DEF ScheduleInit
<1>8. timers \subseteq TimerRecord /\ IsFiniteSet(timers)
  <2>1. CASE timers = {} BY <2>1, FS_EmptySet
  <2>2. CASE timers = {[id |-> sch.id, at |-> Every]}
    <3>1. sch.id \in 0..MaxMoves BY <1>7 DEF SchRecord
    <3>2. Every \in 1..(MaxTime + Every) OBVIOUS
    <3>3. [id |-> sch.id, at |-> Every] \in TimerRecord BY <3>1, <3>2 DEF TimerRecord
    <3> QED BY <2>2, <3>3, FS_Singleton
  <2> QED BY <1>7, <2>1, <2>2
<1>9. FoldTyped BY <1>1, <1>7, <1>8 DEF FoldTyped
<1>10. HostTyped BY <1>1, <1>2, <1>4, <1>5 DEF HostTyped, HostStates
<1>11. \A type : AheadOf(type) = {} BY <1>4 DEF AheadOf
<1>12. ~Waking BY <1>11 DEF Waking
<1>13. FactsSound BY <1>4 DEF FactsSound
<1>14. OneSettles /\ OnePrompt
  <2>1. Settling(todo) = {} /\ Prompting(todo) = {} BY <1>4 DEF Settling, Prompting
  <2> QED BY <1>2, <2>1 DEF OneSettles, OnePrompt, Once
<1>15. WakeLeads BY <1>2, <1>4, <1>7, <1>11 DEF WakeLeads, WakeFirst
<1>16. BudgetAhead
  <2>1. WakesAhead = sch.wakes BY <1>7, <1>12 DEF WakesAhead
  <2> QED BY <1>7, <2>1 DEF BudgetAhead, Unbudgeted
<1>17. PausesCancel BY <1>4 DEF PausesCancel, CancelsAfter
<1>18. Active <=> sch.on
  <2>1. ~sch.paused BY <1>6, Zenon DEF ScheduleInit, NoSch
  <2> QED BY <1>1, <2>1 DEF Active
<1>19. RestsDisarmed
  <2>1. AtRest => ~sch.on
    <3>1. ~sch.paused BY <1>6, Zenon DEF ScheduleInit, NoSch
    <3> QED BY <1>18, <3>1 DEF AtRest
  <2> QED BY <1>7, <2>1 DEF RestsDisarmed, Disarmed
<1>20. SetsActive BY <1>11 DEF SetsActive
<1>21. Places BY <1>2, <1>3, <1>4, <1>11 DEF Places
<1>22. Armed
  <2> SUFFICES ASSUME sch.on PROVE ArmedFor([id |-> sch.id, at |-> SlotAhead], todo)
    BY <1>18 DEF Armed
  <2>1. SlotAhead = Every BY <1>7, <1>12 DEF SlotAhead, Next1
  <2>2. Facts(todo) = {} BY <1>4 DEF Ahead
  <2> QED BY <1>7, <2>1, <2>2 DEF ArmedFor
<1> QED
  BY <1>9, <1>10, <1>13, <1>14, <1>15, <1>16, <1>17, <1>19, <1>20, <1>21, <1>22
  DEF ScheduleInv

\* The invariant has the types and what the run checks of a parked session.
LEMMA ScheduleTypes ==
  ASSUME ScheduleInv PROVE ScheduleTypeOK
BY DEF ScheduleInv, FoldTyped, HostTyped, ScheduleTypeOK, SchRecord, TimerRecord, HostStates

LEMMA ScheduleReads ==
  ASSUME ScheduleInv PROVE OnePromptATurn /\ BudgetKept /\ ParkedIsArmed
<1>0. HostTyped /\ FoldTyped /\ BudgetAhead BY DEF ScheduleInv
<1>1. OnePromptATurn BY <1>0 DEF HostTyped, OnePromptATurn
<1>2. BudgetKept
  <2>1. sch.wakes \in Nat BY <1>0 DEF FoldTyped, SchRecord
  <2>2. WakesAhead \in Nat /\ sch.wakes <= WakesAhead BY <2>1 DEF WakesAhead
  <2> QED BY <1>0, <2>1, <2>2
    DEF BudgetAhead, BudgetKept, Unbudgeted
<1>3. ParkedIsArmed
  <2> SUFFICES ASSUME host = "idle", todo = <<>>
               PROVE  IF Active THEN timers = {[id |-> sch.id, at |-> Next1]}
                      ELSE "cancelled" \in lost \/ timers = {}
    BY DEF ParkedIsArmed, At
  <2>1. ~Active => AtRest BY DEF AtRest
  <2> QED BY <2>1, NothingAhead
<1> QED BY <1>1, <1>2, <1>3

\* Only an append takes a fact from what is in hand.
LEMMA ScheduleSound ==
  ASSUME ScheduleInv PROVE WakeIsNew
<1> SUFFICES ASSUME todo # <<>>, Head(todo).type = "wake" PROVE Head(todo).at > asked
  BY DEF WakeIsNew
<1>1. todo \in Seq(FactRecord) /\ WakeLeads BY DEF ScheduleInv, HostTyped
<1>2. Head(todo) \in AheadOf("wake") BY <1>1, TailFacts DEF AheadOf, Ahead
<1> QED BY <1>1, <1>2 DEF WakeLeads

-----------------------------------------------------------------------------
(* The composition: one of the two orders runs, the other stays as it is.    *)

LEMMA StandingStart ==
  MCInit => IInv
<1> SUFFICES ASSUME MCInit PROVE IInv OBVIOUS
<1>1. GoalInv /\ ScheduleInv BY GoalStart, ScheduleStart DEF MCInit
<1>2. Apart
  <2>1. event = "attached" BY DEF MCInit, Init, GoalInit
  <2> QED BY <2>1 DEF Apart
<1> QED BY <1>1, <1>2 DEF IInv

LEMMA StandingStep ==
  IInv /\ [MCNext]_mcvars => IInv'
<1> SUFFICES ASSUME IInv, [MCNext]_mcvars PROVE IInv' OBVIOUS
<1>1. [Next]_vars /\ [ScheduleNext]_schVars
  BY DEF MCNext, Pursued, Recurring, mcvars
<1>2. GoalInv' /\ ScheduleInv' BY <1>1, GoalStep, ScheduleStep DEF IInv
<1>3. Apart'
  <2>1. part' = part BY DEF MCNext, Pursued, Recurring, mcvars
  <2>2. part = "schedule" => event' = event
    BY DEF MCNext, Pursued, Recurring, mcvars, vars, goalVars
  <2> QED BY <2>1, <2>2 DEF IInv, Apart
<1> QED BY <1>2, <1>3 DEF IInv

\* The inductive invariant of both orders holds.
THEOREM Invariance == MCSpec => []IInv
BY StandingStart, StandingStep, PTL DEF MCSpec

\* The state of the two standing orders, of the host that serves them and of the
\* bar that shows the goal has its types.
THEOREM StandingTyped == MCSpec => []MCTypeOK
<1>1. IInv => MCTypeOK BY GoalTypes, ScheduleTypes DEF IInv, MCTypeOK
<1> QED BY <1>1, Invariance, PTL

\* However host and bar are interleaved, the bar tells the goal's time and the
\* refused controls as the journal has them; and over crashes, pauses and
\* restarts no standing prompt joins another, the budget of wakes is kept, and a
\* parked session has the timer of its next slot and no other (checkSchedule,
\* armScheduleTimer, foldGoal).
THEOREM StandingExact == MCSpec => []StandingIsExact
<1>1. IInv => StandingIsExact BY BarReads, ScheduleReads DEF IInv, StandingIsExact
<1> QED BY <1>1, Invariance, PTL

\* No step is judged twice and no outcome is without its verdict (checkGoal); no
\* slot of a schedule has a second wake, and none that passed before the schedule
\* was attached or resumed has one (checkSchedule).
THEOREM StandingSound == MCSpec => StandingIsSound
<1>1. IInv /\ [MCNext]_mcvars =>
        [OneVerdictPerStep /\ OutcomeFollowsVerdict /\ WakeIsNew]_mcvars
  <2> SUFFICES ASSUME IInv, [MCNext]_mcvars
               PROVE  [OneVerdictPerStep /\ OutcomeFollowsVerdict /\ WakeIsNew]_mcvars
    OBVIOUS
  <2>1. WakeIsNew BY ScheduleSound DEF IInv
  <2>2. CASE Pursued
    <3>1. OneVerdictPerStep /\ OutcomeFollowsVerdict BY <2>2, GoalSound DEF IInv, Pursued
    <3> QED BY <2>1, <3>1
  <2>3. CASE Recurring
    <3>1. event' = event /\ part = "schedule" BY <2>3 DEF Recurring, vars, goalVars
    <3>2. event' = "attached" BY <3>1 DEF IInv, Apart
    <3>3. OneVerdictPerStep /\ OutcomeFollowsVerdict
      BY <3>2 DEF OneVerdictPerStep, OutcomeFollowsVerdict
    <3> QED BY <2>1, <3>3
  <2>4. CASE UNCHANGED mcvars BY <2>4
  <2> QED BY <2>2, <2>3, <2>4 DEF MCNext
<1> QED BY <1>1, Invariance, PTL DEF MCSpec, StandingIsSound
=============================================================================
