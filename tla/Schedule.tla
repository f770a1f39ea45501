------------------------------ MODULE Schedule ------------------------------
(***************************************************************************)
(* The recurring schedule of a session (internal/agent/schedule.go, its    *)
(* fold in internal/state/state.go, its place in the drive loop, the       *)
(* idle's wait and the daemon's sweeps).                                   *)
(*                                                                         *)
(* A safe point derives from the fold what is to be journalled: `todo`,    *)
(* the facts it appends one by one.  A crash may fall before any of them;  *)
(* `lost` remembers what it kept from the journal.  Timers are hints:      *)
(* whether a slot is due is derived from the last tick.                    *)
(*                                                                         *)
(* Delivery of controls is in SessionInbox, races of hosts in Hosting; a   *)
(* turn is generations and tool calls, and its budget is left out.         *)
(***************************************************************************)
EXTENDS Integers, Sequences, SequencesExt

CONSTANTS Every,     \* the interval, above 0
          MaxWakes,  \* the schedule's budget of wakes; 0: none. Init is behind one
          MaxTime,   \* bound: the clock
          MaxMoves   \* bound: commands, tool steps, stops, failures, crashes
ASSUME ScheduleAssumption == /\ Every \in Nat \ {0} /\ MaxWakes \in Nat \ {1}
                             /\ MaxTime \in Nat /\ MaxMoves \in Nat

VARIABLES
  sch, timers,       \* the fold's schedule; its pending timers
  waiting, closed,   \* parked for input; a close or stop mark
  sealed,            \* the mark is the last fact of the journal
  unanswered, results, turn, \* inputs; tool results; a generation begun
  commands, closing, sent, \* accepted: schedule controls, a close, a message
  host, todo, resumed, \* the host; whether it was hosted by a resume
  now, moves,
  asked, prompts, lost \* histories: below

facts == <<sch, timers, waiting, closed, sealed, unanswered, turn>>
accepted == <<commands, closing, sent>>
history == <<asked, prompts, lost>>
schVars == <<facts, accepted, results, host, todo, resumed, now, moves, history>>

NoSch == [on |-> FALSE, paused |-> FALSE, id |-> 0, last |-> 0, wakes |-> 0]
Active == sch.on /\ ~sch.paused /\ ~closed
Next1 == sch.last + Every
IsDue == Active /\ Next1 <= now

-----------------------------------------------------------------------------
(* Facts and their fold                                                      *)

Fact(type) == [type |-> type, id |-> 0, at |-> 0, skipped |-> FALSE,
               cmd |-> FALSE]
Timed(type, id, at) == [Fact(type) EXCEPT !.id = id, !.at = at]
OfCommand(f) == [f EXCEPT !.cmd = TRUE]
OnTimers(type, T) ==
  LET s == SetToSeq(T) IN [i \in DOMAIN s |-> Timed(type, s[i].id, s[i].at)]
Cancels(T) == OnTimers("cancelled", T)

\* Mutant: a resume leaves the cadence where the pause found it.
FoldSch_NoRebase(f) ==
  CASE f.type = "attached" ->
         [NoSch EXCEPT !.on = TRUE, !.id = f.id, !.last = f.at]
    [] f.type = "paused"   -> [sch EXCEPT !.paused = TRUE]
    [] f.type = "resumed"  -> [sch EXCEPT !.paused = FALSE]
    [] f.type = "wake"     ->
         [sch EXCEPT !.last = f.at, !.wakes = @ + (IF f.skipped THEN 0 ELSE 1)]
    [] f.type = "detached" -> NoSch
    [] OTHER               -> sch

FoldSch(f) ==
  CASE f.type = "attached" ->
         [NoSch EXCEPT !.on = TRUE, !.id = f.id, !.last = f.at]
    [] f.type = "paused"   -> [sch EXCEPT !.paused = TRUE]
    [] f.type = "resumed"  -> [sch EXCEPT !.paused = FALSE, !.last = f.at]
    [] f.type = "wake"     ->
         [sch EXCEPT !.last = f.at, !.wakes = @ + (IF f.skipped THEN 0 ELSE 1)]
    [] f.type = "detached" -> NoSch
    [] OTHER               -> sch

FoldTimers(f) ==
  CASE f.type = "set" -> timers \cup {[id |-> f.id, at |-> f.at]}
    [] f.type \in {"fired", "cancelled"} -> timers \ {[id |-> f.id, at |-> f.at]}
    [] OTHER -> timers

\* One append.  A fact of a command settles it.
AppendFact ==
  /\ todo # <<>> /\ todo' = Tail(todo)
  /\ LET f == Head(todo) IN
     /\ sch' = FoldSch(f) /\ timers' = FoldTimers(f)
     /\ waiting' = (f.type = "entered"
                      \/ (waiting /\ f.type \notin {"resolved", "closed"}))
     /\ closed' = (f.type = "closed" \/ (closed /\ f.type # "started"))
     /\ sealed' = (f.type = "closed")
     /\ unanswered' = (unanswered \/ f.type \in {"input", "prompt"})
     /\ turn' = (turn \/ f.type = "started")
     /\ commands' = IF f.cmd THEN Tail(commands) ELSE commands
     /\ closing' = (closing /\ f.type # "closed")
     /\ sent' = (sent /\ f.type # "input")
     /\ asked' = IF f.type \in {"attached", "resumed", "wake"} THEN f.at
                                                                ELSE asked
     /\ prompts' = prompts + (IF f.type = "prompt" THEN 1 ELSE 0)
  /\ UNCHANGED <<results, host, resumed, now, moves, lost>>

-----------------------------------------------------------------------------
(* The loop                                                                  *)

At(p) == host = p /\ todo = <<>>
To(p, facts1) == host' = p /\ todo' = facts1
Same == UNCHANGED <<facts, accepted, results, now, moves, history>>
Still == Same /\ UNCHANGED resumed

\* Resume journals the message it was hosted for; FirePendingTimers.
Expired == {t \in timers : t.at <= now}
Resume ==
  /\ At("resume") /\ Same /\ resumed' = TRUE
  /\ To("drain", (IF sent THEN <<Fact("input")>> ELSE <<>>)
                    \o OnTimers("fired", Expired))

\* applyScheduleControl
ControlFacts(c) ==
  CASE c.kind = "attach" ->
         Cancels(timers) \o <<OfCommand(Timed("attached", c.id, now))>>
    [] c.kind = "pause" /\ sch.on /\ ~sch.paused ->
         <<OfCommand(Fact("paused"))>> \o Cancels(timers)
    [] c.kind = "resume" /\ sch.on /\ sch.paused ->
         <<OfCommand(Timed("resumed", 0, now))>>
    [] c.kind = "cancel" /\ sch.on ->
         <<OfCommand(Fact("detached"))>> \o Cancels(timers)
    [] OTHER -> <<OfCommand(Fact("handled"))>>

DrainControls ==
  /\ At("drain") /\ Still
  /\ IF commands # <<>> THEN To("drain", ControlFacts(Head(commands)))
     ELSE IF closing THEN To("close", Cancels(timers) \o <<Fact("closed")>>)
     ELSE To("check", <<>>)

\* The loop returns; a message that is pending hosts the session again.
Closed ==
  /\ At("close") /\ Still
  /\ To(IF sent THEN "resume" ELSE "down", <<>>)

\* armScheduleTimer
Arm(at) ==
  LET t == [id |-> sch.id, at |-> at] IN
  Cancels(timers \ {t})
    \o (IF t \in timers THEN <<>> ELSE <<Timed("set", sch.id, at)>>)

\* Mutant: a wake does not look whether a turn runs.
Busy_Never == FALSE
Busy == unanswered \/ results   \* scheduleBusy

LatestDue == sch.last + Every * ((now - sch.last) \div Every)
\* Mutant: the budget is overdrawn by one.
Spent_Late(wakes) == MaxWakes > 0 /\ wakes > MaxWakes
Spent(wakes) == MaxWakes > 0 /\ wakes >= MaxWakes

\* A due tick: one wake for all slots missed, and its prompt if no turn runs.
ServeTick ==
  <<[Timed("wake", sch.id, LatestDue) EXCEPT !.skipped = Busy]>>
    \o (IF Busy THEN <<>> ELSE <<Fact("prompt")>>)
    \o (IF Spent(sch.wakes + (IF Busy THEN 0 ELSE 1))
        THEN <<Fact("detached")>> \o Cancels(timers)
        ELSE Arm(LatestDue + Every))

ScheduleFacts ==
  CASE ~sch.on \/ sch.paused -> <<>>
    [] sch.on /\ ~sch.paused /\ closed -> Cancels(timers)
    [] Active /\ ~IsDue -> Arm(Next1)
    [] IsDue -> ServeTick

CheckSchedule == At("check") /\ To("decide", ScheduleFacts) /\ Still

\* decide: a park that an input has overtaken is resolved first.
Decide ==
  /\ At("decide") /\ Still
  /\ IF waiting
     THEN IF unanswered THEN To("drain", <<Fact("resolved")>>) ELSE To("idle", <<>>)
     ELSE IF turn THEN To("turn", <<>>)
     ELSE IF unanswered \/ results THEN To("turn", <<Fact("started")>>)
     ELSE To("idle", <<Fact("entered")>>)

\* An assistant message: the turn is over, or its tools ask for another.
EndTurn ==
  /\ At("turn") /\ To("drain", <<>>)
  /\ unanswered' = FALSE /\ turn' = FALSE /\ results' = FALSE /\ prompts' = 0
  /\ sealed' = FALSE
  /\ UNCHANGED <<sch, timers, waiting, closed, accepted, resumed, now, moves,
                 asked, lost>>

\* awaitInput: the earliest timer, a message, or a control ends the park.
IdleTimer ==
  /\ At("idle") /\ Still
  /\ \E t \in Expired :
       /\ \A u \in timers : t.at <= u.at
       /\ To("drain", <<Timed("fired", t.id, t.at), Fact("resolved")>>)
IdleInput ==
  At("idle") /\ sent /\ Still /\ To("drain", <<Fact("input"), Fact("resolved")>>)
IdleControl ==
  At("idle") /\ (commands # <<>> \/ closing) /\ Still
    /\ To("drain", <<Fact("resolved")>>)

-----------------------------------------------------------------------------
(* The daemon, its clients and the clock                                     *)

\* sweepTimers
TimerDue == At("down") /\ ~closed /\ Expired # {} /\ Still /\ To("resume", <<>>)

\* Mutant: every session is taken for parked.
Stranded_Never == FALSE
\* The boot sweeps: pending commands, and a host that died in a turn.
Stranded == ~waiting /\ ~sealed
Boot ==
  /\ host = "crashed" /\ Same /\ resumed' = TRUE
  /\ To(IF commands # <<>> \/ closing \/ sent \/ Stranded THEN "resume" ELSE "down",
        <<>>)

Move == moves < MaxMoves /\ moves' = moves + 1
\* A command hosts its session when nobody does.
Hosted == /\ host # "crashed" /\ UNCHANGED <<todo, resumed>>
          /\ host' = IF host \in {"down", "failed"} THEN "resume" ELSE host
Control(kind) ==
  /\ Move /\ Hosted /\ ~closing
  /\ commands' = Append(commands, [kind |-> kind, id |-> moves'])
  /\ UNCHANGED <<facts, closing, sent, results, now, history>>
CloseSession ==
  /\ Move /\ Hosted /\ ~closing /\ closing' = TRUE
  /\ UNCHANGED <<facts, commands, sent, results, now, history>>
Send ==
  /\ Move /\ Hosted /\ ~sent /\ sent' = TRUE
  /\ UNCHANGED <<facts, commands, closing, results, now, history>>

ToolCalls ==
  /\ Move /\ At("turn") /\ To("drain", <<>>)
  /\ unanswered' = FALSE /\ turn' = FALSE /\ results' = TRUE /\ prompts' = 0
  /\ sealed' = FALSE
  /\ UNCHANGED <<sch, timers, waiting, closed, accepted, resumed, now,
                 asked, lost>>

\* A host returns an error: a resumed one is not resumed for a timer again.
GiveUp ==
  To(IF resumed THEN "failed" ELSE IF sent THEN "resume" ELSE "down", <<>>)
\* A user stops the session: in a turn a mark is left, in a park nothing; the
\* timers stay.
Stop ==
  /\ Move /\ (At("turn") \/ At("idle")) /\ GiveUp
  /\ IF host = "turn" THEN closed' = TRUE /\ sealed' = TRUE /\ waiting' = FALSE
                    ELSE UNCHANGED <<closed, sealed, waiting>>
  /\ UNCHANGED <<sch, timers, unanswered, turn, accepted, results, resumed, now, history>>
TurnFails ==
  /\ Move /\ At("turn") /\ GiveUp
  /\ UNCHANGED <<facts, accepted, results, resumed, now, history>>

\* Nobody looks at a session that is parked without a timer.
Forgotten == waiting /\ timers = {}
Types(s) == {s[i].type : i \in DOMAIN s}
HostDies ==
  /\ Move /\ host # "crashed" /\ To("crashed", <<>>)
  /\ lost' = lost \cup (Types(todo) \cap {"detached", "cancelled"})
               \cup {x \in {"hint"} : Active /\ Forgotten}
  /\ UNCHANGED <<facts, accepted, results, resumed, now, asked, prompts>>

TimePasses ==
  /\ now < MaxTime /\ now' = now + 1
  /\ UNCHANGED <<facts, accepted, results, host, todo, resumed, moves, history>>

\* A session that has answered its first message and is parked; or one that has
\* answered the first wake of its schedule.
ScheduleInit ==
  /\ \/ sch = NoSch /\ timers = {}
     \/ /\ sch = [NoSch EXCEPT !.on = TRUE, !.wakes = 1]
        /\ timers = {[id |-> sch.id, at |-> Every]}
  /\ waiting = TRUE /\ closed = FALSE
  /\ sealed = FALSE /\ unanswered = FALSE /\ results = FALSE /\ turn = FALSE
  /\ commands = <<>> /\ closing = FALSE /\ sent = FALSE
  /\ host = "idle" /\ todo = <<>> /\ resumed = FALSE /\ now = 0 /\ moves = 0
  /\ asked = 0 /\ prompts = 0 /\ lost = {}

Host ==
  \/ AppendFact \/ Resume \/ DrainControls \/ Closed \/ CheckSchedule \/ Decide
  \/ EndTurn \/ IdleTimer \/ IdleInput \/ IdleControl \/ TimerDue \/ Boot
Kinds == {"attach", "pause", "resume", "cancel"}
ScheduleNext ==
  \/ Host
  \/ \E kind \in Kinds : Control(kind)
  \/ CloseSession \/ Send \/ ToolCalls \/ Stop \/ TurnFails \/ HostDies \/ TimePasses

-----------------------------------------------------------------------------
ScheduleTypeOK ==
  /\ sch \in [on : BOOLEAN, paused : BOOLEAN, id : 0..MaxMoves,
              last : 0..MaxTime, wakes : Nat]
  /\ timers \subseteq [id : 0..MaxMoves, at : 1..(MaxTime + Every)]
  /\ {waiting, closed, sealed, unanswered, results, turn, closing, sent,
      resumed} \subseteq BOOLEAN
  /\ host \in {"down", "failed", "crashed", "resume", "drain", "close", "check",
             "decide", "turn", "idle"}
  /\ now \in 0..MaxTime /\ moves \in 0..MaxMoves
  /\ lost \subseteq {"detached", "cancelled", "hint"}

\* Over crashes, restarts, pauses and replays no slot has a second wake, and
\* none that passed before the schedule was attached or resumed has one
\* (ScheduleResumed re-anchors the cadence).
WakeIsNew ==
  todo # <<>> /\ Head(todo).type = "wake" /\ todo' = Tail(todo) =>
    Head(todo).at > asked

\* A standing prompt never joins one that has not been answered
\* (scheduleBusy).
OnePromptATurn == prompts <= 1

\* A schedule is gone when its budget is spent, unless a crash came between the
\* last wake and its removal (checkSchedule).
BudgetKept == MaxWakes > 0 => "detached" \in lost \/ sch.wakes <= MaxWakes

\* A session that is parked has one timer for its next slot, and none if no
\* schedule is active, unless a crash came before the cancellation
\* (armScheduleTimer, cancelScheduleTimers).
ParkedIsArmed ==
  At("idle") =>
    IF Active THEN timers = {[id |-> sch.id, at |-> Next1]}
    ELSE "cancelled" \in lost \/ timers = {}

\* A due slot is served, or skipped, or the schedule pauses or ends, unless a
\* crash left the session parked without a timer, or a resume has failed
\* (checkSchedule, sweepTimers).
SlotsAreServed == IsDue ~> ~IsDue \/ host = "failed" \/ "hint" \in lost
=============================================================================
