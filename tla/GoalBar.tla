------------------------------ MODULE GoalBar -------------------------------
(***************************************************************************)
(* The goal bar of a session page, over the goal of the session            *)
(* (src/webui/frontend/src/timeline.ts, deriveGoalState and                *)
(* goalNoopReceipts; features/session/SessionFeature.tsx).                 *)
(*                                                                         *)
(* The page sees a prefix of the journal, folds it into a phase and a      *)
(* clock, and offers pause, resume and cancel.  A click shows as            *)
(* pending until the journal shows its outcome, its call fails, or twenty  *)
(* seconds pass.  A control that came too late leaves a no_op receipt,     *)
(* which the page announces.  The edit of the goal's text, its pending     *)
(* state and the dismissal of a settled banner are left out; an update     *)
(* comes from any client.                                                  *)
(***************************************************************************)
EXTENDS Goal

\* A goal nobody watches is checked further than one a page watches.
CONSTANT PageSteps
ASSUME GoalBarAssumption == PageSteps \in 0..MaxSteps

VARIABLES
    full, noops,    \* the journal, folded: goal state, number of no_op receipts
    seen, seenNoops,\* the same, as of the last poll
    hydrated,       \* the first poll has landed
    base, told,     \* receipts before hydration; receipts announced since
    pendingAction,  \* goalPendingAction
    failing,        \* a control's call is on its way and will fail
    plain,          \* updated only while pursued, ended once
    watched         \* whether there is a page at all

barVars == <<full, noops, seen, seenNoops, hydrated, base, told, pendingAction,
             failing, plain, watched>>
vars == <<goalVars, barVars>>

(***************************************************************************)
(* deriveGoalState.  Times are clock readings; -1 is undefined.            *)
(***************************************************************************)
NoState == [phase |-> "none", activeMs |-> 0, since |-> -1,
            attachedAt |-> -1, endedAt |-> -1]
IsGoalTerminal(phase) == phase \in {"achieved", "stopped", "cancelled"}
\* Mutant: a segment is banked from the attachment.
BankFromAttach(G, at) == IF G.since = -1 THEN G.activeMs ELSE at - G.attachedAt
Bank(G, at) == IF G.since = -1 THEN G.activeMs ELSE G.activeMs + (at - G.since)

Derive(G, type) ==
    LET none == G.phase = "none"
        over == IsGoalTerminal(G.phase)
        ends == [cancelled |-> "cancelled", achieved |-> "achieved",
                 exhausted |-> "stopped"] IN
    CASE type = "attached" ->
           [NoState EXCEPT !.phase = "active", !.attachedAt = clock, !.since = clock]
      [] type = "updated" /\ ~none ->
           [G EXCEPT !.phase = "active", !.endedAt = -1,
                     !.since = IF over \/ @ = -1 THEN clock ELSE @]
      [] type = "paused" /\ ~none /\ ~over ->
           [G EXCEPT !.phase = "paused", !.activeMs = Bank(G, clock), !.since = -1]
      [] type = "resumed" /\ ~none /\ ~over ->
           [G EXCEPT !.phase = "active", !.since = IF @ = -1 THEN clock ELSE @]
      [] type \in DOMAIN ends /\ ~none ->
           [G EXCEPT !.phase = ends[type], !.endedAt = clock]
      [] OTHER -> G

\* A settled goal's clock is closed once, after the last event.
Close(G) ==
    IF IsGoalTerminal(G.phase)
    THEN [G EXCEPT !.activeMs = Bank(G, G.endedAt), !.since = -1]
    ELSE G
Reading(G, now) == G.activeMs + (IF G.since = -1 THEN 0 ELSE now - G.since)

Settles(action, G) ==
    \/ IsGoalTerminal(G.phase)
    \/ action = "pause" /\ G.phase = "paused"
    \/ action = "resume" /\ G.phase = "active"

(***************************************************************************)
(* Page steps.                                                             *)
(***************************************************************************)
\* Mutant: the baseline is the next receipt, not the last.
NewBaseNext == noops + 1
NewBase == noops

\* Events land, the effects that watch them run.  The mount pass only sets the
\* baseline of the receipts.
PollEvents ==
    /\ ~hydrated \/ seen # full \/ seenNoops # noops
    /\ seen' = full /\ seenNoops' = NewBase /\ hydrated' = TRUE
    /\ base' = IF hydrated THEN base ELSE noops
    /\ told' = IF hydrated THEN told + (noops - seenNoops) ELSE 0
    /\ pendingAction' = IF Settles(pendingAction, full) THEN "none"
                        ELSE pendingAction
    /\ Nothing
    /\ UNCHANGED <<full, noops, failing, plain, watched, durable, process,
                   clock, spent, steps>>

Offered == CASE seen.phase = "active" -> {"pause", "cancel"}
             [] seen.phase = "paused" -> {"resume", "cancel"}
             [] OTHER -> {}
Unheard == Nothing /\ UNCHANGED <<durable, process, clock, spent>>
\* A pending state that the page's own facts already settle ends at once.
GoalAction(action, ok, lost) ==
    /\ action \in Offered /\ pendingAction = "none"
    /\ pendingAction' = IF Settles(action, seen) THEN "none" ELSE action
    /\ failing' = (failing \/ ~ok)
    /\ IF lost THEN Spend /\ Unheard ELSE Accept(action)
    /\ UNCHANGED <<full, noops, seen, seenNoops, hydrated, base, told, plain, watched>>
CallFails ==
    /\ failing /\ failing' = FALSE /\ pendingAction' = "none"
    /\ Unheard
    /\ UNCHANGED <<full, noops, seen, seenNoops, hydrated, base, told, plain, watched,
                   steps>>
\* Twenty seconds have passed since the click; a settled goal stops the ticker,
\* and has settled the click.
Ceiling ==
    /\ pendingAction # "none" /\ seen.phase # "none" /\ ~IsGoalTerminal(seen.phase)
    /\ pendingAction' = "none"
    /\ Unheard
    /\ UNCHANGED <<full, noops, seen, seenNoops, hydrated, base, told, failing, plain,
                   watched, steps>>
\* The page is opened again: nothing of it survives.
Reopen ==
    /\ Spend /\ Unheard
    /\ seen' = NoState /\ seenNoops' = 0 /\ hydrated' = FALSE /\ base' = 0 /\ told' = 0
    /\ pendingAction' = "none" /\ failing' = FALSE
    /\ UNCHANGED <<full, noops, plain, watched>>

Init ==
    /\ GoalInit
    /\ full = [NoState EXCEPT !.phase = "active", !.attachedAt = 0, !.since = 0]
    /\ noops = 0 /\ seen = NoState /\ seenNoops = 0
    /\ hydrated = FALSE /\ base = 0 /\ told = 0
    /\ pendingAction = "none" /\ failing = FALSE /\ plain = TRUE
    /\ watched \in BOOLEAN
    /\ steps = IF watched THEN MaxSteps - PageSteps ELSE 0

Remote ==
    /\ GoalNext
    /\ full' = Derive(full, event')
    /\ noops' = noops + (IF event' = "no_op" THEN 1 ELSE 0)
    /\ plain' = (\/ event' = "attached"
                 \/ /\ plain
                    /\ event' = "updated" => Status(goal) = "active"
                    /\ event' \in {"exhausted", "cancelled"} =>
                         Status(goal) # "exhausted")
    /\ UNCHANGED <<seen, seenNoops, hydrated, base, told, pendingAction, failing, watched>>
Click == \E action \in {"pause", "resume", "cancel"} :
            \/ GoalAction(action, TRUE, FALSE)
            \/ GoalAction(action, FALSE, FALSE)   \* the answer is lost
            \/ GoalAction(action, FALSE, TRUE)    \* the request is lost
Next ==
    \/ Remote
    \/ watched /\ (PollEvents \/ Click \/ CallFails \/ Ceiling \/ Reopen)

\* The loop runs, the page polls, its calls come back, its clock ticks.
Fairness ==
    /\ WF_vars(LoopStep /\ Remote)
    /\ WF_vars(watched /\ PollEvents)
    /\ WF_vars(CallFails) /\ WF_vars(Ceiling)
Spec == Init /\ [][Next]_vars /\ Fairness

(***************************************************************************)
(* Properties.                                                             *)
(***************************************************************************)
\* Every variable keeps its type.
TypeOK ==
    /\ Status(goal) \in {"none", "active", "paused", "exhausted"}
    /\ goal.chkStep \in 0..genStep /\ spent \in 0..clock
    /\ steps \in 0..MaxSteps /\ ToSet(mail) \subseteq Controls
    /\ seenNoops \in 0..noops /\ base \in 0..noops
    /\ pendingAction \in {"none", "pause", "resume", "cancel"}
    /\ {failing, hydrated, watched, plain} \subseteq BOOLEAN

\* goal.go: a generation step that has its verdict is not judged again for the
\* same objective, whatever crashes and restarts fall in between.
OneVerdictPerStep == event' = "checkpoint" => goal.chkStep # genStep
\* goal.go: a goal is achieved by a passing verdict on its present objective,
\* at the step it was given, and stopped by a missed one that spent its budget.
OutcomeFollowsVerdict ==
    event' \in {"achieved", "exhausted"} =>
        /\ goal.chkStep = genStep /\ genStep > 0
        /\ goal.pass = (event' = "achieved")
        /\ goal.pass \/ goal.checks >= MaxChecks
VerdictsAreSound == [][OneVerdictPerStep /\ OutcomeFollowsVerdict]_vars

\* goal.go, loop.go: whatever crashes, an active goal does not stall: it is
\* judged until it is achieved, exhausted, paused or cancelled, unless its
\* last turn did not end gracefully.
GoalSettles == <>[](Status(goal) # "active" \/ ended = "failed")

\* timeline.ts: the bar reads the time the goal was pursued: not the time it
\* was paused, nor the time since it settled.  Shown of the whole journal, of
\* which the page sees every prefix, for a goal that was updated only while it
\* was pursued and that ended once.
ReadingExact == plain => Reading(Close(full), clock) = spent

\* SessionFeature.tsx: every control that came too late is announced once; what
\* the journal held when the page was opened is not.
NoopsToldOnce == hydrated => told = seenNoops - base

\* The bar tells the goal's time and its refused controls as they were.
BarIsExact == ReadingExact /\ NoopsToldOnce

\* SessionFeature.tsx: a click does not stay in flight forever.
PendingEnds == []<>(pendingAction = "none")

\* The goal comes to rest, and so does its bar.
GoalAndBarSettle == GoalSettles /\ PendingEnds

\* loop.go, 1616: a checkpoint is repaired only when its second event is
\* missing, so that a goal is told to be exhausted once per verdict.
StopToldOnce == [][event' = "exhausted" => ~goal.exhausted]_vars
\* epilogue.go, 37: the goal is judged last, so that the barrier snapshots the
\* boundary before a miss injects its feedback.
BarrierBeforeVerdict == [][event' = "checkpoint" => barrier' # "owed"]_vars
\* timeline.ts, 1503: a paused goal's clock stops.
PausedClockStops == Status(goal) = "paused" => full.since = -1
=============================================================================
