------------------------------- MODULE Review --------------------------------
(***************************************************************************)
(* The three places of a session page that state what changed in its       *)
(* workspace: the card under the last answer (components/ChangesOutcome),  *)
(* the rail's Environment rows (EnvironmentSection in SupervisionPanel)    *)
(* and the review panel (components/DiffView), all under                   *)
(* src/webui/frontend/src.                                                 *)
(*                                                                         *)
(* Each reads the diff with calls of its own and keeps what it read.  Card *)
(* and rail read again when a live event arrives or an action of the page  *)
(* bumps the workspace epoch: the card one read at a time, with one more   *)
(* behind it; the rail at most every two seconds.  The panel reads when    *)
(* it opens, when its scope changes, on Refresh and after its own actions. *)
(* Panel and rail share one place on the screen.                           *)
(*                                                                         *)
(* A diff is a number: 0 is nothing changed, any other one a state of the  *)
(* workspace.  The server, git and the agent are external.  One action     *)
(* (commit, commit and push, undo) is on its way at a time, and may fail   *)
(* before or after git changed the workspace, its answer lost or its       *)
(* second half refused; the catch says so and reads nothing again.  Apply, *)
(* remove, init and branch take the way of a commit and are left out, like *)
(* Undo's confirmation, conflicts, files and their folding.                *)
(***************************************************************************)
EXTENDS Integers, FiniteSets

CONSTANT ReviewSteps \* writes, clicks and failures
ASSUME ReviewAssumption == ReviewSteps \in Nat

Scopes == {"last-turn", "working-tree"}
NoScope == "none"
Unavailable == -1
Unread == -2
NoCall == "none"

VARIABLES
    work, turn, latest, \* the working tree's diff, the last turn's, the newest state
    news,               \* a live event is on its way
    phase, card, cardCall, rerun,   \* the card
    env, envReads, recent, timer,   \* the rail
    panel, scope, picked, shown, reads, hint, saved, \* the panel and what opened it
    asked,   \* history: the scope the card's Review was heard with, until something else counts
    astray,  \* history: the last load was an action's, of a scope left since
    act,     \* an action on its way
    untold,  \* history: card and rail, as long as they read nothing since an action changed work
    reviewSteps
serverVars == <<work, turn, latest, news>>
cardVars == <<phase, card, cardCall, rerun>>
railVars == <<env, envReads, recent, timer>>
panelVars == <<panel, scope, picked, shown, reads, hint, saved, asked, astray>>
actVars == <<act, untold>>
reviewVars == <<serverVars, cardVars, railVars, panelVars, actVars, reviewSteps>>

ReviewSpend == reviewSteps < ReviewSteps /\ reviewSteps' = reviewSteps + 1
Diff(s) == IF s = "last-turn" THEN turn ELSE work

(***************************************************************************)
(* The card's effect: single flight with a trailing re-run.                *)
(***************************************************************************)
Call(s) == [scope |-> s, got |-> Unread]
NoCardCall == [scope |-> NoScope, got |-> Unread]
CardTick ==
    /\ IF cardCall = NoCardCall
       THEN cardCall' = Call("last-turn") /\ UNCHANGED rerun
       ELSE rerun' = TRUE /\ UNCHANGED cardCall
    /\ UNCHANGED <<phase, card>>
\* Mutant: the mark of a missed tick stays.
FinallyAgain ==
    /\ cardCall' = (IF rerun THEN Call("last-turn") ELSE NoCardCall)
    /\ UNCHANGED rerun
Finally ==
    /\ cardCall' = (IF rerun THEN Call("last-turn") ELSE NoCardCall)
    /\ rerun' = FALSE
CardServed ==
    /\ cardCall # NoCardCall /\ cardCall.got = Unread
    /\ cardCall' = [cardCall EXCEPT !.got = Diff(cardCall.scope)]
    /\ UNCHANGED <<serverVars, phase, card, rerun, railVars, panelVars, actVars, reviewSteps>>
\* A turn that changed nothing, or has no baseline, falls back to the workspace.
CardLands ==
    /\ cardCall # NoCardCall /\ cardCall.got # Unread
    /\ IF cardCall.scope = "last-turn" /\ cardCall.got <= 0
       THEN cardCall' = Call("working-tree") /\ UNCHANGED <<phase, card, rerun>>
       ELSE card' = cardCall /\ phase' = "ready" /\ Finally
    /\ UNCHANGED <<serverVars, railVars, panelVars, actVars, reviewSteps>>
CardFails ==
    /\ cardCall # NoCardCall /\ ReviewSpend
    /\ phase' = "error" /\ Finally
    /\ UNCHANGED <<serverVars, card, railVars, panelVars, actVars>>
retry ==
    /\ phase = "error" /\ ReviewSpend
    /\ phase' = "loading"
    /\ IF cardCall = NoCardCall
       THEN cardCall' = Call("last-turn") /\ UNCHANGED rerun
       ELSE rerun' = TRUE /\ UNCHANGED cardCall
    /\ untold' = untold \ {"card"}
    /\ UNCHANGED <<serverVars, card, railVars, panelVars, act>>

(***************************************************************************)
(* The rail's effect: read at once, or when two seconds are over.          *)
(***************************************************************************)
\* An answer to any but the newest read is dropped, here when it is overtaken.
RailLoad == envReads' = {Unread} /\ recent' = TRUE /\ UNCHANGED env
RailTick ==
    IF panel THEN UNCHANGED railVars
    ELSE IF recent THEN timer' = TRUE /\ UNCHANGED <<env, envReads, recent>>
    ELSE RailLoad /\ timer' = FALSE
\* Two seconds after the last read began.
Quiet ==
    /\ recent /\ ~timer /\ recent' = FALSE
    /\ UNCHANGED <<serverVars, cardVars, env, envReads, timer, panelVars, actVars, reviewSteps>>
TimerFires ==
    /\ timer /\ timer' = FALSE /\ RailLoad /\ untold' = untold \ {"rail"}
    /\ UNCHANGED <<serverVars, cardVars, panelVars, act, reviewSteps>>
RailServed ==
    /\ Unread \in envReads /\ envReads' = {work}
    /\ UNCHANGED <<serverVars, cardVars, env, recent, timer, panelVars, actVars, reviewSteps>>
RailLands ==
    /\ \E got \in envReads \ {Unread} : env' = got
    /\ envReads' = {}
    /\ UNCHANGED <<serverVars, cardVars, recent, timer, panelVars, actVars, reviewSteps>>
RailFails ==
    /\ envReads # {} /\ ReviewSpend /\ envReads' = {} /\ env' = Unavailable
    /\ UNCHANGED <<serverVars, cardVars, recent, timer, panelVars, actVars>>
\* The rail leaves with its timer and its reads, and begins anew.
RailLeaves == env' = Unavailable /\ envReads' = {} /\ recent' = FALSE /\ timer' = FALSE
RailReturns == env' = Unavailable /\ envReads' = {Unread} /\ recent' = TRUE /\ timer' = FALSE

(***************************************************************************)
(* The panel.                                                              *)
(***************************************************************************)
Loading == [at |-> "loading", scope |-> NoScope, diff |-> 0]
\* Mutant: an overtaken read is still heard.
HeardAll(calls) == calls
\* The answer of an overtaken read is dropped, here when it is overtaken.
Heard(calls) == {}
reload(s) == shown' = Loading /\ reads' = Heard(reads) \cup {Call(s)}
load(s) == reload(s) /\ astray' = FALSE
\* The effect on [sid, scope].
setScope(s) ==
    /\ scope' = s
    /\ IF s = scope THEN UNCHANGED <<shown, reads, astray>> ELSE load(s)
\* openDiff: by the card with its scope, or by an entry without a claim.  In an
\* open panel only a hint that is new is heard.
openDiff(h) ==
    /\ ReviewSpend
    /\ hint' = h
    /\ IF panel
       THEN /\ UNCHANGED <<panel, picked, saved, railVars, act>>
            /\ asked' = IF h = hint THEN asked ELSE h
            /\ IF h # NoScope /\ h # hint THEN setScope(h)
               ELSE UNCHANGED <<scope, shown, reads, astray>>
       ELSE /\ panel' = TRUE /\ picked' = FALSE /\ asked' = h
            /\ scope' = (IF h = NoScope THEN saved ELSE h)
            /\ shown' = Loading /\ reads' = {Call(scope')} /\ astray' = FALSE
            /\ RailLeaves
            /\ act' = [act EXCEPT !.by = IF @ = "rail" THEN "gone" ELSE @]
            /\ UNCHANGED saved
    /\ UNCHANGED <<serverVars, cardVars, untold>>
onReview ==
    /\ phase = "ready" /\ card.got > 0 /\ openDiff(card.scope)
closeDiff ==
    /\ panel /\ ReviewSpend
    /\ panel' = FALSE /\ shown' = Loading /\ reads' = {} /\ picked' = FALSE
    /\ hint' = NoScope /\ asked' = NoScope /\ astray' = FALSE
    /\ RailReturns /\ untold' = untold \ {"rail"}
    /\ act' = [act EXCEPT !.by = IF @ = "panel" THEN "gone" ELSE @]
    /\ UNCHANGED <<serverVars, cardVars, scope, saved>>
pickScope(s) ==
    /\ panel /\ ReviewSpend
    /\ picked' = TRUE /\ saved' = s /\ asked' = NoScope /\ setScope(s)
    /\ UNCHANGED <<serverVars, cardVars, railVars, panel, hint, actVars>>
Refresh ==
    /\ panel /\ ReviewSpend /\ load(scope)
    /\ UNCHANGED <<serverVars, cardVars, railVars, panel, scope, picked, hint, saved, asked, actVars>>
PanelServed(c) ==
    /\ c.got = Unread
    /\ reads' = (reads \ {c}) \cup {[c EXCEPT !.got = Diff(c.scope)]}
    /\ UNCHANGED <<serverVars, cardVars, railVars, panel, scope, picked, shown, hint, saved, asked,
                   astray, actVars, reviewSteps>>
FallsBack(c) == c.scope = "last-turn" /\ c.got = Unavailable /\ ~picked
PanelLands(c) ==
    /\ c.got # Unread
    /\ IF FallsBack(c)
       THEN /\ scope' = "working-tree" /\ asked' = NoScope /\ UNCHANGED shown
            /\ reads' = (reads \ {c})
                        \cup (IF scope = "working-tree" THEN {} ELSE {Call("working-tree")})
       ELSE /\ shown' = [at |-> "ready", scope |-> c.scope, diff |-> c.got]
            /\ reads' = reads \ {c} /\ UNCHANGED <<scope, asked>>
    /\ UNCHANGED <<serverVars, cardVars, railVars, panel, picked, hint, saved, astray, actVars,
                   reviewSteps>>
PanelFails(c) ==
    /\ ReviewSpend
    /\ shown' = [Loading EXCEPT !.at = "error"] /\ reads' = reads \ {c}
    /\ UNCHANGED <<serverVars, cardVars, railVars, panel, scope, picked, hint, saved, asked, astray,
                   actVars>>

(***************************************************************************)
(* doCommit (of the panel and of the rail) and the card's undo.            *)
(***************************************************************************)
NoAct == [by |-> NoCall, scope |-> NoScope, push |-> FALSE, at |-> "none"]
Begin(by, push) ==
    act = NoAct /\ ReviewSpend
        /\ act' = [by |-> by, scope |-> scope, push |-> push, at |-> "asked"]
        /\ UNCHANGED untold
doCommit(push) ==
    /\ Begin(IF panel THEN "panel" ELSE "rail", push)
    /\ IF panel THEN shown.at = "ready" ELSE env > 0
    /\ UNCHANGED <<serverVars, cardVars, railVars, panelVars>>
undo ==
    /\ phase = "ready" /\ card.scope = "working-tree" /\ card.got > 0 /\ Begin("card", FALSE)
    /\ UNCHANGED <<serverVars, cardVars, railVars, panelVars>>
\* git: a commit or a revert leaves nothing.  A commit of nothing is answered
\* like any other.
CardAndRail == {"card", "rail"}
ActServed ==
    /\ act.at = "asked" /\ work' = 0
    /\ act' = [act EXCEPT !.at = IF act.push THEN "push" ELSE "done"]
    /\ untold' = IF work = 0 THEN untold ELSE CardAndRail
    /\ UNCHANGED <<turn, latest, news, cardVars, railVars, panelVars, reviewSteps>>
\* The second call of a commit and push.
PushServed ==
    /\ act.at = "push" /\ act' = [act EXCEPT !.at = "done"]
    /\ UNCHANGED <<serverVars, cardVars, railVars, panelVars, untold, reviewSteps>>
\* A call is refused, or its answer lost.  A revert that fails at git clean has
\* restored the tracked files.
ActFails ==
    /\ act.at \in {"asked", "push", "done"} /\ ReviewSpend
    /\ act' = [act EXCEPT !.at = "refused"]
    /\ \/ UNCHANGED <<work, latest, untold>>
       \/ /\ act.at = "asked" /\ act.by = "card" /\ work > 0
          /\ latest' = latest + 1 /\ work' = latest' /\ untold' = CardAndRail
    /\ UNCHANGED <<turn, news, cardVars, railVars, panelVars>>
\* Mutant: the epoch is not bumped.
bumpNothing == UNCHANGED <<cardVars, railVars>>
bumpWorkspaceEpoch ==
    /\ CardTick
    /\ IF act.by = "rail"
       THEN RailLoad /\ timer' = TRUE \* doCommit reads at once, the bump finds the read recent
       ELSE RailTick
\* Panel and rail read again, each with the load of the render the action began in.
ActReturns ==
    /\ act.at = "done" /\ act' = NoAct /\ untold' = {}
    /\ IF act.by = "panel" THEN reload(act.scope) /\ astray' = (act.scope # scope)
       ELSE UNCHANGED <<shown, reads, astray>>
    /\ bumpWorkspaceEpoch
    /\ UNCHANGED <<serverVars, panel, scope, picked, hint, saved, asked, reviewSteps>>
\* The catch: a toast.
ActRefused ==
    /\ act.at = "refused" /\ act' = NoAct
    /\ UNCHANGED <<serverVars, cardVars, railVars, panelVars, untold, reviewSteps>>

(***************************************************************************)
(* The agent, and its events.                                              *)
(***************************************************************************)
TurnBegins ==
    /\ ReviewSpend /\ turn # Unavailable /\ turn' = 0 /\ news' = TRUE
    /\ UNCHANGED <<work, latest, cardVars, railVars, panelVars, actVars>>
\* The turn's snapshots do not see what a child writes.
AgentWrites(child) ==
    /\ ReviewSpend /\ latest' = latest + 1 /\ work' = latest' /\ news' = TRUE
    /\ turn' = (IF child \/ turn = Unavailable THEN turn ELSE latest')
    /\ UNCHANGED <<cardVars, railVars, panelVars, actVars>>
EventArrives ==
    /\ news /\ news' = FALSE /\ CardTick /\ RailTick /\ untold' = {}
    /\ UNCHANGED <<work, turn, latest, panelVars, act, reviewSteps>>

ReviewInit ==
    /\ work \in {0, 1} /\ turn \in {Unavailable, 0, work} /\ latest = 1 /\ news = FALSE
    /\ phase = "loading" /\ card = NoCardCall /\ cardCall = Call("last-turn") /\ rerun = FALSE
    /\ env = Unavailable /\ envReads = {Unread} /\ recent = TRUE /\ timer = FALSE
    /\ panel = FALSE /\ scope = "last-turn" /\ picked = FALSE /\ shown = Loading /\ reads = {}
    /\ hint = NoScope /\ saved = "last-turn" /\ asked = NoScope /\ astray = FALSE
    /\ act = NoAct /\ untold = {} /\ reviewSteps = 0
CardStep == CardServed \/ CardLands
RailStep == Quiet \/ TimerFires \/ RailServed \/ RailLands
PanelStep == \E c \in reads : PanelServed(c) \/ PanelLands(c)
ActStep == ActServed \/ PushServed \/ ActReturns \/ ActRefused
ReviewNext ==
    \/ CardStep \/ RailStep \/ PanelStep \/ ActStep \/ EventArrives
    \/ TurnBegins \/ (\E child \in BOOLEAN : AgentWrites(child))
    \/ CardFails \/ retry \/ RailFails
    \/ onReview \/ openDiff(NoScope) \/ closeDiff \/ (\E s \in Scopes : pickScope(s)) \/ Refresh
    \/ (\E c \in reads : PanelFails(c))
    \/ (\E push \in BOOLEAN : doCommit(push)) \/ undo \/ ActFails
ReviewSpec ==
    /\ ReviewInit /\ [][ReviewNext]_reviewVars
    /\ WF_reviewVars(CardStep) /\ WF_reviewVars(RailStep) /\ WF_reviewVars(PanelStep)
    /\ WF_reviewVars(ActStep) /\ WF_reviewVars(EventArrives)

ReviewTypeOK ==
    /\ work \in 0 .. latest /\ turn \in Unavailable .. latest /\ news \in BOOLEAN
    /\ phase \in {"loading", "ready", "error"} /\ rerun \in BOOLEAN
    /\ env \in Unavailable .. latest /\ Cardinality(envReads) <= 1
    /\ panel \in BOOLEAN /\ scope \in Scopes /\ saved \in Scopes /\ Cardinality(reads) <= 1
    /\ ~panel => reads = {} /\ shown = Loading /\ act.by # "panel"
    /\ untold \subseteq CardAndRail
    /\ reviewSteps \in 0 .. ReviewSteps

\* Once no event and no read is on its way, card and rail state what the
\* workspace holds: the last turn's edits, or else the workspace's, and never
\* what a commit or an undo has taken away (store.ts, on workspaceEpoch: "Every
\* UI action that mutates the workspace bumps this").  A place is excused from
\* the moment an action changed the workspace until the action returns or the
\* place reads again: an action that fails after the change tells nobody.
CardClaim == IF turn > 0 THEN [scope |-> "last-turn", got |-> turn]
             ELSE [scope |-> "working-tree", got |-> work]
QuietScreensAreTrue ==
    ~news =>
        /\ "card" \notin untold /\ cardCall = NoCardCall /\ phase = "ready" => card = CardClaim
        /\ "rail" \notin untold /\ envReads = {} /\ ~timer /\ env # Unavailable => env = work

\* The panel shows the diff of the scope its toolbar names, unless what it loaded
\* last is the reload of an action during which its scope was changed; that a
\* turn's diff is unavailable is said only to a user who asked for it here; and a
\* panel that heard the card's Review stays on the scope the card claimed until
\* the user picks another (DiffView's load, pickScope and initialScope).
PanelKeepsItsScope ==
    /\ shown.at = "ready" => shown.scope = scope \/ astray
    /\ shown.at = "ready" /\ shown.diff = Unavailable => picked
    /\ asked # NoScope => scope = asked

\* Once no action is on its way, both places were told of what the last one
\* changed (the words of store.ts above).  The catch bumps nothing: an action
\* that failed after the change leaves them.
ActionsAreTold == act = NoAct => untold = {}
\* The panel shows the scope its toolbar names.  An action's reload is of the
\* scope it began in.
ReloadKeepsScope == shown.at = "ready" => shown.scope = scope
\* "A later card click must still land on its scope" (DiffView.tsx, on
\* initialScope).  A click with the hint of the click before is not heard.
ReviewLandsOnItsScope == [][onReview => scope' = card.scope]_reviewVars

\* Every read ends: the card stops loading, the rail's rows come to state the
\* workspace and an open panel shows a diff or an error.
ScreensSettle ==
    /\ cardCall = NoCardCall /\ ~timer /\ envReads = {}
    /\ panel => shown.at # "loading"
=============================================================================
