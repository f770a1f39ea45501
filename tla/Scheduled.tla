------------------------------ MODULE Scheduled ------------------------------
(***************************************************************************)
(* The page of scheduled series and its detail panel                       *)
(* (src/webui/frontend/src/features/scheduled/useScheduledController.ts,   *)
(* components/Scheduled.tsx).                                              *)
(*                                                                         *)
(* The panel shows the schedule the route names (sid).  It is loaded when  *)
(* the route or its row in the list changes, after a control (pause,       *)
(* resume) and after an edit; of overlapping loads the newest wins.  The   *)
(* edit dialog holds a draft made from the detail it was mounted with and  *)
(* saves it against the revision it knows.  Another client edits, pauses   *)
(* and resumes too; any call may be lost before or after it is applied.    *)
(*                                                                         *)
(* A schedule is its revision and whether it is paused.  One control per   *)
(* series and one save are on their way at a time.  Crashed, settled and   *)
(* one-time rows, search, paging and the row menu's other entries are left *)
(* out: they call one API and ask for the list.                            *)
(***************************************************************************)
EXTENDS Integers, FiniteSets

CONSTANTS Series, None,
          SchedSteps     \* what users do, and calls that fail
ASSUME ScheduledAssumption == None \notin Series /\ SchedSteps \in Nat

VARIABLES
    rev, paused,   \* the server's schedules: configuration revision, pause
    updated,       \* updatedAt: when a schedule's journal last changed
    listed,        \* the rows of the page's list, as last refreshed
    sid,           \* scheduledDetailSid, from the route
    detail, error, \* what the panel shows
    load,          \* the newest load (detailRequest); older ones land unheard
    ops, acting,   \* controls on their way; the panel's spinner
    editing, form, \* the dialog: asked for; its draft while it is mounted
    save,          \* a save on its way
    strayed,       \* history: a follow-up on a schedule turned from was asked for,
                   \* and none of the route's schedule has landed since
    schedSteps

schedServer == <<rev, paused, updated>>
panel == <<sid, detail, error, load, strayed>>
dialog == <<editing, form>>
schedVars == <<schedServer, listed, panel, ops, acting, dialog, save, schedSteps>>

View(s) == [of |-> s, rev |-> rev[s], paused |-> paused[s]]
NoLoad == [of |-> None, reply |-> None, awaited |-> FALSE]
Load(s, awaited) == [of |-> s, reply |-> None, awaited |-> awaited]
NoOp == [at |-> "none", pause |-> FALSE, mine |-> FALSE, mixed |-> FALSE]
NoDraft == [of |-> None, base |-> 0, known |-> {}, turned |-> FALSE]
NoSave == [at |-> "none", to |-> None, draft |-> NoDraft, back |-> None, orphan |-> FALSE,
           stray |-> FALSE]

SchedSpend == schedSteps < SchedSteps /\ schedSteps' = schedSteps + 1
SchedFree == UNCHANGED schedSteps

(***************************************************************************)
(* Rendering: the dialog is mounted while it is asked for and there is a   *)
(* detail to edit.  Unmounted, its draft is gone; a save goes on.          *)
(***************************************************************************)
Fresh(d, turned) == [of |-> d.of, base |-> d.rev, known |-> {d.rev}, turned |-> turned]
Render ==
    form' = IF ~editing' \/ sid' = None \/ detail' = None THEN NoDraft
             ELSE IF form = NoDraft THEN Fresh(detail', strayed')
             ELSE [form EXCEPT !.turned = @ \/ sid' # sid]
Orphaned == [save EXCEPT !.orphan = save.at # "none" /\ (@ \/ form' = NoDraft)]

(***************************************************************************)
(* The detail and its loads.                                               *)
(***************************************************************************)
Asks(s, awaited) ==
    load' = Load(s, awaited) /\ error' = FALSE /\ strayed' = (strayed \/ s # sid')
\* A row, a close, or the browser's back and forward, whatever is on its way.
ShowDetail(s, closed) ==
    /\ s # sid /\ SchedSpend
    /\ sid' = s
    /\ IF s = None THEN load' = NoLoad /\ detail' = None /\ error' = FALSE /\ strayed' = FALSE
                   ELSE Asks(s, FALSE) /\ UNCHANGED detail
    /\ closed => s = None
    /\ editing' = (editing /\ ~closed)
    /\ Render /\ save' = Orphaned
    /\ UNCHANGED <<schedServer, listed, ops, acting>>
Retry ==
    /\ sid # None /\ error /\ SchedSpend
    /\ UNCHANGED sid /\ Asks(sid, FALSE)
    /\ UNCHANGED <<schedServer, listed, detail, ops, acting, dialog, save>>
ServerReads ==
    /\ load.of # None /\ load.reply = None
    /\ load' = [load EXCEPT !.reply = View(load.of)]
    /\ SchedFree
    /\ UNCHANGED <<schedServer, listed, sid, detail, error, strayed, ops, acting, dialog, save>>
\* A control that waited for this load is done with it.
Done(s) == [ops EXCEPT ![s] = NoOp]
Landed ==
    IF load.awaited
    THEN ops' = Done(load.of) /\ acting' = (acting /\ ~ops[load.of].mine)
    ELSE UNCHANGED <<ops, acting>>
LoadLands ==
    /\ load.reply # None
    /\ detail' = load.reply /\ error' = FALSE /\ load' = NoLoad /\ strayed' = (load.of # sid)
    /\ Landed /\ SchedFree
    /\ UNCHANGED <<sid, editing>> /\ Render /\ save' = Orphaned
    /\ UNCHANGED <<schedServer, listed>>
LoadStep == ServerReads \/ LoadLands
LoadFails ==
    /\ load.of # None /\ SchedSpend
    /\ detail' = None /\ error' = TRUE /\ load' = NoLoad /\ strayed' = (load.of # sid)
    /\ Landed
    /\ UNCHANGED <<sid, editing>> /\ Render /\ save' = Orphaned
    /\ UNCHANGED <<schedServer, listed>>

Rows == [s \in Series |-> [paused |-> paused[s], updated |-> updated[s]]]
\* Mutant: a changed row does not ask for the detail again.
ReloadNever(rows) == load
\* The effect on the selected row: its status or its update time changed.
Reload(rows) ==
    IF sid # None /\ rows[sid] # listed[sid] THEN Load(sid, FALSE) ELSE load
Refreshed ==
    /\ listed' = Rows /\ load' = Reload(Rows)
    /\ error' = (error /\ load' = load) /\ UNCHANGED strayed
PollList ==
    /\ listed # Rows
    /\ Refreshed /\ SchedFree
    /\ UNCHANGED <<schedServer, sid, detail, ops, acting, dialog, save>>

(***************************************************************************)
(* Pause and resume, from the panel or from a row's menu.                  *)
(***************************************************************************)
Touch(s) == updated' = [updated EXCEPT ![s] = @ + 1]
Apply(s, pause) == paused' = [paused EXCEPT ![s] = pause] /\ Touch(s) /\ UNCHANGED rev
Control(s, pause) ==
    /\ ops[s].at = "none" /\ SchedSpend
    /\ \/ s = sid /\ detail # None /\ load = NoLoad /\ ~acting /\ pause # detail.paused
       \/ pause # listed[s].paused
    /\ ops' = [t \in Series |->
                 IF t # s THEN [ops[t] EXCEPT !.mixed = @ \/ (s = sid /\ ops[t].mine)]
                 ELSE [at |-> "call", pause |-> pause, mine |-> s = sid,
                       mixed |-> s = sid /\ \E o \in Series : ops[o].mine]]
    /\ acting' = (acting \/ s = sid)
    /\ UNCHANGED <<schedServer, listed, panel, dialog, save>>
ControlCall(s) ==
    /\ ops[s].at = "call" /\ Apply(s, ops[s].pause) /\ SchedFree
    /\ ops' = [ops EXCEPT ![s].at = "refresh"]
    /\ UNCHANGED <<listed, panel, acting, dialog, save>>
\* Lost before or after it was applied; nothing is asked for.
ControlFails(s) ==
    /\ ops[s].at = "call" /\ SchedSpend
    /\ Apply(s, ops[s].pause) \/ UNCHANGED schedServer
    /\ ops' = Done(s) /\ acting' = (acting /\ ~ops[s].mine)
    /\ UNCHANGED <<listed, panel, dialog, save>>
\* The list is refreshed, then the detail, of the series the click was for: the
\* comparison with the route is the one of the click.
ControlRefreshes(s) ==
    /\ ops[s].at = "refresh" /\ listed' = Rows /\ SchedFree
    /\ UNCHANGED sid
    /\ IF ops[s].mine
       THEN Asks(s, TRUE) /\ ops' = [ops EXCEPT ![s].at = "load"]
       ELSE Refreshed /\ ops' = Done(s)
    /\ UNCHANGED <<schedServer, detail, acting, dialog, save>>
\* Its load was overtaken by a newer one, and lands unheard.
ControlEnds(s) ==
    /\ ops[s].at = "load" /\ ~(load.awaited /\ load.of = s)
    /\ ops' = Done(s) /\ acting' = (acting /\ ~ops[s].mine) /\ SchedFree
    /\ UNCHANGED <<schedServer, listed, panel, dialog, save>>

(***************************************************************************)
(* The edit dialog.                                                        *)
(***************************************************************************)
BeginEdit ==
    /\ ~editing /\ sid # None /\ detail # None /\ load = NoLoad /\ SchedSpend
    /\ editing' = TRUE /\ UNCHANGED panel /\ Render
    /\ UNCHANGED <<schedServer, listed, ops, acting, save>>
\* Escape closes it even while a save is on its way.
CloseEdit ==
    /\ editing /\ form # NoDraft
    /\ editing' = FALSE /\ UNCHANGED panel /\ Render /\ save' = Orphaned /\ SchedFree
    /\ UNCHANGED <<schedServer, listed, ops, acting>>
\* The address is the detail of this render, the draft of an earlier one.
Save ==
    /\ form # NoDraft /\ save.at = "none" /\ SchedSpend
    /\ save' = [at |-> "call", to |-> detail.of, draft |-> form, back |-> sid,
                orphan |-> FALSE, stray |-> strayed \/ form.turned]
    /\ UNCHANGED <<schedServer, listed, panel, ops, acting, dialog>>

Current == save.draft.base = rev[save.to]
Accepted ==
    /\ save.at = "call" /\ Current
    /\ rev' = [rev EXCEPT ![save.to] = @ + 1] /\ Touch(save.to) /\ UNCHANGED paused
SaveCall ==
    /\ Accepted /\ SchedFree
    /\ save' = [save EXCEPT !.at = "refresh"]
    /\ editing' = FALSE /\ UNCHANGED panel /\ Render
    /\ UNCHANGED <<listed, ops, acting>>
SaveRefreshes ==
    /\ save.at = "refresh" /\ SchedFree
    /\ listed' = Rows /\ UNCHANGED sid /\ Asks(save.back, FALSE)
    /\ save' = NoSave
    /\ UNCHANGED <<schedServer, detail, ops, acting, dialog>>
SaveConflicts ==
    /\ save.at = "call" /\ ~Current /\ SchedFree
    /\ save' = [save EXCEPT !.at = "refetch"]
    /\ UNCHANGED <<schedServer, listed, panel, ops, acting, dialog>>
\* "This schedule changed elsewhere. Your draft is preserved; review it."
Refetch(ok) ==
    /\ save.at = "refetch" /\ (IF ok THEN SchedFree ELSE SchedSpend)
    /\ form' = IF save.orphan THEN form
                ELSE IF ~ok THEN form
                ELSE [form EXCEPT !.base = rev[save.to],
                                   !.known = @ \union {rev[save.to]}]
    /\ save' = NoSave
    /\ UNCHANGED <<schedServer, listed, panel, ops, acting, editing>>
SaveFails ==
    /\ save.at = "call" /\ SchedSpend
    /\ Accepted \/ UNCHANGED schedServer
    /\ save' = NoSave
    /\ UNCHANGED <<listed, panel, ops, acting, dialog>>

(***************************************************************************)
(* Another client.                                                         *)
(***************************************************************************)
Elsewhere(s) ==
    /\ SchedSpend
    /\ \/ rev' = [rev EXCEPT ![s] = @ + 1] /\ Touch(s) /\ UNCHANGED paused
       \/ Apply(s, ~paused[s])
    /\ UNCHANGED <<listed, panel, ops, acting, dialog, save>>

SchedInit ==
    /\ rev = [s \in Series |-> 1] /\ paused = [s \in Series |-> FALSE]
    /\ updated = [s \in Series |-> 0] /\ listed = Rows /\ sid = None /\ detail = None /\ error = FALSE /\ load = NoLoad
    /\ strayed = FALSE
    /\ ops = [s \in Series |-> NoOp] /\ acting = FALSE
    /\ editing = FALSE /\ form = NoDraft /\ save = NoSave /\ schedSteps = 0

Answers(s) == ControlCall(s) \/ ControlRefreshes(s) \/ ControlEnds(s)
SaveAnswers == SaveCall \/ SaveRefreshes \/ SaveConflicts \/ Refetch(TRUE)
SchedNext ==
    \/ \E s \in Series \union {None}, closed \in BOOLEAN : ShowDetail(s, closed)
    \/ Retry \/ LoadStep \/ LoadFails \/ PollList
    \/ \E s \in Series, pause \in BOOLEAN : Control(s, pause)
    \/ \E s \in Series : Answers(s) \/ ControlFails(s) \/ Elsewhere(s)
    \/ BeginEdit \/ CloseEdit \/ Save \/ SaveAnswers \/ Refetch(FALSE) \/ SaveFails

(***************************************************************************)
(* Properties.                                                             *)
(***************************************************************************)
Views == [of : Series, rev : Nat, paused : BOOLEAN]
\* Every variable keeps its type.
SchedTypeOK ==
    /\ {sid, form.of, save.to} \subseteq Series \union {None}
    /\ listed \in [Series -> [paused : BOOLEAN, updated : Nat]] /\ detail \in Views \union {None}
    /\ load.reply \in Views \union {None}
    /\ {acting, editing, error} \subseteq BOOLEAN /\ schedSteps \in 0..SchedSteps
    /\ form # NoDraft => editing

\* useScheduledController.ts, save: a save reaches the schedule its draft was made
\* from, and replaces only a revision that was loaded into the dialog or that a
\* conflict has told its writer of (without showing it), unless the dialog stayed
\* open, or a follow-up came, while the user turned to another schedule.
SaveIsInformed ==
    Accepted => \/ save.stray
                \/ save.to = save.draft.of /\ rev[save.to] \in save.draft.known

\* useScheduledController.ts, cadence: the panel's button shows a control exactly
\* as long as one clicked on the panel's schedule is on its way, unless controls of
\* two schedules were clicked so: the first to end clears the button of both.
SpinnerIsHonest ==
    \/ \E s \in Series : ops[s].mixed
    \/ acting <=> \E s \in Series : ops[s].mine

\* useScheduledController.ts, loadDetail: no load is outstanding and the panel
\* shows the schedule of its route as it is, or why it cannot, unless the newest
\* load followed a control or a save of a schedule the user has turned from.
DetailIsCurrent ==
    load = NoLoad /\ (sid # None /\ ~error => detail = View(sid) \/ strayed)

\* Without the exceptions: a turn to another schedule breaks them.
SaveHitsItsSchedule == [][Accepted => save.to = save.draft.of]_schedVars
\* The dialog takes a revision it has not shown after a conflict.
SaveSawWhatItReplaces == [][Accepted /\ ~save.stray => \A r \in save.draft.known : r = rev[save.to]]_schedVars
\* useScheduledController.ts, 637: "Your draft is preserved": it goes only when
\* the user closes or leaves the dialog or the draft was saved.
DraftIsPreserved ==
    [][form # NoDraft /\ form' = NoDraft => ~editing' \/ sid' # sid]_schedVars
\* Scheduled.tsx: the panel titled with the route's schedule shows that one.
DetailIsSelected == detail # None /\ load = NoLoad => detail.of = sid
=============================================================================
