----------------------------- MODULE Optimistic ------------------------------
(***************************************************************************)
(* What the store shows before the server has agreed: a session's new      *)
(* title and a project's folded and pinned marks                           *)
(* (src/webui/frontend/src/store.ts).                                      *)
(*                                                                         *)
(* A rename is laid over the title of the list until the page is left, or  *)
(* taken back when the call fails.  A project mark is set at once; the     *)
(* answer brings the whole map, a failed fold asks for the map again, a    *)
(* failed pin puts back the map the click found.  Maps are also polled; no *)
(* answer is compared with a newer one.                                    *)
(*                                                                         *)
(* One session is renamed, with one call at a time on its way; two project *)
(* marks of either kind are on their way at most.                          *)
(***************************************************************************)
EXTENDS Integers, Sequences, FiniteSets, SequencesExt

CONSTANTS Projects,      \* project keys
          OtherRenames,  \* whether another client renames what this one has renamed
          OptSteps       \* clicks and failures
ASSUME OptimisticAssumption == OtherRenames \in BOOLEAN /\ OptSteps \in Nat

VARIABLES
    title, overlay, listTitle, call,  \* the journal's title; renames, sessions; the call
    marks, projects, toggles, poll,   \* the server's map; the store's; calls; a poll
    optSteps
titleVars == <<title, overlay, listTitle, call>>
markVars == <<marks, projects, toggles, poll>>
optVars == <<titleVars, markVars, optSteps>>

OptSpend == optSteps < OptSteps /\ optSteps' = optSteps + 1
OptFree == UNCHANGED optSteps

(***************************************************************************)
(* setRename.  A title is the count of renames; 0 is none.                 *)
(***************************************************************************)
NewTitle == IF overlay > title THEN overlay + 1 ELSE title + 1
Rename ==
    /\ call = 0 /\ OptSpend
    /\ overlay' = NewTitle /\ call' = NewTitle
    /\ UNCHANGED <<title, listTitle, markVars>>
\* The answer asks for the list.
RenameDone ==
    /\ call # 0 /\ call' = 0 /\ title' = call /\ listTitle' = call /\ OptFree
    /\ UNCHANGED <<overlay, markVars>>
OverlayAfterFailure == 0
\* Lost before or after the journal had it.
RenameFails ==
    /\ call # 0 /\ call' = 0 /\ OptSpend
    /\ title' \in {title, call} /\ overlay' = OverlayAfterFailure
    /\ UNCHANGED <<listTitle, markVars>>
OtherRename ==
    /\ OtherRenames \/ overlay = 0
    /\ OptSpend /\ title' = NewTitle
    /\ UNCHANGED <<overlay, listTitle, call, markVars>>
PollTitle ==
    /\ listTitle # title /\ listTitle' = title /\ OptFree
    /\ UNCHANGED <<title, overlay, call, markVars>>
ShownTitle == IF overlay # 0 THEN overlay ELSE listTitle

(***************************************************************************)
(* toggleProjectFolded, toggleProjectPinned, setProjectRemoved: one mark   *)
(* per project stands for them.                                            *)
(***************************************************************************)
NoPoll == [at |-> "none", map |-> [p \in Projects |-> FALSE]]
AskedPoll == [NoPoll EXCEPT !.at = "asked"]
Toggle(p, pin) ==
    /\ Len(toggles) < 2 /\ OptSpend
    /\ projects' = [projects EXCEPT ![p] = ~@]
    /\ toggles' = Append(toggles, [p |-> p, to |-> ~projects[p], pin |-> pin,
                                   done |-> FALSE, map |-> projects])
    /\ UNCHANGED <<titleVars, marks, poll>>
\* map is the map the click found, and then the answer's.
ToggleCall(i) ==
    /\ ~toggles[i].done /\ OptFree
    /\ marks' = [marks EXCEPT ![toggles[i].p] = toggles[i].to]
    /\ toggles' = [toggles EXCEPT ![i].done = TRUE, ![i].map = marks']
    /\ UNCHANGED <<titleVars, projects, poll>>
ToggleLands(i) ==
    /\ toggles[i].done /\ OptFree
    /\ projects' = toggles[i].map /\ toggles' = RemoveAt(toggles, i)
    /\ UNCHANGED <<titleVars, marks, poll>>
\* Lost before or after the server had it.
ToggleFails(i) ==
    /\ ~toggles[i].done /\ OptSpend /\ toggles' = RemoveAt(toggles, i)
    /\ marks' \in {marks, [marks EXCEPT ![toggles[i].p] = toggles[i].to]}
    /\ IF toggles[i].pin THEN projects' = toggles[i].map /\ UNCHANGED poll
                         ELSE poll' = AskedPoll /\ UNCHANGED projects
    /\ UNCHANGED titleVars
PollProjects ==
    /\ poll = NoPoll /\ (projects # marks \/ toggles # <<>>) /\ poll' = AskedPoll /\ OptFree
    /\ UNCHANGED <<titleVars, marks, projects, toggles>>
PollReads ==
    /\ poll.at = "asked" /\ poll' = [at |-> "read", map |-> marks] /\ OptFree
    /\ UNCHANGED <<titleVars, marks, projects, toggles>>
PollLands ==
    /\ poll.at = "read" /\ projects' = poll.map /\ poll' = NoPoll /\ OptFree
    /\ UNCHANGED <<titleVars, marks, toggles>>

OptInit ==
    /\ title = 0 /\ overlay = 0 /\ listTitle = 0 /\ call = 0
    /\ marks = [p \in Projects |-> FALSE] /\ projects = marks
    /\ toggles = <<>> /\ poll = NoPoll /\ optSteps = 0
RenameAnswer == RenameDone \/ PollTitle
PollAnswer == PollProjects \/ PollReads \/ PollLands
ToggleAnswer == \E i \in DOMAIN toggles : ToggleCall(i) \/ ToggleLands(i)
OptNext ==
    \/ RenameAnswer \/ PollAnswer \/ ToggleAnswer \/ Rename \/ RenameFails \/ OtherRename
    \/ \E p \in Projects, pin \in BOOLEAN : Toggle(p, pin)
    \/ \E i \in DOMAIN toggles : ToggleFails(i)

(***************************************************************************)
(* Properties.                                                             *)
(***************************************************************************)
OptTypeOK ==
    /\ {title, overlay, listTitle, call} \subseteq 0..(OptSteps + 1)
    /\ projects \in [Projects -> BOOLEAN] /\ poll.at \in {"none", "asked", "read"}
    /\ call # 0 => overlay = call
\* store.ts: after every call has landed or failed, in whatever order, the page
\* shows what the server holds.
AgreedTitle == call = 0 /\ ShownTitle = title
AgreedMarks == toggles = <<>> /\ projects = marks
=============================================================================
