------------------------------ MODULE MCConsole ------------------------------
(* The parts of the console that share nothing but the page, one per           *)
(* behaviour: the store, the rail, the page of schedules and the composer.     *)
EXTENDS SessionList, Optimistic, Navigation, Scheduled, HomeComposer, ForkDraft, Posture,
        Sidebar

VARIABLE part
vars == <<listVars, optVars, navVars, schedVars, homeVars, draftVars, postureVars, railVars,
          part>>

\* The rail's initial state in the other parts.
RailAtRest ==
    /\ stamp = [s \in AllChats |-> 2 * s]
    /\ dir = [s \in AllChats |-> CHOOSE d \in RailDirs : TRUE]
    /\ drivers = {} /\ defs = <<>>

Init ==
    /\ part \in {"list", "optimistic", "navigation", "scheduled", "home", "draft", "posture", "sidebar"}
    /\ ListInit /\ OptInit /\ NavInit /\ SchedInit /\ HomeInit /\ DraftInit /\ PostureInit
    /\ part # "sidebar" => RailAtRest
    /\ RailInit
    /\ part # "navigation" => history = <<Hash("home", Nowhere)>>
    /\ part # "home" => lastProject = NoProject
    /\ part # "posture" => access = "ask"
InList ==
    /\ part = "list"
    /\ UNCHANGED <<optVars, navVars, schedVars, homeVars, draftVars, postureVars, railVars, part>>
InOptimistic ==
    /\ part = "optimistic"
    /\ UNCHANGED <<listVars, navVars, schedVars, homeVars, draftVars, postureVars, railVars, part>>
InNavigation ==
    /\ part = "navigation"
    /\ UNCHANGED <<listVars, optVars, schedVars, homeVars, draftVars, postureVars, railVars, part>>
InScheduled ==
    /\ part = "scheduled"
    /\ UNCHANGED <<listVars, optVars, navVars, homeVars, draftVars, postureVars, railVars, part>>
InHome ==
    /\ part = "home"
    /\ UNCHANGED <<listVars, optVars, navVars, schedVars, draftVars, postureVars, railVars, part>>
InDraft ==
    /\ part = "draft"
    /\ UNCHANGED <<listVars, optVars, navVars, schedVars, homeVars, postureVars, railVars, part>>
InPosture ==
    /\ part = "posture"
    /\ UNCHANGED <<listVars, optVars, navVars, schedVars, homeVars, draftVars, railVars, part>>
InSidebar ==
    /\ part = "sidebar"
    /\ UNCHANGED <<listVars, optVars, navVars, schedVars, homeVars, draftVars, postureVars, part>>
Next ==
    \/ InList /\ ListNext
    \/ InOptimistic /\ OptNext
    \/ InNavigation /\ NavNext
    \/ InScheduled /\ SchedNext
    \/ InHome /\ HomeNext
    \/ InDraft /\ DraftNext
    \/ InPosture /\ PostureNext
    \/ InSidebar /\ RailNext

\* The timers poll, calls are answered, and the loop takes its input.
Fairness ==
    /\ WF_vars(InList /\ ListStep)
    /\ WF_vars(InOptimistic /\ RenameAnswer)
    /\ WF_vars(InOptimistic /\ PollAnswer)
    /\ WF_vars(InOptimistic /\ ToggleAnswer)
    /\ WF_vars(InScheduled /\ LoadStep) /\ WF_vars(InScheduled /\ PollList)
    /\ WF_vars(InScheduled /\ SaveAnswers) /\ \A s \in Series : WF_vars(InScheduled /\ Answers(s))
    /\ WF_vars(InDraft /\ PollDraft)
    /\ WF_vars(InDraft /\ Answered)
    /\ WF_vars(InDraft /\ DraftServer)
Spec == Init /\ [][Next]_vars /\ Fairness

\* Every variable keeps its type, no session is listed twice, and no lookup is
\* for a project left behind.
TypeOK ==
    /\ ListTypeOK /\ OptTypeOK /\ NavTypeOK /\ SchedTypeOK
    /\ HomeTypeOK /\ DraftTypeOK /\ PostureTypeOK /\ RailTypeOK
\* What the page says is so: a listed session with turns not yet looked at is
\* marked, and the address names what is on the screen.
PageIsTrue == NoTurnMissed /\ RouteFollowsHash
\* The rail has every session once, newest first, and a row for the open one.
RailIsTrue == part = "sidebar" => EachHasItsPlace /\ NewestFirst /\ CurrentHasItsRow
\* What was chosen is what happens: a send uses its own project, a session runs
\* under the posture its pill was set to, a schedule's buttons do what they say and
\* a save replaces what its writer was told of.  And what was typed and not sent
\* stays: no input is emptied but by the send of its text, and a retry of a draft
\* is recognised as one.  The races in which the code does not keep that are the
\* exceptions in the formulas of the parts (stray, strayed, typed, seeded, dropped,
\* mixed, muddled, sure); none of them is switched off.
ChosenHolds == SendUsesItsProject' /\ PostureIsChosen /\ SpinnerIsHonest' /\ SaveIsInformed
TypedStays == DraftErasesSent /\ HomeErasesSent /\ RetryIsRecognised'
UserIsHeeded == [][ChosenHolds /\ TypedStays]_vars
\* What the page shows comes to be what the server holds, and a draft comes to be
\* sent or to be in the input, but for the two cases DetailIsCurrent and DraftStays
\* name: a late follow-up of a schedule turned from, and an answer that empties an
\* input seeded again.
CaughtUp ==
    /\ part = "list" => ListCatchesUp
    /\ part = "optimistic" => AgreedTitle /\ AgreedMarks
    /\ part = "scheduled" => DetailIsCurrent
    /\ part = "draft" => DraftStays
ConsoleCatchesUp == <>[]CaughtUp
=============================================================================
