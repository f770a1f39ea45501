------------------------------ MODULE MCReview -------------------------------
(* A session page: its three places that tell of the workspace, the rows of   *)
(* one file of the review panel, and the viewport of its timeline.  They share *)
(* nothing, so a behaviour is of one of the three.                             *)
EXTENDS Review, DiffBody, TimelineScroll

\* Every script of up to five lines; and of nine lines those with two or three
\* changed ones: with one line of context around a change they hold gaps before,
\* between and after their hunks.
Kinds == {"ctx", "del", "add"}
Sparse(n, k) ==
    LET kept == [i \in 1 .. n |-> "ctx"]
    IN  UNION {{changed @@ kept : changed \in [places -> Kinds \ {"ctx"}]} :
                  places \in kSubset(k, 1 .. n)}
MCScripts == UNION {[1 .. n -> Kinds] : n \in 1 .. 5} \cup Sparse(9, 2) \cup Sparse(9, 3)

VARIABLE part
mcvars == <<reviewVars, diffVars, scrollVars, part>>

MCInit ==
    /\ part \in {"screens", "file", "viewport"}
    /\ part # "file" => script = <<"add">> /\ status = "added"
    /\ DiffInit
    /\ part # "file" => prefetching = NoRead /\ ~bareNew
    /\ ReviewInit /\ ScrollInit
    /\ part # "screens" => work = 0 /\ turn = 0
OnScreens == part = "screens" /\ UNCHANGED <<diffVars, scrollVars, part>>
OnFile == part = "file" /\ UNCHANGED <<reviewVars, scrollVars, part>>
OnViewport == part = "viewport" /\ UNCHANGED <<reviewVars, diffVars, part>>
MCNext ==
    \/ OnScreens /\ ReviewNext
    \/ OnFile /\ DiffNext
    \/ OnViewport /\ ScrollNext
MCSpec ==
    /\ MCInit /\ [][MCNext]_mcvars
    /\ WF_mcvars(OnScreens /\ CardStep) /\ WF_mcvars(OnScreens /\ RailStep)
    /\ WF_mcvars(OnScreens /\ PanelStep) /\ WF_mcvars(OnScreens /\ ActStep)
    /\ WF_mcvars(OnScreens /\ EventArrives)

\* Every variable keeps its type, and nothing is read for a panel that is gone.
MCTypeOK == ReviewTypeOK /\ DiffTypeOK /\ ScrollTypeOK
\* The three places state what the workspace holds once nothing is on its way,
\* and the panel shows what its toolbar names.
ScreensAreTrue == QuietScreensAreTrue /\ PanelKeepsItsScope
\* The rows and bands of the panel tell the whole file.
FileIsWhole == part = "file" => RowsTellTheFile
\* A reader of older rows stays where he is and finds his place again, one who
\* follows stays at the tail, and the jump is offered just to the former.
ReaderKeepsPlace == [][RenderKeepsReader /\ PlaceIsFound /\ JumpIsOffered']_mcvars
\* Card, rail and panel always come to rest with an answer.
ScreensComeToRest == <>[](part = "screens" => ScreensSettle)
=============================================================================
