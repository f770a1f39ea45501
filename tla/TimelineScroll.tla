--------------------------- MODULE TimelineScroll ----------------------------
(***************************************************************************)
(* The viewport of a session's timeline: it follows the newest row, lets   *)
(* go when the reader scrolls up, counts what arrives meanwhile, and finds *)
(* the reader's place again on return                                      *)
(* (src/webui/frontend/src/features/timeline/useTimelineScrollController). *)
(*                                                                         *)
(* A place is a number of steps from the top; the tail is maxTop, and what *)
(* is less than Near from it counts as the tail.  The browser is external: *)
(* it hands a wheel or a touch over, then moves the viewport, then fires   *)
(* one scroll event for all movements since the last one.  A render may    *)
(* fall anywhere between.  It commits the rows and runs the layout effect  *)
(* at once, the two passive effects before the next render.  A click's     *)
(* render is flushed before anything else, so the smooth movement of the   *)
(* jump is overtaken by the layout effect.                                 *)
(***************************************************************************)
EXTENDS Integers

CONSTANTS Near,      \* NEAR_BOTTOM_PX
          MaxTop,    \* the longest content
          Races,     \* whether gestures, sends and rows cross a movement on its way to its handler
          Keys,      \* whether the reader scrolls up without wheel or touch
          Native,    \* whether content changes its height without a render
          Nudges,    \* whether the reader stays within Near of the tail without being at it
          Hasty,     \* whether the session is left with a movement on its way
          ScrollSteps \* renders, gestures and visits
ASSUME ScrollAssumption ==
    /\ {Races, Keys, Native, Nudges, Hasty} \subseteq BOOLEAN
    /\ Near \in Nat \ {0} /\ {MaxTop, ScrollSteps} \subseteq Nat

AtTail == -1
NoEffects == [added |-> 0, sent |-> FALSE]

VARIABLES
    view,                      \* "away", "loading" or "open"
    maxTop, top, lastTop,      \* the viewport, and lastScrollTop
    stick, showJump, unseen,
    stored,                    \* the place in session storage, AtTail for none
    owed,                      \* what the passive effects of the last render will see
    gesture, moved,            \* a gesture up before its movement, a movement before its event
    reading,                   \* the reader's last act was upward
    left,                      \* the place the session was left at
    scrollSteps
scrollVars == <<view, maxTop, top, lastTop, stick, showJump, unseen, stored, owed,
                gesture, moved, reading, left, scrollSteps>>

ScrollSpend == scrollSteps < ScrollSteps /\ scrollSteps' = scrollSteps + 1
Least(a, b) == IF a < b THEN a ELSE b
NearBottom(t) == maxTop - t < Near
\* The reader moved down and the handler has not been told.
Arriving == moved /\ top > lastTop

ScrollTo(t) == top' = t /\ lastTop' = t /\ moved' = (moved \/ t # top)
Follow == stick' = TRUE /\ showJump' = FALSE /\ unseen' = 0 /\ stored' = AtTail

(***************************************************************************)
(* Renders.                                                                *)
(***************************************************************************)
Layout(m) ==
    IF stick
    THEN top' = m /\ lastTop' = m /\ moved' = (moved \/ m # top)
    ELSE top' = Least(top, m) /\ moved' = (moved \/ m < top) /\ UNCHANGED lastTop
\* Rows are added, typed text and status lines come and go; or an image or a
\* folded part changes the height without a render.
RenderRows(d, rows, rendered) ==
    /\ view = "open" /\ owed = NoEffects /\ ScrollSpend
    /\ maxTop + d \in 0..MaxTop
    /\ d > 0 => Races \/ ~Arriving
    /\ d < 0 => Nudges \/ stick \/ maxTop + d - top >= Near
    /\ maxTop' = maxTop + d
    /\ IF rendered
       THEN Layout(maxTop') /\ owed' = [NoEffects EXCEPT !.added = rows]
       ELSE /\ top' = Least(top, maxTop') /\ moved' = (moved \/ maxTop' < top)
            /\ UNCHANGED <<lastTop, owed>>
    /\ UNCHANGED <<view, stick, showJump, unseen, stored, gesture, reading, left>>
\* The reader's own message appears among the pending ones, rows or skeleton above it.
RenderSend ==
    /\ view # "away" /\ owed = NoEffects /\ ScrollSpend
    /\ Races \/ (gesture = "none" /\ ~Arriving)
    /\ owed' = [added |-> 1, sent |-> TRUE]
    /\ IF view = "open"
       THEN maxTop' = Least(maxTop + 1, MaxTop) /\ Layout(maxTop')
       ELSE UNCHANGED <<maxTop, top, lastTop, moved>>
    /\ UNCHANGED <<view, stick, showJump, unseen, stored, gesture, reading, left>>
\* The passive effects: a send follows again, rows that came while reading are counted.
Effects ==
    /\ owed # NoEffects /\ owed' = NoEffects
    /\ IF owed.sent
       THEN /\ Follow /\ ScrollTo(maxTop) /\ reading' = FALSE
            /\ left' = (IF view = "loading" THEN AtTail ELSE left)
       ELSE /\ unseen' = (IF stick THEN unseen ELSE unseen + owed.added)
            /\ UNCHANGED <<top, lastTop, stick, showJump, stored, moved, reading, left>>
    /\ UNCHANGED <<view, maxTop, gesture, scrollSteps>>

(***************************************************************************)
(* The reader.                                                             *)
(***************************************************************************)
\* Mutant: the gesture is left to its scroll event.
releaseNothing == UNCHANGED <<stick, showJump>>
releaseStick == stick' = FALSE /\ showJump' = TRUE
\* onWheel and onTouchMove.
GestureUp ==
    /\ view # "away" /\ gesture = "none" /\ ScrollSpend
    /\ Races \/ ~(Arriving \/ owed.sent)
    /\ Nudges \/ (top > 0 /\ maxTop >= Near)
    /\ releaseStick
    /\ gesture' = "up" /\ reading' = TRUE
    /\ UNCHANGED <<view, maxTop, top, lastTop, unseen, stored, owed, moved, left>>
MoveTo(t) ==
    /\ top' = t /\ moved' = (moved \/ t # top)
    /\ UNCHANGED <<view, maxTop, lastTop, stick, showJump, unseen, stored, owed, left>>
\* The movement of a gesture, or of the keyboard or the scroll bar.
BrowserMovesUp ==
    /\ IF gesture = "up" THEN UNCHANGED scrollSteps ELSE Keys /\ view = "open" /\ ScrollSpend
    /\ \E t \in 0..top : (Nudges \/ (t < top /\ ~NearBottom(t))) /\ MoveTo(t)
    /\ gesture' = "none" /\ reading' = TRUE
ReaderMovesDown ==
    /\ view = "open" /\ ScrollSpend /\ (Races \/ (gesture = "none" /\ ~(moved /\ top < lastTop)))
    /\ \E t \in top + 1..maxTop : MoveTo(t) /\ reading' = (reading /\ ~NearBottom(t))
    /\ UNCHANGED gesture
onScroll ==
    /\ moved /\ moved' = FALSE
    /\ IF view = "open"
       THEN /\ lastTop' = top
            /\ stick' = (IF top < lastTop THEN FALSE
                         ELSE IF top > lastTop /\ NearBottom(top) THEN TRUE
                         ELSE stick)
            /\ showJump' = ~stick'
            /\ unseen' = (IF NearBottom(top) THEN 0 ELSE unseen)
            /\ stored' = (IF NearBottom(top) THEN AtTail ELSE top)
       ELSE UNCHANGED <<lastTop, stick, showJump, unseen, stored>>
    /\ UNCHANGED <<view, maxTop, top, owed, gesture, reading, left, scrollSteps>>
jumpToBottom ==
    /\ view = "open" /\ showJump /\ owed = NoEffects /\ ScrollSpend
    /\ Races \/ gesture = "none"
    /\ Follow /\ ScrollTo(maxTop) /\ reading' = FALSE
    /\ UNCHANGED <<view, maxTop, owed, gesture, left>>

(***************************************************************************)
(* Visits.                                                                 *)
(***************************************************************************)
Leave ==
    /\ view = "open" /\ owed = NoEffects /\ ScrollSpend
    /\ Hasty \/ ~(moved \/ gesture # "none")
    /\ view' = "away" /\ left' = (IF NearBottom(top) THEN AtTail ELSE top)
    /\ maxTop' = 0 /\ top' = 0 /\ lastTop' = 0 /\ gesture' = "none" /\ moved' = FALSE
    /\ stick' = TRUE /\ showJump' = FALSE /\ unseen' = 0 /\ reading' = FALSE
    /\ UNCHANGED <<stored, owed>>
\* The page is mounted anew; until its events are read there is nothing to scroll.
Enter ==
    /\ view = "away" /\ view' = "loading"
    /\ UNCHANGED <<maxTop, top, lastTop, stick, showJump, unseen, stored, owed, gesture, moved,
                   reading, left, scrollSteps>>
Restore(m) ==
    IF stored # AtTail /\ m - stored >= Near
    THEN ScrollTo(Least(stored, m)) /\ stick' = FALSE /\ showJump' = TRUE /\ UNCHANGED stored
    ELSE ScrollTo(m) /\ stored' = AtTail /\ UNCHANGED <<stick, showJump>>
\* The layout effect of the first render with content.
Loaded ==
    /\ view = "loading" /\ owed = NoEffects /\ view' = "open"
    /\ \E m \in 0..MaxTop : maxTop' = m /\ Restore(m)
    /\ reading' = ~stick'
    /\ UNCHANGED <<unseen, owed, gesture, left, scrollSteps>>

ScrollInit ==
    /\ view = "loading" /\ maxTop = 0 /\ top = 0 /\ lastTop = 0
    /\ stick = TRUE /\ showJump = FALSE /\ unseen = 0 /\ stored = AtTail
    /\ owed = NoEffects /\ gesture = "none" /\ moved = FALSE /\ reading = FALSE
    /\ left = AtTail /\ scrollSteps = 0
RenderFeed == (\E d \in -1..2, rows \in 0..1 : RenderRows(d, rows, TRUE)) \/ RenderSend
ScrollNext ==
    \/ \E d \in -1..2, rows \in 0..1, rendered \in {TRUE, ~Native} : RenderRows(d, rows, rendered)
    \/ RenderSend \/ Effects \/ onScroll
    \/ GestureUp \/ BrowserMovesUp \/ ReaderMovesDown \/ jumpToBottom
    \/ Leave \/ Enter \/ Loaded

ScrollTypeOK ==
    /\ view \in {"away", "loading", "open"} /\ {maxTop, unseen} \subseteq Nat
    /\ {top, lastTop} \subseteq Nat /\ top <= maxTop
    /\ {stick, showJump, moved, reading} \subseteq BOOLEAN
    /\ {stored, left} \subseteq Nat \cup {AtTail} /\ gesture \in {"none", "up"}
    /\ owed \in [added : 0..1, sent : BOOLEAN] /\ scrollSteps \in 0..ScrollSteps

(***************************************************************************)
(* Properties.                                                             *)
(***************************************************************************)
\* No render moves a reader whose last act was upward, and each puts one who
\* follows at the tail: the layout effect against gesture, movement and event.
RenderKeepsReader ==
    RenderFeed =>
        /\ reading => top' = Least(top, maxTop')
        /\ (view = "open" /\ ~reading /\ ~moved) => top' = maxTop'
\* On return the reader is where the session was left: at the tail, or at the
\* place he read, when the content still reaches beyond it.
PlaceIsFound ==
    (view = "loading" /\ view' = "open") =>
        IF left = AtTail THEN top' = maxTop' ELSE maxTop' - left >= Near => top' = left
\* The jump is offered just when the feed does not follow, and counts nothing
\* while it does.
JumpIsOffered == (showJump <=> ~stick) /\ (unseen > 0 => ~stick)
=============================================================================
