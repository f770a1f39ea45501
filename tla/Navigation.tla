----------------------------- MODULE Navigation ------------------------------
(***************************************************************************)
(* The route of the application: four fields of the store, the hash of the *)
(* address bar and the browser's history                                   *)
(* (src/webui/frontend/src/store.ts, app/AppRuntime.tsx, app/appServices.ts*)
(* and pages/PageHost.tsx).                                                *)
(*                                                                         *)
(* A click sets the fields and the hash; a new hash is a history entry and *)
(* an event that comes later, when the hash may be another one already.    *)
(* Back, forward and the address bar change the hash first.  Archiving the *)
(* session that is open replaces its entry.                                *)
(***************************************************************************)
EXTENDS Integers, Sequences, SequencesExt

CONSTANTS Chats,     \* sessions one can open and archive
          NavSteps   \* clicks, history moves

VARIABLES
    currentSid, currentRunId, currentPage, scheduledDetailSid,  \* the store
    archived,
    history, at,   \* the hashes visited, and where in them the browser is
    pending,       \* a hashchange event is due
    navSteps
fields == <<currentSid, currentRunId, currentPage, scheduledDetailSid>>
navVars == <<fields, archived, history, at, pending, navSteps>>

Nowhere == "-"
ASSUME NavigationAssumption == Nowhere \notin Chats /\ NavSteps \in Nat
Run1 == "run"   \* one background run
Hash(kind, id) == [kind |-> kind, id |-> id]
Hashes == {Hash("home", Nowhere), Hash("scheduled", Nowhere), Hash("run", Run1)}
          \union {Hash(kind, s) : kind \in {"session", "detail"}, s \in Chats}
here == history[at]

Fields(sid, run, page, detail) ==
    /\ currentSid' = sid /\ currentRunId' = run /\ currentPage' = page
    /\ scheduledDetailSid' = detail
\* Mutant: the detail survives the way to its session.
SelectKeepsDetail(sid) == Fields(sid, Nowhere, "home", scheduledDetailSid)
select(sid) == Fields(sid, Nowhere, "home", Nowhere)
selectRun(rid) == Fields(Nowhere, rid, "scheduled", Nowhere)
showPage(page) == Fields(Nowhere, Nowhere, page, Nowhere)
showScheduledDetail(sid) == Fields(Nowhere, Nowhere, "scheduled", sid)

\* location.hash: the same hash is no entry and no event.
setHash(h) ==
    IF h = here THEN UNCHANGED <<history, at, pending>>
    ELSE /\ history' = Append(SubSeq(history, 1, at), h)
         /\ at' = at + 1 /\ pending' = TRUE
replaceHash(h) ==
    /\ history' = [history EXCEPT ![at] = h] /\ UNCHANGED <<at, pending>>

NavSpend == navSteps < NavSteps /\ navSteps' = navSteps + 1
Show(h) ==
    CASE h.kind = "session"   -> select(h.id)
      [] h.kind = "run"       -> selectRun(h.id)
      [] h.kind = "detail"    -> showScheduledDetail(h.id)
      [] OTHER                -> showPage(h.kind)
\* newSessionForProject is showPage("home") here.
Click(h) == NavSpend /\ Show(h) /\ setHash(h) /\ UNCHANGED archived
TypeHash(h) == NavSpend /\ h # here /\ setHash(h) /\ UNCHANGED <<fields, archived>>
Traverse(to) ==
    /\ NavSpend /\ to \in DOMAIN history /\ at' = to
    /\ pending' = (pending \/ history[to] # here)
    /\ UNCHANGED <<fields, archived, history>>

\* The runtime's route: it reads the hash as it is by now.  Selecting sets the
\* hash to what it is.
HashChange ==
    /\ pending /\ pending' = FALSE
    /\ LET unchanged ==
             \/ here.kind = "run" /\ here.id = currentRunId
             \/ here.kind = "session" /\ here.id = currentSid
             \/ /\ here.kind = "home"
                /\ <<currentSid, currentRunId, currentPage>> = <<Nowhere, Nowhere, "home">>
       IN IF unchanged THEN UNCHANGED fields ELSE Show(here)
    /\ UNCHANGED <<archived, history, at, navSteps>>

CloseRoute(page) == showPage(page) /\ replaceHash(Hash(page, Nowhere))
toggleArchive(s) ==
    /\ NavSpend
    /\ archived' = IF s \in archived THEN archived \ {s} ELSE archived \union {s}
    /\ IF s \in archived THEN UNCHANGED <<fields, history, at, pending>>
       ELSE IF scheduledDetailSid = s THEN CloseRoute("scheduled")
       ELSE IF currentSid = s
            THEN /\ currentSid' = Nowhere /\ currentRunId' = Nowhere
                 /\ currentPage' = "home" /\ UNCHANGED scheduledDetailSid
                 /\ replaceHash(Hash("home", Nowhere))
       ELSE UNCHANGED <<fields, history, at, pending>>

NavInit ==
    /\ archived = {} /\ history \in {<<h>> : h \in Hashes} /\ at = 1 /\ navSteps = 0
    /\ currentSid = Nowhere /\ currentRunId = Nowhere /\ currentPage = "home"
    /\ scheduledDetailSid = Nowhere
    /\ pending = (here # Hash("home", Nowhere))
NavNext ==
    \/ HashChange
    \/ \E h \in Hashes : Click(h) \/ TypeHash(h)
    \/ \E to \in {at - 1, at + 1} : Traverse(to)
    \/ \E s \in Chats : toggleArchive(s)

\* PageHost: what the fields put on the screen.
Shown == IF currentRunId # Nowhere THEN Hash("run", currentRunId)
         ELSE IF currentSid # Nowhere THEN Hash("session", currentSid)
         ELSE IF scheduledDetailSid # Nowhere /\ currentPage = "scheduled"
              THEN Hash("detail", scheduledDetailSid)
         ELSE Hash(currentPage, Nowhere)

(***************************************************************************)
(* Properties.                                                             *)
(***************************************************************************)
NavTypeOK ==
    /\ {currentSid, scheduledDetailSid} \subseteq Chats \union {Nowhere}
    /\ currentPage \in {"home", "scheduled"} /\ at \in DOMAIN history
    /\ archived \subseteq Chats

\* AppRuntime.tsx, store.ts: once its event is handled, the address bar names
\* what is on the screen, and no field of another route is left behind.
RouteFollowsHash ==
    ~pending => /\ Shown = here
                /\ scheduledDetailSid # Nowhere => Shown.kind = "detail"

\* store.ts: "Back cannot reopen the hidden session": going back never ends on
\* a session that was archived while it was open.
ArchivedStaysClosed ==
    [][at' < at /\ pending' => history'[at'].id \notin archived]_navVars
=============================================================================
