----------------------------- MODULE SessionList -----------------------------
(***************************************************************************)
(* The store's list of sessions and its unread marks                       *)
(* (src/webui/frontend/src/store.ts, app/AppRuntime.tsx).                  *)
(*                                                                         *)
(* The server lists sessions by their last activity.  The first refresh    *)
(* reads the recent page and then older pages by offset, while the list    *)
(* moves; every later one reads the recent page and keeps the rows it has. *)
(* Refreshes are serialised: one asked for during another joins it.  A row *)
(* that gained turns since they were last seen is marked unread.           *)
(*                                                                         *)
(* A session is its number of turns; the rows are a set, for the rail sorts *)
(* them.  looked is what the user has seen, or was given as the baseline of *)
(* a page load.                                                            *)
(***************************************************************************)
EXTENDS Integers, Sequences, FiniteSets, SequencesExt

CONSTANTS Sessions, Nobody,
          FirstPage, OlderPage,  \* page sizes
          Burst,                 \* sessions active between two reads of the recent page
          OlderPagesFail,        \* whether an older page may fail
          ListSteps              \* activity, navigation, reloads, failures
ASSUME SessionListAssumption ==
    /\ IsFiniteSet(Sessions) /\ Nobody \notin Sessions /\ {FirstPage, OlderPage} \subseteq Nat \ {0}
    /\ OlderPagesFail \in BOOLEAN /\ {Burst, ListSteps} \subseteq Nat

VARIABLES
    order, turns,  \* the server: sessions by recency; their turns
    rows, ready,   \* the store's sessions, sessionsReady
    fetch,         \* the refresh under way
    unread, seen,  \* unread marks (persisted), seenTurns (in memory)
    current,       \* currentSid
    looked, fresh, \* history: turns the user saw; sessions active since the last read
    listSteps

listServer == <<order, turns>>
listVars == <<listServer, rows, ready, fetch, unread, seen, current, looked, fresh, listSteps>>

NoFetch == [at |-> "idle", hydrating |-> FALSE, offset |-> 0, reply |-> <<>>]
Row(s) == [id |-> s, turns |-> turns[s]]
Ids(rs) == {r.id : r \in rs}
Listed(rs, s) == CHOOSE r \in rs : r.id = s
\* head's rows, and those of tail it does not have.
mergeSessionRows(head, tail) == head \union {r \in tail : r.id \notin Ids(head)}

ListSpend == listSteps < ListSteps /\ listSteps' = listSteps + 1

(***************************************************************************)
(* refreshSessions.                                                        *)
(***************************************************************************)
Refresh ==
    /\ fetch.at = "idle"
    /\ fetch' = [NoFetch EXCEPT !.at = "first", !.hydrating = ~ready]
    /\ UNCHANGED <<listServer, rows, ready, unread, seen, current, looked, fresh, listSteps>>

Page(offset, size) ==
    LET last == IF offset + size < Len(order) THEN offset + size ELSE Len(order) IN
    [i \in 1..(last - offset) |-> Row(order[offset + i])]
PageSize == IF fetch.at = "first" THEN FirstPage ELSE OlderPage
ServerLists ==
    /\ fetch.at # "idle" /\ fetch.reply = <<>>
    /\ fetch' = [fetch EXCEPT !.reply = <<Page(fetch.offset, PageSize)>>]
    /\ fresh' = IF fetch.at = "first" THEN {} ELSE fresh
    /\ UNCHANGED <<listServer, rows, ready, unread, seen, current, looked, listSteps>>

Gained(r) == seen[r.id] >= 0 /\ r.turns > seen[r.id]
applyPage(page, append) ==
    /\ rows' = IF append THEN mergeSessionRows(rows, page) ELSE mergeSessionRows(page, rows)
    /\ ready' = TRUE
    /\ unread' = (unread \union Ids({p \in page : Gained(p)}))
                   \ ({current} \intersect Ids(page))
    /\ seen' = [s \in Sessions |-> IF s \in Ids(page) THEN Listed(page, s).turns ELSE seen[s]]
    /\ looked' = [s \in Sessions |->
                    IF s \in Ids(page) /\ seen[s] < 0 /\ looked[s] < Listed(page, s).turns
                    THEN Listed(page, s).turns ELSE looked[s]]

\* Whether a page was the last one: the recent page may be, an older one is when
\* it is short.
LastPage(page) == IF fetch.at = "first" THEN ~fetch.hydrating \/ Len(page) < FirstPage
                                    ELSE Len(page) < OlderPage
PageLands ==
    /\ fetch.at # "idle" /\ fetch.reply # <<>>
    /\ LET page == fetch.reply[1] IN
         /\ IF fetch.at = "older" /\ page = <<>>
            THEN UNCHANGED <<rows, ready, unread, seen, looked>>
            ELSE applyPage(ToSet(page), fetch.at = "older")
         /\ fetch' = IF LastPage(page) THEN NoFetch
                     ELSE [NoFetch EXCEPT !.at = "older", !.hydrating = TRUE,
                                          !.offset = fetch.offset + Len(page)]
    /\ UNCHANGED <<listServer, current, fresh, listSteps>>
\* The refresh is over; what has landed stays.
PageFails ==
    /\ fetch.at = "first" \/ (fetch.at = "older" /\ OlderPagesFail)
    /\ fetch.reply = <<>> /\ ListSpend /\ fetch' = NoFetch
    /\ UNCHANGED <<listServer, rows, ready, unread, seen, current, looked, fresh>>

(***************************************************************************)
(* The user.                                                               *)
(***************************************************************************)
markRead(s) ==
    /\ seen' = IF s \in Ids(rows) THEN [seen EXCEPT ![s] = Listed(rows, s).turns] ELSE seen
    /\ unread' = unread \ {s}
\* select: an open session is read as its turns come.
Open(s) ==
    /\ s # current /\ s \in ToSet(order) /\ ListSpend
    /\ current' = s /\ markRead(s) /\ looked' = [looked EXCEPT ![s] = turns[s]]
    /\ UNCHANGED <<listServer, rows, ready, fetch, fresh>>
Leave ==
    /\ current # Nobody /\ current' = Nobody
    /\ UNCHANGED <<listServer, rows, ready, fetch, unread, seen, looked, fresh, listSteps>>
\* The page is loaded anew: the marks survive, what they were computed from not.
ReloadPage ==
    /\ ListSpend /\ rows' = {} /\ ready' = FALSE /\ fetch' = NoFetch
    /\ seen' = [s \in Sessions |-> -1] /\ unread' = unread \ {current} /\ fresh' = {}
    /\ UNCHANGED <<listServer, current, looked>>
Activity(s) ==
    /\ ListSpend
    /\ fresh' = fresh \union {s} /\ Cardinality(fresh') <= Burst
    /\ order' = <<s>> \o RemoveAt(order, CHOOSE i \in DOMAIN order : order[i] = s)
    /\ turns' = [turns EXCEPT ![s] = @ + 1]
    /\ looked' = IF s = current THEN [looked EXCEPT ![s] = turns'[s]] ELSE looked
    /\ UNCHANGED <<rows, ready, fetch, unread, seen, current>>

ListInit ==
    /\ order = SetToSeq(Sessions) /\ turns = [s \in Sessions |-> 1]
    /\ rows = {} /\ ready = FALSE /\ fetch = NoFetch
    /\ unread = {} /\ seen = [s \in Sessions |-> -1] /\ current = Nobody
    /\ looked = [s \in Sessions |-> 0] /\ fresh = {} /\ listSteps = 0
ListStep == Refresh \/ ServerLists \/ PageLands
ListNext ==
    \/ ListStep \/ PageFails \/ Leave \/ ReloadPage
    \/ \E s \in Sessions : Open(s) \/ Activity(s)

(***************************************************************************)
(* Properties.                                                             *)
(***************************************************************************)
ListTypeOK ==
    /\ ToSet(order) = Sessions /\ Len(order) = Cardinality(Sessions)
    /\ unread \subseteq Sessions /\ current \in Sessions \union {Nobody}
    /\ listSteps \in 0..ListSteps
    /\ \A r, other \in rows : r.id = other.id => r = other   \* no session is listed twice

\* store.ts, applyPage: a listed session with turns the user has not seen, and
\* that is not open, is marked.
NoTurnMissed ==
    \A r \in rows : r.turns > looked[r.id] /\ r.id # current => r.id \in unread

\* store.ts, refreshSessions: the list comes to hold every session as it is,
\* whatever moved between its pages.
ListCatchesUp == \A s \in Sessions : Row(s) \in rows

\* store.ts: a session is marked when it gained turns "since we last saw them".
NoFalseMark ==
    \A r \in rows : r.id \in unread => turns[r.id] > looked[r.id]
=============================================================================
