------------------------------- MODULE Sidebar -------------------------------
(***************************************************************************)
(* The rail of the console: which session stands where                     *)
(* (src/webui/frontend/src/viewModels.ts, components/Sidebar.tsx), and the *)
(* archived browser, built by the same functions.                          *)
(*                                                                         *)
(* Pinned sessions come first, then the groups, one for each declared      *)
(* project and one for each other folder, then the sessions without a      *)
(* folder; a group shows its first rows, or all, or none when folded.      *)
(* Search, labels, removed projects and the folding of whole sections are  *)
(* left out.                                                               *)
(*                                                                         *)
(* A session is a number, in the order of creation.  A stamp is its last   *)
(* activity, two to the millisecond; 0 is a row of an older server, whose  *)
(* time is its creation's millisecond.                                     *)
(***************************************************************************)
EXTENDS Integers, Sequences, FiniteSets, SequencesExt, TLC

CONSTANTS Newest,    \* the newest session
          RailDirs,  \* folders
          NoDir,     \* of a session without one
          Cap,       \* rows of a group that is neither folded nor expanded
          Legacy,    \* whether a row may come without a stamp
          RailSteps  \* activity and clicks
ASSUME SidebarAssumption ==
    /\ {Newest, Cap} \subseteq Nat \ {0} /\ NoDir \notin RailDirs
    /\ Legacy \in BOOLEAN /\ RailSteps \in Nat

AllChats == 1..Newest
NoSid == 0
Stamps == 2 * Newest + 2

VARIABLES
    stamp, dir, drivers,           \* what the server lists
    defs,                          \* declared projects: their folders and their manual rank
    pins, hidden, showArchived,    \* of sessions
    organize, sort,                \* the organize menu
    groupPins, folded, expanded,   \* of groups
    openSid, railSteps
railVars == <<stamp, dir, drivers, defs, pins, hidden, showArchived, organize, sort,
              groupPins, folded, expanded, openSid, railSteps>>

RailSpend == railSteps < RailSteps /\ railSteps' = railSteps + 1

(***************************************************************************)
(* compareSessionsByUpdate.                                                *)
(***************************************************************************)
Ms(r) == IF r.stamp # 0 THEN r.stamp \div 2 ELSE r.id
Newer(a, b) ==
    IF a.stamp # 0 /\ b.stamp # 0
    THEN a.stamp > b.stamp \/ (a.stamp = b.stamp /\ a.id > b.id)
    ELSE Ms(a) > Ms(b) \/ (Ms(a) = Ms(b) /\ a.id > b.id)
Stamped(s) == [id |-> s, stamp |-> stamp[s]]
ByUpdate(S) ==
    SortSeq(SetToSeq(S), LAMBDA a, b : Newer(Stamped(a), Stamped(b)))

(***************************************************************************)
(* buildSidebarModel and orderProjectGroups.                               *)
(***************************************************************************)
\* The first declaration of a folder wins.
DefOf(s) == {i \in DOMAIN defs : dir[s] \in defs[i].folders}
KeyOf(s) ==
    IF DefOf(s) = {} THEN [project |-> 0, folder |-> dir[s]]
    ELSE [project |-> CHOOSE i \in DefOf(s) : \A j \in DefOf(s) : i <= j, folder |-> NoDir]
DeclaredKeys == [i \in DOMAIN defs |-> [project |-> i, folder |-> NoDir]]
MembersOf(members, k) == SelectSeq(members, LAMBDA s : KeyOf(s) = k)
AddKey(keys, k) == IF k \in ToSet(keys) THEN keys ELSE Append(keys, k)
SidebarModel(S, pinned, how) ==
    LET ordered == ByUpdate(S)
        rest == SelectSeq(ordered, LAMBDA s : s \notin pinned)
        members == SelectSeq(rest, LAMBDA s : dir[s] # NoDir)
        seen == FoldLeft(LAMBDA keys, s : AddKey(keys, KeyOf(s)), <<>>, members)
        keys == FoldLeft(AddKey, seen, DeclaredKeys) IN
    IF how = "one-list"
    THEN [pinned |-> SelectSeq(ordered, LAMBDA s : s \in pinned), groups |-> <<>>, flat |-> rest]
    ELSE [pinned |-> SelectSeq(ordered, LAMBDA s : s \in pinned),
          groups |-> [i \in DOMAIN keys |-> [key |-> keys[i], sessions |-> MembersOf(members, keys[i])]],
          flat |-> SelectSeq(rest, LAMBDA s : dir[s] = NoDir)]

\* A project without sessions stands on its creation, before every session's.
StandIn(g) ==
    IF g.sessions # <<>> THEN Stamped(Head(g.sessions)) ELSE [id |-> Newest + g.key.project, stamp |-> 1]
Unranked == Len(defs) + 1
ManualRank(g) ==
    IF g.key.project # 0 /\ defs[g.key.project].order > 0 THEN defs[g.key.project].order ELSE Unranked
Rank(g) ==
    CASE sort = "updated" -> 0
      [] sort = "manual" -> ManualRank(g)
      [] OTHER -> IF g.key \in groupPins THEN 0 ELSE 1
GroupBefore(g, h) == Rank(g) < Rank(h) \/ (Rank(g) = Rank(h) /\ Newer(StandIn(g), StandIn(h)))
orderProjectGroups(groups) == SortSeq(groups, GroupBefore)

\* buildArchivedModel: no flat section, so what has no folder gets a last group.
ArchivedGroups ==
    LET model == SidebarModel(hidden \ drivers, {}, "by-project")
        held == SelectSeq(model.groups, LAMBDA g : g.sessions # <<>>) IN
    [i \in DOMAIN held |-> held[i].sessions] \o (IF model.flat = <<>> THEN <<>> ELSE <<model.flat>>)

(***************************************************************************)
(* The rail.                                                               *)
(***************************************************************************)
VisibleChats == (IF showArchived THEN AllChats ELSE AllChats \ hidden) \ drivers
Model == SidebarModel(VisibleChats, pins, organize)
Ranked == orderProjectGroups(Model.groups)
\* Mutant: the cap hides the open session.
CappedRows(sessions, isFolded, all) ==
    IF isFolded THEN <<>>
    ELSE SubSeq(sessions, 1, IF ~all /\ Cap < Len(sessions) THEN Cap ELSE Len(sessions))
visibleProjectSessions(sessions, isFolded, all) ==
    IF isFolded THEN <<>>
    ELSE IF all THEN sessions
    ELSE LET shown == SubSeq(sessions, 1, IF Cap < Len(sessions) THEN Cap ELSE Len(sessions)) IN
         IF openSid \in ToSet(sessions) \ ToSet(shown) THEN Append(shown, openSid) ELSE shown
GroupRows(g) == visibleProjectSessions(g.sessions, g.key \in folded, g.key \in expanded)
\* setVisibleOrder: what the keyboard walks over.
orderedIds ==
    Model.pinned \o FlattenSeq([i \in DOMAIN Ranked |-> Ranked[i].sessions]) \o Model.flat
ShownRows ==
    Model.pinned \o FlattenSeq([i \in DOMAIN Ranked |-> GroupRows(Ranked[i])])
    \o visibleProjectSessions(Model.flat, FALSE, FALSE)

OfSessions == <<pins, hidden, showArchived>>
OfGroups == <<organize, sort, groupPins, folded, expanded>>
OfServer == <<stamp, dir, drivers, defs>>
Flip(set, x) == IF x \in set THEN set \ {x} ELSE set \cup {x}
\* A session's journal grows: it is the newest.
Grow(s) ==
    /\ RailSpend
    /\ stamp' = [stamp EXCEPT ![s] = Stamps + railSteps]
    /\ UNCHANGED <<dir, drivers, defs, OfSessions, OfGroups, openSid>>
ClickRow(s) ==
    /\ RailSpend /\ s \in ToSet(ShownRows) \ {openSid} /\ openSid' = s
    /\ UNCHANGED <<OfServer, OfSessions, OfGroups>>
selectAdjacent(delta) ==
    /\ RailSpend /\ orderedIds # <<>>
    /\ LET n == Len(orderedIds)
           at == {i \in 1..n : orderedIds[i] = openSid} IN
       openSid' = IF at = {} THEN orderedIds[1]
                  ELSE orderedIds[1 + (((CHOOSE i \in at : TRUE) - 1 + delta + n) % n)]
    /\ UNCHANGED <<OfServer, OfSessions, OfGroups>>
togglePin(s) ==
    /\ RailSpend /\ s \in ToSet(ShownRows) /\ pins' = Flip(pins, s)
    /\ UNCHANGED <<OfServer, hidden, showArchived, OfGroups, openSid>>
\* An open session that is archived is left.
ArchiveRow(s) ==
    /\ RailSpend /\ s \in ToSet(ShownRows) \cup hidden \cup drivers
    /\ hidden' = Flip(hidden, s)
    /\ openSid' = (IF s = openSid /\ s \in hidden' THEN NoSid ELSE openSid)
    /\ UNCHANGED <<OfServer, pins, showArchived, OfGroups>>
toggleShowArchived ==
    /\ RailSpend /\ showArchived' = ~showArchived
    /\ UNCHANGED <<OfServer, pins, hidden, OfGroups, openSid>>
SetOrganize ==
    /\ RailSpend /\ organize' \in {"by-project", "one-list"} \ {organize}
    /\ UNCHANGED <<OfServer, OfSessions, sort, groupPins, folded, expanded, openSid>>
SetSort ==
    /\ RailSpend /\ sort' \in {"priority", "updated", "manual"} \ {sort}
    /\ UNCHANGED <<OfServer, OfSessions, organize, groupPins, folded, expanded, openSid>>
toggleProjectPinned(k) ==
    /\ RailSpend /\ groupPins' = Flip(groupPins, k)
    /\ UNCHANGED <<OfServer, OfSessions, organize, sort, folded, expanded, openSid>>
setProjectCollapsed(k) ==
    /\ RailSpend /\ folded' = Flip(folded, k)
    /\ UNCHANGED <<OfServer, OfSessions, organize, sort, groupPins, expanded, openSid>>
onToggleOverflow(k) ==
    /\ RailSpend /\ expanded' = Flip(expanded, k)
    /\ UNCHANGED <<OfServer, OfSessions, organize, sort, groupPins, folded, openSid>>

RailInit ==
    /\ stamp \in IF Legacy THEN [AllChats -> {0} \cup 2..Stamps - 1]
                 ELSE {[s \in AllChats |-> 2 * s], [s \in AllChats |-> 2], [s \in AllChats |-> Stamps - 2 * s]}
    /\ dir \in {d \in [AllChats -> RailDirs \cup {NoDir}] : d[1] # NoDir} /\ drivers \in {{}, {1}}
    /\ defs \in {<<>>} \cup
          {<<[folders |-> {d}, order |-> 0], [folders |-> RailDirs, order |-> 1]>> : d \in RailDirs}
    /\ pins = {} /\ hidden = {} /\ showArchived = FALSE
    /\ organize = "by-project" /\ sort = "priority"
    /\ groupPins = {} /\ folded = {} /\ expanded = {} /\ openSid = NoSid /\ railSteps = 0
RailNext ==
    \/ \E s \in AllChats : Grow(s) \/ ClickRow(s) \/ togglePin(s) \/ ArchiveRow(s)
    \/ \E delta \in {-1, 1} : selectAdjacent(delta)
    \/ toggleShowArchived \/ SetOrganize \/ SetSort
    \/ \E g \in ToSet(Ranked) :
          toggleProjectPinned(g.key) \/ setProjectCollapsed(g.key) \/ onToggleOverflow(g.key)

RailTypeOK ==
    /\ pins \subseteq AllChats /\ hidden \subseteq AllChats
    /\ organize \in {"by-project", "one-list"} /\ sort \in {"priority", "updated", "manual"}
    /\ railSteps \in 0..RailSteps

(***************************************************************************)
(* Properties.                                                             *)
(***************************************************************************)
ListsOnce(seq, S) == Len(seq) = Cardinality(S) /\ ToSet(seq) = S
\* viewModels.ts: "a session appears in exactly one section, never two": every
\* visible one does, every declared project has one group, and the archived
\* browser has each archived conversation once.
EachHasItsPlace ==
    /\ ListsOnce(orderedIds, VisibleChats)
    /\ organize = "by-project" =>
          \A i \in DOMAIN defs : Cardinality({j \in DOMAIN Ranked : Ranked[j].key = DeclaredKeys[i]}) = 1
    /\ ListsOnce(FlattenSeq(ArchivedGroups), hidden \ drivers)
\* viewModels.ts: "project recency equal the maximum update time of its member
\* sessions": rows are newest first, and so are the groups the sort does not rank.
NotOlder(s, t) == stamp[s] # 0 /\ stamp[t] # 0 => stamp[s] >= stamp[t]
NewestFirst ==
    /\ \A i, j \in DOMAIN Model.flat : i < j => NotOlder(Model.flat[i], Model.flat[j])
    /\ \A i, j \in DOMAIN Ranked : i < j /\ Rank(Ranked[i]) = Rank(Ranked[j]) =>
          \A t \in ToSet(Ranked[j].sessions) :
             \E s \in ToSet(Ranked[i].sessions) : NotOlder(s, t)
\* viewModels.ts: the cap never hides the open session, only a fold does.
CurrentHasItsRow ==
    /\ openSid \in AllChats \cup {NoSid}
    /\ openSid \in ToSet(orderedIds) =>
          openSid \in ToSet(ShownRows) \/ KeyOf(openSid) \in folded
=============================================================================
