---------------------------- MODULE HomeComposer -----------------------------
(***************************************************************************)
(* The composer of a new session: the project, its branch, and the send    *)
(* that makes a workspace and the session                                  *)
(* (src/webui/frontend/src/features/composer/ComposerController.tsx).      *)
(*                                                                         *)
(* Choosing a project asks for its branches; opening the branch picker     *)
(* asks again; a branch is checked out at once in the local folder, or     *)
(* kept for the worktree of the send.  A send works with the project, the  *)
(* branches and the place it was clicked with, over four calls.            *)
(*                                                                         *)
(* One local checkout is on its way at most.  A background run takes the   *)
(* same way as a session.                                                  *)
(***************************************************************************)
EXTENDS Integers, Sequences, FiniteSets

CONSTANTS Repos, Folders,    \* projects with branches, and without
          Scratch,           \* the workspace that is made when none is chosen
          HomeSteps          \* clicks and failures

VARIABLES
    ws, branchInfo, startingBranch, runLocation, draft, lastProject,  \* the composer
    lookups, checkout, send,  \* the calls on their way
    head,                     \* what each project has checked out
    stray,                    \* history: the branch shown came of a late checkout
    homeSteps
branchVars == <<branchInfo, startingBranch, runLocation, stray>>
homeVars == <<ws, branchVars, draft, lastProject, lookups, checkout, send, head, homeSteps>>

NoProject == "-"
Dirs == Repos \union Folders \union {Scratch}
ASSUME HomeAssumption ==
    /\ NoProject \notin Dirs /\ HomeSteps \in Nat
Branch(dir) == IF dir \in Repos THEN {<<dir, "main">>, <<dir, "side">>} ELSE {}
NoBranch == <<>>
Info(dir, current) == [of |-> dir, isRepo |-> dir \in Repos, current |-> current]
NoInfo == Info(NoProject, NoBranch)
gitBranches(dir) == Info(dir, IF dir \in Repos THEN head[dir] ELSE NoBranch)

HomeSpend == homeSteps < HomeSteps /\ homeSteps' = homeSteps + 1
HomeFree == UNCHANGED homeSteps
Look(dir, by) == [dir |-> dir, by |-> by]

(***************************************************************************)
(* The project and its branches.                                           *)
(***************************************************************************)
\* Mutant: the lookup of the project before is not dropped.
CancelledLate(ls) == ls
Cancelled(ls) == {l \in ls : l.by # "project"}
\* setWs, and the effect of a project that is another one.
SetWs(dir) ==
    /\ ws' = dir
    /\ IF dir = ws THEN UNCHANGED <<branchInfo, startingBranch, stray, lookups>>
       ELSE /\ branchInfo' = NoInfo /\ startingBranch' = NoBranch /\ stray' = FALSE
            /\ lookups' = Cancelled(lookups) \union
                 IF dir = NoProject THEN {} ELSE {Look(dir, "project")}
chooseProject(dir) ==
    /\ HomeSpend /\ SetWs(dir) /\ lastProject' = dir
    /\ UNCHANGED <<runLocation, draft, checkout, send, head>>
\* onClear.
ClearProject ==
    /\ HomeSpend /\ ws # NoProject /\ SetWs(NoProject)
    /\ lastProject' = NoProject /\ runLocation' = "local"
    /\ UNCHANGED <<draft, checkout, send, head>>
ProjectLookup(l) ==
    /\ l.by = "project" /\ branchInfo' = gitBranches(l.dir)
    /\ startingBranch' = gitBranches(l.dir).current /\ stray' = FALSE
    /\ runLocation' = IF l.dir \in Repos THEN "worktree" ELSE "local"
PickerLookup(l) ==
    /\ l.by = "picker" /\ UNCHANGED <<runLocation, stray>>
    /\ IF l.dir # ws THEN UNCHANGED <<branchInfo, startingBranch>>
       ELSE /\ branchInfo' = gitBranches(l.dir)
            /\ startingBranch' = IF startingBranch # NoBranch THEN startingBranch
                                 ELSE gitBranches(l.dir).current
LookupLands(l) ==
    /\ lookups' = lookups \ {l} /\ HomeFree
    /\ ProjectLookup(l) \/ PickerLookup(l)
    /\ UNCHANGED <<ws, draft, lastProject, checkout, send, head>>
LookupFails(l) ==
    /\ lookups' = lookups \ {l} /\ HomeSpend
    /\ branchInfo' = IF l.by = "project" THEN NoInfo ELSE branchInfo
    /\ UNCHANGED <<ws, startingBranch, stray, runLocation, draft, lastProject, checkout, send, head>>
OpenBranches ==
    /\ HomeSpend /\ branchInfo.isRepo /\ ws # NoProject
    /\ lookups' = lookups \union {Look(ws, "picker")}
    /\ UNCHANGED <<ws, branchVars, draft, lastProject, checkout, send, head>>
\* onSelect of the branch picker.
SelectBranch(b) ==
    /\ HomeSpend /\ b \in Branch(branchInfo.of) /\ ws # NoProject
    /\ IF runLocation = "worktree"
       THEN startingBranch' = b /\ stray' = FALSE /\ UNCHANGED checkout
       ELSE /\ checkout = <<>> /\ checkout' = <<[dir |-> ws, branch |-> b]>>
            /\ UNCHANGED <<startingBranch, stray>>
    /\ UNCHANGED <<ws, branchInfo, runLocation, draft, lastProject, lookups, send, head>>
HeadAfterCheckout ==
    IF checkout = <<>> THEN head ELSE [head EXCEPT ![checkout[1].dir] = checkout[1].branch]
\* Whatever the project is by now, the branch is shown.
CheckedOut ==
    /\ checkout # <<>> /\ checkout' = <<>> /\ HomeFree
    /\ head' = HeadAfterCheckout
    /\ branchInfo' = IF branchInfo = NoInfo THEN NoInfo
                     ELSE [branchInfo EXCEPT !.current = checkout[1].branch]
    /\ startingBranch' = checkout[1].branch /\ stray' = (checkout[1].dir # ws)
    /\ UNCHANGED <<ws, runLocation, draft, lastProject, lookups, send>>
\* It is refused, or its answer is lost.
CheckoutFails ==
    /\ checkout # <<>> /\ checkout' = <<>> /\ HomeSpend
    /\ head' \in {head, HeadAfterCheckout}
    /\ UNCHANGED <<ws, branchVars, draft, lastProject, lookups, send>>
SelectLocation(place) ==
    /\ HomeSpend /\ ws # NoProject /\ runLocation' = place
    /\ place = "worktree" => branchInfo.isRepo
    /\ UNCHANGED <<ws, branchInfo, startingBranch, stray, draft, lastProject, lookups, checkout,
                   send, head>>

(***************************************************************************)
(* doSubmit.  It reads the state of the render it was clicked in.          *)
(***************************************************************************)
Idle == [at |-> "idle", ws |-> NoProject, info |-> NoInfo, start |-> NoBranch,
         loc |-> "local", text |-> "", stray |-> FALSE, typed |-> FALSE]
\* Into the input, which a send on its way does not lock.
TypeHome(t) ==
    /\ HomeSpend /\ draft' = t
    /\ send' = [send EXCEPT !.typed = send # Idle]
    /\ UNCHANGED <<ws, branchVars, lastProject, lookups, checkout, head>>
Submit ==
    /\ HomeSpend /\ draft # "" /\ send = Idle
    /\ send' = [at |-> "agents", ws |-> ws, info |-> branchInfo, start |-> startingBranch,
                loc |-> runLocation, text |-> draft, stray |-> stray, typed |-> FALSE]
    /\ UNCHANGED <<ws, branchVars, draft, lastProject, lookups, checkout, head>>
\* ensureWs.
EnsureWs ==
    /\ send.at = "agents" /\ HomeFree
    /\ IF send.ws = NoProject THEN SetWs(Scratch)
       ELSE UNCHANGED <<ws, branchInfo, startingBranch, stray, lookups>>
    /\ LET source == IF send.ws = NoProject THEN Scratch ELSE send.ws
           next == IF send.loc # "worktree" THEN "create"
                   ELSE IF send.info = NoInfo THEN "branches"
                   ELSE IF send.info.isRepo THEN "worktree" ELSE "create"
       IN send' = [send EXCEPT !.ws = source, !.at = next]
    /\ UNCHANGED <<runLocation, draft, lastProject, checkout, head>>
\* A lookup that fails leaves the folder itself.
LookForSend(found) ==
    /\ send.at = "branches"
    /\ IF found THEN HomeFree ELSE HomeSpend
    /\ send' = IF found /\ send.ws \in Repos
               THEN [send EXCEPT !.info = gitBranches(send.ws), !.at = "worktree"]
               ELSE [send EXCEPT !.at = "create"]
    /\ UNCHANGED <<ws, branchVars, draft, lastProject, lookups, checkout, head>>
\* Mutant: the branch that is shown by now.
WorktreeBranchNow == IF startingBranch # NoBranch THEN startingBranch ELSE send.info.current
WorktreeBranch == IF send.start # NoBranch THEN send.start ELSE send.info.current
makeWorktree ==
    /\ send.at = "worktree" /\ HomeFree
    /\ send' = [send EXCEPT !.at = "create"]
    /\ UNCHANGED <<ws, branchVars, draft, lastProject, lookups, checkout, head>>
\* The answer leads away from Home, and the composer is mounted anew later.
Created ==
    /\ send.at = "create" /\ HomeFree
    /\ send' = Idle /\ draft' = "" /\ ws' = lastProject
    /\ branchInfo' = NoInfo /\ startingBranch' = NoBranch /\ runLocation' = "worktree"
    /\ stray' = FALSE
    /\ lookups' = IF lastProject = NoProject THEN {} ELSE {Look(lastProject, "project")}
    /\ checkout' = <<>> /\ head' \in {head, HeadAfterCheckout}
    /\ UNCHANGED lastProject
DraftAfterFailure == draft
SendFails ==
    /\ send # Idle /\ send' = Idle /\ HomeSpend
    /\ draft' = DraftAfterFailure
    /\ UNCHANGED <<ws, branchVars, lastProject, lookups, checkout, head>>

HomeInit ==
    /\ lastProject \in Repos \union Folders \union {NoProject} /\ ws = lastProject
    /\ branchInfo = NoInfo /\ startingBranch = NoBranch /\ runLocation = "worktree"
    /\ stray = FALSE
    /\ draft = "" /\ checkout = <<>> /\ send = Idle /\ homeSteps = 0
    /\ lookups = IF ws = NoProject THEN {} ELSE {Look(ws, "project")}
    /\ head = [r \in Repos |-> <<r, "main">>]
HomeUser ==
    \/ \E dir \in Repos \union Folders : chooseProject(dir)
    \/ ClearProject \/ OpenBranches \/ Submit
    \/ \E r \in Repos : \E b \in Branch(r) : SelectBranch(b)
    \/ \E place \in {"worktree", "local"} : SelectLocation(place)
    \/ \E t \in {"one", "two"} : TypeHome(t)
HomeAnswer ==
    \/ \E l \in lookups : LookupLands(l) \/ LookupFails(l)
    \/ CheckedOut \/ CheckoutFails
    \/ EnsureWs \/ makeWorktree \/ Created \/ SendFails
    \/ \E found \in BOOLEAN : LookForSend(found)
HomeNext == HomeUser \/ HomeAnswer

(***************************************************************************)
(* Properties.                                                             *)
(***************************************************************************)
HomeTypeOK ==
    /\ {ws, lastProject} \subseteq Dirs \union {NoProject}
    /\ branchInfo.of \in {ws, NoProject} /\ runLocation \in {"worktree", "local"}
    /\ \A l \in lookups : l.by = "project" => l.dir = ws

\* ComposerController.tsx: "the previous project's branch must never survive
\* into the next project's send path": whatever is answered, chosen and failed
\* meanwhile, the branch that is shown, and the one a worktree starts from, are
\* branches of its own project, but for one way in: a checkout that is answered
\* after its project was left shows its branch until another takes its place, and
\* a send clicked in between carries it.
SendUsesItsProject ==
    /\ startingBranch # NoBranch /\ ~stray => startingBranch \in Branch(ws)
    /\ send.at = "worktree" /\ ~send.stray => WorktreeBranch \in Branch(send.ws)
\* Without the exception: a late checkout breaks it.
StartsOnItsProject == send.at = "worktree" => WorktreeBranch \in Branch(send.ws)

\* ComposerController.tsx, doSubmit: at whatever call a send fails, the text is in
\* the input; it goes with the answer that makes the session of it, and what was
\* typed meanwhile goes with it.
HomeErasesSent ==
    draft # "" /\ draft' = "" => send.at = "create" /\ (draft = send.text \/ send.typed)
\* Without the exception: the answer takes what was typed meanwhile.
HomeKeepsTyped == [][draft # "" /\ draft' = "" => draft = send.text]_homeVars
=============================================================================
