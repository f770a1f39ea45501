------------------------------- MODULE Posture -------------------------------
(***************************************************************************)
(* The approval posture of a live session as its composer shows and        *)
(* switches it (src/webui/frontend/src/features/composer/                  *)
(* ComposerController.tsx, sessionSpecs.ts and src/webui/frontend/src/     *)
(* specs.ts).                                                              *)
(*                                                                         *)
(* A posture is two things: the permissions of the session's spec and its  *)
(* runtime mode.  Switching one takes two calls, the spec first; a model   *)
(* or a persona is switched by sending a spec, too, built from what this   *)
(* browser remembers of the session.  A mode applies at the loop's next    *)
(* boundary and comes back with the events.                                *)
(***************************************************************************)
EXTENDS Integers, Sequences, FiniteSets, SequencesExt

CONSTANTS Together,     \* switches on their way at a time
          PostureSteps  \* clicks and failures
ASSUME PostureAssumption == {Together, PostureSteps} \subseteq Nat

VARIABLES
    permissions, mode, requests,  \* the session: its spec's, its mode, modes asked for
    spec, access, liveMode,       \* the browser: remembered permissions and level; the fold's mode
    switches,                     \* the switches on their way
    picked,                       \* the level picked last, while its calls succeed
    muddled,                      \* history: a switch overlapped another, or its answer was lost
    postureSteps
rememberedVars == <<spec, access>>
sessionVars == <<permissions, mode, requests>>
postureVars == <<sessionVars, rememberedVars, liveMode, switches, picked, muddled,
                 postureSteps>>

PostureSpend == postureSteps < PostureSteps /\ postureSteps' = postureSteps + 1
PostureFree == UNCHANGED postureSteps

AccessLevels == {"full", "ask", "acceptEdits", "plan"}
Unknown == "-" \* nothing remembered, read or picked
permissionsBlock(id) == IF id = "ask" THEN "ask" ELSE "allow"
runtimeModeTarget(id) == IF id \in {"acceptEdits", "plan"} THEN id ELSE "default"

\* accessByMode, and what is remembered while the mode does not contradict it.
Pill == IF liveMode \in {"acceptEdits", "plan"} THEN liveMode
        ELSE IF liveMode = Unknown \/ access \in {"full", "ask"} THEN access
        ELSE Unknown
Claims(id) == CASE id = "full" -> permissions = "allow" /\ mode = "default"
                [] id = "ask"  -> permissions = "ask" /\ mode = "default"
                [] OTHER       -> mode = id

(***************************************************************************)
(* The switches.                                                           *)
(***************************************************************************)
\* Two clicks alike are two switches.
Slot == CHOOSE n \in 1..Together : \A s \in switches : s.slot # n
\* "sure": what it is built from is known to this browser, and no other switch is
\* on its way with it.
Start(kind, at, level, perms, recalls) ==
    /\ PostureSpend /\ Cardinality(switches) < Together
    /\ switches' = {[s EXCEPT !.sure = FALSE] : s \in switches} \union
         {[kind |-> kind, at |-> at, level |-> level, permissions |-> perms, slot |-> Slot,
           sure |-> recalls /\ switches = {}]}
    /\ muddled' = (muddled \/ switches # {})
    /\ UNCHANGED <<sessionVars, rememberedVars, liveMode>>
chooseSessionAccess(id) ==
    Start("access", "spec", id, permissionsBlock(id), TRUE) /\ picked' = id
applyModelSpec ==
    /\ Start("model", "spec", Unknown, IF spec # Unknown THEN spec ELSE permissionsBlock("full"),
             spec # Unknown /\ ~muddled)
    /\ UNCHANGED picked
choosePersona ==
    /\ Start("persona", "spec", Unknown, permissionsBlock(IF access # Unknown THEN access ELSE "full"),
             access # Unknown /\ ~muddled)
    /\ UNCHANGED picked
\* The slash command.
switchMode(target) ==
    /\ Start("mode", "mode", target, Unknown, TRUE) /\ picked' = Unknown

Drop(s) == switches' = switches \ {s}
Fails(s) ==
    /\ Drop(s) /\ picked' = IF s.kind = "access" THEN Unknown ELSE picked
    /\ UNCHANGED <<rememberedVars, liveMode>>
SpecLands(s) ==
    /\ s.at = "spec" /\ permissions' = s.permissions /\ PostureFree
    /\ switches' = (switches \ {s}) \union {[s EXCEPT !.at = "answer"]}
    /\ UNCHANGED <<mode, requests, rememberedVars, liveMode, picked, muddled>>
SpecAfter(s) == s.permissions
SpecAnswered(s) ==
    /\ s.at = "answer" /\ PostureFree
    /\ spec' = SpecAfter(s)
    /\ IF s.kind = "access"
       THEN /\ access' = s.level /\ muddled' = (muddled /\ ~s.sure)
            /\ switches' = (switches \ {s}) \union {[s EXCEPT !.at = "mode"]}
       ELSE UNCHANGED <<access, muddled>> /\ Drop(s)
    /\ UNCHANGED <<sessionVars, liveMode, picked>>
\* Before or after the server has carried it out.
SpecFails(s) ==
    /\ s.at \in {"spec", "answer"} /\ muddled' = (muddled \/ s.at = "answer")
    /\ PostureSpend /\ Fails(s) /\ UNCHANGED sessionVars
ModeTarget(s) == IF s.kind = "access" THEN runtimeModeTarget(s.level) ELSE s.level
ModeLands(s) ==
    /\ s.at = "mode" /\ requests' = Append(requests, ModeTarget(s)) /\ PostureFree
    /\ Drop(s)
    /\ UNCHANGED <<permissions, mode, rememberedVars, liveMode, picked, muddled>>
\* It is reported and nothing more; the request may have come through.
ModeFails(s) ==
    /\ s.at = "mode" /\ PostureSpend /\ Fails(s)
    /\ requests' \in {requests, Append(requests, ModeTarget(s))}
    /\ UNCHANGED <<permissions, mode, muddled>>

\* The loop's boundary, and the fold on the page.
ModeChanges ==
    /\ requests # <<>> /\ mode' = Head(requests) /\ requests' = Tail(requests) /\ PostureFree
    /\ UNCHANGED <<permissions, rememberedVars, liveMode, switches, picked, muddled>>
FoldMode ==
    /\ liveMode # mode /\ liveMode' = mode /\ PostureFree
    /\ UNCHANGED <<sessionVars, rememberedVars, switches, picked, muddled>>

PostureInit ==
    /\ \E id \in AccessLevels :
         /\ permissions = permissionsBlock(id) /\ mode = runtimeModeTarget(id)
         /\ \/ spec = permissions /\ access = id \* made in this browser
            \/ spec = Unknown /\ access = Unknown
    /\ requests = <<>> /\ liveMode = Unknown /\ switches = {} /\ picked = Unknown
    /\ muddled = FALSE /\ postureSteps = 0
PostureNext ==
    \/ \E id \in AccessLevels : chooseSessionAccess(id)
    \/ \E target \in {"default", "acceptEdits"} : switchMode(target)
    \/ applyModelSpec \/ choosePersona \/ ModeChanges \/ FoldMode
    \/ \E s \in switches :
         SpecLands(s) \/ SpecAnswered(s) \/ SpecFails(s) \/ ModeLands(s) \/ ModeFails(s)

(***************************************************************************)
(* Properties.                                                             *)
(***************************************************************************)
PostureTypeOK ==
    /\ {spec, permissions} \subseteq {"ask", "allow", Unknown}
    /\ {access, picked} \subseteq AccessLevels \union {Unknown}
    /\ Len(requests) <= PostureSteps

\* ComposerController.tsx: "so the posture the pill claims is the posture that
\* gates the next message": once no call is on its way and the mode has come
\* back, the pill is the level picked last if its calls succeeded, and claims
\* nothing the session does not do, even if calls failed, unless switches were on
\* their way together, or an answer was lost, since the last level picked alone.
PillIsPosture ==
    switches = {} /\ requests = <<>> /\ liveMode = mode /\ ~muddled
        => /\ Pill # Unknown => Claims(Pill)
           /\ picked # Unknown => Pill = picked

\* sessionSpecs.ts: a model switch edits that spec, "keeping its system_prompt /
\* tools / permissions", and so does a persona's: only an access switch changes
\* what is asked for, or one built without knowing it: this browser has not made
\* the session, an answer was lost, or another switch was on its way.
OnlyAccessChangesPermissions ==
    permissions' # permissions
        => \E s \in switches : s.at = "spec" /\ (s.kind = "access" \/ ~s.sure)
PostureIsChosen == PillIsPosture' /\ OnlyAccessChangesPermissions

\* Without the exceptions.
PillNeverLies ==
    switches = {} /\ requests = <<>> /\ liveMode = mode /\ Pill # Unknown => Claims(Pill)
ModelKeepsPermissions ==
    [][permissions' # permissions
        => \E s \in switches : s.at = "spec" /\ s.kind = "access"]_postureVars
=============================================================================
