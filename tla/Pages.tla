-------------------------------- MODULE Pages --------------------------------
(***************************************************************************)
(* The pages on which an account changes things: applications.tsx,         *)
(* connections.tsx and preferences.tsx of web/components/ting, with the    *)
(* alert that shows the error of their last action.  Every change goes     *)
(* through action() of the workspace, which sets `busy` until its answer   *)
(* is read; the buttons that start one are swallowed or disabled while it  *)
(* is set, the dialogs around them are not.  A dialog stays mounted while  *)
(* it leaves, and what a page does after an answer it does to the dialog   *)
(* that is open by then.                                                   *)
(***************************************************************************)
EXTENDS Naturals, Sequences, FiniteSets, SequencesExt

CONSTANTS
  Apps,     \* applications
  Names,    \* what can be entered as the name of a type, a service or an app
  NotAName, \* a name that is refused before it is sent
  NoApp,    \* ''
  MaxAnswers \* bound on the answers of the service

ASSUME PagesAssumption == NoApp \notin Apps /\ IsFiniteSet(Apps)

VARIABLES
  page,     \* the page shown
  apps,     \* the applications loaded, in order
  selected, \* the application whose types are shown, or NoApp
  editor,   \* the dialog of a type: its panel, what it edits, the name entered
  revoke,   \* the dialog that asks before a subscription is revoked
  override, \* the form of an override
  problem,  \* the error that a form found by itself is shown
  working,  \* busy of the workspace
  work,     \* the request of the action under way, or NoWork
  failure,  \* actionError: an action's, another one, or none
  dismissed, \* the alert is dismissed and collapses: it clears the error at its end
  answers   \* answers so far

forms == <<editor, revoke, override, problem>>
actions == <<working, work, failure, dismissed, answers>>
pagesVars == <<page, apps, selected, forms, actions>>

PagesShown == {"apps", "connections", "preferences", "settings"}
Panels == {"absent", "open", "leaving"}
New == "new"
Subscriptions == Apps \* named by the application that holds the permission
NoEditor == [panel |-> "absent", editing |-> New, name |-> NotAName]
NoRevoke == [panel |-> "absent", subscription |-> NoApp]
NoOverride == [app |-> NoApp, level |-> "app", target |-> NotAName]
NoWork == [kind |-> "none", app |-> NoApp, name |-> NotAName, mounted |-> FALSE]
Requests == [kind : {"post", "patch", "revoke", "required", "put", "reset", "none"},
             app : Apps \cup {NoApp}, name : Names \cup {NotAName}, mounted : BOOLEAN]

PagesTypeOK ==
  /\ page \in PagesShown
  /\ Range(apps) \subseteq Apps /\ selected \in Apps \cup {NoApp}
  /\ editor \in [panel : Panels, editing : Names \cup {New}, name : Names \cup {NotAName}]
  /\ revoke \in [panel : Panels, subscription : Subscriptions \cup {NoApp}]
  /\ override \in [app : Apps \cup {NoApp}, level : {"app", "service", "type"}, target : Names \cup {NotAName}]
  /\ {problem, working, dismissed} \subseteq BOOLEAN
  /\ work \in Requests /\ failure \in {"none", "action", "other"} /\ answers \in Nat

Unmounted ==
  /\ apps' = <<>> /\ selected' = NoApp /\ editor' = NoEditor /\ revoke' = NoRevoke
  /\ override' = NoOverride /\ problem' = FALSE

PagesInit ==
  /\ page \in PagesShown /\ apps = <<>> /\ selected = NoApp
  /\ editor = NoEditor /\ revoke = NoRevoke /\ override = NoOverride /\ problem = FALSE
  /\ working = FALSE /\ work = NoWork /\ failure = "none" /\ dismissed = FALSE /\ answers = 0

(* Another page, or none while an account signs in, or another account.     *)
Leave(to) ==
  /\ page' = to /\ Unmounted
  /\ work' = [work EXCEPT !.mounted = FALSE]
  /\ UNCHANGED <<working, failure, dismissed, answers>>

(***************************************************************************)
(* Actions of the workspace.                                               *)
(***************************************************************************)
(* A loading button keeps the focus and swallows its presses.                *)
Pressable == ~working

(* typeError: a form refuses a name by itself; whose prefix a type carries   *)
(* only the service knows.                                                  *)
typeError(name) == name = NotAName

(* A new action takes the error of the last one away, and its alert too.    *)
Starts(request) ==
  /\ Pressable /\ answers < MaxAnswers
  /\ working' = TRUE /\ work' = [request EXCEPT !.mounted = TRUE]
  /\ failure' = "none" /\ dismissed' = FALSE
  /\ UNCHANGED <<page, apps, selected, answers>>

(* The page closes the dialog of its action even if what it shows by now is *)
(* another one.  After a 401 the workspace forgets the account.             *)
HidesPanel(dialog) == [dialog EXCEPT !.panel = IF @ = "open" THEN "leaving" ELSE @]
Answered(outcome) ==
  /\ work # NoWork /\ work' = NoWork /\ answers' = answers + 1
  /\ working' = FALSE
  /\ failure' = IF outcome = "ok" THEN failure ELSE "action"
  /\ IF outcome = "gone" THEN Unmounted
     ELSE /\ editor' = IF outcome = "ok" /\ work.mounted /\ work.kind \in {"post", "patch"}
                       THEN HidesPanel(editor) ELSE editor
          /\ revoke' = IF outcome = "ok" /\ work.mounted /\ work.kind = "revoke"
                       THEN HidesPanel(revoke) ELSE revoke
          /\ UNCHANGED <<apps, selected, override, problem>>
  /\ UNCHANGED <<page, dismissed>>

(* Another flow of the workspace reports an error or takes it away.         *)
Reports(error) ==
  /\ error # failure /\ error \in {"none", "other"}
  /\ failure' = error /\ dismissed' = (dismissed /\ error # "none")
  /\ UNCHANGED <<page, apps, selected, forms, working, work, answers>>

DismissAlert ==
  /\ failure # "none" /\ ~dismissed /\ dismissed' = TRUE
  /\ UNCHANGED <<page, apps, selected, forms, working, work, failure, answers>>
Collapsed ==
  /\ dismissed /\ dismissed' = FALSE /\ failure' = "none"
  /\ UNCHANGED <<page, apps, selected, forms, working, work, answers>>

(***************************************************************************)
(* Applications.                                                           *)
(***************************************************************************)
LoadsApps(loaded) ==
  /\ page = "apps"
  /\ apps' = loaded
  /\ selected' = IF selected = NoApp /\ loaded # <<>> THEN Head(loaded) ELSE selected
  /\ UNCHANGED <<page, forms, actions>>

SelectApp(app) ==
  /\ page = "apps" /\ app \in Range(apps) /\ editor.panel # "open"
  /\ selected' = app
  /\ UNCHANGED <<page, apps, forms, actions>>

(* A new form for every opening: the type edited or one to register.        *)
Edit(type) ==
  /\ page = "apps" /\ selected \in Range(apps) /\ editor.panel # "open"
  /\ editor' = [panel |-> "open", editing |-> type, name |-> IF type = New THEN NotAName ELSE type]
  /\ problem' = FALSE
  /\ UNCHANGED <<page, apps, selected, revoke, override, actions>>

EntersName(name) ==
  /\ editor.panel # "absent" /\ editor.editing = New
  /\ editor' = [editor EXCEPT !.name = name]
  /\ UNCHANGED <<page, apps, selected, revoke, override, problem, actions>>

CloseDialog ==
  /\ editor.panel = "open" \/ revoke.panel = "open"
  /\ editor' = HidesPanel(editor) /\ revoke' = HidesPanel(revoke)
  /\ UNCHANGED <<page, apps, selected, override, problem, actions>>

DialogGone ==
  /\ editor.panel = "leaving" \/ revoke.panel = "leaving"
  /\ editor' = [editor EXCEPT !.panel = "absent"] /\ revoke' = [revoke EXCEPT !.panel = "absent"]
  /\ UNCHANGED <<page, apps, selected, override, problem, actions>>

(* The form checks the name by itself; it is sent for the application that  *)
(* is selected by then.                                                     *)
SaveType ==
  /\ editor.panel # "absent" /\ Pressable
  /\ problem' = typeError(editor.name)
  /\ IF problem' THEN UNCHANGED <<page, apps, selected, actions>>
     ELSE Starts([kind |-> IF editor.editing = New THEN "post" ELSE "patch",
                  app |-> selected, name |-> editor.name, mounted |-> TRUE])
  /\ UNCHANGED <<editor, revoke, override>>

(***************************************************************************)
(* Connections and preferences.                                            *)
(***************************************************************************)
AskRevoke(subscription) ==
  /\ page = "connections" /\ revoke.panel # "open"
  /\ revoke' = [panel |-> "open", subscription |-> subscription]
  /\ UNCHANGED <<page, apps, selected, editor, override, problem, actions>>

ConfirmRevoke ==
  /\ revoke.panel # "absent"
  /\ Starts([NoWork EXCEPT !.kind = "revoke", !.app = revoke.subscription])
  /\ UNCHANGED forms

Switch(subscription) ==
  /\ page = "connections" /\ revoke.panel # "open"
  /\ Starts([NoWork EXCEPT !.kind = "required", !.app = subscription])
  /\ UNCHANGED forms

(* The form of an override: another level empties the target.               *)
Fills(field, value) ==
  /\ page = "preferences"
  /\ override' = CASE field = "app" -> [override EXCEPT !.app = value]
                   [] field = "level" -> [override EXCEPT !.level = value, !.target = NotAName]
                   [] field = "target" /\ override.level # "app" -> [override EXCEPT !.target = value]
                   [] OTHER -> override
  /\ UNCHANGED <<page, apps, selected, editor, revoke, problem, actions>>

SaveOverride ==
  /\ page = "preferences" /\ Pressable
  /\ problem' = (override.app = NoApp \/ (override.level # "app" /\ typeError(override.target)))
  /\ IF problem' THEN UNCHANGED <<page, apps, selected, actions>>
     ELSE Starts([kind |-> "put", app |-> override.app, name |-> override.target, mounted |-> TRUE])
  /\ UNCHANGED <<editor, revoke, override>>

ResetOverride(app) ==
  /\ page = "preferences"
  /\ Starts([NoWork EXCEPT !.kind = "reset", !.app = app])
  /\ UNCHANGED forms

PagesStep ==
  \/ CloseDialog \/ DialogGone \/ SaveType \/ ConfirmRevoke \/ SaveOverride \/ DismissAlert \/ Collapsed
  \/ \E to \in PagesShown : Leave(to)
  \/ \E outcome \in {"ok", "gone", "failed"} : Answered(outcome)
  \/ \E error \in {"none", "other"} : Reports(error)
  \/ \E loaded \in SetToAllKPermutations(Apps) : LoadsApps(loaded)
  \/ \E app \in Apps : SelectApp(app) \/ AskRevoke(app) \/ Switch(app) \/ ResetOverride(app) \/ Fills("app", app)
  \/ \E type \in Names \cup {New} : Edit(type)
  \/ \E name \in Names \cup {NotAName} : EntersName(name) \/ Fills("target", name)
  \/ \E level \in {"app", "service", "type"} : Fills("level", level)

PagesSpec == PagesInit /\ [][PagesStep]_pagesVars

(***************************************************************************)
(* Properties.                                                             *)
(***************************************************************************)
(* Through every dialog that stays or is opened while an answer is awaited,  *)
(* on every page that is left meanwhile, one change is under way at a time,  *)
(* it names everything the service needs, and the buttons spin exactly then. *)
OneChangeAtATime ==
  /\ working <=> work # NoWork
  /\ work # NoWork => work.app # NoApp
  /\ work.kind \in {"post", "patch"} => work.name # NotAName
==============================================================================
