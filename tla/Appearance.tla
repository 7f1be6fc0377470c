------------------------------ MODULE Appearance ------------------------------
(***************************************************************************)
(* The appearance: the theme of workspace.tsx, kept in localStorage, which  *)
(* every tab of the browser shares, and its segmented control on the       *)
(* settings page (silicon-ui/segmented-control).  A page starts light and  *)
(* restores the choice in an effect; another effect puts the theme on the  *)
(* document and follows the system's while that is the choice.             *)
(***************************************************************************)
EXTENDS Naturals, Sequences

VARIABLES
  chosen,    \* theme
  rendered,  \* the theme that the last effect put on the document and follows
  onDocument,     \* dataset.theme of the document
  systemDark,\* the system prefers dark
  saved      \* the theme in localStorage, if any

appearanceVars == <<chosen, rendered, onDocument, systemDark, saved>>

ThemeChoices == {"light", "dark", "system"}
AppearanceTypeOK ==
  /\ {chosen, rendered} \subseteq ThemeChoices /\ onDocument \in {"light", "dark"}
  /\ systemDark \in BOOLEAN /\ saved \in ThemeChoices \cup {"none"}

Resolved(choice, dark) ==
  IF choice = "system" THEN IF dark THEN "dark" ELSE "light" ELSE choice
Restored == IF saved \in {"dark", "system"} THEN saved ELSE "light"

AppearanceInit ==
  /\ chosen = "light" /\ rendered = "light" /\ onDocument = "light"
  /\ systemDark = FALSE /\ saved = "none"

(* The page is loaded: it is light until it has restored the choice.        *)
Reload ==
  /\ chosen' = Restored /\ rendered' = "light" /\ onDocument' = "light"
  /\ UNCHANGED <<systemDark, saved>>

(* localStorage may refuse to keep it.                                      *)
setTheme(next, kept) ==
  /\ chosen' = next
  /\ saved' = IF kept THEN next ELSE saved
  /\ UNCHANGED <<rendered, onDocument, systemDark>>

ThemeEffect ==
  /\ rendered # chosen /\ rendered' = chosen
  /\ onDocument' = Resolved(chosen, systemDark)
  /\ UNCHANGED <<chosen, systemDark, saved>>

SystemChanges ==
  /\ systemDark' = ~systemDark
  /\ onDocument' = IF rendered = "system" THEN Resolved("system", systemDark') ELSE onDocument
  /\ UNCHANGED <<chosen, rendered, saved>>

(* Another tab keeps its choice in the same place, which this one only reads *)
(* when it loads.                                                           *)
AnotherTabKeeps(next) ==
  /\ saved' = next
  /\ UNCHANGED <<chosen, rendered, onDocument, systemDark>>

Segments == <<"light", "dark", "system">>

(* The keys of the control go round its options from the selected one.      *)
Selected == CHOOSE i \in DOMAIN Segments : Segments[i] = chosen
KeyTarget(key) ==
  LET last == Len(Segments) IN
  CASE key = "next" -> IF Selected = last THEN 1 ELSE Selected + 1
    [] key = "previous" -> IF Selected = 1 THEN last ELSE Selected - 1
    [] key = "Home" -> 1
    [] key = "End" -> last

SegmentKey(key) == \E kept \in BOOLEAN : setTheme(Segments[KeyTarget(key)], kept)
SegmentClick(i) == \E kept \in BOOLEAN : setTheme(Segments[i], kept)

AppearanceStep ==
  \/ Reload \/ ThemeEffect \/ SystemChanges
  \/ \E next \in ThemeChoices : AnotherTabKeeps(next)
  \/ \E key \in {"next", "previous", "Home", "End"} : SegmentKey(key)
  \/ \E i \in DOMAIN Segments : SegmentClick(i)

AppearanceSpec == AppearanceInit /\ [][AppearanceStep]_appearanceVars

(***************************************************************************)
(* Properties.                                                             *)
(***************************************************************************)
(* Once the effects have run the document shows the theme chosen, through    *)
(* every change of the system's and of the choice between them.              *)
ShowsTheTheme == rendered = chosen => onDocument = Resolved(chosen, systemDark)
==============================================================================
