----------------------------- MODULE AccountMenu -----------------------------
(***************************************************************************)
(* The account menu of the header (silicon-ui/user-menu/user-menu.tsx as   *)
(* shell.tsx uses it: items, the theme group, an asynchronous sign-out).   *)
(* On a wide window it is a panel, on a narrow one a sheet under a scrim;  *)
(* either stays mounted, and can still be pressed, while it animates out.  *)
(*                                                                         *)
(* Crossing the width while the menu is open mounts the other surface and  *)
(* lets the old one animate out.  Both use the same surfaceRef and         *)
(* listRef: a surface sets them as it mounts and clears them as it         *)
(* unmounts, whichever they point at by then.                              *)
(***************************************************************************)
EXTENDS Naturals, Sequences, SequencesExt

CONSTANTS
  Stops,   \* the rows that the arrow keys stop at, in order
  Group,   \* the one that is a group of segments
  SignOutStop, \* the last one
  Label,   \* what each row's label begins with, letter by letter
  Letters, \* the letters that are typed
  MaxTyped, \* bound on the letters typed within half a second of each other
  Themes   \* the segments of the group, in order

ASSUME MenuAssumption ==
  /\ Stops \in Seq(Range(Stops)) /\ {Group, SignOutStop} \subseteq Range(Stops)
  /\ Themes \in Seq(Range(Themes)) /\ Themes # <<>>
  /\ MaxTyped \in Nat

VARIABLES
  menu,       \* each surface: absent, open or leaving
  sheet,      \* the window is narrow: the sheet is the one that opens
  refs,       \* the surface that surfaceRef and listRef point at, or none
  signingOut, \* the item shows its progress
  pending,    \* pending.current: a sign-out of this menu is under way
  asked,      \* sign-outs of this menu under way at the service
  at,         \* document.activeElement: elsewhere, the trigger, the surface or
              \* one of its stops, or in the other surface, left behind
  highlight,  \* the highlighted stop, or none
  reason,     \* reason.current: none, first, last or pointer
  frame,      \* the focus scheduled with requestAnimationFrame, or none
  typed,      \* typed.current.text
  theme       \* the theme chosen

surface == <<menu, sheet, refs>>
signout == <<signingOut, pending, asked>>
focused == <<at, highlight>>
opening == <<reason, frame>>
menuVars == <<surface, signout, focused, opening, typed, theme>>

StopSet == Range(Stops)
Layouts == {"panel", "sheet"}
Layout == IF sheet THEN "sheet" ELSE "panel"
Other == IF sheet THEN "panel" ELSE "sheet"
isOpen == menu[Layout] = "open"
absent == [layout \in Layouts |-> "absent"]
Reasons == {"none", "first", "last", "pointer"}

MenuTypeOK ==
  /\ menu \in [Layouts -> {"absent", "open", "leaving"}]
  /\ refs \in {"none"} \cup Layouts
  /\ {sheet, signingOut, pending} \subseteq BOOLEAN
  /\ asked \in Nat
  /\ at \in {"elsewhere", "trigger", "surface", "behind"} \cup StopSet
  /\ highlight \in {"none"} \cup StopSet
  /\ reason \in Reasons /\ frame \in Reasons
  /\ typed \in BoundedSeq(Letters, MaxTyped)
  /\ theme \in Range(Themes)

MenuInit ==
  /\ menu = absent /\ sheet \in BOOLEAN /\ refs = "none"
  /\ signingOut = FALSE /\ pending = FALSE /\ asked = 0
  /\ at = "elsewhere" /\ highlight = "none"
  /\ reason = "none" /\ frame = "none" /\ typed = <<>> /\ theme \in Range(Themes)

(***************************************************************************)
(* Opening, closing and the focus.                                         *)
(***************************************************************************)
(* The effect on [open, sheet] schedules the focus that a person's opening  *)
(* asked for; it does not run again when an open menu is opened once more.  *)
SetOpen(next, why) ==
  /\ menu' = [menu EXCEPT ![Layout] = IF next THEN "open" ELSE IF isOpen THEN "leaving" ELSE @]
  /\ refs' = IF next /\ menu[Layout] = "absent" THEN Layout ELSE refs
  /\ IF next = isOpen
     THEN reason' = why /\ UNCHANGED frame
     ELSE reason' = "none" /\ frame' = why
  /\ signingOut' = IF next THEN pending ELSE signingOut
Close == SetOpen(FALSE, "none")

PositionOf(stop) == CHOOSE i \in DOMAIN Stops : Stops[i] = stop
Index == IF at \in StopSet /\ refs = Layout THEN PositionOf(at) ELSE 0

(* Only a focus that moves is an event for onListFocus.                     *)
Focuses(layout, to) ==
  /\ at' = IF layout = Layout THEN to ELSE "behind"
  /\ highlight' = IF to \in StopSet /\ at' # at THEN to ELSE highlight

(* focusStop and surfaceRef follow the refs, wherever they point.           *)
FollowsRefs(to) == IF refs = "none" THEN UNCHANGED focused ELSE Focuses(refs, to)

(* A person presses or points at a row of a surface that can be seen.       *)
Touches(stop) == \E layout \in Layouts : menu[layout] # "absent" /\ Focuses(layout, stop)

(* A press moves the focus to the trigger except where buttons take none.   *)
TriggerClick(keyboard) ==
  /\ IF keyboard THEN at = "trigger" ELSE menu["sheet"] = "absent"
  /\ IF isOpen THEN Close ELSE SetOpen(TRUE, IF keyboard THEN "first" ELSE "pointer")
  /\ at' \in (IF keyboard THEN {"trigger"} ELSE {"trigger", "elsewhere"}) /\ highlight' = "none"
  /\ UNCHANGED <<sheet, pending, asked, typed, theme>>

TriggerArrow(down) ==
  /\ at = "trigger"
  /\ SetOpen(TRUE, IF down THEN "first" ELSE "last")
  /\ highlight' = "none"
  /\ UNCHANGED <<sheet, pending, asked, at, typed, theme>>

FrameRuns ==
  /\ frame # "none" /\ frame' = "none"
  /\ FollowsRefs(CASE frame = "first" -> Head(Stops)
                   [] frame = "last" -> Last(Stops)
                   [] frame = "pointer" -> "surface")
  /\ UNCHANGED <<surface, signout, reason, typed, theme>>

Inside == at \in {"surface", "behind"} \cup StopSet

(* The panel takes a press in it for an outside one if surfaceRef is astray. *)
PressOutside(inside) ==
  /\ isOpen /\ ~sheet
  /\ inside => refs # Layout
  /\ menu' = [menu EXCEPT ![Layout] = "leaving"] /\ reason' = "none" /\ frame' = "none"
  /\ highlight' = "none" /\ at' = IF inside THEN at ELSE "elsewhere"
  /\ UNCHANGED <<sheet, refs, signout, typed, theme>>

(* The scrim is pressed, the sheet dragged down, or Escape or Tab pressed.  *)
CloseToTrigger(key) ==
  /\ IF key THEN Inside ELSE menu["sheet"] # "absent"
  /\ Close
  /\ at' = "trigger" /\ highlight' = "none"
  /\ UNCHANGED <<sheet, pending, asked, typed, theme>>

(* The window crosses the width: a surface that mounts now takes the refs,  *)
(* one that was still leaving does not, and the focus stays where it was.   *)
Resize ==
  /\ sheet' = ~sheet
  /\ IF isOpen
     THEN /\ menu' = [menu EXCEPT ![Layout] = "leaving", ![Other] = "open"]
          /\ refs' = IF menu[Other] = "absent" THEN Other ELSE refs
          /\ frame' = reason /\ reason' = "none"
     ELSE UNCHANGED <<menu, refs, opening>>
  /\ at' \in CASE at = "behind" -> {"surface"} \cup StopSet
               [] Inside /\ at # "behind" -> {"behind"}
               [] OTHER -> {at}
  /\ UNCHANGED <<signout, highlight, typed, theme>>

(* The refs are cleared by whichever surface unmounts.                      *)
ExitDone(layout) ==
  /\ menu[layout] = "leaving" /\ menu' = [menu EXCEPT ![layout] = "absent"]
  /\ refs' = "none"
  /\ at' = IF Inside /\ ((at = "behind") <=> (layout = Other)) THEN "elsewhere" ELSE at
  /\ UNCHANGED <<sheet, signout, highlight, opening, typed, theme>>

(***************************************************************************)
(* The rows.                                                               *)
(***************************************************************************)
SelectItem(stop) ==
  /\ menu # absent /\ stop \in StopSet \ {Group, SignOutStop}
  /\ Close
  /\ at' = "trigger" /\ highlight' = "none"
  /\ UNCHANGED <<sheet, pending, asked, typed, theme>>

ChangeTheme(value) ==
  /\ theme' = value /\ Touches(Group)
  /\ UNCHANGED <<surface, signout, opening, typed>>

MenuSignOutTwice ==
  /\ Touches(SignOutStop)
  /\ pending' = TRUE /\ signingOut' = TRUE /\ asked' = asked + 1
  /\ UNCHANGED <<surface, opening, typed, theme>>

(* A second press while one is pending does nothing but move the focus.     *)
MenuSignOut ==
  /\ Touches(SignOutStop)
  /\ pending' = TRUE
  /\ signingOut' = (signingOut \/ ~pending)
  /\ asked' = IF pending THEN asked ELSE asked + 1
  /\ UNCHANGED <<surface, opening, typed, theme>>

(* The promise settles: the menu closes, even one that was opened again.    *)
Done ==
  /\ asked > 0 /\ asked' = asked - 1
  /\ pending' = FALSE
  /\ Close
  /\ highlight' = "none"
  /\ UNCHANGED <<sheet, at, typed, theme>>

(* The identity is gone and its menu with it: the next one is a new         *)
(* instance, and what was asked no longer reaches it.                       *)
Unmount ==
  /\ menu' = absent /\ refs' = "none"
  /\ signingOut' = FALSE /\ pending' = FALSE /\ asked' = 0
  /\ at' = "elsewhere" /\ highlight' = "none" /\ reason' = "none" /\ frame' = "none" /\ typed' = <<>>
  /\ UNCHANGED <<sheet, theme>>

HoverItem(stop) ==
  /\ stop \in StopSet \ {Group} /\ at # stop
  /\ Touches(stop)
  /\ UNCHANGED <<surface, signout, opening, typed, theme>>

(* The pointer moves over the group, or leaves the list.                    *)
HoverAway(leaves) ==
  /\ menu # absent
  /\ leaves \/ (highlight # "none" /\ at # Group)
  /\ highlight' = "none"
  /\ at' = CASE refs = "none" -> at [] refs = Layout -> "surface" [] OTHER -> "behind"
  /\ UNCHANGED <<surface, signout, opening, typed, theme>>

(***************************************************************************)
(* The keys.                                                               *)
(***************************************************************************)
StepTo(stop) == Inside /\ FollowsRefs(stop) /\ UNCHANGED <<surface, signout, opening, typed, theme>>

ArrowDown == StepTo(Stops[(Index % Len(Stops)) + 1])
ArrowUp == StepTo(IF Index <= 1 THEN Last(Stops) ELSE Stops[Index - 1])
HomeOrEnd(home) == StepTo(IF home THEN Head(Stops) ELSE Last(Stops))

ArrowAcross(right) ==
  /\ at = Group
  /\ LET i == CHOOSE j \in DOMAIN Themes : Themes[j] = theme
         n == Len(Themes)
     IN  theme' = Themes[((i - 1 + (IF right THEN 1 ELSE n - 1)) % n) + 1]
  /\ highlight' = Group
  /\ UNCHANGED <<surface, signout, at, opening, typed>>

(* Letters jump to the next row that begins with what was typed; the row    *)
(* that has the focus keeps it while more letters still fit.                *)
Matching(text) == {stop \in StopSet : IsPrefix(text, Label[stop])}
After(stop) == LET n == Len(Stops) IN (PositionOf(stop) + n - 1 - Index) % n
Typeahead(letter) ==
  /\ Inside /\ Len(typed) < MaxTyped
  /\ typed' = Append(typed, letter)
  /\ LET found == Matching(typed') IN
       IF found = {} \/ (Len(typed') > 1 /\ at \in found)
       THEN UNCHANGED focused
       ELSE FollowsRefs(CHOOSE stop \in found : \A other \in found : After(stop) <= After(other))
  /\ UNCHANGED <<surface, signout, opening, theme>>

TypedExpires ==
  /\ typed # <<>> /\ typed' = <<>>
  /\ UNCHANGED <<surface, signout, focused, opening, theme>>

MenuStep ==
  \/ FrameRuns \/ Resize \/ MenuSignOut \/ Done \/ Unmount
  \/ ArrowDown \/ ArrowUp \/ TypedExpires
  \/ \E yes \in BOOLEAN :
       \/ TriggerClick(yes) \/ TriggerArrow(yes) \/ PressOutside(yes) \/ CloseToTrigger(yes)
       \/ HoverAway(yes) \/ HomeOrEnd(yes) \/ ArrowAcross(yes)
  \/ \E layout \in Layouts : ExitDone(layout)
  \/ \E stop \in StopSet : SelectItem(stop) \/ HoverItem(stop)
  \/ \E value \in Range(Themes) : ChangeTheme(value)
  \/ \E letter \in Letters : Typeahead(letter)

MenuSpec == MenuInit /\ [][MenuStep]_menuVars

(***************************************************************************)
(* Properties.                                                             *)
(***************************************************************************)
(* However often the menu is closed and opened while a sign-out is under    *)
(* way, one that is open shows whether it is; and a menu asks the service   *)
(* for one sign-out at a time.                                              *)
SignOutIsShown ==
  /\ isOpen => (signingOut <=> pending)
  /\ asked <= 1 /\ (pending <=> asked = 1)
==============================================================================
