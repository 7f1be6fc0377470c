------------------------------ MODULE Overlays ------------------------------
(***************************************************************************)
(* The dialogs and drawers (silicon-ui/dialog, silicon-ui/drawer) between  *)
(* a press and its click.  Radix tells the content of a press outside only *)
(* at the click, after the click has had its own effect, and a panel stays *)
(* mounted while it leaves: a press that reopens it would close it again.  *)
(* Each component compares the time of the press with one of its own: a    *)
(* dialog with when `open` last changed, a drawer with when its own        *)
(* setOpen last opened it, which a page that changes the `open` property   *)
(* does not call.  Times are only compared, so the press keeps whether     *)
(* each of the two came after it.                                          *)
(***************************************************************************)
VARIABLES
  overlay, \* its kind, and whether it keeps its own state or a page does
  opened,  \* open
  layer,   \* the panel: absent, open or leaving
  outside, \* the press outside the panel under way, or NoPress
  pan,     \* the header is being dragged
  flung    \* the panel leaves with the velocity of a drag

overlayVars == <<overlay, opened, layer, outside, pan, flung>>

Targets == {"page", "trigger", "button"}
NoPress == [on |-> "none", changed |-> FALSE, reopened |-> FALSE]

OverlayTypeOK ==
  /\ overlay \in [kind : {"dialog", "drawer"}, owned : BOOLEAN]
  /\ {opened, pan, flung} \subseteq BOOLEAN
  /\ layer \in {"absent", "open", "leaving"}
  /\ outside \in [on : Targets \cup {"none"}, changed : BOOLEAN, reopened : BOOLEAN]

OverlayInit ==
  /\ overlay \in [kind : {"dialog", "drawer"}, owned : BOOLEAN]
  /\ opened \in BOOLEAN /\ layer = (IF opened THEN "open" ELSE "absent")
  /\ outside = NoPress /\ pan = FALSE /\ flung = FALSE

(* A panel stays mounted while it animates out.                              *)
PanelOf(next) == IF next THEN "open" ELSE IF layer = "absent" THEN "absent" ELSE "leaving"

(* What a change of `open` does to the panel and to a dialog's time of it.   *)
Becomes(next, press) ==
  /\ opened' = next
  /\ layer' = PanelOf(next)
  /\ outside' = IF press = NoPress \/ next = opened THEN press ELSE [press EXCEPT !.changed = TRUE]

(* setOpen of the component: Escape, the close button, a key on the trigger. *)
SetsOpen(next) ==
  /\ Becomes(next, IF next /\ outside # NoPress THEN [outside EXCEPT !.reopened = TRUE] ELSE outside)
  /\ flung' = FALSE

CloseOverlay ==
  /\ layer # "absent"
  /\ SetsOpen(FALSE)
  /\ UNCHANGED <<overlay, pan>>

TriggerKey ==
  /\ overlay.owned
  /\ SetsOpen(~opened)
  /\ UNCHANGED <<overlay, pan>>

(* A page changes the property on its own: a path is left, a save succeeds,  *)
(* a link opens a ting.                                                      *)
PageChanges(next) ==
  /\ ~overlay.owned /\ next # opened
  /\ Becomes(next, outside)
  /\ UNCHANGED <<overlay, pan, flung>>

(* A press while the panel is mounted: on the page, on the component's own   *)
(* trigger, or on a button with which the page opens the overlay.            *)
PressBegins(on) ==
  /\ outside = NoPress /\ ~pan /\ layer # "absent"
  /\ (on = "trigger") => overlay.owned
  /\ (on = "button") => ~overlay.owned
  /\ outside' = [NoPress EXCEPT !.on = on]
  /\ UNCHANGED <<overlay, opened, layer, pan, flung>>

IgnoredWhenOpened(press, next) ==
  IF overlay.kind = "dialog" THEN ~next ELSE press.reopened

(* Neither component takes a press for one outside if it opened the overlay. *)
Ignored(press, next) ==
  IF overlay.kind = "dialog" THEN ~next \/ press.changed ELSE press.reopened

ClickEnds ==
  /\ outside # NoPress
  /\ LET next == CASE outside.on = "trigger" -> ~opened
                   [] outside.on = "button" -> TRUE
                   [] outside.on = "page" -> opened
         press == [outside EXCEPT !.changed = @ \/ next # opened,
                                  !.reopened = @ \/ (outside.on = "trigger" /\ next)]
         closes == layer # "absent" /\ ~Ignored(press, next)
     IN  /\ Becomes(next /\ ~closes, NoPress)
         /\ flung' = (flung /\ ~closes /\ outside.on # "trigger")
  /\ UNCHANGED <<overlay, pan>>

PressCancelled ==
  /\ outside # NoPress /\ outside' = NoPress
  /\ UNCHANGED <<overlay, opened, layer, pan, flung>>

(* The header of a drawer is dragged, except from one of its controls: past  *)
(* a third of the panel or on a flick it closes, else it springs back.       *)
PanStart ==
  /\ overlay.kind = "drawer" /\ layer # "absent" /\ outside = NoPress
  /\ pan' = TRUE
  /\ UNCHANGED <<overlay, opened, layer, outside, flung>>

PanEnd(far) ==
  /\ pan /\ pan' = FALSE
  /\ IF far THEN Becomes(FALSE, outside) /\ flung' = TRUE
            ELSE UNCHANGED <<opened, layer, outside, flung>>
  /\ UNCHANGED overlay

(* The panel unmounts: a drag of it ends unseen, and Radix forgets a press.  *)
PanelGone ==
  /\ layer = "leaving" /\ layer' = "absent"
  /\ pan' = FALSE /\ outside' = NoPress
  /\ UNCHANGED <<overlay, opened, flung>>

OverlayStep ==
  \/ CloseOverlay \/ TriggerKey \/ ClickEnds \/ PressCancelled \/ PanStart \/ PanelGone
  \/ \E yes \in BOOLEAN : PageChanges(yes) \/ PanEnd(yes)
  \/ \E on \in Targets : PressBegins(on)

OverlaySpec == OverlayInit /\ [][OverlayStep]_overlayVars

(***************************************************************************)
(* Properties.                                                             *)
(***************************************************************************)
(* A click outside closes a dialog, or a drawer that keeps its own state,    *)
(* only if it was open all the time since the press, and a click that opens  *)
(* one leaves it open.                                                       *)
ClicksCloseWhatWasOpen ==
  [][ClickEnds /\ (overlay.kind = "dialog" \/ overlay.owned) =>
       /\ opened /\ outside.on # "trigger" /\ ~opened' => ~outside.changed
       /\ ~opened /\ outside.on \in {"trigger", "button"} => opened']_overlayVars
==============================================================================
