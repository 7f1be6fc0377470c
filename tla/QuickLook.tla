------------------------------- MODULE QuickLook -------------------------------
(***************************************************************************)
(* The quick look of a card (silicon-ui/card).  A card with details opens   *)
(* into a larger panel.  On closing, a layout effect notes where the card   *)
(* is and the panel stays mounted while it returns there; a timer, set by   *)
(* an effect on `returning`, hands back to the card.  With reduced motion   *)
(* the panel only fades.  Radix keeps the state, or a page sets `open`.     *)
(***************************************************************************)
VARIABLES
  details,  \* the card has details
  wanted,   \* openProp ?? uncontrolled
  reduced,  \* reduced motion is asked for
  wasOpen,  \* wasOpen.current
  landing,  \* where the quick look lands is set
  homing    \* the timer of the return has yet to fire

quickVars == <<details, wanted, reduced, wasOpen, landing, homing>>
QuickTypeOK == {details, wanted, reduced, wasOpen, landing, homing} \subseteq BOOLEAN

isShown == details /\ wanted
morphs == details /\ ~reduced
returning == ~isShown /\ landing
QuickInit ==
  /\ details = TRUE /\ wanted \in BOOLEAN /\ reduced \in BOOLEAN
  /\ wasOpen = isShown /\ landing = FALSE /\ homing = FALSE

(* The layout effect runs with the commit of a change of `open`, and again   *)
(* if the motion changes; a change of `returning` sets or clears the timer.  *)
Commits ==
  /\ wasOpen' = isShown'
  /\ landing' = CASE isShown' -> FALSE
                  [] wasOpen /\ ~isShown' /\ morphs' -> TRUE
                  [] OTHER -> landing
  /\ homing' = IF returning = returning' THEN homing ELSE returning'

setQuickLook(next) ==
  /\ details /\ next # wanted /\ wanted' = next
  /\ UNCHANGED <<details, reduced>> /\ Commits
MotionChanges ==
  /\ reduced' = ~reduced
  /\ UNCHANGED <<details, wanted>> /\ Commits
DetailsChange ==
  /\ details' = ~details
  /\ UNCHANGED <<wanted, reduced>> /\ Commits

Lands ==
  /\ homing /\ homing' = FALSE /\ landing' = FALSE
  /\ UNCHANGED <<details, wanted, reduced, wasOpen>>

(* What is on the screen.                                                    *)
PanelMounted == details /\ (isShown \/ returning)

QuickStep == \/ \E next \in BOOLEAN : setQuickLook(next)
             \/ MotionChanges \/ DetailsChange \/ Lands
QuickSpec == QuickInit /\ [][QuickStep]_quickVars

(***************************************************************************)
(* Properties.                                                             *)
(***************************************************************************)
(* However opening, closing and the settings cross a return, a panel that    *)
(* is not open is on the screen only while a timer runs to remove it, and    *)
(* no timer is left to cut a later one short.                                *)
ReturnsEnd == (PanelMounted /\ ~isShown => homing) /\ (homing => returning)
==============================================================================
