------------------------------- MODULE Tooltips -------------------------------
(***************************************************************************)
(* The tooltips of a page (silicon-ui/tooltip).  They share whether they    *)
(* are warm: while one is open, and for a while after the last one closed,  *)
(* the next opens without delay or travel.  A tooltip counts itself in an   *)
(* effect, after it was shown, and uncounts itself in the cleanup, so that  *)
(* one may open before the last one has gone.                               *)
(***************************************************************************)
EXTENDS Naturals, FiniteSets

CONSTANT Tips \* the tooltips of the page

VARIABLES
  tipsOpen,  \* open
  counted,   \* the effect on `open` has run, and its cleanup has not
  instant,   \* shown without travel
  warm, openCount,
  cooling    \* coolTimer has yet to fire

tooltipVars == <<tipsOpen, counted, instant, warm, openCount, cooling>>

TooltipTypeOK ==
  /\ tipsOpen \subseteq Tips /\ counted \subseteq Tips /\ instant \subseteq Tips
  /\ {warm, cooling} \subseteq BOOLEAN /\ openCount \in Nat

TooltipInit ==
  /\ tipsOpen = {} /\ counted = {} /\ instant = {}
  /\ warm = FALSE /\ openCount = 0 /\ cooling = FALSE

(* onOpenChange: the flag is read as the content mounts.                     *)
ShowTip(t) ==
  /\ t \notin tipsOpen /\ tipsOpen' = tipsOpen \cup {t}
  /\ instant' = IF warm THEN instant \cup {t} ELSE instant \ {t}
  /\ UNCHANGED <<counted, warm, openCount, cooling>>

HideTip(t) ==
  /\ t \in tipsOpen /\ tipsOpen' = tipsOpen \ {t}
  /\ UNCHANGED <<counted, instant, warm, openCount, cooling>>

CountIn(t) ==
  /\ t \in tipsOpen \ counted /\ counted' = counted \cup {t}
  /\ openCount' = openCount + 1 /\ cooling' = FALSE /\ warm' = TRUE
  /\ UNCHANGED <<tipsOpen, instant>>

CountOut(t) ==
  /\ t \in counted \ tipsOpen /\ counted' = counted \ {t}
  /\ openCount' = IF openCount = 0 THEN 0 ELSE openCount - 1
  /\ cooling' = (cooling \/ openCount' = 0)
  /\ UNCHANGED <<tipsOpen, instant, warm>>

CoolTimer ==
  /\ cooling /\ cooling' = FALSE /\ warm' = FALSE
  /\ UNCHANGED <<tipsOpen, counted, instant, openCount>>

TooltipStep == CoolTimer \/ \E t \in Tips : ShowTip(t) \/ HideTip(t) \/ CountIn(t) \/ CountOut(t)
TooltipSpec == TooltipInit /\ [][TooltipStep]_tooltipVars

(***************************************************************************)
(* Properties.                                                             *)
(***************************************************************************)
(* However tooltips overlap and whichever of them goes first, the count is   *)
(* that of the tooltips shown, and the page is warm exactly while one counts *)
(* or the timer that cools it runs: it neither stays warm nor cools early.   *)
WarmthIsTimed ==
  /\ openCount = Cardinality(counted)
  /\ warm <=> counted # {} \/ cooling
  /\ ~(counted # {} /\ cooling)
==============================================================================
