---------------------------- MODULE Widgets_proofs ----------------------------
(***************************************************************************)
(* Proofs about the smaller components of the page: for every sequence of  *)
(* presses, keys, timers and answers, of whatever length, and for any      *)
(* labels, options, names and tooltips.                                    *)
(***************************************************************************)
EXTENDS Appearance, Tooltips, QuickLook, Overlays, AccountMenu, CopyFeedback, Combobox, Pages,
        DataLemmas

(***************************************************************************)
(* Appearance.                                                             *)
(***************************************************************************)
(* The document shows the theme that the last effect rendered, whether or   *)
(* not that is still the one chosen.                                        *)
ThemeInv == AppearanceTypeOK /\ onDocument = Resolved(rendered, systemDark)

LEMMA ResolvedOK ==
  ASSUME NEW choice \in ThemeChoices, NEW dark \in BOOLEAN
  PROVE  Resolved(choice, dark) \in {"light", "dark"}
BY DEF Resolved, ThemeChoices

LEMMA SelectedOK == ASSUME chosen \in ThemeChoices PROVE Selected \in 1..3
<1>1. \E i \in DOMAIN Segments : Segments[i] = chosen
  BY DEF Segments, ThemeChoices
<1>2. DOMAIN Segments = 1..3
  BY DEF Segments
<1> QED BY <1>1, <1>2 DEF Selected

LEMMA SetThemeInv ==
  ASSUME ThemeInv, NEW i \in 1..3, NEW kept \in BOOLEAN, setTheme(Segments[i], kept)
  PROVE  ThemeInv'
<1>1. Segments[i] \in ThemeChoices
  BY DEF Segments, ThemeChoices
<1> QED BY <1>1 DEF setTheme, ThemeInv, AppearanceTypeOK

LEMMA ThemeStepInv == ThemeInv /\ [AppearanceStep]_appearanceVars => ThemeInv'
<1> SUFFICES ASSUME ThemeInv, [AppearanceStep]_appearanceVars PROVE ThemeInv'
  OBVIOUS
<1>0. DOMAIN Segments = 1..3 /\ Len(Segments) = 3
  BY DEF Segments
<1>1. CASE Reload
  BY <1>1 DEF Reload, Restored, ThemeInv, AppearanceTypeOK, ThemeChoices, Resolved
<1>2. CASE ThemeEffect
  BY <1>2, ResolvedOK DEF ThemeEffect, ThemeInv, AppearanceTypeOK
<1>3. CASE SystemChanges
  BY <1>3 DEF SystemChanges, ThemeInv, AppearanceTypeOK, Resolved
<1>4. ASSUME NEW next \in ThemeChoices, AnotherTabKeeps(next) PROVE ThemeInv'
  BY <1>4 DEF AnotherTabKeeps, ThemeInv, AppearanceTypeOK
<1>5. ASSUME NEW key \in {"next", "previous", "Home", "End"}, SegmentKey(key) PROVE ThemeInv'
  <2>1. Selected \in 1..3
    BY SelectedOK DEF ThemeInv, AppearanceTypeOK
  <2>2. KeyTarget(key) \in 1..3
    BY <1>0, <2>1 DEF KeyTarget
  <2>3. PICK kept \in BOOLEAN : setTheme(Segments[KeyTarget(key)], kept)
    BY <1>5 DEF SegmentKey
  <2> QED BY <2>2, <2>3, SetThemeInv
<1>6. ASSUME NEW i \in DOMAIN Segments, SegmentClick(i) PROVE ThemeInv'
  BY <1>0, <1>6, SetThemeInv DEF SegmentClick
<1>7. CASE UNCHANGED appearanceVars
  BY <1>7 DEF appearanceVars, ThemeInv, AppearanceTypeOK
<1> QED BY <1>1, <1>2, <1>3, <1>4, <1>5, <1>6, <1>7 DEF AppearanceStep

LEMMA ThemeInitInv == AppearanceInit => ThemeInv
BY DEF AppearanceInit, ThemeInv, AppearanceTypeOK, ThemeChoices, Resolved

(* Once the effects have run the document shows the theme chosen, however   *)
(* the choice, the system and other tabs changed (workspace.tsx).           *)
THEOREM AlwaysShowsTheTheme == AppearanceSpec => []ShowsTheTheme
<1>1. ThemeInv => ShowsTheTheme
  BY DEF ThemeInv, ShowsTheTheme
<1>2. AppearanceInit => ThemeInv
  BY ThemeInitInv
<1>3. ThemeInv /\ [AppearanceStep]_appearanceVars => ThemeInv'
  BY ThemeStepInv
<1> QED BY <1>1, <1>2, <1>3, PTL DEF AppearanceSpec

(***************************************************************************)
(* Tooltips.                                                               *)
(***************************************************************************)
TipInv == TooltipTypeOK /\ IsFiniteSet(counted) /\ WarmthIsTimed

LEMMA TipInitInv == TooltipInit => TipInv
<1> SUFFICES ASSUME TooltipInit PROVE TipInv
  OBVIOUS
<1>1. IsFiniteSet({}) /\ Cardinality({}) = 0
  BY FS_EmptySet
<1>2. IsFiniteSet(counted) /\ Cardinality(counted) = 0
  BY <1>1 DEF TooltipInit
<1>3. TooltipTypeOK
  BY DEF TooltipInit, TooltipTypeOK
<1>4. WarmthIsTimed
  BY <1>2 DEF TooltipInit, WarmthIsTimed
<1> QED BY <1>2, <1>3, <1>4 DEF TipInv

LEMMA TipStepInv == TipInv /\ [TooltipStep]_tooltipVars => TipInv'
<1> SUFFICES ASSUME TipInv, [TooltipStep]_tooltipVars PROVE TipInv'
  OBVIOUS
<1>0. /\ TooltipTypeOK /\ IsFiniteSet(counted) /\ openCount = Cardinality(counted)
      /\ (warm <=> counted # {} \/ cooling) /\ ~(counted # {} /\ cooling)
  BY DEF TipInv, WarmthIsTimed
<1>1. CASE CoolTimer
  BY <1>0, <1>1 DEF CoolTimer, TipInv, TooltipTypeOK, WarmthIsTimed
<1>2. ASSUME NEW t \in Tips, ShowTip(t) PROVE TipInv'
  BY <1>0, <1>2 DEF ShowTip, TipInv, TooltipTypeOK, WarmthIsTimed
<1>3. ASSUME NEW t \in Tips, HideTip(t) PROVE TipInv'
  BY <1>0, <1>3 DEF HideTip, TipInv, TooltipTypeOK, WarmthIsTimed
<1>4. ASSUME NEW t \in Tips, CountIn(t) PROVE TipInv'
  <2>1. t \notin counted /\ counted' = counted \cup {t}
    BY <1>4 DEF CountIn
  <2>2. IsFiniteSet(counted') /\ Cardinality(counted') = Cardinality(counted) + 1
    BY <1>0, <2>1, FS_AddElement
  <2>3. openCount' = Cardinality(counted') /\ openCount' \in Nat
    BY <1>0, <1>4, <2>2, FS_CardinalityType DEF CountIn, TooltipTypeOK
  <2>4. counted' # {} /\ cooling' = FALSE /\ warm' = TRUE /\ counted' \in SUBSET Tips
    BY <1>0, <1>4, <2>1 DEF CountIn, TooltipTypeOK
  <2>5. TooltipTypeOK'
    BY <1>0, <1>4, <2>3, <2>4 DEF CountIn, TooltipTypeOK
  <2> QED BY <2>2, <2>3, <2>4, <2>5 DEF TipInv, WarmthIsTimed
<1>5. ASSUME NEW t \in Tips, CountOut(t) PROVE TipInv'
  <2>1. t \in counted /\ counted' = counted \ {t}
    BY <1>5 DEF CountOut
  <2>2. IsFiniteSet(counted') /\ Cardinality(counted') = Cardinality(counted) - 1
    BY <1>0, <2>1, FS_RemoveElement
  <2>3. Cardinality(counted') \in Nat /\ (Cardinality(counted') = 0 <=> counted' = {})
    BY <2>2, FS_CardinalityType, FS_EmptySet
  <2>4. openCount' = Cardinality(counted') /\ openCount' \in Nat
    BY <1>0, <1>5, <2>2, <2>3 DEF CountOut, TooltipTypeOK
  <2>5. cooling' = (cooling \/ counted' = {}) /\ UNCHANGED <<tipsOpen, instant, warm>>
    BY <1>5, <2>3, <2>4 DEF CountOut
  <2>6. ~cooling /\ warm
    BY <1>0, <2>1
  <2>7. cooling' \in BOOLEAN /\ (warm' <=> counted' # {} \/ cooling') /\ ~(counted' # {} /\ cooling')
    BY <1>0, <2>5, <2>6 DEF TooltipTypeOK
  <2> QED BY <1>0, <2>1, <2>2, <2>4, <2>5, <2>7 DEF TipInv, TooltipTypeOK, WarmthIsTimed
<1>6. CASE UNCHANGED tooltipVars
  BY <1>0, <1>6 DEF tooltipVars, TipInv, TooltipTypeOK, WarmthIsTimed
<1> QED BY <1>1, <1>2, <1>3, <1>4, <1>5, <1>6 DEF TooltipStep

(* The count is that of the tooltips shown and the page is warm exactly     *)
(* while one counts or the timer that cools it runs, for any number of      *)
(* tooltips that overlap in any order (silicon-ui/tooltip).                 *)
THEOREM WarmthIsAlwaysTimed == TooltipSpec => []WarmthIsTimed
<1>1. TipInv => WarmthIsTimed
  BY DEF TipInv
<1>2. TooltipInit => TipInv
  BY TipInitInv
<1>3. TipInv /\ [TooltipStep]_tooltipVars => TipInv'
  BY TipStepInv
<1> QED BY <1>1, <1>2, <1>3, PTL DEF TooltipSpec

(***************************************************************************)
(* The quick look.                                                         *)
(***************************************************************************)
(* The timer of the return runs exactly while the card returns.             *)
LookInv == QuickTypeOK /\ (homing <=> returning)

LEMMA LookInitInv == QuickInit => LookInv
BY DEF QuickInit, LookInv, QuickTypeOK, returning, isShown

(* After any change of the settings or of `open`.                           *)
LEMMA CommitsInv ==
  ASSUME LookInv, {details, wanted, reduced}' \subseteq BOOLEAN, Commits
  PROVE  LookInv'
<1>1. wasOpen' \in BOOLEAN
  BY DEF Commits, isShown
<1>2. landing' \in BOOLEAN
  BY DEF Commits, LookInv, QuickTypeOK
<1>3. homing' = IF returning = returning' THEN homing ELSE returning'
  BY DEF Commits
<1>4. returning \in BOOLEAN /\ returning' \in BOOLEAN /\ homing \in BOOLEAN
  BY <1>2 DEF returning, LookInv, QuickTypeOK
<1>5. homing' \in BOOLEAN /\ (homing' <=> returning')
  BY <1>3, <1>4 DEF LookInv
<1> QED BY <1>1, <1>2, <1>5 DEF LookInv, QuickTypeOK

LEMMA LookStepInv == LookInv /\ [QuickStep]_quickVars => LookInv'
<1> SUFFICES ASSUME LookInv, [QuickStep]_quickVars PROVE LookInv'
  OBVIOUS
<1>1. ASSUME NEW next \in BOOLEAN, setQuickLook(next) PROVE LookInv'
  BY <1>1, CommitsInv DEF setQuickLook, LookInv, QuickTypeOK
<1>2. CASE MotionChanges
  BY <1>2, CommitsInv DEF MotionChanges, LookInv, QuickTypeOK
<1>3. CASE DetailsChange
  BY <1>3, CommitsInv DEF DetailsChange, LookInv, QuickTypeOK
<1>4. CASE Lands
  BY <1>4 DEF Lands, LookInv, QuickTypeOK, returning, isShown
<1>5. CASE UNCHANGED quickVars
  BY <1>5 DEF quickVars, LookInv, QuickTypeOK, returning, isShown
<1> QED BY <1>1, <1>2, <1>3, <1>4, <1>5 DEF QuickStep

LEMMA LookReturns == LookInv => ReturnsEnd
BY DEF LookInv, ReturnsEnd, PanelMounted, QuickTypeOK

(* A panel that is not open is on the screen only while a timer runs to     *)
(* remove it, and none is left to cut a later return short, however         *)
(* opening, closing and the settings cross a return (silicon-ui/card).      *)
THEOREM ReturnsAlwaysEnd == QuickSpec => []ReturnsEnd
<1>1. LookInv => ReturnsEnd
  BY LookReturns
<1>2. QuickInit => LookInv
  BY LookInitInv
<1>3. LookInv /\ [QuickStep]_quickVars => LookInv'
  BY LookStepInv
<1> QED BY <1>1, <1>2, <1>3, PTL DEF QuickSpec

(***************************************************************************)
(* Overlays: presses, clicks, keys, drags and changes by the page.         *)
(***************************************************************************)
Presses == [on : Targets \cup {"none"}, changed : BOOLEAN, reopened : BOOLEAN]

(* A component that keeps its own state has no button of a page.            *)
OwnPress == overlay.owned => outside.on # "button"

(* A drawer that keeps its own state and is open, though it has changed     *)
(* since the press, was opened by its own setOpen.                          *)
ReopeningIsKept ==
  overlay.kind = "drawer" /\ overlay.owned /\ opened /\ outside.changed => outside.reopened

(* A press is on something.                                                 *)
PressIsOn == outside.on = "none" => outside = NoPress

OverlayInv == OverlayTypeOK /\ OwnPress /\ ReopeningIsKept /\ PressIsOn

LEMMA OverlayInitInv == OverlayInit => OverlayInv
<1> SUFFICES ASSUME OverlayInit PROVE OverlayInv
  OBVIOUS
<1>1. outside = NoPress /\ NoPress.on = "none" /\ NoPress.changed = FALSE /\ NoPress \in Presses
  BY DEF OverlayInit, NoPress, Presses, Targets
<1>2. OverlayTypeOK
  BY <1>1 DEF OverlayInit, OverlayTypeOK, Presses
<1> QED BY <1>1, <1>2 DEF OverlayInv, OwnPress, ReopeningIsKept, PressIsOn

(* What Becomes does, whoever calls it.                                     *)
LEMMA BecomesIs ==
  ASSUME OverlayTypeOK, NEW next \in BOOLEAN, NEW press \in Presses, Becomes(next, press)
  PROVE  /\ opened' = next /\ layer' \in {"absent", "open", "leaving"}
         /\ outside' \in Presses /\ outside'.on = press.on
         /\ outside'.reopened = press.reopened
         /\ outside'.changed => press.changed \/ next # opened
         /\ press = NoPress => outside' = NoPress
<1>1. opened' = next /\ layer' \in {"absent", "open", "leaving"}
  BY DEF Becomes, PanelOf, OverlayTypeOK
<1>2. CASE press = NoPress \/ next = opened
  BY <1>1, <1>2 DEF Becomes
<1>3. CASE ~(press = NoPress \/ next = opened)
  <2>1. outside' = [press EXCEPT !.changed = TRUE]
    BY <1>3 DEF Becomes
  <2> QED BY <1>1, <1>3, <2>1 DEF Presses
<1> QED BY <1>2, <1>3

(* setOpen keeps the invariant.                                             *)
LEMMA SetsOpenInv ==
  ASSUME OverlayInv, NEW next \in BOOLEAN, SetsOpen(next), UNCHANGED <<overlay, pan>>
  PROVE  OverlayInv'
<1> DEFINE press == IF next /\ outside # NoPress THEN [outside EXCEPT !.reopened = TRUE] ELSE outside
<1>1. press \in Presses /\ press.on = outside.on /\ press.changed = outside.changed
  BY DEF Presses, OverlayInv, OverlayTypeOK
<1>2. next /\ outside # NoPress => press.reopened
  BY DEF Presses, OverlayInv, OverlayTypeOK
<1>3. ~(next /\ outside # NoPress) => press = outside
  OBVIOUS
<1>4. Becomes(next, press) /\ flung' = FALSE
  BY DEF SetsOpen
<1> HIDE DEF press
<1>5. /\ opened' = next /\ layer' \in {"absent", "open", "leaving"}
      /\ outside' \in Presses /\ outside'.on = press.on
      /\ outside'.reopened = press.reopened
      /\ press = NoPress => outside' = NoPress
  BY <1>1, <1>4, BecomesIs DEF OverlayInv
<1>6. OverlayTypeOK'
  BY <1>4, <1>5 DEF OverlayInv, OverlayTypeOK, Presses
<1>7. OwnPress'
  BY <1>1, <1>5 DEF OverlayInv, OwnPress
<1>8. ReopeningIsKept'
  <2>1. CASE next /\ outside # NoPress
    BY <1>2, <1>5, <2>1 DEF ReopeningIsKept
  <2>2. CASE next /\ outside = NoPress
    BY <1>3, <1>5, <2>2 DEF ReopeningIsKept, NoPress
  <2>3. CASE ~next
    BY <1>5, <2>3 DEF ReopeningIsKept
  <2> QED BY <2>1, <2>2, <2>3
<1>9. PressIsOn'
  BY <1>1, <1>3, <1>5 DEF OverlayInv, PressIsOn
<1> QED BY <1>6, <1>7, <1>8, <1>9 DEF OverlayInv

LEMMA OverlayStepInv == OverlayInv /\ [OverlayStep]_overlayVars => OverlayInv'
<1> SUFFICES ASSUME OverlayInv, [OverlayStep]_overlayVars PROVE OverlayInv'
  OBVIOUS
<1>0. outside \in Presses /\ opened \in BOOLEAN
  BY DEF OverlayInv, OverlayTypeOK, Presses
<1>1. CASE CloseOverlay
  BY <1>1, SetsOpenInv DEF CloseOverlay
<1>2. CASE TriggerKey
  BY <1>0, <1>2, SetsOpenInv DEF TriggerKey
<1>3. CASE ClickEnds
  <2>1. PICK next \in BOOLEAN : Becomes(next, NoPress) /\ flung' \in BOOLEAN /\ UNCHANGED <<overlay, pan>>
    BY <1>3 DEF ClickEnds, OverlayInv, OverlayTypeOK
  <2>2. NoPress \in Presses
    BY DEF NoPress, Presses
  <2>3. opened' = next /\ layer' \in {"absent", "open", "leaving"} /\ outside' = NoPress
    BY <2>1, <2>2, BecomesIs DEF OverlayInv
  <2> QED BY <2>1, <2>3 DEF OverlayInv, OverlayTypeOK, OwnPress, ReopeningIsKept, PressIsOn, NoPress
<1>4. CASE PressCancelled
  BY <1>4 DEF PressCancelled, OverlayInv, OverlayTypeOK, OwnPress, ReopeningIsKept, PressIsOn, NoPress
<1>5. CASE PanStart
  BY <1>5 DEF PanStart, OverlayInv, OverlayTypeOK, OwnPress, ReopeningIsKept, PressIsOn
<1>6. CASE PanelGone
  BY <1>6 DEF PanelGone, OverlayInv, OverlayTypeOK, OwnPress, ReopeningIsKept, PressIsOn, NoPress
<1>7. ASSUME NEW next \in BOOLEAN, PageChanges(next) PROVE OverlayInv'
  <2>1. /\ opened' = next /\ layer' \in {"absent", "open", "leaving"}
        /\ outside' \in Presses /\ outside'.on = outside.on
        /\ outside = NoPress => outside' = NoPress
    BY <1>0, <1>7, BecomesIs DEF PageChanges, OverlayInv
  <2>2. ~overlay.owned /\ UNCHANGED <<overlay, pan, flung>>
    BY <1>7 DEF PageChanges
  <2> QED BY <2>1, <2>2 DEF OverlayInv, OverlayTypeOK, OwnPress, ReopeningIsKept, PressIsOn, Presses
<1>8. ASSUME NEW far \in BOOLEAN, PanEnd(far) PROVE OverlayInv'
  <2>1. CASE far
    <3>1. Becomes(FALSE, outside) /\ flung' = TRUE /\ pan' = FALSE /\ overlay' = overlay
      BY <1>8, <2>1 DEF PanEnd
    <3>2. /\ ~opened' /\ layer' \in {"absent", "open", "leaving"}
          /\ outside' \in Presses /\ outside'.on = outside.on /\ opened' \in BOOLEAN
          /\ outside = NoPress => outside' = NoPress
      BY <1>0, <3>1, BecomesIs DEF OverlayInv
    <3> QED BY <3>1, <3>2 DEF OverlayInv, OverlayTypeOK, OwnPress, ReopeningIsKept, PressIsOn, Presses
  <2>2. CASE ~far
    BY <1>8, <2>2 DEF PanEnd, OverlayInv, OverlayTypeOK, OwnPress, ReopeningIsKept, PressIsOn
  <2> QED BY <2>1, <2>2
<1>9. ASSUME NEW on \in Targets, PressBegins(on) PROVE OverlayInv'
  <2>1. outside' = [NoPress EXCEPT !.on = on] /\ UNCHANGED <<overlay, opened, layer, pan, flung>>
    BY <1>9 DEF PressBegins
  <2>2. outside'.on = on /\ outside'.changed = FALSE /\ outside' \in Presses /\ on # "none"
    BY <2>1 DEF NoPress, Presses, Targets
  <2>3. on = "button" => ~overlay.owned
    BY <1>9 DEF PressBegins
  <2> QED BY <2>1, <2>2, <2>3 DEF OverlayInv, OverlayTypeOK, OwnPress, ReopeningIsKept, PressIsOn, Presses
<1>10. CASE UNCHANGED overlayVars
  BY <1>10 DEF overlayVars, OverlayInv, OverlayTypeOK, OwnPress, ReopeningIsKept, PressIsOn
<1> QED
  BY <1>1, <1>2, <1>3, <1>4, <1>5, <1>6, <1>7, <1>8, <1>9, <1>10 DEF OverlayStep

(* The overlays keep their types and what Radix's late click relies on.     *)
THEOREM OverlayAlwaysInv == OverlaySpec => []OverlayInv
<1>1. OverlayInit => OverlayInv
  BY OverlayInitInv
<1>2. OverlayInv /\ [OverlayStep]_overlayVars => OverlayInv'
  BY OverlayStepInv
<1> QED BY <1>1, <1>2, PTL DEF OverlaySpec

(* The part of ClicksCloseWhatWasOpen that one click must keep.             *)
ClickKeeps ==
  ClickEnds /\ (overlay.kind = "dialog" \/ overlay.owned) =>
    /\ opened /\ outside.on # "trigger" /\ ~opened' => ~outside.changed
    /\ ~opened /\ outside.on \in {"trigger", "button"} => opened'

LEMMA ClickStep == OverlayInv /\ [OverlayStep]_overlayVars => [ClickKeeps]_overlayVars
<1> SUFFICES ASSUME OverlayInv, ClickEnds, overlay.kind = "dialog" \/ overlay.owned
             PROVE  /\ opened /\ outside.on # "trigger" /\ ~opened' => ~outside.changed
                    /\ ~opened /\ outside.on \in {"trigger", "button"} => opened'
  BY DEF ClickKeeps
<1>0. outside \in Presses /\ opened \in BOOLEAN /\ outside # NoPress /\ overlay.kind \in {"dialog", "drawer"}
  BY DEF OverlayInv, OverlayTypeOK, Presses, ClickEnds
<1> DEFINE next == CASE outside.on = "trigger" -> ~opened
                     [] outside.on = "button" -> TRUE
                     [] outside.on = "page" -> opened
           press == [outside EXCEPT !.changed = @ \/ next # opened,
                                    !.reopened = @ \/ (outside.on = "trigger" /\ next)]
           closes == layer # "absent" /\ ~Ignored(press, next)
<1>1. opened' = (next /\ ~closes)
  BY DEF ClickEnds, Becomes
<1>2. /\ press.changed = (outside.changed \/ next # opened)
      /\ press.reopened = (outside.reopened \/ (outside.on = "trigger" /\ next))
  BY <1>0 DEF Presses
<1>3. ASSUME opened, outside.on # "trigger", ~opened' PROVE ~outside.changed
  <2>1. outside.on = "page" \/ outside.on = "button" \/ outside.on = "none"
    BY <1>0, <1>3 DEF Presses, Targets
  <2>2. CASE outside.on = "none"
    BY <1>0, <2>2 DEF OverlayInv, PressIsOn
  <2>3. CASE outside.on \in {"page", "button"}
    <3>1. next = TRUE
      BY <1>0, <1>3, <2>3
    <3>2. ~Ignored(press, next)
      BY <1>1, <1>3, <3>1
    <3>3. press.changed = outside.changed /\ press.reopened = outside.reopened
      <4>1. next = opened /\ outside.changed \in BOOLEAN /\ outside.reopened \in BOOLEAN
        BY <1>0, <1>3, <3>1 DEF Presses
      <4> QED BY <1>2, <1>3, <4>1
    <3>4. CASE overlay.kind = "dialog"
      BY <3>1, <3>2, <3>3, <3>4 DEF Ignored
    <3>5. CASE overlay.kind = "drawer" /\ overlay.owned
      <4>1. ~outside.reopened
        BY <3>2, <3>3, <3>5 DEF Ignored
      <4> QED BY <1>3, <3>5, <4>1 DEF OverlayInv, ReopeningIsKept
    <3> QED BY <1>0, <3>4, <3>5
  <2> QED BY <2>1, <2>2, <2>3
<1>4. ASSUME ~opened, outside.on \in {"trigger", "button"} PROVE opened'
  <2>1. next = TRUE
    BY <1>4
  <2>2. press.changed /\ (outside.on = "trigger" => press.reopened)
    BY <1>0, <1>2, <1>4, <2>1
  <2>3. Ignored(press, next)
    <3>1. CASE overlay.kind = "dialog"
      BY <2>2, <3>1 DEF Ignored
    <3>2. CASE overlay.kind = "drawer" /\ overlay.owned
      BY <1>4, <2>2, <3>2 DEF Ignored, OverlayInv, OwnPress
    <3> QED BY <1>0, <3>1, <3>2
  <2> QED BY <1>1, <2>1, <2>3
<1> QED BY <1>3, <1>4

(* A click outside closes only what was open since the press, and a click   *)
(* that opens an overlay leaves it open: drawer.tsx and dialog.tsx compare  *)
(* the right times, except a drawer that a page controls.                   *)
THEOREM ClicksAlwaysKeep == OverlaySpec => ClicksCloseWhatWasOpen
<1>1. OverlayInv /\ [OverlayStep]_overlayVars => [ClickKeeps]_overlayVars
  BY ClickStep
<1> QED BY <1>1, OverlayAlwaysInv, PTL DEF OverlaySpec, ClicksCloseWhatWasOpen, ClickKeeps

(***************************************************************************)
(* The account menu.                                                       *)
(***************************************************************************)
(* At most the surface of the window's width is open.                       *)
MenuInv == MenuTypeOK /\ menu[Other] # "open" /\ SignOutIsShown

FocusOK == at \in {"elsewhere", "trigger", "surface", "behind"} \cup StopSet /\ highlight \in {"none"} \cup StopSet
SurfaceOK == menu \in [Layouts -> {"absent", "open", "leaving"}] /\ refs \in {"none"} \cup Layouts

LEMMA LayoutsAre == Layout \in Layouts /\ Other \in Layouts /\ Layout # Other /\ \A l \in Layouts : l = Layout \/ l = Other
BY DEF Layout, Other, Layouts

LEMMA StopsAre ==
  /\ DOMAIN Stops = 1..Len(Stops) /\ Len(Stops) \in Nat \ {0}
  /\ \A i \in 1..Len(Stops) : Stops[i] \in StopSet
  /\ Head(Stops) \in StopSet /\ Last(Stops) \in StopSet
  /\ \A stop \in StopSet : PositionOf(stop) \in 1..Len(Stops)
<1>1. Stops \in Seq(Range(Stops)) /\ StopSet = Range(Stops) /\ Group \in StopSet
  BY MenuAssumption DEF StopSet
<1>2. /\ DOMAIN Stops = 1..Len(Stops) /\ Len(Stops) \in Nat \ {0}
      /\ \A i \in 1..Len(Stops) : Stops[i] \in StopSet
      /\ \A stop \in StopSet : \E i \in 1..Len(Stops) : Stops[i] = stop
  BY <1>1, InRange
<1>3. Head(Stops) = Stops[1] /\ Last(Stops) = Stops[Len(Stops)]
  BY <1>1 DEF Last
<1>4. \A stop \in StopSet : PositionOf(stop) \in 1..Len(Stops)
  BY <1>2 DEF PositionOf
<1> QED BY <1>2, <1>3, <1>4

LEMMA FocusesOK ==
  ASSUME FocusOK, NEW layout, NEW to \in {"surface"} \cup StopSet, Focuses(layout, to)
  PROVE  FocusOK'
<1>1. at' \in {"surface", "behind"} \cup StopSet /\ highlight' \in {"none"} \cup StopSet
  BY DEF Focuses, FocusOK
<1> QED BY <1>1 DEF FocusOK, StopSet

LEMMA FollowsOK ==
  ASSUME FocusOK, NEW to \in {"surface"} \cup StopSet, FollowsRefs(to)
  PROVE  FocusOK'
<1>1. CASE refs = "none"
  BY <1>1 DEF FollowsRefs, focused, FocusOK, StopSet
<1>2. CASE refs # "none"
  BY <1>2, FocusesOK DEF FollowsRefs
<1> QED BY <1>1, <1>2

(* Whatever moves the focus alone keeps the invariant.                      *)
LEMMA MovesInv ==
  ASSUME MenuInv, FocusOK', frame' \in Reasons, theme' \in Range(Themes),
         UNCHANGED <<surface, signout, reason, typed>>
  PROVE  MenuInv'
<1>1. UNCHANGED <<menu, sheet, refs, signingOut, pending, asked, reason, typed>>
  BY DEF surface, signout
<1>2. MenuTypeOK'
  BY <1>1 DEF MenuInv, MenuTypeOK, FocusOK, StopSet
<1> QED BY <1>1, <1>2 DEF MenuInv, SignOutIsShown, isOpen, Layout, Other

(* Opening and closing keep it, whatever the sign-out does meanwhile.       *)
LEMMA SetsOpenInvMenu ==
  ASSUME MenuInv, NEW next \in BOOLEAN, NEW why \in Reasons, SetOpen(next, why), FocusOK',
         UNCHANGED <<sheet, typed, theme>>, pending' \in BOOLEAN, asked' \in Nat,
         next => pending' = pending, asked' <= 1, pending' <=> asked' = 1
  PROVE  MenuInv'
<1>0. /\ menu \in [Layouts -> {"absent", "open", "leaving"}] /\ refs \in {"none"} \cup Layouts
      /\ {sheet, signingOut, pending} \subseteq BOOLEAN
      /\ reason \in Reasons /\ frame \in Reasons /\ "none" \in Reasons
  BY DEF MenuInv, MenuTypeOK, Reasons
<1>1. /\ menu' \in [Layouts -> {"absent", "open", "leaving"}]
      /\ menu'[Layout] = "open" <=> next
      /\ menu'[Other] = menu[Other]
  BY <1>0, LayoutsAre DEF SetOpen, isOpen
<1>2. refs' \in {"none"} \cup Layouts /\ reason' \in Reasons /\ frame' \in Reasons
  BY <1>0, LayoutsAre DEF SetOpen
<1>3. signingOut' = IF next THEN pending ELSE signingOut
  BY DEF SetOpen
<1>4. Layout' = Layout /\ Other' = Other
  BY DEF Layout, Other
<1>5. MenuTypeOK'
  BY <1>0, <1>1, <1>2, <1>3 DEF MenuTypeOK, MenuInv, FocusOK, StopSet
<1>6. menu'[Other'] # "open"
  BY <1>1, <1>4 DEF MenuInv
<1>7. isOpen' => (signingOut' <=> pending')
  BY <1>0, <1>1, <1>3, <1>4 DEF isOpen
<1> QED BY <1>5, <1>6, <1>7 DEF MenuInv, SignOutIsShown

LEMMA ClosesInv ==
  ASSUME MenuInv, Close, FocusOK', UNCHANGED <<sheet, pending, asked, typed, theme>>
  PROVE  MenuInv'
<1>1. "none" \in Reasons /\ pending \in BOOLEAN /\ asked \in Nat /\ asked <= 1 /\ (pending <=> asked = 1)
  BY DEF Reasons, MenuInv, MenuTypeOK, SignOutIsShown
<1> QED BY <1>1, SetsOpenInvMenu DEF Close

LEMMA MenuInitInv == MenuInit => MenuInv
<1> SUFFICES ASSUME MenuInit PROVE MenuInv
  OBVIOUS
<1>1. typed \in BoundedSeq(Letters, MaxTyped)
  <2>1. <<>> \in [1..0 -> Letters] /\ 0 \in 0..MaxTyped
    BY MenuAssumption
  <2> QED BY <2>1 DEF MenuInit, BoundedSeq, SeqOf
<1>2. MenuTypeOK
  BY <1>1 DEF MenuInit, MenuTypeOK, absent, Layouts, Reasons
<1> QED BY <1>2, LayoutsAre DEF MenuInit, MenuInv, SignOutIsShown, isOpen, absent

(* What was typed, one letter longer.                                       *)
LEMMA TypedOK ==
  ASSUME NEW text \in BoundedSeq(Letters, MaxTyped), NEW letter \in Letters, Len(text) < MaxTyped
  PROVE  Append(text, letter) \in BoundedSeq(Letters, MaxTyped)
<1>1. PICK m \in 0..MaxTyped : text \in [1..m -> Letters]
  BY DEF BoundedSeq, SeqOf
<1>2. m \in Nat /\ text \in Seq(Letters) /\ Len(text) = m
  BY <1>1, MenuAssumption
<1>3. Append(text, letter) \in [1..(m + 1) -> Letters] /\ m + 1 \in 0..MaxTyped
  <2>1. Append(text, letter) \in Seq(Letters) /\ Len(Append(text, letter)) = m + 1
    BY <1>2, AppendProperties
  <2>2. Append(text, letter) \in [1..(m + 1) -> Letters]
    BY <2>1, LenProperties
  <2>3. m + 1 \in 0..MaxTyped
    BY <1>2, MenuAssumption
  <2> QED BY <2>2, <2>3
<1> QED BY <1>3 DEF BoundedSeq, SeqOf

LEMMA JumpsTo ==
  ASSUME NEW found \in SUBSET StopSet, found # {}, Index \in 0..Len(Stops)
  PROVE  (CHOOSE stop \in found : \A other \in found : After(stop) <= After(other)) \in StopSet
<1>1. \A stop \in StopSet : After(stop) \in Nat
  <2> TAKE stop \in StopSet
  <2>1. PositionOf(stop) \in 1..Len(Stops) /\ Len(Stops) \in Nat \ {0}
    BY StopsAre
  <2>2. PositionOf(stop) + Len(Stops) - 1 - Index \in Nat
    BY <2>1
  <2>3. After(stop) = (PositionOf(stop) + Len(Stops) - 1 - Index) % Len(Stops)
    BY DEF After
  <2> DEFINE a == PositionOf(stop) + Len(Stops) - 1 - Index
             n == Len(Stops)
  <2>4. a \in Nat /\ n \in Nat \ {0}
    BY <2>1, <2>2
  <2> HIDE DEF a, n
  <2>5. a % n \in Nat
    BY <2>4, Remainder
  <2> QED BY <2>3, <2>5 DEF a, n
<1> DEFINE T == {After(stop) : stop \in found}
<1>2. T \in SUBSET Nat /\ T # {}
  BY <1>1
<1>3. PICK n \in T : \A m \in T : n <= m
  BY <1>2, Least
<1>4. PICK stop \in found : After(stop) = n
  BY <1>3
<1>5. \A other \in found : After(stop) <= After(other)
  BY <1>3, <1>4
<1> QED BY <1>5

LEMMA StepsTo ==
  ASSUME MenuInv, NEW stop \in StopSet, StepTo(stop)
  PROVE  MenuInv'
<1>1. FocusOK /\ frame \in Reasons /\ theme \in Range(Themes)
  BY DEF MenuInv, MenuTypeOK, FocusOK
<1>2. FollowsRefs(stop) /\ UNCHANGED <<surface, signout, opening, typed, theme>>
  BY DEF StepTo
<1>3. FocusOK'
  BY <1>1, <1>2, FollowsOK
<1> QED BY <1>1, <1>2, <1>3, MovesInv DEF opening

LEMMA TouchesOK ==
  ASSUME MenuInv, NEW stop \in StopSet, Touches(stop)
  PROVE  FocusOK'
<1>1. FocusOK
  BY DEF MenuInv, MenuTypeOK, FocusOK
<1>2. PICK layout \in Layouts : Focuses(layout, stop)
  BY DEF Touches
<1> QED BY <1>1, <1>2, FocusesOK

LEMMA MenuStepInv == MenuInv /\ [MenuStep]_menuVars => MenuInv'
<1> SUFFICES ASSUME MenuInv, [MenuStep]_menuVars PROVE MenuInv'
  OBVIOUS
<1>0. /\ menu \in [Layouts -> {"absent", "open", "leaving"}] /\ refs \in {"none"} \cup Layouts
      /\ {sheet, signingOut, pending} \subseteq BOOLEAN /\ asked \in Nat
      /\ reason \in Reasons /\ frame \in Reasons /\ theme \in Range(Themes)
      /\ typed \in BoundedSeq(Letters, MaxTyped) /\ FocusOK
      /\ menu[Other] # "open"
      /\ isOpen => (signingOut <=> pending)
      /\ asked <= 1 /\ (pending <=> asked = 1)
  BY DEF MenuInv, MenuTypeOK, SignOutIsShown, FocusOK
<1>a. {"none", "first", "last", "pointer"} = Reasons /\ {Group, SignOutStop} \subseteq StopSet
  BY MenuAssumption DEF Reasons, StopSet
<1>b. Index \in 0..Len(Stops)
  BY StopsAre DEF Index
<1>c. StopSet' = StopSet /\ Range(Themes)' = Range(Themes)
  BY DEF StopSet, Range
<1>1. CASE FrameRuns
  <2> DEFINE to == CASE frame = "first" -> Head(Stops) [] frame = "last" -> Last(Stops)
                     [] frame = "pointer" -> "surface"
  <2>1. to \in {"surface"} \cup StopSet
    BY <1>0, <1>1, <1>a, StopsAre DEF FrameRuns
  <2>2. FollowsRefs(to) /\ frame' = "none" /\ UNCHANGED <<surface, signout, reason, typed, theme>>
    BY <1>1 DEF FrameRuns
  <2>3. FocusOK'
    BY <1>0, <2>1, <2>2, FollowsOK
  <2> QED BY <1>0, <1>a, <2>2, <2>3, MovesInv
<1>2. CASE Resize
  <2>1. sheet' = ~sheet /\ sheet' \in BOOLEAN /\ Layout' = Other /\ Other' = Layout
    BY <1>0, <1>2 DEF Resize, Layout, Other
  <2>2. UNCHANGED <<signingOut, pending, asked, highlight, typed, theme>>
    BY <1>2 DEF Resize, signout
  <2>3. at' \in {"elsewhere", "trigger", "surface", "behind"} \cup StopSet
    BY <1>0, <1>2 DEF Resize, FocusOK, Inside
  <2>4. CASE isOpen
    <3>1. /\ menu' = [menu EXCEPT ![Layout] = "leaving", ![Other] = "open"]
          /\ refs' = IF menu[Other] = "absent" THEN Other ELSE refs
          /\ frame' = reason /\ reason' = "none"
      BY <1>2, <2>4 DEF Resize
    <3>2. menu' \in [Layouts -> {"absent", "open", "leaving"}] /\ menu'[Layout] = "leaving" /\ menu'[Other] = "open"
      BY <1>0, <3>1, LayoutsAre
    <3>3. refs' \in {"none"} \cup Layouts
      BY <1>0, <3>1, LayoutsAre
    <3>4. MenuTypeOK'
      BY <1>0, <1>a, <1>c, <2>1, <2>2, <2>3, <3>1, <3>2, <3>3 DEF MenuTypeOK, FocusOK
    <3> QED BY <1>0, <2>1, <2>2, <2>4, <3>2, <3>4 DEF MenuInv, SignOutIsShown, isOpen
  <2>5. CASE ~isOpen
    <3>1. UNCHANGED <<menu, refs, reason, frame>>
      BY <1>2, <2>5 DEF Resize, opening
    <3>2. MenuTypeOK'
      BY <1>0, <1>a, <1>c, <2>1, <2>2, <2>3, <3>1 DEF MenuTypeOK, FocusOK
    <3> QED BY <1>0, <2>1, <2>2, <2>5, <3>1, <3>2 DEF MenuInv, SignOutIsShown, isOpen
  <2> QED BY <2>4, <2>5
<1>3. CASE MenuSignOut
  <2>1. /\ pending' = TRUE /\ signingOut' = (signingOut \/ ~pending)
        /\ asked' = IF pending THEN asked ELSE asked + 1
        /\ UNCHANGED <<menu, sheet, refs, reason, frame, typed, theme>>
    BY <1>3 DEF MenuSignOut, surface, opening
  <2>2. FocusOK'
    BY <1>3, <1>a, TouchesOK DEF MenuSignOut
  <2>3. asked' = 1
    BY <1>0, <2>1
  <2>4. MenuTypeOK'
    BY <1>0, <1>c, <2>1, <2>2, <2>3 DEF MenuTypeOK, FocusOK
  <2>5. Layout' = Layout /\ Other' = Other /\ isOpen' = isOpen
    BY <2>1 DEF Layout, Other, isOpen
  <2>6. isOpen => signingOut' = TRUE
    <3>1. CASE pending
      <4>1. isOpen => signingOut = TRUE
        BY <1>0, <3>1
      <4> QED BY <2>1, <4>1
    <3>2. CASE ~pending
      BY <2>1, <3>2
    <3> QED BY <3>1, <3>2
  <2>7. asked' <= 1
    BY <2>3
  <2>8. SignOutIsShown'
    BY <2>1, <2>3, <2>5, <2>6, <2>7 DEF SignOutIsShown
  <2> QED BY <1>0, <2>1, <2>4, <2>5, <2>8 DEF MenuInv
<1>4. CASE Done
  <2>1. /\ asked > 0 /\ asked' = asked - 1 /\ pending' = FALSE /\ SetOpen(FALSE, "none")
        /\ highlight' = "none" /\ UNCHANGED <<sheet, at, typed, theme>>
    BY <1>4 DEF Done, Close
  <2>2. FocusOK'
    BY <1>0, <1>c, <2>1 DEF FocusOK
  <2>3. asked' \in Nat /\ asked' <= 1 /\ asked' # 1
    BY <1>0, <2>1
  <2>4. pending' \in BOOLEAN /\ (pending' <=> asked' = 1)
    BY <2>1, <2>3
  <2>5. "none" \in Reasons
    BY <1>a
  <2>6. UNCHANGED <<sheet, typed, theme>> /\ SetOpen(FALSE, "none")
    BY <2>1
  <2> QED BY <2>2, <2>3, <2>4, <2>5, <2>6, SetsOpenInvMenu
<1>5. CASE Unmount
  <2>1. MenuTypeOK'
    <3>1. <<>> \in BoundedSeq(Letters, MaxTyped)
      <4>1. <<>> \in [1..0 -> Letters] /\ 0 \in 0..MaxTyped
        BY MenuAssumption
      <4> QED BY <4>1 DEF BoundedSeq, SeqOf
    <3> QED BY <1>0, <1>5, <1>a, <3>1 DEF Unmount, MenuTypeOK, absent
  <2>2. menu' = [layout \in Layouts |-> "absent"] /\ asked' = 0 /\ pending' = FALSE /\ sheet' = sheet
    BY <1>5 DEF Unmount, absent
  <2>3. Layout' \in Layouts /\ Other' \in Layouts
    BY <2>2, LayoutsAre DEF Layout, Other
  <2> QED BY <2>1, <2>2, <2>3 DEF MenuInv, SignOutIsShown, isOpen
<1>6. CASE ArrowDown
  <2>1. (Index % Len(Stops)) + 1 \in 1..Len(Stops)
    <3> DEFINE a == Index
               n == Len(Stops)
    <3>1. a \in Nat /\ n \in Nat \ {0}
      BY <1>b, StopsAre
    <3> HIDE DEF a, n
    <3>2. a % n \in 0..(n - 1)
      BY <3>1, Remainder
    <3>3. (a % n) + 1 \in 1..n
      BY <3>1, <3>2
    <3> QED BY <3>3 DEF a, n
  <2>2. Stops[(Index % Len(Stops)) + 1] \in StopSet
    BY <2>1, StopsAre
  <2> QED BY <1>6, <2>2, StepsTo DEF ArrowDown
<1>7. CASE ArrowUp
  <2>1. (IF Index <= 1 THEN Last(Stops) ELSE Stops[Index - 1]) \in StopSet
    BY <1>b, StopsAre
  <2> QED BY <1>7, <2>1, StepsTo DEF ArrowUp
<1>8. CASE TypedExpires
  <2>1. typed' = <<>> /\ UNCHANGED <<menu, sheet, refs, signingOut, pending, asked, at, highlight, reason, frame, theme>>
    BY <1>8 DEF TypedExpires, surface, signout, focused, opening
  <2>2. <<>> \in [1..0 -> Letters] /\ 0 \in 0..MaxTyped
    BY MenuAssumption
  <2>3. typed' \in BoundedSeq(Letters, MaxTyped)
    BY <2>1, <2>2 DEF BoundedSeq, SeqOf
  <2>4. MenuTypeOK'
    BY <1>0, <1>c, <2>1, <2>3 DEF MenuTypeOK, FocusOK
  <2> QED BY <1>0, <2>1, <2>4 DEF MenuInv, SignOutIsShown, isOpen, Layout, Other
<1>9. ASSUME NEW yes \in BOOLEAN, TriggerClick(yes) PROVE MenuInv'
  <2>1. /\ IF isOpen THEN Close ELSE SetOpen(TRUE, IF yes THEN "first" ELSE "pointer")
        /\ at' \in {"trigger", "elsewhere"} /\ highlight' = "none"
        /\ UNCHANGED <<sheet, pending, asked, typed, theme>>
    BY <1>9 DEF TriggerClick
  <2>2. FocusOK'
    BY <2>1 DEF FocusOK
  <2>3. CASE isOpen
    BY <2>1, <2>2, <2>3, ClosesInv
  <2>4. CASE ~isOpen
    BY <1>0, <1>a, <2>1, <2>2, <2>4, SetsOpenInvMenu
  <2> QED BY <2>3, <2>4
<1>10. ASSUME NEW yes \in BOOLEAN, TriggerArrow(yes) PROVE MenuInv'
  <2>1. /\ SetOpen(TRUE, IF yes THEN "first" ELSE "last")
        /\ highlight' = "none" /\ UNCHANGED <<sheet, pending, asked, at, typed, theme>>
    BY <1>10 DEF TriggerArrow
  <2>2. FocusOK'
    BY <1>0, <1>c, <2>1 DEF FocusOK
  <2> QED BY <1>0, <1>a, <2>1, <2>2, SetsOpenInvMenu
<1>11. ASSUME NEW yes \in BOOLEAN, PressOutside(yes) PROVE MenuInv'
  <2>1. /\ menu' = [menu EXCEPT ![Layout] = "leaving"] /\ reason' = "none" /\ frame' = "none"
        /\ highlight' = "none" /\ at' = (IF yes THEN at ELSE "elsewhere")
        /\ UNCHANGED <<sheet, refs, signingOut, pending, asked, typed, theme>>
    BY <1>11 DEF PressOutside, signout
  <2>2. menu' \in [Layouts -> {"absent", "open", "leaving"}] /\ menu'[Layout] = "leaving" /\ menu'[Other] = menu[Other]
    BY <1>0, <2>1, LayoutsAre
  <2>3. MenuTypeOK'
    BY <1>0, <1>a, <1>c, <2>1, <2>2 DEF MenuTypeOK, FocusOK
  <2>4. Layout' = Layout /\ Other' = Other
    BY <2>1 DEF Layout, Other
  <2> QED BY <1>0, <2>1, <2>2, <2>3, <2>4 DEF MenuInv, SignOutIsShown, isOpen
<1>12. ASSUME NEW yes \in BOOLEAN, CloseToTrigger(yes) PROVE MenuInv'
  <2>1. FocusOK'
    BY <1>12 DEF CloseToTrigger, FocusOK
  <2> QED BY <1>12, <2>1, ClosesInv DEF CloseToTrigger
<1>13. ASSUME NEW yes \in BOOLEAN, HoverAway(yes) PROVE MenuInv'
  <2>1. FocusOK'
    BY <1>0, <1>13, <1>c DEF HoverAway, FocusOK
  <2> QED BY <1>0, <1>13, <2>1, MovesInv DEF HoverAway, opening
<1>14. ASSUME NEW yes \in BOOLEAN, HomeOrEnd(yes) PROVE MenuInv'
  <2>1. (IF yes THEN Head(Stops) ELSE Last(Stops)) \in StopSet
    BY StopsAre
  <2> QED BY <1>14, <2>1, StepsTo DEF HomeOrEnd
<1>15. ASSUME NEW yes \in BOOLEAN, ArrowAcross(yes) PROVE MenuInv'
  <2> DEFINE i == CHOOSE j \in DOMAIN Themes : Themes[j] = theme
             n == Len(Themes)
             k == ((i - 1 + (IF yes THEN 1 ELSE n - 1)) % n) + 1
  <2>1. /\ DOMAIN Themes = 1..n /\ n \in Nat \ {0}
        /\ \A j \in 1..n : Themes[j] \in Range(Themes)
        /\ \A x \in Range(Themes) : \E j \in 1..n : Themes[j] = x
    <3>1. n = 0 => Themes = <<>>
      BY MenuAssumption
    <3> QED BY <3>1, MenuAssumption, InRange
  <2>2. i \in 1..n
    BY <1>0, <2>1
  <2>3. i - 1 + (IF yes THEN 1 ELSE n - 1) \in Nat
    BY <2>1, <2>2
  <2>4. k \in 1..n
    <3> DEFINE a == i - 1 + (IF yes THEN 1 ELSE n - 1)
    <3>1. a \in Nat
      BY <2>3
    <3> HIDE DEF a, n
    <3>2. a % n \in 0..(n - 1)
      BY <2>1, <3>1, Remainder
    <3>3. (a % n) + 1 \in 1..n
      BY <2>1, <3>2
    <3> QED BY <3>3 DEF a
  <2>5. theme' = Themes[k] /\ highlight' = Group /\ UNCHANGED <<surface, signout, at, opening, typed>>
    BY <1>15 DEF ArrowAcross
  <2>6. theme' \in Range(Themes)
    BY <2>1, <2>4, <2>5
  <2>7. FocusOK'
    BY <1>0, <1>a, <1>c, <2>5 DEF FocusOK
  <2> QED BY <1>0, <2>5, <2>6, <2>7, MovesInv DEF opening
<1>16. ASSUME NEW layout \in Layouts, ExitDone(layout) PROVE MenuInv'
  <2>1. /\ menu' = [menu EXCEPT ![layout] = "absent"] /\ refs' = "none"
        /\ at' \in {at, "elsewhere"}
        /\ UNCHANGED <<sheet, signingOut, pending, asked, highlight, reason, frame, typed, theme>>
        /\ menu[layout] = "leaving"
    BY <1>16 DEF ExitDone, signout, opening
  <2>2. /\ menu' \in [Layouts -> {"absent", "open", "leaving"}]
        /\ \A l \in Layouts : menu'[l] = "open" <=> menu[l] = "open"
    BY <1>0, <2>1
  <2>3. MenuTypeOK'
    BY <1>0, <1>c, <2>1, <2>2 DEF MenuTypeOK, FocusOK
  <2>4. Layout' = Layout /\ Other' = Other
    BY <2>1 DEF Layout, Other
  <2> QED BY <1>0, <2>1, <2>2, <2>3, <2>4, LayoutsAre DEF MenuInv, SignOutIsShown, isOpen
<1>17. ASSUME NEW stop \in StopSet, SelectItem(stop) PROVE MenuInv'
  <2>1. FocusOK'
    BY <1>17 DEF SelectItem, FocusOK
  <2> QED BY <1>17, <2>1, ClosesInv DEF SelectItem
<1>18. ASSUME NEW stop \in StopSet, HoverItem(stop) PROVE MenuInv'
  <2>1. FocusOK'
    BY <1>18, TouchesOK DEF HoverItem
  <2> QED BY <1>0, <1>18, <2>1, MovesInv DEF HoverItem, opening
<1>19. ASSUME NEW chosenTheme \in Range(Themes), ChangeTheme(chosenTheme) PROVE MenuInv'
  <2>1. FocusOK'
    BY <1>19, <1>a, TouchesOK DEF ChangeTheme
  <2> QED BY <1>0, <1>19, <2>1, MovesInv DEF ChangeTheme, opening
<1>20. ASSUME NEW letter \in Letters, Typeahead(letter) PROVE MenuInv'
  <2> DEFINE text == Append(typed, letter)
             found == Matching(text)
             to == CHOOSE stop \in found : \A other \in found : After(stop) <= After(other)
  <2>1. typed' = text /\ UNCHANGED <<menu, sheet, refs, signingOut, pending, asked, reason, frame, theme>>
    BY <1>20 DEF Typeahead, surface, signout, opening
  <2>2. typed' \in BoundedSeq(Letters, MaxTyped)
    BY <1>0, <1>20, <2>1, TypedOK DEF Typeahead
  <2>3. UNCHANGED focused \/ (found # {} /\ FollowsRefs(to))
    BY <1>20, <2>1 DEF Typeahead
  <2>4. FocusOK'
    <3>1. CASE UNCHANGED focused
      BY <1>0, <1>c, <3>1 DEF focused, FocusOK
    <3>2. CASE found # {} /\ FollowsRefs(to)
      <4>1. found \in SUBSET StopSet
        BY DEF Matching
      <4>2. to \in StopSet
        <5> HIDE DEF found
        <5> QED BY <1>b, <3>2, <4>1, JumpsTo
      <4> HIDE DEF to
      <4> QED BY <1>0, <3>2, <4>2, FollowsOK
    <3> QED BY <2>3, <3>1, <3>2
  <2>5. MenuTypeOK'
    BY <1>0, <1>c, <2>1, <2>2, <2>4 DEF MenuTypeOK, FocusOK
  <2> QED BY <1>0, <2>1, <2>5 DEF MenuInv, SignOutIsShown, isOpen, Layout, Other
<1>21. CASE UNCHANGED menuVars
  <2>1. UNCHANGED <<menu, sheet, refs, signingOut, pending, asked, at, highlight, reason, frame, typed, theme>>
    BY <1>21 DEF menuVars, surface, signout, focused, opening
  <2>2. MenuTypeOK'
    BY <1>0, <1>c, <2>1 DEF MenuTypeOK, FocusOK
  <2> QED BY <1>0, <2>1, <2>2 DEF MenuInv, SignOutIsShown, isOpen, Layout, Other
<1> QED
  BY <1>1, <1>2, <1>3, <1>4, <1>5, <1>6, <1>7, <1>8, <1>9, <1>10, <1>11, <1>12, <1>13, <1>14,
     <1>15, <1>16, <1>17, <1>18, <1>19, <1>20, <1>21 DEF MenuStep

THEOREM MenuAlwaysInv == MenuSpec => []MenuInv
<1>1. MenuInit => MenuInv
  BY MenuInitInv
<1>2. MenuInv /\ [MenuStep]_menuVars => MenuInv'
  BY MenuStepInv
<1> QED BY <1>1, <1>2, PTL DEF MenuSpec

(* However often the menu is closed, opened and carried across the width of *)
(* the window while a sign-out is under way, one that is open shows whether *)
(* it is, and the service is asked for one at a time (silicon-ui/user-menu).*)
THEOREM SignOutIsAlwaysShown == MenuSpec => []SignOutIsShown
<1>1. MenuInv => SignOutIsShown
  BY DEF MenuInv
<1> QED BY <1>1, MenuAlwaysInv, PTL

(***************************************************************************)
(* Copy buttons.                                                           *)
(***************************************************************************)
Glyphs == Seq([id : Nat \X Nat, char : Chars])

(* The letters spell the text, and each key was given once: its first part  *)
(* is the change that brought the letter.                                   *)
GlyphsOK(g) ==
  /\ g = [text |-> g.text, seq |-> g.seq, letters |-> g.letters]
  /\ g.text \in Seq(Chars) /\ g.seq \in Nat /\ g.letters \in Glyphs
  /\ Len(g.letters) = Len(g.text)
  /\ \A i \in 1..Len(g.text) : g.letters[i].char = g.text[i] /\ g.letters[i].id[1] <= g.seq
  /\ \A i, j \in 1..Len(g.text) : i # j => g.letters[i].id # g.letters[j].id

CopyInv ==
  /\ {viewer, timing} \subseteq BOOLEAN /\ feedback \in States /\ announced \in States
  /\ strays \in Nat /\ writing \in Nat /\ copies \in Nat
  /\ FeedbackEnds
  /\ GlyphsOK(glyphs) /\ (~viewer => glyphs.text = Text[feedback])

LEMMA SharedStartIs ==
  ASSUME NEW prev \in Seq(Chars), NEW next \in Seq(Chars)
  PROVE  LET n == SharedStart(prev, next)
         IN  n \in 0..Len(prev) /\ n <= Len(next) /\ \A i \in 1..n : prev[i] = next[i]
<1>1. \E n \in 0..Len(prev) : /\ n <= Len(next) /\ \A i \in 1..n : prev[i] = next[i]
                              /\ n = Len(prev) \/ n = Len(next) \/ prev[n + 1] # next[n + 1]
  <2>1. Len(prev) \in Nat /\ Len(next) \in Nat
    BY LenProperties
  <2>2. Agrees(Len(prev), Len(next), prev, next)
    BY <2>1, Agree
  <2> QED BY <2>2 DEF Agrees
<1> QED BY <1>1 DEF SharedStart

LEMMA SharedEndIs ==
  ASSUME NEW prev \in Seq(Chars), NEW next \in Seq(Chars), NEW start \in Nat,
         start <= Len(prev), start <= Len(next)
  PROVE  LET n == SharedEnd(prev, next, start)
         IN  /\ n \in 0..(Len(prev) - start) /\ n <= Len(next) - start
             /\ \A i \in 1..n : prev[Len(prev) + 1 - i] = next[Len(next) + 1 - i]
<1> DEFINE p == [i \in Nat |-> prev[Len(prev) + 1 - i]]
           q == [i \in Nat |-> next[Len(next) + 1 - i]]
           a == Len(prev) - start
           b == Len(next) - start
<1>1. a \in Nat /\ b \in Nat /\ Len(prev) \in Nat /\ Len(next) \in Nat
  BY LenProperties
<1>2. PICK n \in 0..a : /\ n <= b /\ \A i \in 1..n : p[i] = q[i]
                        /\ n = a \/ n = b \/ p[n + 1] # q[n + 1]
  <2> HIDE DEF p, q, a, b
  <2>1. Agrees(a, b, p, q)
    BY <1>1, Agree
  <2> QED BY <2>1 DEF Agrees
<1>3. \A i \in Nat : p[i] = prev[Len(prev) + 1 - i] /\ q[i] = next[Len(next) + 1 - i]
  OBVIOUS
<1>4. n \in Nat /\ n + 1 \in Nat /\ \A i \in 1..n : i \in Nat
  BY <1>1
<1>5. \A i \in 1..n : prev[Len(prev) + 1 - i] = next[Len(next) + 1 - i]
  BY <1>2, <1>3, <1>4
<1>6. n = a \/ n = b \/ prev[Len(prev) + 1 - (n + 1)] # next[Len(next) + 1 - (n + 1)]
  BY <1>2, <1>3, <1>4
<1>7. \E m \in 0..(Len(prev) - start) :
        LET prevAt(i) == prev[Len(prev) + 1 - i]  nextAt(i) == next[Len(next) + 1 - i] IN
          /\ m <= Len(next) - start /\ \A i \in 1..m : prevAt(i) = nextAt(i)
          /\ m = Len(prev) - start \/ m = Len(next) - start \/ prevAt(m + 1) # nextAt(m + 1)
  BY <1>2, <1>5, <1>6
<1> HIDE DEF p, q, a, b
<1> QED BY <1>7 DEF SharedEnd

(* The letters between keep their place and their char, with keys of the    *)
(* change that brings them.                                                 *)
LEMMA ToGlyphsIs ==
  ASSUME NEW chars \in Seq(Chars), NEW seq \in Nat
  PROVE  /\ toGlyphs(chars, seq) \in Glyphs /\ Len(toGlyphs(chars, seq)) = Len(chars)
         /\ \A i \in 1..Len(chars) : toGlyphs(chars, seq)[i] = [id |-> <<seq, i>>, char |-> chars[i]]
<1>1. Len(chars) \in Nat /\ DOMAIN chars = 1..Len(chars) /\ \A i \in 1..Len(chars) : chars[i] \in Chars
  BY LenProperties, ElementOfSeq
<1>2. toGlyphs(chars, seq) = [i \in 1..Len(chars) |-> [id |-> <<seq, i>>, char |-> chars[i]]]
  BY <1>1 DEF toGlyphs
<1>3. \A i \in 1..Len(chars) : [id |-> <<seq, i>>, char |-> chars[i]] \in [id : Nat \X Nat, char : Chars]
  BY <1>1
<1>4. toGlyphs(chars, seq) \in [1..Len(chars) -> [id : Nat \X Nat, char : Chars]]
  BY <1>2, <1>3
<1>5. toGlyphs(chars, seq) \in Glyphs
  <2> DEFINE G == [id : Nat \X Nat, char : Chars]
  <2>1. toGlyphs(chars, seq) \in [1..Len(chars) -> G]
    BY <1>4
  <2> HIDE DEF G
  <2>2. toGlyphs(chars, seq) \in Seq(G)
    BY <1>1, <2>1
  <2> QED BY <2>2 DEF Glyphs, G
<1>6. Len(toGlyphs(chars, seq)) = Len(chars)
  BY <1>1, <1>4
<1> QED BY <1>2, <1>5, <1>6

(* Where a letter of a spliced sequence comes from.                         *)
Splices(all, letters, start, between, end) ==
  /\ all \in Glyphs /\ Len(all) = start + Len(between) + end
  /\ \A i \in 1..Len(all) :
       all[i] = IF i <= start THEN letters[i]
                ELSE IF i <= start + Len(between) THEN between[i - start]
                ELSE letters[i - (start + Len(between)) + Len(letters) - end]

LEMMA SplicedIs ==
  ASSUME NEW letters \in Glyphs, NEW between \in Glyphs,
         NEW start \in Nat, NEW end \in Nat, start + end <= Len(letters)
  PROVE  Splices(Spliced(letters, start, between, end), letters, start, between, end)
<1> DEFINE n == Len(letters)
           m == Len(between)
           first == SubSeq(letters, 1, start)
           last == SubSeq(letters, n - end + 1, n)
           all == Spliced(letters, start, between, end)
           G == [id : Nat \X Nat, char : Chars]
<1>1. n \in Nat /\ m \in Nat /\ \A i \in 1..n : letters[i] \in G
  BY LenProperties, ElementOfSeq DEF Glyphs
<1>2. first \in Seq(G) /\ Len(first) = (IF 1 <= start THEN start - 1 + 1 ELSE 0)
      /\ \A i \in 1..(start - 1 + 1) : first[i] = letters[1 + i - 1]
  <2>1. \A i \in 1..start : letters[i] \in G
    BY <1>1
  <2> QED BY <2>1, SubSeqProperties
<1>3. last \in Seq(G) /\ Len(last) = (IF n - end + 1 <= n THEN n - (n - end + 1) + 1 ELSE 0)
      /\ \A i \in 1..(n - (n - end + 1) + 1) : last[i] = letters[(n - end + 1) + i - 1]
  <2>1. n - end + 1 \in Int /\ n \in Int
    BY <1>1
  <2>2. \A i \in (n - end + 1)..n : letters[i] \in G
    BY <1>1
  <2> HIDE DEF G
  <2> QED BY <2>1, <2>2, SubSeqProperties
<1>4. Len(first) = start /\ Len(last) = end
  BY <1>1, <1>2, <1>3
<1>5. \A i \in 1..start : first[i] = letters[i]
  BY <1>2
<1>6. \A i \in 1..end : last[i] = letters[i + n - end]
  <2> TAKE i \in 1..end
  <2>1. i \in 1..(n - (n - end + 1) + 1) /\ (n - end + 1) + i - 1 = i + n - end
    BY <1>1
  <2> QED BY <1>3, <2>1
<1>7. between \in Seq(G)
  BY DEF Glyphs
<1> HIDE DEF first, last, n, m, G
<1>8. /\ first \o between \in Seq(G) /\ Len(first \o between) = start + m
      /\ \A i \in 1..(start + m) : (first \o between)[i] = IF i <= start THEN first[i] ELSE between[i - start]
  <2>1. /\ first \o between \in Seq(G) /\ Len(first \o between) = Len(first) + Len(between)
        /\ \A i \in 1..(Len(first) + Len(between)) : (first \o between)[i] =
             IF i <= Len(first) THEN first[i] ELSE between[i - Len(first)]
    <3>1. first \in Seq(G)
      BY <1>2
    <3> QED BY <1>7, <3>1, ConcatProperties
  <2> QED BY <1>4, <2>1 DEF m
<1>9. /\ (first \o between) \o last \in Seq(G) /\ Len((first \o between) \o last) = start + m + end
      /\ \A i \in 1..(start + m + end) : ((first \o between) \o last)[i] =
           IF i <= start + m THEN (first \o between)[i] ELSE last[i - (start + m)]
  <2> DEFINE f == first \o between
  <2>1. f \in Seq(G) /\ last \in Seq(G) /\ Len(f) = start + m
    BY <1>3, <1>8
  <2> HIDE DEF f
  <2>2. /\ f \o last \in Seq(G) /\ Len(f \o last) = Len(f) + Len(last)
        /\ \A i \in 1..(Len(f) + Len(last)) : (f \o last)[i] =
             IF i <= Len(f) THEN f[i] ELSE last[i - Len(f)]
    BY <2>1, ConcatProperties
  <2>3. /\ f \o last \in Seq(G) /\ Len(f \o last) = start + m + end
        /\ \A i \in 1..(start + m + end) : (f \o last)[i] =
             IF i <= start + m THEN f[i] ELSE last[i - (start + m)]
    BY <1>4, <2>1, <2>2
  <2> QED BY <2>3 DEF f
<1>10. all = (first \o between) \o last
  BY DEF Spliced, first, last, n
<1> HIDE DEF all
<1>11. all \in Glyphs /\ Len(all) = start + m + end
  BY <1>9, <1>10 DEF Glyphs, G
<1>12. ASSUME NEW i \in 1..Len(all)
       PROVE  all[i] = IF i <= start THEN letters[i]
                       ELSE IF i <= start + m THEN between[i - start]
                       ELSE letters[i - (start + m) + n - end]
  <2>0. i \in 1..(start + m + end)
    BY <1>11
  <2>1. CASE i <= start
    <3>1. i \in 1..start /\ i \in 1..(start + m) /\ i <= start + m
      BY <1>1, <2>0, <2>1
    <3> QED BY <1>5, <1>8, <1>9, <1>10, <2>0, <2>1, <3>1
  <2>2. CASE ~(i <= start) /\ i <= start + m
    <3>1. i \in 1..(start + m)
      BY <1>1, <2>0, <2>2
    <3> QED BY <1>8, <1>9, <1>10, <2>0, <2>2, <3>1
  <2>3. CASE ~(i <= start + m)
    <3>1. i - (start + m) \in 1..end /\ ~(i <= start)
      BY <1>1, <2>0, <2>3
    <3>2. all[i] = last[i - (start + m)]
      BY <1>9, <1>10, <2>0, <2>3
    <3> QED BY <1>6, <2>3, <3>1, <3>2
  <2> QED BY <1>1, <2>0, <2>1, <2>2, <2>3
<1> QED BY <1>11, <1>12 DEF all, n, m, Splices

LEMMA KeptIs == ASSUME NEW n \in Nat PROVE Kept(n) \in Nat /\ Kept(n) <= n
BY DEF Kept

LEMMA UseGlyphsOK ==
  ASSUME NEW g, GlyphsOK(g), NEW next \in Seq(Chars)
  PROVE  GlyphsOK(useGlyphs(g, next)) /\ useGlyphs(g, next).text = next
<1>1. CASE g.text = next
  BY <1>1 DEF useGlyphs
<1>2. CASE g.text # next
  <2> DEFINE prev == g.text
             first == SharedStart(prev, next)
             start == Kept(first)
             shared == SharedEnd(prev, next, first)
             end == Kept(shared)
             middle == SubSeq(next, start + 1, Len(next) - end)
             between == toGlyphs(middle, g.seq + 1)
             all == Spliced(g.letters, start, between, end)
             h == useGlyphs(g, next)
             n == Len(prev)
             k == Len(next)
  <2>1. h = [text |-> next, seq |-> g.seq + 1, letters |-> all]
    BY <1>2 DEF useGlyphs
  <2>2. /\ prev \in Seq(Chars) /\ g.seq \in Nat /\ g.letters \in Glyphs /\ Len(g.letters) = n
        /\ \A i \in 1..n : g.letters[i].char = prev[i] /\ g.letters[i].id[1] <= g.seq
        /\ \A i, j \in 1..n : i # j => g.letters[i].id # g.letters[j].id
        /\ n \in Nat /\ k \in Nat
    BY LenProperties DEF GlyphsOK
  <2> HIDE DEF prev
  <2>3. first \in 0..n /\ first <= k /\ \A i \in 1..first : prev[i] = next[i]
    BY <2>2, SharedStartIs
  <2>4. /\ shared \in 0..(n - first) /\ shared <= k - first
        /\ \A i \in 1..shared : prev[n + 1 - i] = next[k + 1 - i]
    <3> HIDE DEF first
    <3>1. first \in Nat /\ first <= Len(prev) /\ first <= Len(next)
      BY <2>2, <2>3
    <3> QED BY <2>2, <3>1, SharedEndIs
  <2> HIDE DEF first, shared, n, k
  <2>5. start \in Nat /\ start <= first /\ end \in Nat /\ end <= shared
    <3>1. first \in Nat /\ shared \in Nat
      BY <2>2, <2>3, <2>4
    <3> QED BY <3>1, KeptIs
  <2> HIDE DEF start, end
  <2>6. start + end <= n /\ start + end <= k
    BY <2>2, <2>3, <2>4, <2>5
  <2>a. {n, k, start, end, g.seq} \subseteq Nat
    BY <2>2, <2>5
  <2>7. /\ middle \in Seq(Chars) /\ Len(middle) = k - end - start
        /\ \A i \in 1..(k - end - start) : middle[i] = next[start + i]
    <3>1. \A i \in (start + 1)..(k - end) : next[i] \in Chars
      BY <2>2, <2>5, ElementOfSeq DEF k
    <3>2. start + 1 \in Int /\ k - end \in Int
      BY <2>2, <2>5
    <3>3. /\ middle \in Seq(Chars)
          /\ Len(middle) = IF start + 1 <= k - end THEN (k - end) - (start + 1) + 1 ELSE 0
          /\ \A i \in 1..((k - end) - (start + 1) + 1) : middle[i] = next[(start + 1) + i - 1]
      BY <3>1, <3>2, SubSeqProperties DEF k
    <3>4. Len(middle) = k - end - start
      BY <2>2, <2>5, <2>6, <3>3
    <3>5. ASSUME NEW i \in 1..(k - end - start) PROVE middle[i] = next[start + i]
      <4>1. i \in 1..((k - end) - (start + 1) + 1) /\ (start + 1) + i - 1 = start + i
        BY <2>2, <2>5
      <4> QED BY <3>3, <4>1
    <3> QED BY <3>3, <3>4, <3>5
  <2> HIDE DEF middle
  <2>8. /\ between \in Glyphs /\ Len(between) = k - end - start
        /\ \A i \in 1..(k - end - start) : between[i] = [id |-> <<g.seq + 1, i>>, char |-> next[start + i]]
    <3>1. g.seq + 1 \in Nat
      BY <2>2
    <3> QED BY <2>7, <3>1, ToGlyphsIs
  <2> HIDE DEF between
  <2>9. /\ all \in Glyphs /\ Len(all) = k
        /\ \A i \in 1..k :
             all[i] = IF i <= start THEN g.letters[i]
                      ELSE IF i <= k - end THEN between[i - start]
                      ELSE g.letters[i - k + n]
    <3>0. start + end <= Len(g.letters)
      BY <2>2, <2>6
    <3>1. /\ all \in Glyphs /\ Len(all) = start + Len(between) + end
          /\ \A i \in 1..Len(all) :
               all[i] = IF i <= start THEN g.letters[i]
                        ELSE IF i <= start + Len(between) THEN between[i - start]
                        ELSE g.letters[i - (start + Len(between)) + Len(g.letters) - end]
      <4>1. g.letters \in Glyphs /\ between \in Glyphs /\ start \in Nat /\ end \in Nat
        BY <2>2, <2>5, <2>8
      <4>2. Splices(all, g.letters, start, between, end)
        BY <3>0, <4>1, SplicedIs
      <4> HIDE DEF all
      <4> QED BY <4>2 DEF Splices
    <3>2. Len(all) = k /\ start + Len(between) = k - end
      BY <2>2, <2>5, <2>8, <3>1
    <3>3. ASSUME NEW i \in 1..k
          PROVE  i - (start + Len(between)) + Len(g.letters) - end = i - k + n
      <4>1. Len(g.letters) = n /\ start + Len(between) = k - end
        BY <2>2, <3>2
      <4>2. i - (k - end) + n - end = i - k + n
        BY <2>a
      <4> QED BY <4>1, <4>2
    <3> HIDE DEF all
    <3> QED BY <3>1, <3>2, <3>3
  <2> HIDE DEF all
  (* Kept at the start, brought by this change, or kept at the end.         *)
  <2>10. ASSUME NEW i \in 1..k
         PROVE  \/ i <= start /\ i \in 1..n /\ all[i] = g.letters[i] /\ prev[i] = next[i]
                \/ /\ i > start /\ i <= k - end /\ all[i] = [id |-> <<g.seq + 1, i - start>>, char |-> next[i]]
                \/ /\ i > k - end /\ i - k + n \in (start + 1)..n /\ all[i] = g.letters[i - k + n]
                   /\ prev[i - k + n] = next[i]
    <3>1. CASE i <= start
      <4>1. i \in 1..first /\ i \in 1..n
        BY <2>2, <2>3, <2>5, <3>1
      <4> QED BY <2>3, <2>9, <3>1, <4>1
    <3>2. CASE i > start /\ i <= k - end
      <4>1. i - start \in 1..(k - end - start) /\ start + (i - start) = i /\ ~(i <= start)
        BY <2>2, <2>5, <3>2
      <4>2. all[i] = between[i - start]
        BY <2>9, <3>2, <4>1
      <4> QED BY <2>8, <3>2, <4>1, <4>2
    <3>3. CASE i > k - end
      <4>1. ~(i <= start) /\ ~(i <= k - end)
        BY <2>2, <2>5, <2>6, <3>3
      <4> DEFINE j == k + 1 - i
      <4>2. j \in 1..shared /\ n + 1 - j = i - k + n /\ k + 1 - j = i
        BY <2>2, <2>4, <2>5, <3>3
      <4>3. prev[i - k + n] = next[i]
        <5>1. prev[n + 1 - j] = next[k + 1 - j]
          BY <2>4, <4>2
        <5> QED BY <4>2, <5>1
      <4>4. i - k + n \in (start + 1)..n
        BY <2>2, <2>5, <2>6, <3>3
      <4> QED BY <2>9, <3>3, <4>1, <4>3, <4>4
    <3> QED BY <2>2, <2>5, <3>1, <3>2, <3>3
  <2>11. ASSUME NEW i \in 1..k PROVE all[i].char = next[i] /\ all[i].id[1] <= g.seq + 1
    <3>1. CASE i \in 1..n /\ all[i] = g.letters[i] /\ prev[i] = next[i]
      <4>1. g.letters[i].id[1] \in Nat
        <5>1. g.letters[i] \in [id : Nat \X Nat, char : Chars]
          BY <2>2, <3>1, ElementOfSeq DEF Glyphs
        <5> QED BY <5>1
      <4> QED BY <2>2, <3>1, <4>1
    <3>2. CASE all[i] = [id |-> <<g.seq + 1, i - start>>, char |-> next[i]]
      BY <2>2, <3>2
    <3>3. CASE i - k + n \in (start + 1)..n /\ all[i] = g.letters[i - k + n] /\ prev[i - k + n] = next[i]
      <4> DEFINE j == i - k + n
      <4>1. j \in 1..n /\ all[i] = g.letters[j] /\ prev[j] = next[i]
        BY <2>2, <2>5, <3>3
      <4> HIDE DEF j
      <4>2. g.letters[j].id[1] \in Nat
        <5>1. g.letters[j] \in [id : Nat \X Nat, char : Chars]
          BY <2>2, <4>1, ElementOfSeq DEF Glyphs
        <5> QED BY <5>1
      <4> QED BY <2>2, <4>1, <4>2
    <3> QED BY <2>10, <3>1, <3>2, <3>3
  (* The key of a letter kept is older, and it keeps one of its own.        *)
  <2>12. ASSUME NEW i \in 1..k, NEW j \in 1..k, i # j PROVE all[i].id # all[j].id
    <3> DEFINE old(x) == IF x <= start THEN x ELSE x - k + n
               new(x) == x > start /\ x <= k - end
    <3>1. \A x \in 1..k : new(x) => all[x].id = <<g.seq + 1, x - start>>
      <4> TAKE x \in 1..k
      <4> HAVE new(x)
      <4>1. ~(x <= start) /\ ~(x > k - end)
        BY <2>a
      <4>2. all[x] = [id |-> <<g.seq + 1, x - start>>, char |-> next[x]]
        BY <2>10, <4>1
      <4> QED BY <4>2
    <3>2. \A x \in 1..k : ~new(x) => old(x) \in 1..n /\ all[x].id = g.letters[old(x)].id
      <4> TAKE x \in 1..k
      <4> HAVE ~new(x)
      <4>1. CASE x <= start
        <5>1. ~(x > start) /\ ~(x > k - end)
          BY <2>a, <2>6, <4>1
        <5> QED BY <2>10, <4>1, <5>1
      <4>2. CASE ~(x <= start)
        <5>1. ~(x <= k - end)
          BY <2>a, <4>2
        <5>2. x - k + n \in (start + 1)..n /\ all[x] = g.letters[x - k + n]
          BY <2>10, <4>2, <5>1
        <5>3. x - k + n \in 1..n
          BY <2>a, <5>2
        <5> QED BY <4>2, <5>2, <5>3
      <4> QED BY <4>1, <4>2
    <3>3. \A y \in 1..n : g.letters[y].id[1] <= g.seq /\ g.letters[y].id[1] \in Nat
      <4> TAKE y \in 1..n
      <4>1. g.letters[y] \in [id : Nat \X Nat, char : Chars]
        BY <2>2, ElementOfSeq DEF Glyphs
      <4> QED BY <2>2, <4>1
    <3>4. CASE new(i) /\ new(j)
      <4>1. i - start # j - start
        BY <2>a, <2>12
      <4>2. <<g.seq + 1, i - start>> # <<g.seq + 1, j - start>>
        BY <4>1
      <4> QED BY <3>1, <3>4, <4>2
    <3>5. ASSUME NEW x \in 1..k, NEW y \in 1..k, new(x), ~new(y) PROVE all[x].id # all[y].id
      <4>1. all[x].id[1] = g.seq + 1
        BY <3>1, <3>5
      <4>2. all[y].id[1] <= g.seq /\ all[y].id[1] \in Nat
        BY <3>2, <3>3, <3>5
      <4> QED BY <2>2, <4>1, <4>2
    <3>6. CASE ~new(i) /\ ~new(j)
      <4>1. old(i) # old(j)
        <5>1. \A x \in 1..k : ~new(x) /\ ~(x <= start) => x - k + n > start
          BY <2>a, <2>6
        <5> QED BY <2>a, <2>12, <3>6, <5>1
      <4>2. old(i) \in 1..n /\ old(j) \in 1..n /\ all[i].id = g.letters[old(i)].id /\ all[j].id = g.letters[old(j)].id
        BY <3>2, <3>6
      <4> HIDE DEF old
      <4> QED BY <2>2, <4>1, <4>2
    <3> QED BY <3>4, <3>5, <3>6
  <2>13. h.text = next /\ h.seq = g.seq + 1 /\ h.letters = all
    BY <2>1
  <2>14. h = [text |-> h.text, seq |-> h.seq, letters |-> h.letters]
    BY <2>1, <2>13
  <2> HIDE DEF h
  <2>15. GlyphsOK(h)
    BY <2>2, <2>9, <2>11, <2>12, <2>13, <2>14 DEF GlyphsOK, k
  <2> QED BY <2>13, <2>15 DEF h
<1> QED BY <1>1, <1>2

LEMMA TextOK == ASSUME NEW state \in States PROVE Text[state] \in Seq(Chars)
BY CopyAssumption

LEMMA NewGlyphsOK == GlyphsOK(NewGlyphs) /\ NewGlyphs.text = Text["idle"]
<1> DEFINE chars == Text["idle"]
           letters == toGlyphs(chars, 0)
<1>1. chars \in Seq(Chars) /\ Len(chars) \in Nat
  BY TextOK, LenProperties DEF States
<1>2. NewGlyphs = [text |-> chars, seq |-> 0, letters |-> letters]
  BY DEF NewGlyphs
<1> HIDE DEF chars
<1>3. /\ letters \in Glyphs /\ Len(letters) = Len(chars)
      /\ \A i \in 1..Len(chars) : letters[i] = [id |-> <<0, i>>, char |-> chars[i]]
  BY <1>1, ToGlyphsIs
<1> HIDE DEF letters
<1>4. \A i \in 1..Len(chars) : letters[i].char = chars[i] /\ letters[i].id = <<0, i>> /\ letters[i].id[1] <= 0
  <2> TAKE i \in 1..Len(chars)
  <2>1. letters[i] = [id |-> <<0, i>>, char |-> chars[i]]
    BY <1>3
  <2> QED BY <2>1
<1>5. \A i, j \in 1..Len(chars) : i # j => letters[i].id # letters[j].id
  <2> TAKE i, j \in 1..Len(chars)
  <2>1. letters[i].id = <<0, i>> /\ letters[j].id = <<0, j>>
    BY <1>4
  <2> QED BY <2>1
<1> QED BY <1>1, <1>2, <1>3, <1>4, <1>5 DEF GlyphsOK, chars

LEMMA FeedbackOK ==
  ASSUME CopyInv, NEW state \in States, Feedback(state), viewer' = viewer
  PROVE  feedback' = state /\ GlyphsOK(glyphs') /\ (~viewer' => glyphs'.text = Text[feedback'])
<1>1. feedback' = state /\ glyphs' = IF viewer THEN glyphs ELSE useGlyphs(glyphs, Text[state])
  BY DEF Feedback
<1>2. GlyphsOK(glyphs) /\ Text[state] \in Seq(Chars)
  BY TextOK DEF CopyInv
<1>3. GlyphsOK(useGlyphs(glyphs, Text[state])) /\ useGlyphs(glyphs, Text[state]).text = Text[state]
  BY <1>2, UseGlyphsOK
<1> QED BY <1>1, <1>2, <1>3

LEMMA CopyStepInv == CopyInv /\ [CopyStep]_copyVars => CopyInv'
<1> SUFFICES ASSUME CopyInv, [CopyStep]_copyVars PROVE CopyInv'
  OBVIOUS
<1>0. /\ {viewer, timing} \subseteq BOOLEAN /\ feedback \in States /\ announced \in States
      /\ strays \in Nat /\ writing \in Nat /\ copies \in Nat /\ FeedbackEnds
      /\ GlyphsOK(glyphs) /\ (~viewer => glyphs.text = Text[feedback])
  BY DEF CopyInv
<1>a. "idle" \in States /\ "copied" \in States /\ "error" \in States
  BY DEF States
<1>1. CASE copy
  <2>1. /\ copies' = copies + 1 /\ timing' = FALSE /\ writing' = writing + 1
        /\ UNCHANGED <<viewer, feedback, strays, announced, glyphs>>
    BY <1>1 DEF copy
  <2>2. copies' \in Nat /\ writing' \in Nat /\ writing' > 0
    BY <1>0, <2>1
  <2>3. FeedbackEnds'
    BY <2>2 DEF FeedbackEnds
  <2> QED BY <1>0, <2>1, <2>2, <2>3 DEF CopyInv
<1>2. CASE TimeoutFires
  <2>1. timing' = FALSE /\ Feedback("idle") /\ UNCHANGED <<viewer, strays, writing, copies, announced>>
    BY <1>2 DEF TimeoutFires
  <2>2. feedback' = "idle" /\ GlyphsOK(glyphs') /\ (~viewer' => glyphs'.text = Text[feedback'])
    BY <1>a, <2>1, FeedbackOK
  <2> QED BY <1>0, <1>a, <2>1, <2>2 DEF CopyInv, FeedbackEnds
<1>3. CASE StrayFires
  <2>1. /\ strays > 0 /\ strays' = strays - 1 /\ Feedback("idle") /\ timing' = (timing /\ viewer)
        /\ UNCHANGED <<viewer, writing, copies, announced>>
    BY <1>3 DEF StrayFires
  <2>2. feedback' = "idle" /\ GlyphsOK(glyphs') /\ (~viewer' => glyphs'.text = Text[feedback'])
    BY <1>a, <2>1, FeedbackOK
  <2>3. strays' \in Nat
    BY <1>0, <2>1
  <2>4. timing' \in BOOLEAN
    BY <1>0, <2>1
  <2> QED BY <1>0, <1>a, <2>1, <2>2, <2>3, <2>4 DEF CopyInv, FeedbackEnds
<1>4. CASE Unmounts
  <2>1. /\ feedback' = "idle" /\ timing' = FALSE /\ strays' = 0 /\ writing' = 0
        /\ announced' = "idle" /\ glyphs' = NewGlyphs /\ UNCHANGED <<viewer, copies>>
    BY <1>4 DEF Unmounts
  <2>2. GlyphsOK(glyphs') /\ glyphs'.text = Text[feedback']
    BY <2>1, NewGlyphsOK
  <2> QED BY <1>0, <1>a, <2>1, <2>2 DEF CopyInv, FeedbackEnds
<1>5. ASSUME NEW state \in {"copied", "error"}, Written(state) PROVE CopyInv'
  <2>1. /\ writing > 0 /\ writing' = writing - 1 /\ Feedback(state)
        /\ strays' = (IF timing THEN strays + 1 ELSE strays) /\ timing' = TRUE
        /\ announced' = (IF viewer THEN state ELSE announced) /\ UNCHANGED <<viewer, copies>>
    BY <1>5 DEF Written, Announces
  <2>2. state \in States
    BY <1>a
  <2>3. feedback' = state /\ GlyphsOK(glyphs') /\ (~viewer' => glyphs'.text = Text[feedback'])
    BY <2>1, <2>2, FeedbackOK
  <2>4. strays' \in Nat /\ writing' \in Nat
    BY <1>0, <2>1
  <2> QED BY <1>0, <2>1, <2>2, <2>3, <2>4 DEF CopyInv, FeedbackEnds
<1>6. CASE UNCHANGED copyVars
  BY <1>0, <1>6 DEF copyVars, CopyInv, FeedbackEnds
<1> QED BY <1>1, <1>2, <1>3, <1>4, <1>5, <1>6 DEF CopyStep

LEMMA CopyInitInv == CopyInit => CopyInv
<1> SUFFICES ASSUME CopyInit PROVE CopyInv
  OBVIOUS
<1>1. GlyphsOK(glyphs) /\ glyphs.text = Text[feedback]
  BY NewGlyphsOK DEF CopyInit
<1> QED BY <1>1 DEF CopyInit, CopyInv, FeedbackEnds, States

THEOREM CopyAlwaysInv == CopySpec => []CopyInv
<1>1. CopyInv /\ [CopyStep]_copyVars => CopyInv'
  BY CopyStepInv
<1> QED BY <1>1, CopyInitInv, PTL DEF CopySpec

(* Whatever copies overlap, what a button shows of one does not stay.       *)
THEOREM FeedbackAlwaysEnds == CopySpec => []FeedbackEnds
<1>1. CopyInv => FeedbackEnds
  BY DEF CopyInv
<1> QED BY <1>1, CopyAlwaysInv, PTL

LEMMA GlyphsOKSpell ==
  ASSUME CopyInv
  PROVE  GlyphsSpell
<1> DEFINE n == Len(glyphs.text)
           letters == glyphs.letters
           ids == {letters[i].id : i \in DOMAIN letters}
<1>1. /\ glyphs.text \in Seq(Chars) /\ letters \in Glyphs /\ Len(letters) = n
      /\ \A i \in 1..n : letters[i].char = glyphs.text[i]
      /\ \A i, j \in 1..n : i # j => letters[i].id # letters[j].id
  BY DEF CopyInv, GlyphsOK
<1>2. n \in Nat /\ DOMAIN letters = 1..n /\ glyphs.text = [i \in 1..n |-> glyphs.text[i]]
  BY <1>1, LenProperties DEF Glyphs
<1>3. [i \in DOMAIN letters |-> letters[i].char] = glyphs.text
  BY <1>1, <1>2
<1>4. Cardinality(ids) = n
  <2> DEFINE f == [i \in 1..n |-> letters[i].id]
  <2>1. f \in Bijection(1..n, ids)
    BY <1>1, <1>2 DEF Bijection, Injection, Surjection, IsInjective
  <2>2. ExistsBijection(1..n, ids)
    BY <2>1 DEF ExistsBijection
  <2> HIDE DEF ids, n
  <2> QED BY <1>2, <2>2, FS_CountingElements
<1> QED BY <1>1, <1>3, <1>4 DEF GlyphsSpell, CopyInv

(* However the three words follow each other, the letters spell what the    *)
(* button says and no two share a key (use-copy-feedback and copy-button).  *)
THEOREM GlyphsAlwaysSpell == CopySpec => []GlyphsSpell
<1>1. CopyInv => GlyphsSpell
  BY GlyphsOKSpell
<1> QED BY <1>1, CopyAlwaysInv, PTL

(***************************************************************************)
(* The searchable select.                                                  *)
(***************************************************************************)
(* The places in order of a finite set of numbers: each has its number.     *)
LEMMA PlaceExists ==
  ASSUME NEW S \in SUBSET Nat, IsFiniteSet(S), NEW k \in 1..Cardinality(S)
  PROVE  InPlace(k, S) \in S /\ Cardinality({j \in S : j <= InPlace(k, S)}) = k
<1> DEFINE R == {p \in Nat \X Nat : p[1] < p[2]}
<1>0. Cardinality(S) \in Nat
  BY FS_CardinalityType
<1>1. \A i, j \in S : <<i, j>> \in R <=> i < j
  OBVIOUS
<1> HIDE DEF R
<1>2. PICK i \in S : Cardinality(Before(R, S, i)) = k - 1
  <2>1. k - 1 \in 0..(Cardinality(S) - 1)
    BY <1>0
  <2>2. Orders(R, S)
    BY <1>1 DEF Orders
  <2>3. IsNumbered(R, S)
    BY <2>2, Numbered
  <2> QED BY <2>1, <2>3 DEF IsNumbered
<1>3. {j \in S : j <= i} = Before(R, S, i) \cup {i}
  <2>1. \A j \in S : j <= i <=> j < i \/ j = i
    OBVIOUS
  <2>2. \A j \in S : j \in Before(R, S, i) <=> j < i
    BY <1>1 DEF Before
  <2>3. Before(R, S, i) \subseteq S
    BY DEF Before
  <2> QED BY <2>1, <2>2, <2>3
<1>4. Cardinality({j \in S : j <= i}) = k
  <2>1. Before(R, S, i) \in SUBSET S /\ i \notin Before(R, S, i)
    BY <1>1 DEF Before
  <2>2. IsFiniteSet(Before(R, S, i))
    BY <2>1, FS_Subset
  <2>3. Cardinality(Before(R, S, i) \cup {i}) = (k - 1) + 1
    BY <1>2, <2>1, <2>2, FS_AddElement
  <2> QED BY <1>0, <1>3, <2>3
<1> QED BY <1>4 DEF InPlace

LEMMA OptionsAre ==
  /\ Len(Options) \in Nat /\ DOMAIN Options = 1..Len(Options)
  /\ \A i \in 1..Len(Options) : Options[i] \in Offered
  /\ Options \in Seq(Offered)
<1>1. Options \in Seq(Range(Options)) /\ Offered = Range(Options)
  BY ComboAssumption DEF Offered
<1> QED BY <1>1, InRange

LEMMA FoundAtIs ==
  ASSUME NEW text
  PROVE  /\ FoundAt(text) \in SUBSET (1..Len(Options)) /\ FoundAt(text) \in SUBSET Nat
         /\ IsFiniteSet(FoundAt(text)) /\ Cardinality(FoundAt(text)) \in 0..Len(Options)
<1>1. FoundAt(text) \in SUBSET (1..Len(Options))
  BY OptionsAre DEF FoundAt
<1>2. IsFiniteSet(1..Len(Options)) /\ Cardinality(1..Len(Options)) = Len(Options)
  BY OptionsAre, FirstNumbers
<1>3. /\ IsFiniteSet(FoundAt(text)) /\ Cardinality(FoundAt(text)) <= Len(Options)
      /\ Cardinality(FoundAt(text)) \in Nat
  BY <1>1, <1>2, FS_Subset, FS_CardinalityType
<1> QED BY <1>1, <1>3, OptionsAre

LEMMA FilteredIs ==
  ASSUME NEW text
  PROVE  /\ Filtered(text) \in Seq(Offered) /\ Len(Filtered(text)) = Cardinality(FoundAt(text))
         /\ Len(Filtered(text)) \in 0..Len(Options)
<1> DEFINE n == Cardinality(FoundAt(text))
<1>1. n \in 0..Len(Options) /\ Len(Options) \in Nat /\ n \in Nat
  BY FoundAtIs, OptionsAre
<1>2. ASSUME NEW k \in 1..n PROVE Options[InPlace(k, FoundAt(text))] \in Offered
  <2>1. InPlace(k, FoundAt(text)) \in FoundAt(text)
    BY FoundAtIs, PlaceExists
  <2> QED BY <2>1, FoundAtIs, OptionsAre
<1>3. Filtered(text) = [k \in 1..n |-> Options[InPlace(k, FoundAt(text))]]
  BY DEF Filtered
<1> HIDE DEF n
<1>4. Filtered(text) \in [1..n -> Offered]
  BY <1>2, <1>3
<1>5. Filtered(text) \in Seq(Offered) /\ Len(Filtered(text)) = n
  BY <1>1, <1>4
<1> QED BY <1>1, <1>5 DEF n

(* An empty query keeps the whole list.                                     *)
LEMMA EmptyKeepsAll == Len(Filtered(Empty)) = Len(Options)
<1>1. FoundAt(Empty) = 1..Len(Options)
  BY OptionsAre DEF FoundAt
<1>2. Cardinality(FoundAt(Empty)) = Len(Options)
  BY <1>1, OptionsAre, FirstNumbers
<1> QED BY <1>2, FilteredIs

(* A list shows no more options than there are, and no more than one is     *)
(* active of those.                                                         *)
ComboInv ==
  /\ ComboTypeOK /\ FieldIsCoherent
  /\ listed \in Seq(Offered) /\ Len(listed) <= Len(Options)

ListOK ==
  /\ listed \in Seq(Offered) /\ Len(listed) <= Len(Options)
  /\ popover # "open" => query = Empty
  /\ popover = "open" => listed = Filtered(query) /\ active <= Len(listed)
  /\ value \in Offered \cup {NoOption} /\ popover \in {"absent", "open", "leaving"}
  /\ query \in Queries /\ active \in 0..Len(Options) /\ typing \in BOOLEAN

LEMMA ComboParts == ListOK <=> ComboInv
<1>1. ASSUME ListOK PROVE ComboInv
  <2>1. Range(listed) \subseteq Offered /\ DOMAIN listed = 1..Len(listed)
    <3>1. DOMAIN listed = 1..Len(listed) /\ \A i \in 1..Len(listed) : listed[i] \in Offered
      BY <1>1, LenProperties, ElementOfSeq DEF ListOK
    <3> QED BY <3>1 DEF Range
  <2>2. ComboTypeOK
    BY <1>1, <2>1 DEF ListOK, ComboTypeOK
  <2>3. popover # "open" => query = Empty /\ inputValue = value
    BY <1>1 DEF ListOK, inputValue
  <2>4. ASSUME popover = "open" PROVE activeOption \in Range(listed) \cup {NoOption}
    <3>1. CASE active = 0
      BY <3>1 DEF activeOption
    <3>2. CASE active # 0
      <4>1. active \in 1..Len(listed) /\ listed = Filtered(query)
        BY <1>1, <2>4, <3>2, OptionsAre, LenProperties DEF ListOK
      <4>2. listed[active] \in Range(listed)
        BY <2>1, <4>1 DEF Range
      <4> QED BY <3>2, <4>1, <4>2 DEF activeOption
    <3> QED BY <3>1, <3>2
  <2>5. FieldIsCoherent
    BY <1>1, <2>3, <2>4 DEF ListOK, FieldIsCoherent
  <2> QED BY <1>1, <2>2, <2>5 DEF ListOK, ComboInv
<1>2. ComboInv => ListOK
  BY DEF ListOK, ComboInv, ComboTypeOK, FieldIsCoherent
<1> QED BY <1>1, <1>2

LEMMA ComboPartsNext == ListOK' <=> ComboInv'
BY ComboParts, PTL

LEMMA ShowsOK ==
  ASSUME NEW text \in Queries, ShowsList(text), active' \in 0..Len(Options), active' <= Len(Filtered(text)),
         value' \in Offered \cup {NoOption}, typing' \in BOOLEAN
  PROVE  ListOK'
<1>1. popover' = "open" /\ query' = text /\ listed' = Filtered(text)
  BY DEF ShowsList
<1>2. /\ Filtered(text) \in Seq(Offered) /\ Len(Filtered(text)) <= Len(Options)
  BY FilteredIs, OptionsAre
<1>3. Filtered(query)' = Filtered(query') /\ Offered' = Offered
  BY DEF Filtered, FoundAt, InPlace, Offered, Range
<1> QED BY <1>1, <1>2, <1>3 DEF ListOK

LEMMA HidesOKCombo ==
  ASSUME ListOK, HidesList, active' = active, value' \in Offered \cup {NoOption}, typing' \in BOOLEAN
  PROVE  ListOK'
<1>1. popover' # "open" /\ popover' \in {"absent", "leaving"} /\ query' = Empty /\ listed' = listed
  BY DEF HidesList, ListOK
<1>2. Offered' = Offered
  BY DEF Offered, Range
<1> QED BY <1>1, <1>2, ComboAssumption DEF ListOK

LEMMA OpensOK ==
  ASSUME openMenu, value' \in Offered \cup {NoOption}, typing' \in BOOLEAN
  PROVE  ListOK'
<1>1. ShowsList(Empty) /\ active' = 0 /\ Empty \in Queries
  BY ComboAssumption DEF openMenu
<1>2. active' \in 0..Len(Options) /\ active' <= Len(Filtered(Empty))
  BY <1>1, EmptyKeepsAll, OptionsAre
<1> QED BY <1>1, <1>2, ShowsOK

LEMMA NearestIn ==
  ASSUME NEW of \in SUBSET (1..Len(Options)), of # {}, NEW down \in BOOLEAN
  PROVE  Nearest(of, down) \in of
<1>1. of \in SUBSET Nat /\ \A i \in of : i <= Len(Options)
  BY OptionsAre
<1>2. \E i \in of : \A j \in of : i <= j
  BY <1>1, Least
<1>3. \E i \in of : \A j \in of : j <= i
  BY <1>1, OptionsAre, Greatest
<1>4. \E i \in of : \A j \in of : IF down THEN i <= j ELSE j <= i
  BY <1>2, <1>3
<1> QED BY <1>4 DEF Nearest

LEMMA NextPositionIn ==
  ASSUME Enabled # {}, NEW down \in BOOLEAN
  PROVE  NextPosition(down) \in DOMAIN Filtered(query)
<1> DEFINE others == IF active \notin Enabled THEN Enabled
                     ELSE {i \in Enabled : IF down THEN i > active ELSE i < active}
           last == Nearest(Enabled, FALSE)
<1>1. DOMAIN Filtered(query) = 1..Len(Filtered(query)) /\ Len(Filtered(query)) \in 0..Len(Options)
  BY FilteredIs, LenProperties
<1>2. Enabled \in SUBSET (1..Len(Options)) /\ Enabled \subseteq DOMAIN Filtered(query)
  BY <1>1, OptionsAre DEF Enabled
<1>3. last \in Enabled
  BY <1>2, NearestIn
<1> HIDE DEF last
<1>4. ASSUME Cardinality(Enabled) # 1 PROVE Nearest(Enabled \ {last}, FALSE) \in Enabled
  <2>1. Enabled \ {last} # {}
    <3> SUFFICES ASSUME Enabled = {last} PROVE FALSE
      BY <1>3
    <3> QED BY <1>4, FS_Singleton
  <2> QED BY <1>2, <2>1, NearestIn
<1>5. Nearest(IF others = {} THEN Enabled ELSE others, down) \in Enabled
  <2> DEFINE of == IF others = {} THEN Enabled ELSE others
  <2>1. of \in SUBSET Enabled /\ of # {} /\ of \in SUBSET (1..Len(Options))
    BY <1>2
  <2> HIDE DEF of
  <2> QED BY <2>1, NearestIn DEF of
<1>6. NextPosition(down) \in Enabled
  <2>1. CASE active \notin Enabled /\ ~down
    BY <1>3, <1>4, <2>1 DEF NextPosition, last
  <2>2. CASE ~(active \notin Enabled /\ ~down)
    BY <1>5, <2>2 DEF NextPosition
  <2> QED BY <2>1, <2>2
<1> QED BY <1>2, <1>6

LEMMA ChooseOK ==
  ASSUME ListOK, NEW option \in Offered, choose(option)
  PROVE  ListOK'
<1>1. value' = option /\ typing' = TRUE
  BY DEF choose
<1>2. value' \in Offered \cup {NoOption} /\ typing' \in BOOLEAN
  BY <1>1
<1>3. CASE typing
  BY <1>2, <1>3, HidesOKCombo DEF choose
<1>4. CASE ~typing
  BY <1>2, <1>4, OpensOK DEF choose
<1> QED BY <1>3, <1>4

LEMMA ComboStepInv == ListOK /\ [ComboStep]_comboVars => ListOK'
<1> SUFFICES ASSUME ListOK, [ComboStep]_comboVars PROVE ListOK'
  OBVIOUS
<1>0. /\ value \in Offered \cup {NoOption} /\ typing \in BOOLEAN /\ active \in 0..Len(Options)
      /\ query \in Queries /\ popover \in {"absent", "open", "leaving"}
      /\ listed \in Seq(Offered) /\ Len(listed) <= Len(Options)
      /\ DOMAIN listed = 1..Len(listed) /\ Len(listed) \in Nat
      /\ \A i \in 1..Len(listed) : listed[i] \in Offered
  BY LenProperties, ElementOfSeq DEF ListOK
<1>a. Offered' = Offered /\ Filtered(query)' = Filtered(query')
  BY DEF Offered, Range, Filtered, FoundAt, InPlace
<1>1. CASE Enters
  BY <1>0, <1>1, OpensOK DEF Enters
<1>2. CASE TabsAway
  BY <1>0, <1>2, <1>a DEF TabsAway, ListOK
<1>3. CASE PointerDownOutside
  BY <1>0, <1>3, HidesOKCombo DEF PointerDownOutside
<1>4. CASE clear
  <2>1. ShowsList(Empty) /\ value' = NoOption /\ typing' = TRUE /\ active' \in {active, 0} /\ Empty \in Queries
    BY <1>4, ComboAssumption DEF clear
  <2>2. active' \in 0..Len(Options) /\ active' <= Len(Filtered(Empty))
    BY <1>0, <2>1, EmptyKeepsAll, OptionsAre
  <2> QED BY <2>1, <2>2, ShowsOK
<1>5. CASE Enter
  <2>1. Filtered(query)[active] \in Offered
    BY <1>5, FilteredIs, LenProperties, ElementOfSeq DEF Enter
  <2> QED BY <1>5, <2>1, ChooseOK DEF Enter
<1>6. CASE Escape
  BY <1>0, <1>6, HidesOKCombo DEF Escape
<1>7. CASE ListGone
  BY <1>0, <1>7, <1>a DEF ListGone, ListOK
<1>8. ASSUME NEW text \in Queries, TypesQuery(text) PROVE ListOK'
  <2>1. ShowsList(text) /\ active' = 0 /\ UNCHANGED <<value, typing>>
    BY <1>8 DEF TypesQuery
  <2>2. active' \in 0..Len(Options) /\ active' <= Len(Filtered(text))
    BY <2>1, FilteredIs, OptionsAre
  <2> QED BY <1>0, <2>1, <2>2, ShowsOK
<1>9. ASSUME NEW position \in DOMAIN Options, ClickOption(position) PROVE ListOK'
  <2>1. position \in DOMAIN listed /\ choose(listed[position])
    BY <1>9 DEF ClickOption
  <2> QED BY <1>0, <2>1, ChooseOK
<1>10. ASSUME NEW position \in DOMAIN Options, MouseEnter(position) PROVE ListOK'
  <2>1. position \in DOMAIN listed /\ active' = position /\ UNCHANGED <<value, popover, query, typing, listed>>
    BY <1>10 DEF MouseEnter
  <2>2. active' <= Len(listed) /\ active' \in 0..Len(Options)
    BY <1>0, <2>1, OptionsAre
  <2> QED BY <1>0, <1>a, <2>1, <2>2 DEF ListOK
<1>11. ASSUME NEW down \in BOOLEAN, Arrow(down) PROVE ListOK'
  <2>1. CASE popover # "open"
    BY <1>0, <1>11, <2>1, OpensOK DEF Arrow
  <2>2. CASE popover = "open"
    <3>1. /\ active' = (IF Enabled = {} THEN active ELSE NextPosition(down))
          /\ UNCHANGED <<popover, query, listed, value, typing>>
      BY <1>11, <2>2 DEF Arrow
    <3>2. listed = Filtered(query) /\ active <= Len(listed)
      BY <2>2 DEF ListOK
    <3>3. active' <= Len(listed) /\ active' \in 0..Len(Options)
      <4>1. CASE Enabled = {}
        BY <1>0, <3>1, <3>2, <4>1
      <4>2. CASE Enabled # {}
        <5>1. active' \in 1..Len(listed)
          BY <1>0, <3>1, <3>2, <4>2, NextPositionIn
        <5> QED BY <1>0, <5>1, OptionsAre
      <4> QED BY <4>1, <4>2
    <3> QED BY <1>0, <1>a, <3>1, <3>2, <3>3 DEF ListOK
  <2> QED BY <2>1, <2>2
<1>12. CASE UNCHANGED comboVars
  BY <1>0, <1>a, <1>12 DEF comboVars, ListOK
<1> QED BY <1>1, <1>2, <1>3, <1>4, <1>5, <1>6, <1>7, <1>8, <1>9, <1>10, <1>11, <1>12 DEF ComboStep

LEMMA ComboInitInv == ComboInit => ListOK
<1> SUFFICES ASSUME ComboInit PROVE ListOK
  OBVIOUS
<1>1. Len(Options) \in Nat /\ Options \in Seq(Offered) /\ 0 \in 0..Len(Options) /\ Len(Options) <= Len(Options)
  BY OptionsAre
<1> QED BY <1>1, ComboAssumption DEF ComboInit, ListOK

THEOREM ComboAlwaysInv == ComboSpec => []ComboInv
<1>1. ListOK /\ [ComboStep]_comboVars => ListOK'
  BY ComboStepInv
<1>2. ListOK => ComboInv
  BY ComboParts
<1> QED BY <1>1, <1>2, ComboInitInv, PTL DEF ComboSpec

(* However it was closed, the field shows the option chosen; an open list   *)
(* has no active position that it does not show (silicon-ui/combobox).      *)
THEOREM FieldIsAlwaysCoherent == ComboSpec => []FieldIsCoherent
<1>1. ComboInv => FieldIsCoherent
  BY DEF ComboInv
<1> QED BY <1>1, ComboAlwaysInv, PTL

(***************************************************************************)
(* Pages.                                                                  *)
(***************************************************************************)
(* A dialog names what it is about while it is on the screen, and only then *)
(* is it pressed: an editor the application selected, which a page that is  *)
(* shown never unselects, and the dialog of a revocation its subscription.  *)
DialogsKnow ==
  /\ apps \in Seq(Apps)
  /\ editor.panel # "absent" => selected # NoApp
  /\ revoke.panel # "absent" => revoke.subscription \in Apps
PagesInv == PagesTypeOK /\ DialogsKnow /\ OneChangeAtATime

EditorOK == editor \in [panel : Panels, editing : Names \cup {New}, name : Names \cup {NotAName}]
RevokeOK == revoke \in [panel : Panels, subscription : Subscriptions \cup {NoApp}]
OverrideOK == override \in [app : Apps \cup {NoApp}, level : {"app", "service", "type"}, target : Names \cup {NotAName}]
FormsOK ==
  /\ selected \in Apps \cup {NoApp} /\ EditorOK /\ RevokeOK /\ OverrideOK /\ problem \in BOOLEAN
  /\ DialogsKnow
ActionsOK ==
  /\ {working, dismissed} \subseteq BOOLEAN /\ failure \in {"none", "action", "other"} /\ answers \in Nat
  /\ work \in Requests /\ OneChangeAtATime

LEMMA PagesParts == PagesInv <=> page \in PagesShown /\ FormsOK /\ ActionsOK
<1>1. apps \in Seq(Apps) => Range(apps) \subseteq Apps
  BY InSeqRange
<1> QED BY <1>1 DEF PagesInv, PagesTypeOK, DialogsKnow, FormsOK, ActionsOK, EditorOK, RevokeOK, OverrideOK

LEMMA PagesPartsNext == PagesInv' <=> page' \in PagesShown /\ FormsOK' /\ ActionsOK'
<1>1. apps' \in Seq(Apps) => Range(apps') \subseteq Apps
  BY InSeqRange
<1>2. Range(apps)' = Range(apps')
  BY DEF Range
<1> QED BY <1>1, <1>2 DEF PagesInv, PagesTypeOK, DialogsKnow, FormsOK, ActionsOK, EditorOK, RevokeOK, OverrideOK,
  Subscriptions, Requests

LEMMA BlankForms ==
  /\ NoEditor \in [panel : Panels, editing : Names \cup {New}, name : Names \cup {NotAName}]
  /\ NoEditor.panel = "absent"
  /\ NoRevoke \in [panel : Panels, subscription : Subscriptions \cup {NoApp}] /\ NoRevoke.panel = "absent"
  /\ NoOverride \in [app : Apps \cup {NoApp}, level : {"app", "service", "type"}, target : Names \cup {NotAName}]
  /\ <<>> \in Seq(Apps)
<1>1. NoEditor \in [panel : Panels, editing : Names \cup {New}, name : Names \cup {NotAName}] /\ NoEditor.panel = "absent"
  BY DEF NoEditor, Panels
<1>2. NoRevoke \in [panel : Panels, subscription : Subscriptions \cup {NoApp}] /\ NoRevoke.panel = "absent"
  BY DEF NoRevoke, Panels
<1>3. NoOverride \in [app : Apps \cup {NoApp}, level : {"app", "service", "type"}, target : Names \cup {NotAName}]
  BY DEF NoOverride
<1>4. <<>> \in Seq(Apps)
  BY EmptySeq
<1> QED BY <1>1, <1>2, <1>3, <1>4

LEMMA UnmountedOK ==
  ASSUME Unmounted
  PROVE  FormsOK'
<1>1. /\ apps' = <<>> /\ selected' = NoApp /\ editor' = NoEditor /\ revoke' = NoRevoke
      /\ override' = NoOverride /\ problem' = FALSE
  BY DEF Unmounted
<1>2. EditorOK' /\ RevokeOK' /\ OverrideOK'
  BY <1>1, BlankForms DEF EditorOK, RevokeOK, OverrideOK, Subscriptions
<1>3. DialogsKnow'
  BY <1>1, BlankForms DEF DialogsKnow
<1> QED BY <1>1, <1>2, <1>3 DEF FormsOK

LEMMA NoWorkIs == NoWork \in Requests /\ NoWork.kind = "none" /\ NoWork.app = NoApp /\ NoWork.mounted = FALSE
BY DEF NoWork, Requests

(* A request that names what it is about may start.                         *)
LEMMA StartsOK ==
  ASSUME ActionsOK, NEW request \in Requests, Starts(request), request.app # NoApp,
         request.kind \in {"post", "patch"} => request.name # NotAName
  PROVE  ActionsOK' /\ UNCHANGED <<page, apps, selected>>
<1>1. /\ work' = [request EXCEPT !.mounted = TRUE] /\ working' = TRUE /\ failure' = "none" /\ dismissed' = FALSE
      /\ UNCHANGED <<page, apps, selected, answers>>
  BY DEF Starts
<1>2. work' \in Requests /\ work'.app = request.app /\ work'.kind = request.kind /\ work'.name = request.name
  BY <1>1 DEF Requests
<1>3. work' # NoWork
  BY <1>2, NoWorkIs
<1>4. OneChangeAtATime'
  BY <1>1, <1>2, <1>3 DEF OneChangeAtATime
<1> QED BY <1>1, <1>2, <1>4 DEF ActionsOK

LEMMA FormsStay == FormsOK /\ UNCHANGED <<apps, selected, forms>> => FormsOK'
BY DEF FormsOK, forms, EditorOK, RevokeOK, OverrideOK, DialogsKnow, Subscriptions

LEMMA ActionsStay == ActionsOK /\ UNCHANGED actions => ActionsOK'
BY DEF ActionsOK, actions, OneChangeAtATime, Requests

LEMMA HidesOK ==
  /\ EditorOK => HidesPanel(editor) \in [panel : Panels, editing : Names \cup {New}, name : Names \cup {NotAName}]
                 /\ (HidesPanel(editor).panel = "absent" <=> editor.panel = "absent")
  /\ RevokeOK => HidesPanel(revoke) \in [panel : Panels, subscription : Subscriptions \cup {NoApp}]
                 /\ (HidesPanel(revoke).panel = "absent" <=> revoke.panel = "absent")
                 /\ HidesPanel(revoke).subscription = revoke.subscription
<1>1. ASSUME EditorOK
      PROVE  HidesPanel(editor) \in [panel : Panels, editing : Names \cup {New}, name : Names \cup {NotAName}]
             /\ (HidesPanel(editor).panel = "absent" <=> editor.panel = "absent")
  BY <1>1 DEF EditorOK, HidesPanel, Panels
<1>2. ASSUME RevokeOK
      PROVE  HidesPanel(revoke) \in [panel : Panels, subscription : Subscriptions \cup {NoApp}]
             /\ (HidesPanel(revoke).panel = "absent" <=> revoke.panel = "absent")
             /\ HidesPanel(revoke).subscription = revoke.subscription
  BY <1>2 DEF RevokeOK, HidesPanel, Panels
<1> QED BY <1>1, <1>2

(* Both dialogs change at most as if they were hidden.                      *)
LEMMA DialogsOK ==
  ASSUME FormsOK, editor' \in {editor, HidesPanel(editor)}, revoke' \in {revoke, HidesPanel(revoke)},
         UNCHANGED <<apps, selected, override, problem>>
  PROVE  FormsOK'
<1>1. EditorOK' /\ (editor'.panel = "absent" <=> editor.panel = "absent")
  BY HidesOK DEF FormsOK, EditorOK
<1>2. /\ RevokeOK' /\ (revoke'.panel = "absent" <=> revoke.panel = "absent")
      /\ revoke'.subscription = revoke.subscription
  BY HidesOK DEF FormsOK, RevokeOK, Subscriptions
<1> QED BY <1>1, <1>2 DEF FormsOK, DialogsKnow, OverrideOK

LEMMA PagesInitInv == PagesInit => PagesInv
<1> SUFFICES ASSUME PagesInit PROVE PagesInv
  OBVIOUS
<1>1. FormsOK
  <2>1. /\ apps = <<>> /\ selected = NoApp /\ editor = NoEditor /\ revoke = NoRevoke
        /\ override = NoOverride /\ problem = FALSE
    BY DEF PagesInit
  <2>2. EditorOK /\ RevokeOK /\ OverrideOK
    BY <2>1, BlankForms DEF EditorOK, RevokeOK, OverrideOK
  <2>3. DialogsKnow
    BY <2>1, BlankForms DEF DialogsKnow
  <2> QED BY <2>1, <2>2, <2>3 DEF FormsOK
<1>2. ActionsOK
  BY NoWorkIs DEF PagesInit, ActionsOK, OneChangeAtATime
<1> QED BY <1>1, <1>2, PagesParts DEF PagesInit

LEMMA LoadedOK ==
  ASSUME NEW loaded \in SetToAllKPermutations(Apps)
  PROVE  loaded \in Seq(Apps) /\ (loaded # <<>> => Head(loaded) \in Apps)
<1>1. PICK s \in SUBSET Apps : loaded \in SetToSeqs(s)
  BY DEF SetToAllKPermutations
<1>2. loaded \in [1..Cardinality(s) -> s] /\ Cardinality(s) \in Nat
  BY <1>1, PagesAssumption, FS_Subset, FS_CardinalityType DEF SetToSeqs
<1>3. loaded \in Seq(Apps)
  BY <1>2
<1> QED BY <1>3, HeadTailProperties

LEMMA PagesStepInv == PagesInv /\ [PagesStep]_pagesVars => PagesInv'
<1> SUFFICES ASSUME PagesInv, [PagesStep]_pagesVars PROVE PagesInv'
  OBVIOUS
<1>0. page \in PagesShown /\ FormsOK /\ ActionsOK
  BY PagesParts
<1>1. CASE CloseDialog
  <2>1. FormsOK'
    BY <1>0, <1>1, DialogsOK DEF CloseDialog
  <2> QED BY <1>0, <1>1, <2>1, ActionsStay, PagesPartsNext DEF CloseDialog
<1>2. CASE DialogGone
  <2>1. /\ editor' = [editor EXCEPT !.panel = "absent"] /\ revoke' = [revoke EXCEPT !.panel = "absent"]
        /\ UNCHANGED <<apps, selected, override, problem>>
    BY <1>2 DEF DialogGone
  <2>2. EditorOK' /\ editor'.panel = "absent" /\ RevokeOK' /\ revoke'.panel = "absent"
    BY <1>0, <2>1 DEF FormsOK, EditorOK, RevokeOK, Panels, Subscriptions
  <2>3. FormsOK'
    BY <1>0, <2>1, <2>2 DEF FormsOK, DialogsKnow, OverrideOK
  <2> QED BY <1>0, <1>2, <2>3, ActionsStay, PagesPartsNext DEF DialogGone
<1>3. CASE SaveType
  <2>1. problem' \in BOOLEAN /\ UNCHANGED <<editor, revoke, override>> /\ (problem' <=> editor.name = NotAName)
    BY <1>3 DEF SaveType, typeError
  <2>2. ActionsOK' /\ UNCHANGED <<page, apps, selected>>
    <3>1. CASE problem'
      BY <1>0, <1>3, <3>1, ActionsStay DEF SaveType
    <3>2. CASE ~problem'
      <4> DEFINE request == [kind |-> IF editor.editing = New THEN "post" ELSE "patch",
                             app |-> selected, name |-> editor.name, mounted |-> TRUE]
      <4>1. Starts(request)
        BY <1>3, <3>2 DEF SaveType
      <4>2. selected \in Apps
        BY <1>0, <1>3 DEF SaveType, FormsOK, DialogsKnow
      <4>3. editor.name \in Names /\ editor.name # NotAName
        BY <1>0, <2>1, <3>2 DEF FormsOK, EditorOK
      <4>4. request \in Requests /\ request.app # NoApp /\ request.name # NotAName
        BY <4>2, <4>3, PagesAssumption DEF Requests
      <4> HIDE DEF request
      <4> QED BY <1>0, <4>1, <4>4, StartsOK
    <3> QED BY <3>1, <3>2
  <2>3. FormsOK'
    BY <1>0, <2>1, <2>2 DEF FormsOK, EditorOK, RevokeOK, OverrideOK, DialogsKnow, Subscriptions
  <2> QED BY <1>0, <2>2, <2>3, PagesPartsNext
<1>4. CASE ConfirmRevoke
  <2> DEFINE request == [NoWork EXCEPT !.kind = "revoke", !.app = revoke.subscription]
  <2>1. Starts(request) /\ UNCHANGED forms
    BY <1>4 DEF ConfirmRevoke
  <2>2. revoke.subscription \in Apps
    BY <1>0, <1>4 DEF ConfirmRevoke, FormsOK, DialogsKnow
  <2>3. request \in Requests /\ request.app # NoApp /\ request.kind = "revoke"
    BY <2>2, PagesAssumption DEF NoWork, Requests
  <2> HIDE DEF request
  <2>4. ActionsOK' /\ UNCHANGED <<page, apps, selected>>
    BY <1>0, <2>1, <2>3, StartsOK
  <2> QED BY <1>0, <2>1, <2>4, FormsStay, PagesPartsNext
<1>5. CASE SaveOverride
  <2>1. /\ problem' \in BOOLEAN /\ UNCHANGED <<editor, revoke, override>>
        /\ ~problem' => override.app # NoApp
    BY <1>5 DEF SaveOverride
  <2>2. ActionsOK' /\ UNCHANGED <<page, apps, selected>>
    <3>1. CASE problem'
      BY <1>0, <1>5, <3>1, ActionsStay DEF SaveOverride
    <3>2. CASE ~problem'
      <4> DEFINE request == [kind |-> "put", app |-> override.app, name |-> override.target, mounted |-> TRUE]
      <4>1. Starts(request)
        BY <1>5, <3>2 DEF SaveOverride
      <4>2. request \in Requests /\ request.app # NoApp /\ request.kind = "put"
        BY <1>0, <2>1, <3>2 DEF Requests, FormsOK, OverrideOK
      <4> HIDE DEF request
      <4> QED BY <1>0, <4>1, <4>2, StartsOK
    <3> QED BY <3>1, <3>2
  <2>3. FormsOK'
    BY <1>0, <2>1, <2>2 DEF FormsOK, EditorOK, RevokeOK, OverrideOK, DialogsKnow, Subscriptions
  <2> QED BY <1>0, <2>2, <2>3, PagesPartsNext
<1>6. CASE DismissAlert
  <2>1. ActionsOK'
    BY <1>0, <1>6 DEF DismissAlert, ActionsOK, OneChangeAtATime, Requests
  <2> QED BY <1>0, <1>6, <2>1, FormsStay, PagesPartsNext DEF DismissAlert
<1>7. CASE Collapsed
  <2>1. ActionsOK'
    BY <1>0, <1>7 DEF Collapsed, ActionsOK, OneChangeAtATime, Requests
  <2> QED BY <1>0, <1>7, <2>1, FormsStay, PagesPartsNext DEF Collapsed
<1>8. ASSUME NEW to \in PagesShown, Leave(to) PROVE PagesInv'
  <2>1. FormsOK' /\ page' = to
    BY <1>8, UnmountedOK DEF Leave
  <2>2. work' = [work EXCEPT !.mounted = FALSE] /\ UNCHANGED <<working, failure, dismissed, answers>>
    BY <1>8 DEF Leave
  <2>3. work' \in Requests /\ work'.app = work.app /\ work'.kind = work.kind /\ work'.name = work.name
    BY <1>0, <2>2 DEF ActionsOK, Requests
  <2>4. work = NoWork => work' = NoWork
    <3> SUFFICES [NoWork EXCEPT !.mounted = FALSE] = NoWork
      BY <2>2
    <3> DEFINE w == [NoWork EXCEPT !.mounted = FALSE]
    <3>1. w \in [kind : {"none"}, app : {NoApp}, name : {NotAName}, mounted : {FALSE}]
      BY DEF NoWork
    <3> HIDE DEF w
    <3>3. w = NoWork
      BY <3>1 DEF NoWork
    <3> QED BY <3>3 DEF w
  <2>5. work # NoWork => work' # NoWork
    BY <1>0, <2>3, NoWorkIs DEF ActionsOK, OneChangeAtATime
  <2>6. OneChangeAtATime'
    BY <1>0, <2>2, <2>3, <2>4, <2>5 DEF ActionsOK, OneChangeAtATime
  <2>7. ActionsOK'
    BY <1>0, <2>2, <2>3, <2>6 DEF ActionsOK, Requests
  <2> QED BY <1>8, <2>1, <2>7, PagesPartsNext
<1>9. ASSUME NEW outcome \in {"ok", "gone", "failed"}, Answered(outcome) PROVE PagesInv'
  <2>1. /\ work' = NoWork /\ answers' = answers + 1 /\ working' = FALSE /\ UNCHANGED <<page, dismissed>>
        /\ failure' \in {failure, "action"}
    BY <1>9 DEF Answered
  <2>2. ActionsOK'
    <3>1. OneChangeAtATime'
      BY <2>1, NoWorkIs DEF OneChangeAtATime
    <3>2. Requests' = Requests
      BY DEF Requests
    <3>3. work' \in Requests' /\ answers' \in Nat /\ failure' \in {"none", "action", "other"}
      BY <1>0, <2>1, <3>2, NoWorkIs DEF ActionsOK
    <3>4. {working, dismissed}' \subseteq BOOLEAN
      BY <1>0, <2>1 DEF ActionsOK
    <3> QED BY <3>1, <3>3, <3>4 DEF ActionsOK
  <2>3. FormsOK'
    <3>1. CASE outcome = "gone"
      BY <1>9, <3>1, UnmountedOK DEF Answered
    <3>2. CASE outcome # "gone"
      BY <1>0, <1>9, <3>2, DialogsOK DEF Answered
    <3> QED BY <3>1, <3>2
  <2> QED BY <1>0, <2>1, <2>2, <2>3, PagesPartsNext
<1>10. ASSUME NEW error \in {"none", "other"}, Reports(error) PROVE PagesInv'
  <2>1. ActionsOK'
    BY <1>0, <1>10 DEF Reports, ActionsOK, OneChangeAtATime, Requests
  <2> QED BY <1>0, <1>10, <2>1, FormsStay, PagesPartsNext DEF Reports
<1>11. ASSUME NEW loaded \in SetToAllKPermutations(Apps), LoadsApps(loaded) PROVE PagesInv'
  <2>1. /\ apps' = loaded /\ UNCHANGED <<page, forms, actions>>
        /\ selected' = IF selected = NoApp /\ loaded # <<>> THEN Head(loaded) ELSE selected
    BY <1>11 DEF LoadsApps
  <2>2. selected' \in Apps \cup {NoApp} /\ apps' \in Seq(Apps) /\ (selected # NoApp => selected' # NoApp)
    BY <1>0, <2>1, LoadedOK DEF FormsOK
  <2>3. FormsOK'
    BY <1>0, <2>1, <2>2 DEF FormsOK, forms, EditorOK, RevokeOK, OverrideOK, DialogsKnow, Subscriptions
  <2> QED BY <1>0, <2>1, <2>3, ActionsStay, PagesPartsNext
<1>12. ASSUME NEW app \in Apps, SelectApp(app) PROVE PagesInv'
  <2>1. FormsOK'
    BY <1>0, <1>12, PagesAssumption
       DEF SelectApp, FormsOK, forms, EditorOK, RevokeOK, OverrideOK, DialogsKnow, Subscriptions
  <2> QED BY <1>0, <1>12, <2>1, ActionsStay, PagesPartsNext DEF SelectApp
<1>13. ASSUME NEW app \in Apps, AskRevoke(app) PROVE PagesInv'
  <2>1. FormsOK'
    BY <1>0, <1>13 DEF AskRevoke, FormsOK, EditorOK, RevokeOK, OverrideOK, DialogsKnow, Subscriptions, Panels
  <2> QED BY <1>0, <1>13, <2>1, ActionsStay, PagesPartsNext DEF AskRevoke
<1>14. ASSUME NEW app \in Apps, NEW kind \in {"required", "reset"},
              Starts([NoWork EXCEPT !.kind = kind, !.app = app]), UNCHANGED forms
       PROVE  PagesInv'
  <2> DEFINE request == [NoWork EXCEPT !.kind = kind, !.app = app]
  <2>1. request \in Requests /\ request.app # NoApp /\ request.kind = kind
    BY PagesAssumption DEF NoWork, Requests
  <2>2. Starts(request)
    BY <1>14
  <2> HIDE DEF request
  <2>3. ActionsOK' /\ UNCHANGED <<page, apps, selected>>
    BY <1>0, <2>1, <2>2, StartsOK
  <2> QED BY <1>0, <1>14, <2>3, FormsStay, PagesPartsNext
<1>15. ASSUME NEW app \in Apps, Switch(app) PROVE PagesInv'
  BY <1>14, <1>15 DEF Switch
<1>16. ASSUME NEW app \in Apps, ResetOverride(app) PROVE PagesInv'
  BY <1>14, <1>16 DEF ResetOverride
<1>17. ASSUME OverrideOK', UNCHANGED <<page, apps, selected, editor, revoke, problem, actions>> PROVE PagesInv'
  <2>1. FormsOK'
    BY <1>0, <1>17 DEF FormsOK, EditorOK, RevokeOK, OverrideOK, DialogsKnow, Subscriptions
  <2> QED BY <1>0, <1>17, <2>1, ActionsStay, PagesPartsNext
<1>18. ASSUME NEW app \in Apps, Fills("app", app) PROVE PagesInv'
  <2>1. override' = [override EXCEPT !.app = app]
    BY <1>18 DEF Fills
  <2>2. OverrideOK'
    BY <1>0, <2>1 DEF FormsOK, OverrideOK
  <2> QED BY <1>17, <1>18, <2>2 DEF Fills
<1>19. ASSUME NEW level \in {"app", "service", "type"}, Fills("level", level) PROVE PagesInv'
  <2>1. override' = [override EXCEPT !.level = level, !.target = NotAName]
    BY <1>19 DEF Fills
  <2>2. OverrideOK'
    BY <1>0, <2>1 DEF FormsOK, OverrideOK
  <2> QED BY <1>17, <1>19, <2>2 DEF Fills
<1>20. ASSUME NEW name \in Names \cup {NotAName}, Fills("target", name) PROVE PagesInv'
  <2>1. override' \in {[override EXCEPT !.target = name], override}
    BY <1>20 DEF Fills
  <2>2. OverrideOK'
    BY <1>0, <2>1 DEF FormsOK, OverrideOK
  <2> QED BY <1>17, <1>20, <2>2 DEF Fills
<1>21. ASSUME NEW type \in Names \cup {New}, Edit(type) PROVE PagesInv'
  <2>1. /\ editor' = [panel |-> "open", editing |-> type, name |-> IF type = New THEN NotAName ELSE type]
        /\ problem' = FALSE /\ selected \in Range(apps)
        /\ UNCHANGED <<page, apps, selected, revoke, override, actions>>
    BY <1>21 DEF Edit
  <2>2. selected # NoApp
    BY <1>0, <2>1, PagesAssumption, InSeqRange DEF FormsOK, DialogsKnow
  <2>3. FormsOK'
    BY <1>0, <2>1, <2>2 DEF FormsOK, EditorOK, RevokeOK, OverrideOK, DialogsKnow, Subscriptions, Panels
  <2> QED BY <1>0, <2>1, <2>3, ActionsStay, PagesPartsNext
<1>22. ASSUME NEW name \in Names \cup {NotAName}, EntersName(name) PROVE PagesInv'
  <2>1. /\ editor' = [editor EXCEPT !.name = name]
        /\ UNCHANGED <<page, apps, selected, revoke, override, problem, actions>>
    BY <1>22 DEF EntersName
  <2>2. EditorOK' /\ editor'.panel = editor.panel
    BY <1>0, <2>1 DEF FormsOK, EditorOK
  <2>3. FormsOK'
    BY <1>0, <2>1, <2>2 DEF FormsOK, RevokeOK, OverrideOK, DialogsKnow, Subscriptions
  <2> QED BY <1>0, <2>1, <2>3, ActionsStay, PagesPartsNext
<1>23. CASE UNCHANGED pagesVars
  <2>1. FormsOK' /\ ActionsOK'
    BY <1>0, <1>23, FormsStay, ActionsStay DEF pagesVars
  <2> QED BY <1>0, <1>23, <2>1, PagesPartsNext DEF pagesVars
<1> QED
  BY <1>1, <1>2, <1>3, <1>4, <1>5, <1>6, <1>7, <1>8, <1>9, <1>10, <1>11, <1>12, <1>13, <1>15, <1>16, <1>18,
     <1>19, <1>20, <1>21, <1>22, <1>23 DEF PagesStep

THEOREM PagesAlwaysInv == PagesSpec => []PagesInv
<1>1. PagesInit => PagesInv
  BY PagesInitInv
<1>2. PagesInv /\ [PagesStep]_pagesVars => PagesInv'
  BY PagesStepInv
<1> QED BY <1>1, <1>2, PTL DEF PagesSpec

(* Through every dialog that stays or is opened while an answer is awaited, *)
(* on every page left meanwhile, one change is under way at a time and      *)
(* names everything the service needs (workspace.tsx and the pages).        *)
THEOREM OneChangeAlways == PagesSpec => []OneChangeAtATime
<1>1. PagesInv => OneChangeAtATime
  BY DEF PagesInv
<1> QED BY <1>1, PagesAlwaysInv, PTL

================================================================================
