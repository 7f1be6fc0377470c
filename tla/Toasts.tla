-------------------------------- MODULE Toasts --------------------------------
(***************************************************************************)
(* The notifications in a corner of the page                               *)
(* (web/components/silicon-ui/toast-stack/toast-stack.tsx): the store that *)
(* holds them, one ToastItem per toast with its timer, and the stack that  *)
(* fans out and pauses them.  Every change is rendered at once: the        *)
(* effects that depend on it run in the same step.  Time passes in ticks   *)
(* and timers fire on time.                                                *)
(*                                                                         *)
(* Left out: texts, geometry and animation, and with them visibleToasts,   *)
(* which only decides what is drawn and can take the focus.                *)
(***************************************************************************)
EXTENDS Integers, Sequences, SequencesExt

CONSTANTS
  Ids,         \* ids that callers give; the store's own `toast-${seq}` are such
  Base, Longer,\* ticks that a toast stays: base, and base * 1.6
  Limit,       \* toasts that the store keeps
  MaxCalls,    \* bound on calls of the store and on what the user does
  Nowhere      \* no toast

ASSUME ToastAssumption ==
  {Base, Longer, Limit} \subseteq Nat \ {0} /\ MaxCalls \in Nat

VARIABLES
  toasts, \* the store, newest first
  item,   \* the ToastItem of each id
  stack,  \* the state of ToastStack
  focus,  \* the toast that holds the focus, and whether by keyboard
  called  \* number of calls and of what the user did

toastVars == <<toasts, item, stack, focus, called>>

Forever == -1 \* Infinity
Off == -1     \* no timer
Types == {"info", "error", "loading"}
durationFor(type) == CASE type = "loading" -> Forever [] type = "error" -> Longer [] OTHER -> Base
Durations == {Forever, Base, Longer}
Absent == [at |-> "absent", remaining |-> 0, elapsed |-> Off, version |-> 0, duration |-> Forever,
           gesture |-> "none", inert |-> FALSE, age |-> 0, revived |-> FALSE]
Calm == [hovered |-> FALSE, focused |-> FALSE, tapped |-> FALSE, dragging |-> FALSE, hidden |-> FALSE]

ToastRecords == [id : Ids, type : Types, duration : Durations, version : Nat, action : BOOLEAN]
ItemRecords == [at : {"absent", "present", "leaving"}, remaining : Int, elapsed : Int, version : Nat,
                duration : Durations, gesture : {"none", "down", "drag"}, inert : BOOLEAN,
                age : Nat,         \* history: ticks since it was shown or updated, unpaused
                revived : BOOLEAN] \* history: shown again, unchanged, while it was leaving

ToastsTypeOK ==
  /\ toasts \in Seq(ToastRecords) /\ Len(toasts) <= Limit
  /\ \A j, k \in DOMAIN toasts : toasts[j].id = toasts[k].id => j = k
  /\ item \in [Ids -> ItemRecords]
  /\ stack \in [hovered : BOOLEAN, focused : BOOLEAN, tapped : BOOLEAN, dragging : BOOLEAN,
               hidden : BOOLEAN]
  /\ focus \in [at : Ids \cup {Nowhere}, keyboard : BOOLEAN]
  /\ called \in 0..MaxCalls

ToastsInit ==
  /\ toasts = <<>> /\ item = [i \in Ids |-> Absent] /\ stack = Calm
  /\ focus = [at |-> Nowhere, keyboard |-> FALSE] /\ called = 0

Shown(ts) == {ts[k].id : k \in DOMAIN ts}
Found(ts, i) == ts[CHOOSE k \in DOMAIN ts : ts[k].id = i]
Expanded(ts, s) == ts # <<>> /\ (s.hovered \/ s.focused \/ s.tapped)
Paused(ts, s) == Expanded(ts, s) \/ s.dragging \/ s.hidden

(***************************************************************************)
(* The timer of a ToastItem: the effects on [version, duration] and on     *)
(* [isPresent, paused, version, duration].  First the clean-up of the old  *)
(* timer, then the reset, then the new timer.                              *)
(***************************************************************************)
Stopped(o) ==
  [o EXCEPT !.remaining = IF o.elapsed = Off THEN @ ELSE @ - o.elapsed, !.elapsed = Off]
Updated(o, t) == o.version # t.version \/ o.duration # t.duration
ResetBeforeStop(o, t) ==
  IF Updated(o, t)
  THEN Stopped([o EXCEPT !.remaining = t.duration, !.version = t.version, !.duration = t.duration,
                         !.age = 0, !.revived = FALSE])
  ELSE Stopped(o)

Reset(o, t) ==
  IF Updated(o, t)
  THEN [Stopped(o) EXCEPT !.remaining = t.duration, !.version = t.version, !.duration = t.duration,
                          !.age = 0, !.revived = FALSE]
  ELSE Stopped(o)

Started(o, paused) ==
  IF paused \/ o.remaining = Forever \/ o.duration <= 0 THEN o ELSE [o EXCEPT !.elapsed = 0]

(* A child that comes back while it is leaving is still the same component: *)
(* it keeps what was left of its time and its attribute `inert`.            *)
Rendered(o, t, changed, paused) ==
  CASE o.at = "absent" ->
         Started([Absent EXCEPT !.at = "present", !.remaining = t.duration, !.version = t.version,
                                !.duration = t.duration], paused)
    [] o.at = "leaving" ->
         Started(Reset([o EXCEPT !.at = "present", !.age = 0, !.revived = TRUE], t), paused)
    [] OTHER -> IF changed \/ Updated(o, t) THEN Started(Reset(o, t), paused) ELSE o
Leaves(o) == IF o.at = "absent" THEN o ELSE [Stopped(o) EXCEPT !.at = "leaving", !.inert = TRUE]

(* handOff: the focus of a toast that leaves goes to one that stays, or     *)
(* back out of the stack.                                                   *)
HandedOff(ts) ==
  IF focus.at \in Shown(ts) \cup {Nowhere} THEN {focus}
  ELSE LET stays == {i \in Shown(ts) : ~item[i].inert} IN
       IF focus.keyboard /\ stays # {} THEN {[focus EXCEPT !.at = i] : i \in stays}
       ELSE {[at |-> Nowhere, keyboard |-> FALSE]}

(* The store holds ts and the stack's state becomes s; its, what gestures    *)
(* make of the items.                                                       *)
RendersFrom(its, ts, s) ==
  /\ toasts' = ts
  /\ focus' \in HandedOff(ts)
  /\ LET lost == focus.at # Nowhere /\ focus'.at = Nowhere
         next == [s EXCEPT !.tapped = @ /\ ts # <<>>, !.focused = @ /\ ~lost]
         paused == Paused(ts, next)
         changed == paused # Paused(toasts, stack)
     IN /\ stack' = next
        /\ item' = [i \in Ids |-> IF i \in Shown(ts) THEN Rendered(its[i], Found(ts, i), changed, paused)
                                  ELSE Leaves(its[i])]
Renders(ts, s) == RendersFrom(item, ts, s)

(***************************************************************************)
(* The store.                                                              *)
(***************************************************************************)
Revised(t, type, action) ==
  [t EXCEPT !.type = type, !.duration = durationFor(type), !.version = @ + 1, !.action = action]
WithUpdate(ts, i, type, action) ==
  [k \in DOMAIN ts |-> IF ts[k].id = i THEN Revised(ts[k], type, action) ELSE ts[k]]
(* Ids are unique: there is one to take out.                                *)
Without(ts, i) ==
  IF i \in Shown(ts) THEN RemoveAt(ts, CHOOSE k \in DOMAIN ts : ts[k].id = i) ELSE ts
WithToast(ts, i, type, action) ==
  LET all == <<[id |-> i, type |-> type, duration |-> durationFor(type), version |-> 0,
                action |-> action]>> \o ts
  IN SubSeq(all, 1, IF Len(all) > Limit THEN Limit ELSE Len(all))

Call == called < MaxCalls /\ called' = called + 1

(* toast() of a new id, which the oldest toasts make room for.              *)
ShowToast(i, type, action) ==
  /\ Call
  /\ i \notin Shown(toasts)
  /\ Renders(WithToast(toasts, i, type, action), stack)

(* update(), and toast() of an id that is shown.                            *)
UpdateToast(i, type, action) ==
  /\ Call
  /\ i \in Shown(toasts)
  /\ Renders(WithUpdate(toasts, i, type, action), stack)

(* By a caller, the close button, Escape or its timer.                      *)
Dismiss(i) ==
  /\ i \in Shown(toasts)
  /\ Renders(Without(toasts, i), stack) /\ Call

DismissAll == toasts # <<>> /\ Renders(<<>>, stack) /\ Call

(* The button of a toast: its handler may update the toast, show another    *)
(* under its id, or do nothing; then the toast closes unless its version is *)
(* a new one.                                                               *)
RunAction(i) ==
  /\ item[i].at = "present" /\ ~item[i].inert /\ Found(toasts, i).action
  /\ Call
  /\ \E type \in Types, handled \in {"nothing", "update", "again"} :
       LET after == CASE handled = "nothing" -> toasts
                      [] handled = "update" -> WithUpdate(toasts, i, type, FALSE)
                      [] OTHER -> WithToast(Without(toasts, i), i, type, FALSE)
       IN Renders(IF Found(after, i).version = Found(toasts, i).version THEN Without(after, i)
                  ELSE after, stack)

ToastTimerFires(i) ==
  /\ item[i].elapsed # Off /\ item[i].elapsed >= item[i].remaining
  /\ Renders(Without(toasts, i), stack) /\ UNCHANGED called

Tick ==
  /\ \E i \in Ids : item[i].elapsed # Off
  /\ \A i \in Ids : item[i].elapsed = Off \/ item[i].elapsed < item[i].remaining
  /\ item' = [i \in Ids |->
       [item[i] EXCEPT !.elapsed = IF @ = Off THEN Off ELSE @ + 1,
                       !.age = IF item[i].at = "present" /\ item[i].duration # Forever
                                    /\ ~Paused(toasts, stack) THEN @ + 1 ELSE @]]
  /\ UNCHANGED <<toasts, stack, focus, called>>

(* The exit animations are over: the children that left are unmounted, and  *)
(* with one under the finger its pointerup never comes.                     *)
ExitsComplete ==
  /\ \E i \in Ids : item[i].at = "leaving"
  /\ item' = [i \in Ids |-> IF item[i].at = "leaving" THEN Absent ELSE item[i]]
  /\ UNCHANGED <<toasts, stack, focus, called>>

(***************************************************************************)
(* Pointer and keyboard.                                                   *)
(***************************************************************************)
Reachable(i) == item[i].at = "present" /\ ~item[i].inert
WithGesture(i, g) == [item EXCEPT ![i].gesture = g]

(* A second finger on a toast takes over the gesture of the first.          *)
PointerDown(i) ==
  /\ Reachable(i) /\ item[i].gesture # "down"
  /\ item' = WithGesture(i, "down")
  /\ Call /\ UNCHANGED <<toasts, stack, focus>>

(* Past the slop: a vertical move is no gesture, a horizontal one drags.    *)
PointerMove(i, horizontal) ==
  /\ item[i].gesture = "down"
  /\ IF horizontal THEN RendersFrom(WithGesture(i, "drag"), toasts, [stack EXCEPT !.dragging = TRUE])
     ELSE item' = WithGesture(i, "none") /\ UNCHANGED <<toasts, stack, focus>>
  /\ Call

(* Lifted far or fast enough to the right, the toast is dismissed.          *)
PointerEnd(i, swiped) ==
  /\ item[i].gesture = "drag"
  /\ RendersFrom(WithGesture(i, "none"), IF swiped THEN Without(toasts, i) ELSE toasts,
                 [stack EXCEPT !.dragging = FALSE])
  /\ Call

(* A press that did not move: a tap by touch opens or closes the stack.     *)
Tap(i, touch) ==
  /\ item[i].gesture = "down"
  /\ RendersFrom(WithGesture(i, "none"), toasts, [stack EXCEPT !.tapped = @ # touch])
  /\ Call

TapOutside ==
  /\ stack.tapped
  /\ Renders(toasts, [stack EXCEPT !.tapped = FALSE]) /\ Call

Hover ==
  /\ toasts # <<>> \/ stack.hovered
  /\ Renders(toasts, [stack EXCEPT !.hovered = ~@]) /\ Call

PageHides == Renders(toasts, [stack EXCEPT !.hidden = ~@]) /\ Call

(* Focus by keyboard opens the stack, a click on a button does not.         *)
Refocuses(at, keyboard, s) ==
  LET paused == Paused(toasts, s) IN
  /\ focus' = [at |-> at, keyboard |-> keyboard] /\ stack' = s
  /\ item' = [i \in Ids |-> IF i \in Shown(toasts)
                            THEN Rendered(item[i], Found(toasts, i), paused # Paused(toasts, stack), paused)
                            ELSE item[i]]
  /\ Call /\ UNCHANGED toasts

Focus(i, keyboard) ==
  /\ Reachable(i) /\ focus # [at |-> i, keyboard |-> keyboard]
  /\ Refocuses(i, keyboard, [stack EXCEPT !.focused = @ \/ keyboard])

(* Alt+T: the first toast that can take the focus.                          *)
Hotkey ==
  \E k \in DOMAIN toasts :
    /\ Reachable(toasts[k].id) /\ \A j \in 1..(k - 1) : ~Reachable(toasts[j].id)
    /\ Refocuses(toasts[k].id, TRUE, [stack EXCEPT !.focused = TRUE])

Blur ==
  /\ focus.at # Nowhere
  /\ Refocuses(Nowhere, FALSE, [stack EXCEPT !.focused = FALSE])

ToastsNext ==
  \/ \E i \in Ids :
       \/ \E type \in Types, action \in BOOLEAN :
            ShowToast(i, type, action) \/ UpdateToast(i, type, action)
       \/ Dismiss(i) \/ RunAction(i) \/ ToastTimerFires(i)
       \/ PointerDown(i) \/ \E flag \in BOOLEAN :
            PointerMove(i, flag) \/ PointerEnd(i, flag) \/ Tap(i, flag) \/ Focus(i, flag)
  \/ DismissAll \/ Tick \/ ExitsComplete \/ TapOutside \/ Hover \/ PageHides \/ Hotkey \/ Blur

ToastsSpec == ToastsInit /\ [][ToastsNext]_toastVars

(***************************************************************************)
(* Properties.                                                             *)
(***************************************************************************)
(* Every timer keeps the time of its toast: what is left and what has run   *)
(* make up its duration less the unpaused time since it was shown or last   *)
(* updated, through any pauses, updates, drags and departures of others; it *)
(* runs exactly while nothing pauses it.  Except a toast that is shown      *)
(* again while it leaves, which goes on with the time it had left.          *)
Timed(i) == item[i].at = "present" /\ item[i].duration # Forever
ClockKeepsTime ==
  \A i \in Ids : Timed(i) =>
    /\ item[i].elapsed = Off <=> Paused(toasts, stack)
    /\ ~item[i].revived => Stopped(item[i]).remaining = item[i].duration - item[i].age
==============================================================================
