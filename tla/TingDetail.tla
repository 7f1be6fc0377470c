------------------------------ MODULE TingDetail ------------------------------
(***************************************************************************)
(* The ting on screen: useTingDetail and TingDrawer of                     *)
(* web/components/ting/inbox.tsx, with the requests it makes.              *)
(*                                                                         *)
(* `live.current` and the rendered state hold the same ting, so they are   *)
(* one record here.  The comparisons of identity objects are modelled by   *)
(* what a change of identity makes them say: it withdraws `pendingView`,   *)
(* animation frames and the request under way, and takes `current` from    *)
(* acknowledgements.  Of the requests for a ting only the latest can have  *)
(* an effect on the drawer (`generation`); an older one is forgotten.      *)
(***************************************************************************)
EXTENDS Web

CONSTANTS
  Tings,     \* tings of the service's inboxes
  Recipient, \* the account each is for
  MaxViewed  \* bound on what users, other tabs, hints and failures start

ASSUME TingDetailAssumption == None \notin Tings /\ MaxViewed \in Nat

VARIABLES
  detail, \* live.current, the drawer's state and pendingView
  fetch,  \* the latest request for a ting
  frames, \* callbacks of requestAnimationFrame: the ting, and frames to wait
  acks,   \* calls of POST inbox/read under way
  read,   \* at the service: the tings that are read
  seen,   \* history: tings painted for their recipient
  elsewhere, \* history: tings another device or application marked read
  missed  \* history: loading or acknowledging the ting on screen failed, and no retry since

tingDetailVars ==
  <<identity, cookie, visible, happened, detail, fetch, frames, acks, read, seen, elsewhere, missed>>
account == <<identity, cookie>>
history == <<seen, elsewhere, missed>>

NoTing == [id |-> None, read |-> FALSE]
NoAnswer == [kind |-> "none", read |-> FALSE]
NoFetch == [id |-> None, answer |-> NoAnswer]
Closed == [drawer |-> "closed", id |-> None, ting |-> NoTing, loading |-> FALSE, error |-> FALSE,
           pending |-> None]

TingDetailTypeOK ==
  /\ WebVarsOK
  /\ detail \in [drawer : {"open", "closing", "closed"}, id : Tings \cup {None},
                 ting : [id : Tings \cup {None}, read : BOOLEAN], loading : BOOLEAN,
                 error : BOOLEAN, pending : Tings \cup {None}]
  /\ fetch \in [id : Tings \cup {None},
                answer : [kind : {"none", "ok", "gone", "missing"}, read : BOOLEAN]]
  /\ frames \subseteq [id : Tings, left : 1..2]
  /\ acks \subseteq [id : Tings, current : BOOLEAN, mine : BOOLEAN,
                     answer : {"none", "ok", "gone", "failed"}]
  /\ read \subseteq Tings /\ seen \subseteq Tings /\ elsewhere \subseteq Tings
  /\ missed \in BOOLEAN

TingDetailInit ==
  /\ detail = Closed /\ fetch = NoFetch /\ frames = {} /\ acks = {}
  /\ read = {} /\ seen = {} /\ elsewhere = {} /\ missed = FALSE

Open == detail.drawer = "open"

(***************************************************************************)
(* The handlers.                                                           *)
(***************************************************************************)
(* refresh(): nothing without an open drawer in a visible tab.              *)
RefreshesForgetful(d, viewed, sees) ==
  IF d.drawer = "open" /\ identity # None /\ sees
  THEN /\ detail' = [d EXCEPT !.pending = IF viewed THEN d.id ELSE None]
       /\ fetch' = [NoFetch EXCEPT !.id = d.id]
  ELSE detail' = d /\ UNCHANGED fetch

Refreshes(d, viewed, sees) ==
  IF d.drawer = "open" /\ identity # None /\ sees
  THEN /\ detail' = IF viewed THEN [d EXCEPT !.pending = d.id] ELSE d
       /\ fetch' = [NoFetch EXCEPT !.id = d.id]
  ELSE detail' = d /\ UNCHANGED fetch

ViewableByAnyone ==
  /\ Open /\ visible
  /\ detail.ting # NoTing /\ ~detail.ting.read
  /\ ~\E ack \in acks : ack.mine /\ ack.id = detail.ting.id

(* markViewed(): the ting is on screen, unread and its recipient's own, and *)
(* this page is not acknowledging it already.                               *)
Viewable ==
  /\ Open /\ visible
  /\ detail.ting # NoTing /\ ~detail.ting.read
  /\ Recipient[detail.ting.id] = identity
  /\ ~\E ack \in acks : ack.mine /\ ack.id = detail.ting.id

MarkViewed ==
  acks' = IF Viewable
          THEN acks \cup {[id |-> detail.ting.id, current |-> TRUE, mine |-> TRUE, answer |-> "none"]}
          ELSE acks

OpenTing(t) ==
  /\ Happens(MaxViewed)
  /\ identity # None /\ visible /\ ~Open
  /\ Refreshes([Closed EXCEPT !.drawer = "open", !.id = t, !.loading = TRUE], TRUE, visible)
  /\ missed' = FALSE
  /\ UNCHANGED <<account, visible, frames, acks, read, seen, elsewhere>>

Closes(d) == [d EXCEPT !.drawer = IF @ = "open" THEN "closing" ELSE @, !.id = None]

CloseTing ==
  /\ Happens(MaxViewed)
  /\ Open
  /\ detail' = Closes(detail) /\ missed' = FALSE
  /\ UNCHANGED <<account, visible, fetch, frames, acks, read, seen, elsewhere>>

(* The retry of an error: acknowledge again, or load again.                 *)
RetryTing ==
  /\ Happens(MaxViewed)
  /\ Open /\ visible /\ detail.error
  /\ IF detail.ting # NoTing THEN MarkViewed /\ UNCHANGED <<detail, fetch>>
     ELSE Refreshes(detail, TRUE, visible) /\ UNCHANGED acks
  /\ missed' = FALSE
  /\ UNCHANGED <<account, visible, frames, read, seen, elsewhere>>

(* A hint for the inbox.                                                    *)
Pulsed ==
  /\ Happens(MaxViewed)
  /\ Open /\ Refreshes(detail, FALSE, visible)
  /\ UNCHANGED <<account, visible, frames, acks, read, history>>

(* A returning tab loads the ting again and acknowledges it.                *)
TabToggles ==
  /\ Happens(MaxViewed)
  /\ visible' = ~visible
  /\ IF visible' THEN Refreshes(detail, TRUE, TRUE) /\ missed' = FALSE
     ELSE UNCHANGED <<detail, fetch, missed>>
  /\ UNCHANGED <<account, frames, acks, read, seen, elsewhere>>

(* This tab no longer has the account, or the page goes: the identity of    *)
(* every closure is stale.                                                  *)
NewInstance ==
  /\ detail' = Closed /\ fetch' = NoFetch /\ frames' = {} /\ missed' = FALSE
  /\ acks' = {[ack EXCEPT !.current = FALSE, !.mine = FALSE] : ack \in acks}

(* The answer of the latest request, to the drawer that made it.            *)
TingAnswered ==
  /\ fetch.answer # NoAnswer
  /\ LET asked == fetch.id
         current == Open /\ detail.id = asked
     IN CASE fetch.answer.kind = "gone" ->
               identity' = None /\ NewInstance
          [] fetch.answer.kind = "ok" /\ current ->
               /\ detail' = [detail EXCEPT !.ting = [id |-> asked, read |-> fetch.answer.read],
                                           !.error = FALSE, !.loading = FALSE,
                                           !.pending = IF @ = asked THEN None ELSE @]
               /\ frames' = IF detail.pending = asked THEN frames \cup {[id |-> asked, left |-> 2]}
                            ELSE frames
               /\ fetch' = NoFetch /\ UNCHANGED <<identity, acks, missed>>
          [] fetch.answer.kind = "missing" /\ current ->
               /\ detail' = [detail EXCEPT !.ting = NoTing, !.error = TRUE, !.loading = FALSE]
               /\ missed' = TRUE
               /\ fetch' = NoFetch /\ UNCHANGED <<identity, frames, acks>>
          [] OTHER ->
               fetch' = NoFetch /\ UNCHANGED <<identity, detail, frames, acks, missed>>
  /\ UNCHANGED <<cookie, visible, happened, read, seen, elsewhere>>

(* The two requestAnimationFrame calls: the second callback runs after the  *)
(* ting was drawn once, and acknowledges it if it is still the one open.    *)
Due == \E frame \in frames : frame.id = detail.id /\ frame.left = 1

(* The browser draws a frame: first the callbacks, then the screen, which   *)
(* shows the ting until its drawer has slid out.                            *)
PaintFrame ==
  /\ visible /\ (frames # {} \/ detail.ting # NoTing)
  /\ IF Due THEN MarkViewed ELSE UNCHANGED acks
  /\ frames' = {[frame EXCEPT !.left = 1] : frame \in {f \in frames : f.left = 2}}
  /\ seen' = IF detail.ting # NoTing /\ Recipient[detail.ting.id] = identity
             THEN seen \cup {detail.ting.id} ELSE seen
  /\ detail' = IF detail.drawer = "closing" THEN Closed ELSE detail
  /\ UNCHANGED <<account, visible, happened, fetch, read, elsewhere, missed>>

(* The answer of an acknowledgement, for the identity and ting it was for.  *)
AckAnswered(ack) ==
  /\ ack.answer # "none"
  /\ LET current == ack.current /\ detail.id = ack.id IN
     CASE ack.answer = "gone" /\ ack.current ->
            identity' = None /\ NewInstance
       [] ack.answer = "ok" /\ current ->
            acks' = acks \ {ack} /\ Refreshes(detail, FALSE, visible) /\ UNCHANGED <<identity, frames, missed>>
       [] ack.answer # "ok" ->
            /\ acks' = acks \ {ack}
            /\ detail' = [detail EXCEPT !.error = @ \/ current]
            /\ missed' = (missed \/ (ack.mine /\ detail.id = ack.id))
            /\ UNCHANGED <<identity, fetch, frames>>
       [] OTHER -> acks' = acks \ {ack} /\ UNCHANGED <<identity, detail, fetch, frames, missed>>
  /\ UNCHANGED <<cookie, visible, happened, read, seen, elsewhere>>

(***************************************************************************)
(* The account, the service and other devices.                             *)
(***************************************************************************)
(* Another account signs in here, this one signs out or expires, or the     *)
(* user leaves the inbox and comes back.                                    *)
Departs(a) ==
  /\ Happens(MaxViewed)
  /\ identity' = a
  /\ cookie' \in IF a = identity THEN {cookie} ELSE IF a = None THEN {cookie, None} ELSE {a}
  /\ NewInstance
  /\ UNCHANGED <<visible, read, seen, elsewhere>>

(* A second boot() puts a new object in the place of the identity.          *)
Replaced ==
  /\ Happens(MaxViewed)
  /\ identity # None /\ cookie # None
  /\ identity' = cookie
  /\ detail' = [Closes(detail) EXCEPT !.pending = None]
  /\ fetch' = NoFetch /\ frames' = {} /\ missed' = FALSE
  /\ acks' = {[ack EXCEPT !.current = FALSE] : ack \in acks}
  /\ UNCHANGED <<cookie, visible, read, seen, elsewhere>>

(* Another tab signs in or out, or the session ends.                        *)
CookieMoves ==
  /\ Happens(MaxViewed)
  /\ cookie' \in WebAccounts \ {cookie}
  /\ UNCHANGED <<identity, visible, detail, fetch, frames, acks, read, history>>

ReadElsewhere(t) ==
  /\ Happens(MaxViewed)
  /\ t \notin read /\ read' = read \cup {t} /\ elsewhere' = elsewhere \cup {t}
  /\ UNCHANGED <<account, visible, detail, fetch, frames, acks, seen, missed>>

ServeTing ==
  /\ fetch.id # None /\ fetch.answer = NoAnswer
  /\ fetch' = [fetch EXCEPT !.answer =
       IF cookie = None THEN [NoAnswer EXCEPT !.kind = "gone"]
       ELSE IF cookie = Recipient[fetch.id] THEN [kind |-> "ok", read |-> fetch.id \in read]
       ELSE [NoAnswer EXCEPT !.kind = "missing"]]
  /\ UNCHANGED <<account, visible, happened, detail, frames, acks, read, history>>

ServeAck(ack) ==
  /\ ack.answer = "none"
  /\ LET answer == IF cookie = None THEN "gone"
                   ELSE IF cookie = Recipient[ack.id] THEN "ok" ELSE "failed"
     IN /\ acks' = (acks \ {ack}) \cup {[ack EXCEPT !.answer = answer]}
        /\ read' = IF answer = "ok" THEN read \cup {ack.id} ELSE read
  /\ UNCHANGED <<account, visible, happened, detail, fetch, frames, history>>

(* The request or its answer is lost, or takes more than 25 seconds.        *)
RequestFails ==
  /\ Happens(MaxViewed)
  /\ \/ /\ fetch.id # None /\ fetch' = [fetch EXCEPT !.answer = [NoAnswer EXCEPT !.kind = "missing"]]
        /\ UNCHANGED acks
     \/ /\ \E ack \in acks : acks' = (acks \ {ack}) \cup {[ack EXCEPT !.answer = "failed"]}
        /\ UNCHANGED fetch
  /\ UNCHANGED <<account, visible, detail, frames, read, history>>

TingDetailNext ==
  \/ \E t \in Tings : OpenTing(t) \/ ReadElsewhere(t)
  \/ CloseTing \/ RetryTing \/ Pulsed \/ TabToggles
  \/ TingAnswered \/ PaintFrame
  \/ \E ack \in acks : AckAnswered(ack) \/ ServeAck(ack)
  \/ \E a \in WebAccounts : Departs(a)
  \/ Replaced \/ CookieMoves \/ ServeTing \/ RequestFails

(* The service answers, and the browser runs continuations and draws while  *)
(* the tab is visible.                                                      *)
TingDetailSpec ==
  /\ WebVarsInit /\ TingDetailInit /\ [][TingDetailNext]_tingDetailVars
  /\ WF_tingDetailVars(ServeTing) /\ WF_tingDetailVars(TingAnswered)
  /\ WF_tingDetailVars(PaintFrame)
  /\ WF_tingDetailVars(\E ack \in acks : ServeAck(ack))
  /\ WF_tingDetailVars(\E ack \in acks : AckAnswered(ack))

(***************************************************************************)
(* Properties.                                                             *)
(***************************************************************************)
(* A ting is acknowledged, and so read at the service, not before the frame *)
(* that paints it for its recipient in a visible tab, whatever was opened,  *)
(* closed, hidden, retried or answered late, and whoever signed in          *)
(* meanwhile.                                                               *)
Acknowledged == {ack.id : ack \in acks}
OnlySeenIsRead ==
  [][/\ Acknowledged' \subseteq Acknowledged \cup seen'
     /\ read' \subseteq read \cup seen \cup elsewhere']_tingDetailVars

(* An unread ting that stays open on its recipient's screen is marked read  *)
(* in the end, unless an error says that it is not or said so before a hint *)
(* loaded it again.                                                         *)
StillUnread ==
  /\ Open /\ visible /\ detail.id \notin read
  /\ identity = cookie /\ Recipient[detail.id] = identity
  /\ ~missed
OpenTingIsRead == []<>~StillUnread
==============================================================================
