------------------------------ MODULE TingStore ------------------------------
(***************************************************************************)
(* The durable notification store of ting-server and the handlers that     *)
(* change it (crates/ting-server/src/store.rs, main.rs, ws.rs).            *)
(*                                                                         *)
(* Every handler holds App::mutations, an async mutex, from its last       *)
(* authority check to the end of its work, so a handler is one action: its *)
(* store call and the invalidation of the recipient's hooks that follows   *)
(* it.  A request the code refuses (404, 409, 403) or answers from an      *)
(* idempotency key changes no table and is no action.  One Silicon         *)
(* Accounts context is modelled: every table is partitioned by `ctx`.      *)
(*                                                                         *)
(* What a hook is worth: a copy of a message (a row of `deliveries`) waits *)
(* for a hook, is offered to the receiver the hook is bound to, is         *)
(* acknowledged when the receiver has queued it ("delivery") and when the  *)
(* destination has taken it ("read").  At most one batch of unread copies  *)
(* is out at a time: the hook's window.                                    *)
(***************************************************************************)
EXTENDS Integers, Sequences, FiniteSets, Functions

CONSTANTS
  Apps,        \* apps that send notifications
  Recipients,  \* accounts that receive them
  Scopes,      \* preference scopes: an app, one of its services or its types
  Requests,    \* send requests: [app, recipient, scopes, required, data]
  Messages,    \* message ids
  Hooks,       \* hook ids
  Receivers,   \* receiver ids, one for each WebSocket connection
  SendKeys,    \* idempotency keys of sends,
  ReadKeys,    \*   of an app's read and unread decisions,
  HookKeys,    \*   and of hook creations
  BatchLimit,  \* messages in one offer, 100 in the code
  KeyWindow,   \* how long an idempotency key is honoured, 14 days
  Month,       \* retention of a read or silent message
  Quarter,     \* retention of any message, 3 months
  MaxTime,     \* bound on the clock
  None         \* SQL NULL

ASSUME StoreAssumption ==
  /\ \A q \in Requests :
       /\ q.app \in Apps /\ q.recipient \in Recipients
       /\ q.scopes \in Seq(Scopes) /\ q.required \in BOOLEAN
  /\ None \notin Receivers
  /\ BatchLimit \in Nat \ {0} /\ MaxTime \in Nat
  /\ KeyWindow \in Nat \ {0} /\ Month \in Nat /\ Quarter \in Nat
  /\ KeyWindow =< Month /\ Month =< Quarter

VARIABLES
  now,         \* the clock, in units of which a key lives KeyWindow
  grants,      \* an app's permission to notify a recipient
  optin,       \* the "delivery:required" preference rows
  preferences, \* the other preference rows
  tings,       \* stored messages, by id
  hooks,       \* webhooks, by id
  deliveries,  \* a hook's copies of messages, by <<hook, message>>
  sendKeys, readKeys, hookKeys, \* table `keys`, by kind
  online       \* the receivers in Hub::receivers

vars == <<now, grants, optin, preferences, tings, hooks, deliveries,
          sendKeys, readKeys, hookKeys, online>>
keyTables == <<sendKeys, readKeys, hookKeys>>
consent == <<grants, optin, preferences>>

------------------------------------------------------------------------------
(* Rows and their types.                                                    *)

Ting == [request : Requests, key : SendKeys, silent : BOOLEAN,
         read : BOOLEAN, created : Nat]
HookStates == {"connected", "disconnected", "paused", "detached"}
Hook == [recipient : Recipients, state : HookStates,
         receiver : Receivers \cup {None}]
Copy == [offered : BOOLEAN, offer_receiver : Receivers \cup {None},
         delivery : BOOLEAN, read : BOOLEAN]
NewCopy == [offered |-> FALSE, offer_receiver |-> None,
            delivery |-> FALSE, read |-> FALSE]

SendKey == [request : Requests, message : Messages, expires : Nat]
ReadKey == [ids : SUBSET Messages, read : BOOLEAN, expires : Nat]
HookKey == [receiver : Receivers, hook : Hooks, expires : Nat]

NoRows == [k \in {} |-> None]

(* INSERT OR REPLACE of the same row under every key of a set.              *)
Insert(table, keys, row) ==
  [k \in DOMAIN table \cup keys |-> IF k \in keys THEN row ELSE table[k]]

(* A table whose keys are in K and whose rows are in R.                     *)
IsTable(table, K, R) ==
  /\ DOMAIN table \subseteq K
  /\ table \in [DOMAIN table -> R]

\* Mutant: a key is given up one unit of time early.
LiveBriefly(table, k) == k \in DOMAIN table /\ table[k].expires > now + 1

(* A key is honoured until it expires; INSERT OR REPLACE then reuses it.    *)
Live(table, k) == k \in DOMAIN table /\ table[k].expires > now

------------------------------------------------------------------------------
(* Consent, preferences and retention: what may be delivered.               *)

(* The most specific preference set among a type's scopes decides.          *)
Enabled(recipient, scopes) ==
  \/ \A i \in DOMAIN scopes : preferences[<<recipient, scopes[i]>>] = "unset"
  \/ \E i \in DOMAIN scopes :
       /\ preferences[<<recipient, scopes[i]>>] = "on"
       /\ \A j \in 1 .. i - 1 : preferences[<<recipient, scopes[j]>>] = "unset"

Route(q) == <<q.app, q.recipient>>

(* The recipient lets this message be delivered: required ones by opt-in,   *)
(* the others by preference unless they were stored silent.                 *)
Permitted(t) ==
  /\ grants[Route(t.request)] = "active"
  /\ IF t.request.required
     THEN Route(t.request) \in optin
     ELSE ~t.silent /\ Enabled(t.request.recipient, t.request.scopes)

PastMonth(t) == t.created < now - Month

\* Mutant: a read message has no retention.
ExpiredOnceRead(t) == t.read \/ (t.silent /\ PastMonth(t))

Expired(t) ==
  \/ t.created < now - Quarter
  \/ (t.read \/ t.silent) /\ PastMonth(t)

Eligible(t) == Permitted(t) /\ ~Expired(t)

------------------------------------------------------------------------------
(* Bindings: a hook bound to a receiver may have a window out.              *)

HooksOf(recipients) == {h \in DOMAIN hooks : hooks[h].recipient \in recipients}
BoundHooks == {h \in DOMAIN hooks : hooks[h].receiver # None}

\* Mutant: the copies keep their offers.
ResetAcksOnly(copies, H) ==
  [k \in DOMAIN copies |->
     IF k[1] \in H /\ ~copies[k].read THEN [copies[k] EXCEPT !.delivery = FALSE]
     ELSE copies[k]]

(* Unread copies of the hooks H lose their offer and their delivery ack.    *)
ResetCopies(copies, H) ==
  [k \in DOMAIN copies |->
     IF k[1] \in H /\ ~copies[k].read
     THEN [copies[k] EXCEPT !.delivery = FALSE, !.offer_receiver = None]
     ELSE copies[k]]

Unbind(H, state) ==
  [h \in DOMAIN hooks |->
     IF h \in H THEN [hooks[h] EXCEPT !.receiver = None, !.state = state]
     ELSE hooks[h]]

\* Mutant: a CASE without ELSE, SQL NULL for a hook that is not connected.
ReleaseClearingState(H) ==
  [h \in DOMAIN hooks |->
     IF h \in H
     THEN [hooks[h] EXCEPT !.receiver = None,
                           !.state = IF @ = "connected" THEN "disconnected" ELSE None]
     ELSE hooks[h]]

(* The hooks H lost their receiver to a disconnection or a restart.         *)
Release(H) ==
  [h \in DOMAIN hooks |->
     IF h \in H
     THEN [hooks[h] EXCEPT !.receiver = None,
                           !.state = IF @ = "connected" THEN "disconnected" ELSE @]
     ELSE hooks[h]]

(* Hub::invalidate after a change for these recipients; `copies` is the     *)
(* deliveries table as the change left it.                                  *)
Invalidate(recipients, copies) ==
  LET H == HooksOf(recipients) \cap BoundHooks IN
  /\ hooks' = Unbind(H, "disconnected")
  /\ deliveries' = ResetCopies(copies, H)

------------------------------------------------------------------------------
Init ==
  /\ now = 0
  /\ grants = [r \in Apps \X Recipients |-> "none"]
  /\ optin = {}
  /\ preferences = [p \in Recipients \X Scopes |-> "unset"]
  /\ tings = NoRows /\ hooks = NoRows /\ deliveries = NoRows
  /\ sendKeys = NoRows /\ readKeys = NoRows /\ hookKeys = NoRows
  /\ online = {}

------------------------------------------------------------------------------
(* Consent and preferences.                                                 *)

(* POST /v1/subscriptions with the recipient's proof: store.subscribe_app.  *)
SubscribeApp(app, recipient) ==
  /\ grants' = [grants EXCEPT ![<<app, recipient>>] = "active"]
  /\ UNCHANGED <<now, optin, preferences, tings, hooks, deliveries, keyTables, online>>

\* Mutant: the opt-in to required delivery survives the registration.
RevokeKeepsOptIn(app, recipient) ==
  /\ grants[app, recipient] # "none"
  /\ grants' = [grants EXCEPT ![<<app, recipient>>] = "revoked"]
  /\ Invalidate({recipient}, deliveries)
  /\ UNCHANGED <<now, optin, preferences, tings, keyTables, online>>

(* The recipient or the app revokes the registration.                       *)
Revoke(app, recipient) ==
  /\ grants[app, recipient] # "none"
  /\ grants' = [grants EXCEPT ![<<app, recipient>>] = "revoked"]
  /\ optin' = optin \ {<<app, recipient>>}
  /\ Invalidate({recipient}, deliveries)
  /\ UNCHANGED <<now, preferences, tings, keyTables, online>>

(* PUT required-delivery: enabling needs an active registration.            *)
RequiredDelivery(app, recipient, enabled) ==
  /\ grants[app, recipient] # "none"
  /\ enabled => grants[app, recipient] = "active"
  /\ optin' = IF enabled THEN optin \cup {<<app, recipient>>}
                         ELSE optin \ {<<app, recipient>>}
  /\ Invalidate({recipient}, deliveries)
  /\ UNCHANGED <<now, grants, preferences, tings, keyTables, online>>

\* Mutant: the recipient's hooks keep what they have out.
SetPreferenceQuietly(recipient, scope, choice) ==
  /\ preferences' = [preferences EXCEPT ![<<recipient, scope>>] = choice]
  /\ UNCHANGED <<now, grants, optin, tings, hooks, deliveries, keyTables, online>>

(* PUT and DELETE /preferences.                                             *)
SetPreference(recipient, scope, choice) ==
  /\ preferences' = [preferences EXCEPT ![<<recipient, scope>>] = choice]
  /\ Invalidate({recipient}, deliveries)
  /\ UNCHANGED <<now, grants, optin, tings, keyTables, online>>

------------------------------------------------------------------------------
(* Sending.                                                                 *)

(* id("msg") is random: an id no table mentions any more stands for a new   *)
(* one.                                                                     *)
Fresh(m) ==
  /\ m \notin DOMAIN tings
  /\ \A k \in DOMAIN sendKeys : sendKeys[k].message # m
  /\ \A k \in DOMAIN readKeys : m \notin readKeys[k].ids

\* Mutant: a hook without a receiver gets no copy.
FanOutToBound(q, silent) ==
  IF ~silent \/ q.required THEN HooksOf({q.recipient}) \cap BoundHooks ELSE {}

(* Every hook of the recipient, bound or not, gets a copy.                  *)
FanOut(q, silent) == IF ~silent \/ q.required THEN HooksOf({q.recipient}) ELSE {}

(* store.send under a key that is not live; a live one only replays its     *)
(* response.                                                                *)
Send(q, key, m) ==
  LET silent == ~Enabled(q.recipient, q.scopes) IN
  /\ ~Live(sendKeys, <<q.app, key>>)
  /\ Fresh(m)
  /\ grants[Route(q)] = "active"
  /\ q.required => Route(q) \in optin
  /\ tings' = Insert(tings, {m}, [request |-> q, key |-> key, silent |-> silent,
                                  read |-> FALSE, created |-> now])
  /\ deliveries' = Insert(deliveries, FanOut(q, silent) \X {m}, NewCopy)
  /\ sendKeys' = Insert(sendKeys, {<<q.app, key>>},
                        [request |-> q, message |-> m, expires |-> now + KeyWindow])
  /\ UNCHANGED <<now, consent, hooks, readKeys, hookKeys, online>>

------------------------------------------------------------------------------
(* Read state.                                                              *)

MarkRead(ids, read) ==
  [m \in DOMAIN tings |-> IF m \in ids THEN [tings[m] EXCEPT !.read = read]
                                       ELSE tings[m]]

\* Mutant: the three-month cutoff where one month is meant.
ExpireWhenReadLate(ids) ==
  {m \in ids : ~tings[m].read /\ tings[m].created < now - Quarter}

(* Reading these makes them outlive their retention at once.                *)
ExpireWhenRead(ids) == {m \in ids : ~tings[m].read /\ PastMonth(tings[m])}

RecipientsOf(ids) == {tings[m].request.recipient : m \in ids}

(* POST /inbox/read by the recipient.                                       *)
InboxRead(recipient, ids) ==
  /\ ids # {} /\ ids \subseteq DOMAIN tings
  /\ RecipientsOf(ids) = {recipient}
  /\ tings' = MarkRead(ids, TRUE)
  /\ Invalidate(RecipientsOf(ExpireWhenRead(ids)), deliveries)
  /\ UNCHANGED <<now, consent, keyTables, online>>

(* POST /v1/sent/read by the sending app, under a key that is not live; the *)
(* whole batch is validated before any of it changes.                       *)
SentRead(app, key, ids, read) ==
  /\ ~Live(readKeys, <<app, key>>)
  /\ ids # {} /\ ids \subseteq DOMAIN tings
  /\ \A m \in ids : tings[m].request.app = app /\ ~Expired(tings[m])
  /\ tings' = MarkRead(ids, read)
  /\ readKeys' = Insert(readKeys, {<<app, key>>},
                        [ids |-> ids, read |-> read, expires |-> now + KeyWindow])
  /\ Invalidate(IF read THEN RecipientsOf(ExpireWhenRead(ids)) ELSE {}, deliveries)
  /\ UNCHANGED <<now, consent, sendKeys, hookKeys, online>>

------------------------------------------------------------------------------
(* Hooks and their receivers.                                               *)

Connect(r) ==
  /\ r \notin online
  \* id("recv") is random: nothing is left of an earlier connection.
  /\ \A h \in DOMAIN hooks : hooks[h].receiver # r
  /\ \A k \in DOMAIN deliveries : deliveries[k].read \/ deliveries[k].offer_receiver # r
  /\ online' = online \cup {r}
  /\ UNCHANGED <<now, consent, tings, hooks, deliveries, keyTables>>

(* The end of ws::connection.  release_receiver's result is ignored: either *)
(* of its two statements may fail and leave the hooks bound to a receiver   *)
(* that is gone.                                                            *)
Disconnect(r) ==
  LET H == {h \in DOMAIN hooks : hooks[h].receiver = r} IN
  /\ r \in online
  /\ online' = online \ {r}
  /\ \/ hooks' = Release(H) /\ deliveries' = ResetCopies(deliveries, H)
     \/ hooks' = hooks /\ deliveries' \in {deliveries, ResetCopies(deliveries, H)}
  /\ UNCHANGED <<now, consent, tings, keyTables>>

(* Messages a new hook starts with.                                         *)
UnreadEligible == {m \in DOMAIN tings : ~tings[m].read /\ Eligible(tings[m])}
Backlog(recipient) == {m \in UnreadEligible : tings[m].request.recipient = recipient}

(* POST /webhooks under a key that is not live, for a connected receiver.   *)
CreateHook(recipient, key, r, h) ==
  /\ ~Live(hookKeys, <<recipient, key>>)
  /\ r \in online
  /\ h \notin DOMAIN hooks
  /\ hooks' = Insert(hooks, {h}, [recipient |-> recipient, state |-> "connected",
                                  receiver |-> r])
  /\ deliveries' = Insert(deliveries, {h} \X Backlog(recipient), NewCopy)
  /\ hookKeys' = Insert(hookKeys, {<<recipient, key>>},
                        [receiver |-> r, hook |-> h, expires |-> now + KeyWindow])
  /\ UNCHANGED <<now, consent, tings, sendKeys, readKeys, online>>

(* store.bind: all the hooks or none.  A WebSocket subscribe is neither     *)
(* explicit nor a takeover; PATCH /webhooks names one hook, explicitly.     *)
Bind(r, H, explicit, takeover) ==
  /\ r \in online
  /\ H # {} /\ H \subseteq DOMAIN hooks
  /\ \E recipient \in Recipients : H \subseteq HooksOf({recipient})
  /\ \A h \in H : /\ ~explicit => hooks[h].state \notin {"paused", "detached"}
                  /\ ~takeover => hooks[h].receiver \in {r, None}
  /\ hooks' = [h \in DOMAIN hooks |->
                 IF h \in H THEN [hooks[h] EXCEPT !.state = "connected", !.receiver = r]
                 ELSE hooks[h]]
  /\ deliveries' = ResetCopies(deliveries, H)
  /\ UNCHANGED <<now, consent, tings, keyTables, online>>

\* Mutant: the receiver is not cleared.
DetachKeepingReceiver(h) ==
  /\ h \in DOMAIN hooks
  /\ hooks' = [hooks EXCEPT ![h].state = "detached"]
  /\ deliveries' \in {deliveries, ResetCopies(deliveries, {h})}
  /\ UNCHANGED <<now, consent, tings, keyTables, online>>

(* DELETE /webhooks: two statements outside a transaction, the second may   *)
(* fail and leave the copies as they were.                                  *)
Detach(h) ==
  /\ h \in DOMAIN hooks
  /\ hooks' = Unbind({h}, "detached")
  /\ deliveries' \in {deliveries, ResetCopies(deliveries, {h})}
  /\ UNCHANGED <<now, consent, tings, keyTables, online>>

(* store.unsubscribe: the receiver's own request, its 12-hour pause, or the *)
(* server withdrawing a binding whose session ended.                        *)
Unsubscribe(r, H, pause) ==
  /\ r \in online
  /\ H # {} /\ H \subseteq {h \in DOMAIN hooks : hooks[h].receiver = r}
  /\ hooks' = Unbind(H, IF pause THEN "paused" ELSE "disconnected")
  /\ deliveries' = ResetCopies(deliveries, H)
  /\ UNCHANGED <<now, consent, tings, keyTables, online>>

------------------------------------------------------------------------------
(* Offers and acknowledgements.                                             *)

Bound(r, h) ==
  h \in DOMAIN hooks /\ hooks[h].receiver = r /\ hooks[h].state = "connected"

\* Mutant: completed copies stay in the window.
WindowWithRead(h) ==
  {k \in DOMAIN deliveries : /\ k[1] = h
                             /\ deliveries[k].offer_receiver # None
                             /\ deliveries[k].offer_receiver = hooks[h].receiver}

(* The unread copies a hook has out with its receiver.                      *)
Window(h) ==
  {k \in DOMAIN deliveries : /\ k[1] = h /\ ~deliveries[k].read
                             /\ deliveries[k].offer_receiver # None
                             /\ deliveries[k].offer_receiver = hooks[h].receiver}

Offerable(h) ==
  {m \in DOMAIN tings : /\ <<h, m>> \in DOMAIN deliveries
                        /\ ~deliveries[h, m].read
                        /\ Eligible(tings[m])}

(* store.offer with an empty window: the oldest eligible copies, as many as *)
(* fit 1 MiB, are put out.  With a window out the code only repeats those   *)
(* of its copies that were not acknowledged for 10 seconds.                 *)
Offer(r, h, batch) ==
  /\ r \in online /\ Bound(r, h)
  /\ Window(h) = {}
  /\ batch # {} /\ batch \subseteq Offerable(h)
  /\ Cardinality(batch) =< BatchLimit
  /\ \A m \in batch, n \in Offerable(h) \ batch : tings[m].created =< tings[n].created
  /\ deliveries' = [k \in DOMAIN deliveries |->
                      IF k \in {h} \X batch
                      THEN [deliveries[k] EXCEPT !.offered = TRUE, !.offer_receiver = r]
                      ELSE deliveries[k]]
  /\ UNCHANGED <<now, consent, tings, hooks, keyTables, online>>

(* An ack names only copies the hook was offered; a delivery ack only those *)
(* this binding was offered.                                                *)
Acknowledgeable(r, h, m, kind) ==
  /\ <<h, m>> \in DOMAIN deliveries
  /\ \/ deliveries[h, m].read
     \/ /\ deliveries[h, m].offered
        /\ (kind = "read" \/ deliveries[h, m].offer_receiver = r)

AckDelivery(r, h, ids) ==
  /\ r \in online /\ Bound(r, h) /\ ids # {}
  /\ \A m \in ids : Acknowledgeable(r, h, m, "delivery")
  /\ deliveries' = [k \in DOMAIN deliveries |->
                      IF k \in {h} \X ids THEN [deliveries[k] EXCEPT !.delivery = TRUE]
                      ELSE deliveries[k]]
  /\ UNCHANGED <<now, consent, tings, hooks, keyTables, online>>

\* Mutant: a repeated ack completes a copy again.
CompletedAgain(h, ids) == ids

Completed(h, ids) == {m \in ids : ~deliveries[h, m].read}

ReadCopies(h, ids) ==
  [k \in DOMAIN deliveries |->
     IF k \in {h} \X ids
     THEN [deliveries[k] EXCEPT !.delivery = TRUE, !.read = TRUE]
     ELSE deliveries[k]]

(* The first completion of a copy reads the message; a repeated one must    *)
(* not undo an app's later mark-unread.                                     *)
AckRead(r, h, ids) ==
  LET completed == Completed(h, ids) IN
  /\ r \in online /\ Bound(r, h) /\ ids # {}
  /\ \A m \in ids : Acknowledgeable(r, h, m, "read")
  /\ tings' = MarkRead(completed, TRUE)
  /\ Invalidate(RecipientsOf(ExpireWhenRead(completed)), ReadCopies(h, completed))
  /\ UNCHANGED <<now, consent, keyTables, online>>

------------------------------------------------------------------------------
(* Time, retention and restarts.                                            *)

Tick ==
  /\ now < MaxTime
  /\ now' = now + 1
  /\ UNCHANGED <<consent, tings, hooks, deliveries, keyTables, online>>

\* Mutant: pruning forgets every key.
NoKeys(table) == NoRows

LiveKeys(table) == Restrict(table, {k \in DOMAIN table : table[k].expires > now})

\* Mutant: unread messages go after a month, too.
KeptForAMonth == {m \in DOMAIN tings : ~PastMonth(tings[m])}

Kept == {m \in DOMAIN tings : ~Expired(tings[m])}

\* Mutant: the copies of a message that goes stay behind.
AllCopies(copies) == copies

CopiesOfKept(copies) == Restrict(copies, {k \in DOMAIN copies : k[2] \in Kept})

(* store.prune; `copies` is the deliveries table it finds.                  *)
Prune(copies) ==
  /\ tings' = Restrict(tings, Kept)
  /\ deliveries' = CopiesOfKept(copies)
  /\ sendKeys' = LiveKeys(sendKeys)
  /\ readKeys' = LiveKeys(readKeys)
  /\ hookKeys' = LiveKeys(hookKeys)

(* Owners with a bound hook that waits for an expired message.              *)
ExpiredOwners ==
  {hooks[h].recipient : h \in {b \in BoundHooks :
     \E k \in DOMAIN deliveries :
       k[1] = b /\ ~deliveries[k].read /\ Expired(tings[k[2]])}}

(* The hourly retention task.                                               *)
Retention ==
  LET H == HooksOf(ExpiredOwners) \cap BoundHooks IN
  /\ hooks' = Unbind(H, "disconnected")
  /\ Prune(ResetCopies(deliveries, H))
  /\ UNCHANGED <<now, consent, online>>

(* The process stops between two actions and Store::open runs: no receiver  *)
(* survives, every unread copy is to be offered anew.                       *)
Restart ==
  /\ online' = {}
  /\ hooks' = Release(DOMAIN hooks)
  /\ Prune(ResetCopies(deliveries, DOMAIN hooks))
  /\ UNCHANGED <<now, consent>>

------------------------------------------------------------------------------
ConsentStep ==
  \/ \E app \in Apps, recipient \in Recipients :
       \/ SubscribeApp(app, recipient)
       \/ Revoke(app, recipient)
       \/ \E enabled \in BOOLEAN : RequiredDelivery(app, recipient, enabled)
  \/ \E recipient \in Recipients, scope \in Scopes, choice \in {"unset", "on", "off"} :
       SetPreference(recipient, scope, choice)

MessageStep ==
  \/ \E q \in Requests, key \in SendKeys, m \in Messages : Send(q, key, m)
  \/ \E recipient \in Recipients, ids \in SUBSET Messages : InboxRead(recipient, ids)
  \/ \E app \in Apps, key \in ReadKeys, ids \in SUBSET Messages, read \in BOOLEAN :
       SentRead(app, key, ids, read)

HookStep ==
  \/ \E r \in Receivers : Connect(r) \/ Disconnect(r)
  \/ \E recipient \in Recipients, key \in HookKeys, r \in Receivers, h \in Hooks :
       CreateHook(recipient, key, r, h)
  \/ \E r \in Receivers, H \in SUBSET Hooks : Bind(r, H, FALSE, FALSE)
  \/ \E r \in Receivers, h \in Hooks, takeover \in BOOLEAN : Bind(r, {h}, TRUE, takeover)
  \/ \E h \in Hooks : Detach(h)
  \/ \E r \in Receivers, H \in SUBSET Hooks, pause \in BOOLEAN : Unsubscribe(r, H, pause)

DeliveryStep ==
  \E r \in Receivers, h \in Hooks, ids \in SUBSET Messages :
    \/ Offer(r, h, ids)
    \/ AckDelivery(r, h, ids)
    \/ AckRead(r, h, ids)

Next ==
  \/ ConsentStep
  \/ MessageStep
  \/ HookStep
  \/ DeliveryStep
  \/ Tick
  \/ Retention
  \/ Restart

Spec == Init /\ [][Next]_vars

(* The timers of the server run for ever: a connection asks for offers      *)
(* every second and retention runs every hour.  A receiver that keeps its   *)
(* hook gets what it was offered to the destination in the end and says so, *)
(* one message or another at a time; it may lose interest in an expired one *)
(* (the daemon deletes those).  Nothing is assumed of users, apps,          *)
(* connections or restarts.                                                 *)
ReceiverCompletes(r, h) ==
  \E m \in DOMAIN tings :
    <<h, m>> \in Window(h) /\ ~Expired(tings[m]) /\ AckRead(r, h, {m})

Fairness ==
  /\ \A r \in Receivers, h \in Hooks :
       /\ WF_vars(\E batch \in SUBSET Messages : Offer(r, h, batch))
       /\ WF_vars(ReceiverCompletes(r, h))
  /\ WF_vars(Retention)

FairSpec == Spec /\ Fairness

------------------------------------------------------------------------------
(* Safety.                                                                  *)

TypeOK ==
  /\ now \in Nat
  /\ grants \in [Apps \X Recipients -> {"none", "active", "revoked"}]
  /\ optin \subseteq Apps \X Recipients
  /\ preferences \in [Recipients \X Scopes -> {"unset", "on", "off"}]
  /\ IsTable(tings, Messages, Ting)
  /\ IsTable(hooks, Hooks, Hook)
  /\ IsTable(deliveries, Hooks \X Messages, Copy)
  /\ IsTable(sendKeys, Apps \X SendKeys, SendKey)
  /\ IsTable(readKeys, Apps \X ReadKeys, ReadKey)
  /\ IsTable(hookKeys, Recipients \X HookKeys, HookKey)
  /\ online \subseteq Receivers

(* A copy is of a stored message, belongs to a hook of that message's       *)
(* recipient, and no silent message has copies unless it is required: the   *)
(* foreign keys of `deliveries` hold through every prune (store.rs:1194).   *)
CopiesAreOwed ==
  \A k \in DOMAIN deliveries :
    /\ k[1] \in DOMAIN hooks /\ k[2] \in DOMAIN tings
    /\ LET t == tings[k[2]] IN
         /\ hooks[k[1]].recipient = t.request.recipient
         /\ ~t.silent \/ t.request.required

(* A hook has a receiver exactly while it is connected (store.rs:917-1029). *)
BindingCoherent ==
  \A h \in DOMAIN hooks :
    hooks[h].receiver # None <=> hooks[h].state = "connected"

(* Whatever a bound hook has out, or acknowledged as queued, is out with    *)
(* the receiver it is bound to now: an earlier receiver's delivery ack never *)
(* stops a message from being offered to the next one (store.rs:962).       *)
OffersFollowTheBinding ==
  \A k \in DOMAIN deliveries :
    k[1] \in BoundHooks /\ ~deliveries[k].read =>
      /\ deliveries[k].offer_receiver \in {None, hooks[k[1]].receiver}
      /\ deliveries[k].delivery => deliveries[k].offer_receiver # None
      /\ deliveries[k].offer_receiver # None => deliveries[k].offered

(* No message its recipient forbids is out: store.offer puts nothing else   *)
(* out until a window is complete, and repeats only permitted copies        *)
(* (store.rs:1053-1066), so such a message would block its hook for ever.   *)
WindowIsPermitted ==
  \A h \in BoundHooks : \A k \in Window(h) : Permitted(tings[k[2]])

(* The opt-in to required delivery dies with the registration: an app that  *)
(* is registered again starts without it (store.rs:395-413, 480).           *)
OptInNeedsGrant == \A route \in optin : grants[route] = "active"

(* A sender that lost the reply and retries within the key's window gets no *)
(* second message (store.rs:447): two stored messages of an app under one   *)
(* key are at least a window apart.                                         *)
SendOnce ==
  \A m, n \in DOMAIN tings :
    LET s == tings[m]  t == tings[n] IN
    /\ m # n /\ s.request.app = t.request.app /\ s.key = t.key
    => s.created >= t.created + KeyWindow \/ t.created >= s.created + KeyWindow

(* The message a retry is told of is still stored, as it was sent, while    *)
(* the key is honoured: keys never outlive messages (store.rs:447, 1194-1202). *)
RetryFindsMessage ==
  \A k \in DOMAIN sendKeys : Live(sendKeys, k) =>
    LET m == sendKeys[k].message IN
    /\ m \in DOMAIN tings
    /\ tings[m].request = sendKeys[k].request
    /\ tings[m].key = k[2]

------------------------------------------------------------------------------
(* Steps.                                                                   *)

(* Only the passing of time makes a message that is out ineligible: every   *)
(* operation that forbids or expires one takes back the whole window in the *)
(* same step (the callers of Hub::invalidate, main.rs and ws.rs:243).       *)
BlockedCopies ==
  {k \in UNION {Window(h) : h \in BoundHooks} : ~Eligible(tings[k[2]])}
OnlyTimeBlocks == [][now' = now => BlockedCopies' \subseteq BlockedCopies]_vars

(* No gap between a hook's backlog and its live messages, and nothing owed  *)
(* is dropped: a copy is made when the message or the hook is created, and  *)
(* goes only when retention ends (store.rs:482, 891, 1194).                 *)
CopiesAreDurable ==
  [][\A h \in DOMAIN hooks', m \in DOMAIN tings' :
       LET t == tings'[m] IN
       /\ hooks'[h].recipient = t.request.recipient
       /\ \/ <<h, m>> \in DOMAIN deliveries
          \/ m \notin DOMAIN tings /\ (~t.silent \/ t.request.required)
          \/ h \notin DOMAIN hooks /\ m \in UnreadEligible'
       => <<h, m>> \in DOMAIN deliveries']_vars

(* Nothing leaves the store before its retention ends, restarts included.   *)
RetentionIsKept ==
  [][\A m \in DOMAIN tings \ DOMAIN tings' : Expired(tings[m])]_vars

(* A read ack that names a copy completed before does not touch its message *)
(* again: an app may have marked it unread meanwhile (store.rs:1161).       *)
RepeatedReadAckIsInert ==
  [][\A r \in Receivers, h \in DOMAIN hooks, ids \in SUBSET DOMAIN tings :
       AckRead(r, h, ids) =>
         \A m \in ids : deliveries[h, m].read => tings'[m].read = tings[m].read]_vars

(* What was decided under a key stays decided while it is honoured: a late  *)
(* retry neither repeats nor replaces it (store.rs:447, 622, 861).          *)
Final(table, later) ==
  \A k \in DOMAIN table : Live(table, k) => k \in DOMAIN later /\ later[k] = table[k]
LiveKeysAreFinal ==
  [][Final(sendKeys, sendKeys') /\ Final(readKeys, readKeys') /\ Final(hookKeys, hookKeys')]_vars

------------------------------------------------------------------------------
(* Liveness.                                                                *)

(* A copy that may be delivered and whose hook keeps its receiver is put    *)
(* out in the end, whatever was out before it (store.rs:1040-1112).  Every  *)
(* new binding starts a window afresh with the oldest copies, so a user who *)
(* rebinds a hook again and again can hold back the youngest: not assumed.  *)
Waiting(r, h, m) ==
  /\ r \in online /\ Bound(r, h)
  /\ m \in Offerable(h) /\ <<h, m>> \notin Window(h)
RebindingStops ==
  <>[][\A r \in Receivers, H \in SUBSET Hooks, explicit, takeover \in BOOLEAN :
         ~Bind(r, H, explicit, takeover)]_vars
WaitingEnds ==
  RebindingStops => \A r \in Receivers, h \in Hooks, m \in Messages :
                      Waiting(r, h, m) ~> ~Waiting(r, h, m)

==============================================================================
