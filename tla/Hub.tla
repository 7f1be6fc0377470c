--------------------------------- MODULE Hub ---------------------------------
(***************************************************************************)
(* Receivers, sessions and the mutation gate (crates/ting-server/src/      *)
(* ws.rs, auth.rs and the handlers of main.rs): several connections and    *)
(* HTTP requests at once, each a task that runs between two awaits and     *)
(* also between two calls of the store, for the runtime has several        *)
(* threads.  `App::mutations` is `gate`.  Deleting a session and the       *)
(* control queues do not need it.                                          *)
(*                                                                         *)
(* Messages are not modelled: of an offer it matters under which session   *)
(* it was made.  Everything clients, users and Accounts do is counted in   *)
(* `disturbed`.                                                            *)
(***************************************************************************)
EXTENDS Naturals, Sequences, FiniteSets

CONSTANTS
  Receivers,    \* connections; each of them lives once
  Callers,      \* HTTP requests that may be under way at once
  Sessions,     \* session IDs, all of them logged in at the start
  Hooks,        \* hooks, existing or not
  Owner,        \* the account of every session and hook
  Capacity,     \* CONTROL_QUEUE_CAPACITY
  Disturbances, \* the kinds of disturbance of this instance
  MaxDisturbed, \* bound on their number
  None          \* nothing

ASSUME HubAssumption ==
  /\ None \notin Receivers \cup Callers \cup Sessions
  /\ Receivers \cap Callers = {}
  /\ Capacity \in Nat /\ MaxDisturbed \in Nat

VARIABLES
  active,   \* the sessions Accounts holds active
  valid,    \* account_sessions that are neither revoked nor expired
  pending,  \* those with revoke_pending
  hooks,    \* table hooks: state, receiver, session
  out,      \* the session under which a hook's window was offered
  hub,      \* Hub::receivers
  gate,     \* who holds App::mutations
  task,     \* where each connection and request is, and what it holds
  told,     \* hooks each client was told it is subscribed to, and not since paused
  ended,    \* sessions whose deletion was answered
  disturbed \* how many disturbances there were

sessions == <<active, valid, pending>>
store == <<hooks, out>>
vars == <<sessions, store, hub, gate, task, told, ended, disturbed>>

Tasks == Receivers \cup Callers
HookStates == {"absent", "connected", "disconnected", "paused", "detached"}
Stages == {"closed", "idle", "asking", "waiting", "checked", "finishing", "revoking",
           "offering", "putting", "dropping", "validating", "expiring", "broken", "gone"}
Ops == {"none", "subscribe", "watch", "unsubscribe", "pause", "ack", "attach", "takeover",
        "create", "detach", "invalidate", "hint", "logout"}
Pause(hs, watch) == [hooks |-> hs, watch |-> watch]
Hint == Pause({}, FALSE)
Accounts == {Owner[x] : x \in Sessions \cup Hooks}
Handler(at, op, of, by, hs, to) ==
  [at |-> at, op |-> op, of |-> of, by |-> by, hooks |-> hs, to |-> to, rows |-> {}]
Idle == Handler("idle", "none", None, {}, {}, None)
NoReceiver == [open |-> FALSE, queue |-> <<>>, cut |-> FALSE, auth |-> {}, watch |-> None]

TypeOK ==
  /\ active \subseteq Sessions /\ valid \subseteq Sessions /\ pending \subseteq Sessions
  /\ hooks \in [Hooks -> [state : HookStates, to : Receivers \cup {None},
                          by : Sessions \cup {None}]]
  /\ out \in [Hooks -> Sessions \cup {None}]
  /\ hub \in [Receivers -> [open : BOOLEAN, queue : Seq([hooks : SUBSET Hooks, watch : BOOLEAN]),
                            cut : BOOLEAN, auth : SUBSET Sessions, watch : Sessions \cup {None}]]
  /\ \A r \in Receivers : Len(hub[r].queue) <= Capacity
  /\ gate \in Tasks \cup {None}
  /\ task \in [Tasks -> [at : Stages, op : Ops, of : Accounts \cup {None}, by : SUBSET Sessions,
                         hooks : SUBSET Hooks, to : Receivers \cup {None},
                         rows : SUBSET ((Receivers \cup Sessions) \X Hooks)]]
  /\ told \in [Receivers -> SUBSET Hooks]
  /\ ended \subseteq Sessions
  /\ disturbed \in 0 .. MaxDisturbed

Init ==
  /\ active = Sessions /\ valid = Sessions /\ pending = {}
  /\ hooks \in [Hooks -> [state : {"absent", "disconnected"}, to : {None}, by : {None}]]
  /\ out = [h \in Hooks |-> None]
  /\ hub = [r \in Receivers |-> NoReceiver]
  /\ gate = None
  /\ task = [t \in Tasks |-> IF t \in Receivers THEN [Idle EXCEPT !.at = "closed"] ELSE Idle]
  /\ told = [r \in Receivers |-> {}]
  /\ ended = {} /\ disturbed = 0

Disturb(kind) ==
  /\ kind \in Disturbances /\ disturbed < MaxDisturbed
  /\ disturbed' = disturbed + 1

------------------------------------------------------------------------------
(* Hooks, queues and the gate.                                              *)

Bound(r) == {h \in Hooks : hooks[h].to = r /\ hooks[h].state = "connected"}

(* Every change of a binding resets the hook's copies.                      *)
Hand(hs, state, to, by) ==
  /\ hooks' = [h \in Hooks |-> IF h \in hs THEN [state |-> state, to |-> to, by |-> by]
                               ELSE hooks[h]]
  /\ out' = [h \in Hooks |-> IF h \in hs THEN None ELSE out[h]]

\* Mutant: the queue has no bound.
DeliverAll(q, msg) == IF ~q.open \/ q.cut THEN q ELSE [q EXCEPT !.queue = Append(@, msg)]

\* Mutant: what does not fit is dropped and the connection stays.
DeliverOrDrop(q, msg) ==
  IF q.open /\ ~q.cut /\ Len(q.queue) < Capacity THEN [q EXCEPT !.queue = Append(@, msg)] ELSE q

(* A receiver whose queue is full is cut.                                   *)
Deliver(q, msg) ==
  IF ~q.open \/ q.cut THEN q
  ELSE IF Len(q.queue) < Capacity THEN [q EXCEPT !.queue = Append(@, msg)]
  ELSE [q EXCEPT !.cut = TRUE]

(* Hub::pause_replaced.                                                     *)
PauseAll(rows) ==
  [r \in Receivers |->
     LET hs == {h \in Hooks : <<r, h>> \in rows} IN
     IF hs = {} THEN hub[r] ELSE Deliver(hub[r], Pause(hs, FALSE))]

(* Hub::inbox_changed.                                                      *)
Hinted(q, account) ==
  [r \in Receivers |-> IF q[r].watch # None /\ Owner[q[r].watch] = account
                       THEN Deliver(q[r], Hint) ELSE q[r]]

\* Mutant: a watch outlives its session.
ForgetAuth(q, s) == [q EXCEPT !.auth = @ \ {s}]

(* No entry and no watch of a session are left, and a watch hears of it.    *)
Forget(q, s) ==
  LET kept == [q EXCEPT !.auth = @ \ {s}] IN
  IF q.watch = s THEN Deliver([kept EXCEPT !.watch = None], Pause({}, TRUE)) ELSE kept

Take(t) == gate = None /\ gate' = t
LetGo(t) == gate' = IF gate = t THEN None ELSE gate
Goto(t, at) == task' = [task EXCEPT ![t].at = at]
End(t) == task' = [task EXCEPT ![t] = Idle] /\ LetGo(t)
Silent == UNCHANGED <<hub, told, ended>>

------------------------------------------------------------------------------
(* What a handler does before it changes anything.                          *)

Begin(t, op, of, by, hs, to) ==
  /\ Disturb(op) /\ task[t].at = "idle"
  /\ task' = [task EXCEPT ![t] = Handler("asking", op, of, by, hs, to)]
  /\ UNCHANGED <<sessions, store, gate>> /\ Silent

HooksOf(a) == {h \in Hooks : Owner[h] = a}

(* Frames of a client.  Acknowledging and unsubscribing authenticate the    *)
(* sessions the hooks are bound under; a message is sent by an app.         *)
Frame(r) ==
  \/ \E s \in Sessions :
       \/ \E hs \in SUBSET HooksOf(Owner[s]) : Begin(r, "subscribe", Owner[s], {s}, hs, r)
       \/ Begin(r, "watch", Owner[s], {s}, {}, r)
  \/ \E op \in {"unsubscribe", "pause"}, hs \in SUBSET Bound(r) \ {{}} :
       Begin(r, op, None, {hooks[h].by : h \in hs}, hs, r)
  \/ \E h \in Bound(r) : Begin(r, "ack", Owner[h], {hooks[h].by}, {h}, r)
  \/ \E a \in Accounts : Begin(r, "hint", a, {}, {}, None)

(* Requests over HTTP.  Apps and retention act without a session.           *)
Request(c) ==
  \/ \E s \in Sessions, h \in Hooks :
       /\ Owner[h] = Owner[s]
       /\ \/ Begin(c, "detach", Owner[s], {s}, {h}, None)
          \/ \E r \in Receivers, op \in {"attach", "takeover", "create"} :
               Begin(c, op, Owner[s], {s}, {h}, r)
  \/ \E a \in Accounts, op \in {"invalidate", "hint"}, by \in {{}} \cup {{s} : s \in Sessions} :
       (\A s \in by : Owner[s] = a) /\ Begin(c, op, a, by, {}, None)

(* Auth::live asks Accounts, which may not answer.                          *)
Confirmed(ss) == ss \subseteq valid \cap active

Authenticate(t) ==
  /\ task[t].at = "asking" /\ task[t].op # "logout"
  /\ \/ Confirmed(task[t].by) /\ Goto(t, "waiting") /\ UNCHANGED <<gate, disturbed>>
     \/ ~Confirmed(task[t].by) /\ End(t) /\ UNCHANGED disturbed
     \/ Disturb("outage") /\ End(t)
  /\ UNCHANGED <<sessions, store>> /\ Silent

(* Hub::authorized: the receiver has shown this very session.               *)
Authorized(r, ss) == hub[r].open /\ ~hub[r].cut /\ ss \subseteq hub[r].auth

(* Under the gate the sessions are checked again, locally.                  *)
Admitted(t) ==
  /\ task[t].by \subseteq valid
  /\ task[t].op \in {"attach", "takeover", "create"} => Authorized(task[t].to, task[t].by)

Enter(t) ==
  /\ task[t].at = "waiting" /\ gate = None
  /\ IF Admitted(t) THEN Take(t) /\ Goto(t, "checked") ELSE End(t)
  /\ UNCHANGED <<sessions, store, disturbed>> /\ Silent

------------------------------------------------------------------------------
(* What it does to the store, still holding the gate.                       *)

Refuse(t) == End(t) /\ UNCHANGED store
Finish(t, rows) == task' = [task EXCEPT ![t].at = "finishing", ![t].rows = rows] /\ UNCHANGED gate

(* Store::bind, all of the hooks or none.                                   *)
Bindable(t, h) ==
  /\ hooks[h].state # "absent"
  /\ task[t].op = "subscribe" => hooks[h].state \notin {"paused", "detached"}
  /\ task[t].op # "takeover" => hooks[h].to \in {None, task[t].to}

Bind(t) ==
  LET hs == task[t].hooks IN
  /\ task[t].at = "checked" /\ task[t].op \in {"subscribe", "attach", "takeover"}
  /\ \/ /\ \A h \in hs : Bindable(t, h)
        /\ Hand(hs, "connected", task[t].to, CHOOSE s \in task[t].by : TRUE)
        /\ Finish(t, {<<hooks[h].to, h>> : h \in {h \in hs : hooks[h].to \notin {None, task[t].to}}})
     \/ (\E h \in hs : ~Bindable(t, h)) /\ Refuse(t)
  /\ UNCHANGED <<sessions, disturbed>> /\ Silent

CreateHook(t) ==
  /\ task[t].at = "checked" /\ task[t].op = "create"
  /\ \/ /\ \A h \in task[t].hooks : hooks[h].state = "absent"
        /\ Hand(task[t].hooks, "connected", task[t].to, CHOOSE s \in task[t].by : TRUE)
        /\ Finish(t, {})
     \/ (\E h \in task[t].hooks : hooks[h].state # "absent") /\ Refuse(t)
  /\ UNCHANGED <<sessions, disturbed>> /\ Silent

(* The reply tells the client.                                              *)
Unsubscribe(t) ==
  LET hs == task[t].hooks IN
  /\ task[t].at = "checked" /\ task[t].op \in {"unsubscribe", "pause"}
  /\ \/ /\ \A h \in hs : hooks[h].to = t
        /\ Hand(hs, IF task[t].op = "pause" THEN "paused" ELSE "disconnected", None, None)
        /\ told' = [told EXCEPT ![t] = @ \ hs]
        /\ End(t)
     \/ (\E h \in hs : hooks[h].to # t) /\ Refuse(t) /\ UNCHANGED told
  /\ UNCHANGED <<sessions, hub, ended, disturbed>>

Detach(t) ==
  LET hs == {h \in task[t].hooks : hooks[h].state # "absent"} IN
  /\ task[t].at = "checked" /\ task[t].op = "detach"
  /\ Hand(hs, "detached", None, None)
  /\ Finish(t, {<<hooks[h].to, h>> : h \in {h \in hs : hooks[h].to # None}})
  /\ UNCHANGED <<sessions, disturbed>> /\ Silent

(* Hub::invalidate: a preference, a grant, or the retention of a message    *)
(* ended by reading it.                                                     *)
Invalidate(t) ==
  LET hs == {h \in HooksOf(task[t].of) : hooks[h].to # None} IN
  /\ task[t].at = "checked"
  /\ \/ task[t].op = "invalidate"
     \/ task[t].op = "ack" /\ task[t].hooks \subseteq Bound(t)
  /\ Hand(hs, "disconnected", None, None)
  /\ Finish(t, {<<hooks[h].to, h>> : h \in hs})
  /\ UNCHANGED <<sessions, disturbed>> /\ Silent

(* An acknowledgement that ends no retention, or of a hook bound elsewhere  *)
(* by now.                                                                  *)
Acknowledge(t) ==
  /\ task[t].at = "checked" /\ task[t].op = "ack"
  /\ End(t)
  /\ hub' \in IF task[t].hooks \subseteq Bound(t) THEN {hub, Hinted(hub, task[t].of)} ELSE {hub}
  /\ UNCHANGED <<sessions, store, told, ended, disturbed>>

(* The receivers' lock has been waited for: pauses are queued, with a hint  *)
(* if messages were read, and a subscription or watch is entered and        *)
(* answered.                                                                *)
Conclude(t) ==
  LET s == CHOOSE s \in task[t].by : TRUE
      paused == PauseAll(task[t].rows) IN
  /\ \/ /\ task[t].at = "finishing" /\ task[t].op = "subscribe"
        /\ hub' = [hub EXCEPT ![t].auth = {q \in @ : Owner[q] # Owner[s]} \cup {s}]
        /\ told' = [told EXCEPT ![t] = @ \cup task[t].hooks]
     \/ /\ task[t].at = "checked" /\ task[t].op = "watch"
        /\ hub' = [hub EXCEPT ![t].watch = s] /\ UNCHANGED told
     \/ /\ task[t].at = "checked" /\ task[t].op = "hint"
        /\ hub' = Hinted(hub, task[t].of) /\ UNCHANGED told
     \/ /\ task[t].at = "finishing" /\ task[t].op \in {"attach", "takeover", "create", "detach"}
        /\ hub' = paused /\ UNCHANGED told
     \/ /\ task[t].at = "finishing" /\ task[t].op \in {"ack", "invalidate"}
        /\ hub' \in {paused, Hinted(paused, task[t].of)} /\ UNCHANGED told
  /\ End(t)
  /\ UNCHANGED <<sessions, store, ended, disturbed>>

------------------------------------------------------------------------------
(* DELETE /session: no gate.                                                *)

\* Mutant: the revocation at Accounts is tried only once.
LogoutHasty(c, s) ==
  /\ Disturb("logout") /\ task[c].at = "idle"
  /\ valid' = valid \ {s} /\ UNCHANGED <<active, pending>>
  /\ task' = [task EXCEPT ![c] = Handler("revoking", "logout", None, {s}, {}, None)]
  /\ UNCHANGED <<store, gate>> /\ Silent

(* Auth::logout_by_id saves the intent, then tells Accounts.                *)
Logout(c, s) ==
  /\ Disturb("logout") /\ task[c].at = "idle"
  /\ valid' = valid \ {s} /\ pending' = pending \cup {s} /\ UNCHANGED active
  /\ task' = [task EXCEPT ![c] = Handler("revoking", "logout", None, {s}, {}, None)]
  /\ UNCHANGED <<store, gate>> /\ Silent

Revoke(c) ==
  /\ task[c].at = "revoking"
  /\ \/ active' = active \ task[c].by /\ pending' = pending \ task[c].by /\ UNCHANGED disturbed
     \/ Disturb("outage") /\ UNCHANGED <<active, pending>>
  /\ Goto(c, "finishing")
  /\ UNCHANGED <<valid, store, gate>> /\ Silent

(* Hub::invalidate_session, under the receivers' lock, then the answer.     *)
InvalidateSession(c) ==
  LET s == CHOOSE s \in task[c].by : TRUE
      mine == {h \in Hooks : hooks[h].by = s /\ hooks[h].state = "connected"
                             /\ hub[hooks[h].to].open} IN
  /\ task[c].at = "finishing" /\ task[c].op = "logout"
  /\ Hand(mine, "disconnected", None, None)
  /\ hub' = [r \in Receivers |-> IF hub[r].open THEN Forget(PauseAll({<<hooks[h].to, h>> : h \in mine})[r], s)
                                 ELSE hub[r]]
  /\ ended' = ended \cup {s}
  /\ End(c)
  /\ UNCHANGED <<sessions, told, disturbed>>

(* Auth::retry_revocations.                                                 *)
RetryRevocation(s) ==
  /\ s \in pending
  /\ active' = active \ {s} /\ pending' = pending \ {s}
  /\ UNCHANGED <<valid, store, hub, gate, task, told, ended, disturbed>>

------------------------------------------------------------------------------
(* A connection.                                                            *)

Open(r) ==
  /\ task[r].at = "closed"
  /\ Goto(r, "idle")
  /\ hub' = [hub EXCEPT ![r].open = TRUE]
  /\ UNCHANGED <<sessions, store, gate, told, ended, disturbed>>

(* It sends what was queued for it.                                         *)
Flush(r) ==
  /\ task[r].at = "idle" /\ hub[r].queue # <<>>
  /\ hub' = [hub EXCEPT ![r].queue = Tail(@)]
  /\ told' = [told EXCEPT ![r] = @ \ Head(hub[r].queue).hooks]
  /\ UNCHANGED <<sessions, store, gate, task, ended, disturbed>>

(* Every second: the hooks it finds under the gate, one after the other,    *)
(* each with the session it was found bound under.                          *)
OfferStart(r) ==
  /\ task[r].at = "idle" /\ Bound(r) # {} /\ Take(r)
  /\ task' = [task EXCEPT ![r].at = "offering", ![r].rows = {<<hooks[h].by, h>> : h \in Bound(r)}]
  /\ UNCHANGED <<sessions, store, disturbed>> /\ Silent

\* Mutant: an offer does not look at the session.
UsableAnyway(s) == TRUE

(* Auth::check_session_id.                                                  *)
Usable(s) == s \in valid

OfferCheck(r) ==
  /\ task[r].at = "offering"
  /\ \E row \in task[r].rows :
       task' = [task EXCEPT ![r].at = IF Usable(row[1]) THEN "putting" ELSE "dropping",
                            ![r].hooks = {row[2]}, ![r].rows = @ \ {row}]
  /\ UNCHANGED <<sessions, store, gate, disturbed>> /\ Silent

(* Store::offer, if the hook is still bound to this receiver.               *)
OfferPut(r) ==
  /\ task[r].at = "putting"
  /\ out' = [h \in Hooks |-> IF h \in task[r].hooks \cap Bound(r) THEN hooks[h].by ELSE out[h]]
  /\ task' = [task EXCEPT ![r].at = "offering", ![r].hooks = {}]
  /\ UNCHANGED <<sessions, hooks, gate, disturbed>> /\ Silent

(* A hook whose session has ended is withdrawn, unless somebody has done so *)
(* already: then the connection ends.                                       *)
OfferDrop(r) ==
  LET hs == task[r].hooks IN
  /\ task[r].at = "dropping"
  /\ \/ /\ \A h \in hs : hooks[h].to = r
        /\ Hand(hs, "disconnected", None, None)
        /\ hub' = PauseAll({r} \X hs)
        /\ task' = [task EXCEPT ![r].at = "offering", ![r].hooks = {}]
        /\ UNCHANGED gate
     \/ /\ \E h \in hs : hooks[h].to # r
        /\ task' = [task EXCEPT ![r] = [Idle EXCEPT !.at = "broken"]]
        /\ LetGo(r)
        /\ UNCHANGED <<store, hub>>
  /\ UNCHANGED <<sessions, told, ended, disturbed>>

OfferEnd(r) ==
  /\ task[r].at = "offering" /\ task[r].rows = {}
  /\ End(r)
  /\ UNCHANGED <<sessions, store, disturbed>> /\ Silent

(* Every 30 seconds: the sessions the connection has shown are confirmed    *)
(* with Accounts, one after the other.                                      *)
Validate(r) ==
  LET shown == hub[r].auth \cup ({hub[r].watch} \ {None}) IN
  /\ task[r].at = "idle" /\ shown # {}
  /\ task' = [task EXCEPT ![r].at = "validating", ![r].by = shown]
  /\ UNCHANGED <<sessions, store, gate, disturbed>> /\ Silent

Confirm(r, s) ==
  /\ task[r].at = "validating" /\ s \in task[r].by /\ Confirmed({s})
  /\ task' = [task EXCEPT ![r].by = @ \ {s}]
  /\ UNCHANGED <<sessions, store, gate, disturbed>> /\ Silent

(* A session that is not confirmed loses its hooks, entry and watch.        *)
Withdraw(r, s) ==
  LET hs == {h \in Bound(r) : hooks[h].by = s} IN
  /\ task[r].at = "validating" /\ s \in task[r].by /\ gate = None
  /\ \/ ~Confirmed({s}) /\ UNCHANGED disturbed
     \/ Disturb("outage")
  /\ Hand(hs, "disconnected", None, None)
  /\ hub' = [hub EXCEPT ![r] = Forget(PauseAll({r} \X hs)[r], s)]
  /\ task' = [task EXCEPT ![r].by = @ \ {s}]
  /\ UNCHANGED <<sessions, gate, told, ended>>

ValidateEnd(r) ==
  /\ task[r].at = "validating" /\ task[r].by = {}
  /\ End(r)
  /\ UNCHANGED <<sessions, store, disturbed>> /\ Silent

(* The client is gone, or the connection was cut: it stops waiting for      *)
(* Accounts or the gate.                                                    *)
Lost(r) ==
  /\ \/ Disturb("drop") /\ task[r].at = "idle"
     \/ hub[r].cut /\ task[r].at \in {"idle", "asking", "waiting", "validating"}
        /\ UNCHANGED disturbed
  /\ task' = [task EXCEPT ![r] = [Idle EXCEPT !.at = "broken"]]
  /\ LetGo(r)
  /\ UNCHANGED <<sessions, store>> /\ Silent

\* Mutant: it does not wait for the gate.
CleanupAtOnce(r) ==
  /\ task[r].at = "broken"
  /\ hub' = [hub EXCEPT ![r] = NoReceiver]
  /\ Hand(Bound(r), "disconnected", None, None)
  /\ told' = [told EXCEPT ![r] = {}]
  /\ Goto(r, "gone")
  /\ UNCHANGED <<sessions, gate, ended, disturbed>>

Cleanup(r) ==
  /\ task[r].at = "broken" /\ gate = None
  /\ hub' = [hub EXCEPT ![r] = NoReceiver]
  /\ Hand(Bound(r), "disconnected", None, None)
  /\ told' = [told EXCEPT ![r] = {}]
  /\ Goto(r, "gone")
  /\ UNCHANGED <<sessions, gate, ended, disturbed>>

------------------------------------------------------------------------------
(* A handler is dropped where it waits: for a frame after 30 seconds or     *)
(* when its connection is cut, for a request when its client hangs up.      *)
Cancel(t) ==
  /\ Disturb("cancel") /\ task[t].at \in {"asking", "waiting", "finishing", "revoking"}
  /\ End(t)
  /\ UNCHANGED <<sessions, store>> /\ Silent

(* The process stops and starts again.                                      *)
Crash ==
  /\ Disturb("crash")
  /\ hub' = [r \in Receivers |-> NoReceiver] /\ gate' = None
  /\ hooks' = [h \in Hooks |-> [state |-> IF hooks[h].state = "connected" THEN "disconnected"
                                          ELSE hooks[h].state, to |-> None, by |-> None]]
  /\ out' = [h \in Hooks |-> None]
  /\ told' = [r \in Receivers |-> {}]
  /\ task' = [t \in Tasks |-> IF t \in Callers THEN Idle
                              ELSE IF task[t].at = "closed" THEN task[t]
                              ELSE [Idle EXCEPT !.at = "gone"]]
  /\ UNCHANGED <<sessions, ended>>

(* Accounts ends a session; one that expires ends here as well.             *)
Revoked(s) ==
  /\ s \in active /\ active' = active \ {s}
  /\ \/ Disturb("end") /\ UNCHANGED valid
     \/ Disturb("expire") /\ valid' = valid \ {s}
  /\ UNCHANGED <<pending, store, gate, task>> /\ Silent

------------------------------------------------------------------------------
Store(t) ==
  Bind(t) \/ CreateHook(t) \/ Unsubscribe(t) \/ Detach(t) \/ Invalidate(t)
    \/ Acknowledge(t) \/ Conclude(t)
Working(t) == Authenticate(t) \/ Store(t)
Deleting(c) == Revoke(c) \/ InvalidateSession(c)
Offering(r) == OfferCheck(r) \/ OfferPut(r) \/ OfferDrop(r) \/ OfferEnd(r)
Validating(r) == (\E s \in Sessions : Confirm(r, s)) \/ ValidateEnd(r)
Withdrawing(r) == \E s \in Sessions : Withdraw(r, s)

Next ==
  \/ \E t \in Tasks : Working(t) \/ Enter(t) \/ Cancel(t)
  \/ \E c \in Callers : Request(c) \/ Deleting(c) \/ \E s \in Sessions : Logout(c, s)
  \/ \E r \in Receivers :
       \/ Open(r) \/ Frame(r) \/ Flush(r) \/ Lost(r) \/ Cleanup(r)
       \/ OfferStart(r) \/ Offering(r) \/ Validate(r) \/ Validating(r) \/ Withdrawing(r)
  \/ \E s \in Sessions : RetryRevocation(s) \/ Revoked(s)
  \/ Crash

Spec == Init /\ [][Next]_vars

(* What goes on by itself, whoever else does what.                          *)
Proceed(t) ==
  \/ Working(t)
  \/ (t \in Callers /\ Deleting(t))
  \/ t \in Receivers /\ (Offering(t) \/ Validating(t) \/ (hub[t].cut /\ Lost(t)))

(* What waits for the gate, which is given to everybody in turn.            *)
Admit(t) == Enter(t) \/ (t \in Receivers /\ (Withdrawing(t) \/ Cleanup(t)))

(* Both timers of a connection come round, although the other one and       *)
(* frames do as well, and so does that of the revocations.                  *)
Fairness ==
  /\ \A t \in Tasks : WF_vars(Proceed(t)) /\ SF_vars(Admit(t))
  /\ \A r \in Receivers : SF_vars(OfferStart(r)) /\ SF_vars(Validate(r))
  /\ \A s \in Sessions : WF_vars(RetryRevocation(s))

FairSpec == Spec /\ Fairness

------------------------------------------------------------------------------
(* Properties.                                                              *)

(* A client that was told that a hook is subscribed, and is still           *)
(* connected, has the hook or is about to be paused: "A missed pause must   *)
(* terminate the connection, never leave it forwarding."                    *)
PauseComing(r, h) ==
  \/ \E i \in DOMAIN hub[r].queue : h \in hub[r].queue[i].hooks
  \/ \E t \in Tasks : task[t].at = "finishing" /\ <<r, h>> \in task[t].rows

PauseIsNeverMissed ==
  \A r \in Receivers : hub[r].open /\ ~hub[r].cut /\ task[r].at # "broken" =>
    \A h \in told[r] : hooks[h].to = r \/ PauseComing(r, h)

(* Once the deletion of a session was answered, nothing is offered under it *)
(* any more, although deleting it does not wait for subscriptions, requests *)
(* and offers that checked it before.                                       *)
NothingOutAfterLogout == \A h \in Hooks : out[h] \notin ended

(* No hook is bound to a connection that is over, where nothing would ever  *)
(* release it.                                                              *)
BoundIsConnected == \A h \in Hooks : hooks[h].to # None => hub[hooks[h].to].open

(* A hook bound under a session that has ended here is let go in the end,   *)
(* even if it was bound after the session ended.                            *)
RevokedIsWithdrawn ==
  \A h \in Hooks, s \in Sessions : hooks[h].by = s /\ s \notin valid ~> hooks[h].by # s

(* So does a watch end whose session has ended at Accounts.                 *)
WatchEnds ==
  \A r \in Receivers, s \in Sessions : hub[r].watch = s /\ s \notin active ~> hub[r].watch # s

(* What was signed out here is signed out at Accounts in the end, over lost *)
(* answers and restarts.                                                    *)
SignsOutAtAccounts == \A s \in Sessions : s \notin valid ~> s \notin active

(* "A connected transport never extends session authority."                 *)
EndedIsWithdrawn ==
  \A h \in Hooks, s \in Sessions : hooks[h].by = s /\ s \notin active ~> hooks[h].by # s
==============================================================================
