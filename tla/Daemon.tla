-------------------------------- MODULE Daemon --------------------------------
(***************************************************************************)
(* The local daemon (crates/ting-daemon/src/main.rs) at work: its queue    *)
(* and hooks on disk, the loop that owns its one WebSocket, the tasks that *)
(* restore bindings, one worker for each hook, the commands of the user,   *)
(* and what the server and the destinations do to it.                      *)
(*                                                                         *)
(* A task runs without interruption between two waits for the network, so  *)
(* that stretch is one action; whatever happens while it waits happens     *)
(* between two of its actions.  A task that asks the server something      *)
(* (`ws` in the code) waits in `wait` until the socket loop resolves it.   *)
(*                                                                         *)
(* One profile and one API origin are modelled, and its hooks exist        *)
(* already.  Everything the environment, the user and the clock do is      *)
(* counted in `disturbed`: a bound on it lets the system settle.           *)
(***************************************************************************)
EXTENDS Naturals, Sequences, FiniteSets, SequencesExt

CONSTANTS
  Hooks,        \* the hooks of the profile
  Messages,     \* messages the hooks owe
  Tokens,       \* session tokens, the first one logged in at the start
  Restorers,    \* restoring tasks that may run at once
  Command,      \* the command of the user
  Probed,       \* the hooks with a health URL
  Disturbances, \* the kinds of disturbance of this instance
  MaxDisturbed, \* bound on their number
  MaxFrames,    \* bound on the frames in flight when an offer is made
  None          \* nothing

ASSUME DaemonAssumption ==
  /\ Restorers \cap Hooks = {} /\ Command \notin Restorers \cup Hooks
  /\ None \notin Hooks \cup Messages \cup Tokens \cup Restorers \cup {Command}
  /\ MaxDisturbed \in Nat /\ MaxFrames \in Nat

VARIABLES
  (* on the disk of the daemon *)
  hooks,    \* table hooks: state, failing, token_hash, health
  queue,    \* table queue: what the daemon holds of each hook's messages
  session,  \* the profile's session file
  (* in its memory *)
  socket,   \* SocketStatus: is it up, and the authorized and blocked hooks
  restores, \* the tasks running restore
  jobs,     \* the worker of each hook
  command,  \* the command of the user
  wait,     \* what each of these tasks waits for, or has been answered
  (* on the way *)
  requests, \* from the daemon, first sent first
  frames,   \* from the server, first sent first
  pauses,   \* control frames the server's connection has yet to send
  (* at the server *)
  server,   \* to whom each hook is bound, and under which session
  copies,   \* what the server believes of each hook's copies
  inbox,    \* the messages it stores
  muted,    \* those its recipient has muted
  live,     \* the sessions it accepts
  authed,   \* the session this connection has shown
  (* elsewhere *)
  age,      \* months a message has lived: 0, 1 or 3
  answered, \* what each destination has answered 204 for
  disturbed \* how many disturbances there were

disk == <<hooks, queue, session>>
tasks == <<restores, jobs, command>>
link == <<requests, frames, pauses>>
binding == <<server, copies, authed>>
remote == <<server, copies, inbox, muted, live, authed>>
world == <<age, answered>>
vars == <<disk, socket, tasks, wait, link, remote, world, disturbed>>

HookStates == {"attached", "pause_pending", "paused", "auth_paused", "detached"}
Held == {"none", "stale", "ready", "accepted"}
CopyStates == {"owed", "seen", "out", "queued", "read"}
Bindings == {"free", "here", "other", "paused", "detached"}
Waiters == Restorers \cup Hooks \cup {Command}
Answers == {"ok", "error", "invalid"}

Frame(op, hs, ts, by) == [op |-> op, hooks |-> hs, tings |-> ts, by |-> by]
Request(op, hs, ts, by, token) ==
  [op |-> op, hooks |-> hs, tings |-> ts, by |-> by, token |-> token]
RequestOps == {"subscribe", "unsubscribe", "pause", "delivery", "read"}
Requests == [op : RequestOps, hooks : SUBSET Hooks, tings : SUBSET Messages,
             by : Waiters \cup {None}, token : Tokens \cup {None}]
Reasons == {"preference_changed", "binding_replaced", "hook_detached", "session_expired",
            "authorization_unavailable"}
Frames == [op : {"tings", "subscribed"} \cup Answers \cup Reasons,
           hooks : SUBSET Hooks, tings : SUBSET Messages, by : Waiters \cup {None}]

Resting == [at |-> "idle", todo |-> {}, hook |-> None, attach |-> {},
            tokens |-> [h \in Hooks |-> None]]
Waiting == [at |-> "idle", batch |-> {}, check |-> {}, token |-> None]
NoCommand == [at |-> "idle", op |-> "none", todo |-> {}, hook |-> None,
              token |-> None, fresh |-> FALSE]

TypeOK ==
  /\ hooks \in [Hooks -> [state : HookStates, failing : {"no", "recent", "long"},
                          token : Tokens, health : BOOLEAN]]
  /\ queue \in [Hooks -> [Messages -> Held]]
  /\ session \in Tokens \cup {None}
  /\ socket \in [up : BOOLEAN, authorized : SUBSET Hooks, blocked : SUBSET Hooks]
  /\ restores \in [Restorers -> [at : {"idle", "next", "subscribing", "pausing", "attaching"},
                                 todo : SUBSET Hooks, hook : Hooks \cup {None},
                                 attach : SUBSET Hooks, tokens : [Hooks -> Tokens \cup {None}]]]
  /\ jobs \in [Hooks -> [at : {"idle", "acking", "clearing", "pausing", "probing",
                               "checking", "posting"},
                         batch : SUBSET Messages, check : SUBSET Messages,
                         token : Tokens \cup {None}]]
  /\ command \in [at : {"idle", "greeting", "patching", "saving", "binding", "unhooking",
                        "leaving", "left"},
                  op : {"none", "reconnect", "attach", "unhook", "logout"},
                  todo : SUBSET Hooks, hook : Hooks \cup {None},
                  token : Tokens \cup {None}, fresh : BOOLEAN]
  /\ wait \in [Waiters -> {"none", "asked"} \cup Answers]
  /\ requests \in Seq(Requests) /\ frames \in Seq(Frames) /\ pauses \in Seq(Frames)
  /\ server \in [Hooks -> [state : Bindings, token : Tokens \cup {None}]]
  /\ copies \in [Hooks -> [Messages -> CopyStates]]
  /\ inbox \subseteq Messages /\ muted \subseteq Messages
  /\ live \subseteq Tokens /\ authed \in Tokens \cup {None}
  /\ age \in [Messages -> {0, 1, 3}]
  /\ answered \in [Hooks -> SUBSET Messages]
  /\ disturbed \in 0 .. MaxDisturbed

(* A daemon that has just opened its store, and a server that owes the      *)
(* messages to hooks nobody is bound to.                                    *)
Init ==
  \E t \in Tokens :
    /\ hooks = [h \in Hooks |-> [state |-> "attached", failing |-> "no",
                                 token |-> t, health |-> h \in Probed]]
    /\ queue = [h \in Hooks |-> [m \in Messages |-> "none"]]
    /\ session = t
    /\ socket = [up |-> FALSE, authorized |-> {}, blocked |-> {}]
    /\ restores = [r \in Restorers |-> Resting]
    /\ jobs = [h \in Hooks |-> Waiting]
    /\ command = NoCommand
    /\ wait = [w \in Waiters |-> "none"]
    /\ requests = <<>> /\ frames = <<>> /\ pauses = <<>>
    /\ server = [h \in Hooks |-> [state |-> "free", token |-> None]]
    /\ copies = [h \in Hooks |-> [m \in Messages |-> "owed"]]
    /\ inbox = Messages /\ muted = {} /\ live = {t} /\ authed = None
    /\ age = [m \in Messages |-> 0]
    /\ answered = [h \in Hooks |-> {}]
    /\ disturbed = 0

Disturb(kind) ==
  /\ kind \in Disturbances
  /\ disturbed < MaxDisturbed
  /\ disturbed' = disturbed + 1

------------------------------------------------------------------------------
(* Asking the server, and losing what was asked.                            *)

SessionFor(h) == session # None /\ hooks[h].token = session

(* A task queues a request for the socket loop and waits for its answer.    *)
Ask(w, op, hs, ts, token) ==
  /\ requests' = Append(requests, Request(op, hs, ts, w, token))
  /\ wait' = [wait EXCEPT ![w] = "asked"]

Answered(w) == wait[w] \in Answers
Granted(w) == wait[w] = "ok"
Stop(w) == wait' = [wait EXCEPT ![w] = "none"]

(* The task gave up: a request that was not sent yet is skipped, one that   *)
(* was, and the reply to it, are nobody's.                                  *)
Orphaned(q, w) == [i \in DOMAIN q |-> IF q[i].by = w THEN [q[i] EXCEPT !.by = None] ELSE q[i]]

Forsake(w) ==
  /\ \/ socket.up /\ requests' = Orphaned(requests, w)
     \/ \E i \in DOMAIN requests : requests[i].by = w /\ requests' = RemoveAt(requests, i)
     \/ (\A i \in DOMAIN requests : requests[i].by # w) /\ UNCHANGED requests
  /\ frames' = Orphaned(frames, w)

(* `ws` gives up after 29 seconds, whatever becomes of its request.         *)
TimeOut(w) ==
  /\ Disturb("timeout") /\ wait[w] = "asked"
  /\ wait' = [wait EXCEPT ![w] = "error"]
  /\ Forsake(w)
  /\ UNCHANGED <<disk, socket, tasks, pauses, remote, world>>

(* Queued copies the destination has not taken need a new offer.            *)
Staled(q, hs) ==
  [h \in Hooks |-> IF h \in hs THEN [m \in Messages |-> IF q[h][m] = "ready" THEN "stale" ELSE q[h][m]]
                   ELSE q[h]]

\* Mutant: the server forgets to take back what was under way.
ResetNothing(c, hs) == c

(* What the server takes back when a hook is bound anew or let go.          *)
Reset(c, hs) ==
  [h \in Hooks |->
     IF h \in hs THEN [m \in Messages |-> IF c[h][m] \in {"out", "queued"} THEN "seen" ELSE c[h][m]]
     ELSE c[h]]

(* The hooks change hands.                                                  *)
Hand(hs, state, token) ==
  /\ server' = [h \in Hooks |-> IF h \in hs THEN [state |-> state, token |-> token] ELSE server[h]]
  /\ copies' = Reset(copies, hs)

BoundHere == {h \in Hooks : server[h].state = "here"}

(* A hook the server takes from this connection is paused there.            *)
Pausing(hs, reason) ==
  pauses' = IF hs \cap BoundHere = {} THEN pauses
            ELSE Append(pauses, Frame(reason, hs \cap BoundHere, {}, None))

Withdraw(hs, state, reason) == Hand(hs, state, None) /\ Pausing(hs, reason)

(* Hub::invalidate: every bound hook of the recipient is let go.            *)
Reached == {h \in Hooks : server[h].state \in {"here", "other"}}
Unreach ==
  /\ server' = [h \in Hooks |-> IF h \in Reached THEN [state |-> "free", token |-> None]
                                ELSE server[h]]
  /\ Pausing(Reached, "preference_changed")

------------------------------------------------------------------------------
(* The socket loop.                                                         *)

Connect ==
  /\ ~socket.up
  /\ requests # <<>> \/ \E h \in Hooks : hooks[h].state \in {"attached", "pause_pending"}
  /\ socket' = [socket EXCEPT !.up = TRUE, !.authorized = {}]
  /\ UNCHANGED <<disk, tasks, wait, link, remote, world, disturbed>>

(* The connection is gone: of the requests the first ones had been sent and *)
(* are lost with their answers, among them all that nobody waits for.  For  *)
(* the server the receiver lingers.                                         *)
CutConnection ==
  /\ frames' = <<>> /\ pauses' = <<>>
  /\ Hand(BoundHere, "other", None)
  /\ authed' = None

Lose ==
  /\ Disturb("drop") /\ socket.up
  /\ socket' = [socket EXCEPT !.up = FALSE, !.authorized = {}]
  /\ queue' = Staled(queue, Hooks)
  /\ \E sent \in 0 .. Len(requests) :
       LET unsent == sent + 1 .. Len(requests) IN
       /\ \A i \in unsent : requests[i].by # None
       /\ requests' = SubSeq(requests, sent + 1, Len(requests))
       /\ wait' = [w \in Waiters |->
                     IF wait[w] = "asked" /\ \A i \in unsent : requests[i].by # w THEN "error"
                     ELSE wait[w]]
  /\ command' = [command EXCEPT !.fresh = FALSE]
  /\ CutConnection
  /\ UNCHANGED <<hooks, session, restores, jobs, inbox, muted, live, world>>

\* Mutant: a repeated offer makes a new copy of what was accepted.
ReceiveTingsAnew ==
  LET f == Head(frames)
      kept == {m \in f.tings : age[m] < 3} IN
  /\ f.op = "tings"
  /\ queue' = [h \in Hooks |-> IF h \in f.hooks
                 THEN [m \in Messages |-> IF m \in kept THEN "ready" ELSE queue[h][m]]
                 ELSE queue[h]]
  /\ requests' = IF kept = {} THEN requests
                 ELSE Append(requests, Request("delivery", f.hooks, kept, None, None))
  /\ UNCHANGED <<hooks, socket, wait>>

(* A batch is saved before it is acknowledged, what has expired is neither. *)
ReceiveTings ==
  LET f == Head(frames)
      kept == {m \in f.tings : age[m] < 3} IN
  /\ f.op = "tings"
  /\ queue' = [h \in Hooks |-> IF h \in f.hooks
                 THEN [m \in Messages |-> IF m \in kept /\ queue[h][m] # "accepted" THEN "ready"
                                          ELSE queue[h][m]]
                 ELSE queue[h]]
  /\ requests' = IF kept = {} THEN requests
                 ELSE Append(requests, Request("delivery", f.hooks, kept, None, None))
  /\ UNCHANGED <<hooks, socket, wait>>

\* Mutant: the paused hooks stay authorized.
ReceivePauseKept ==
  LET f == Head(frames)
      state == CASE f.op \in {"hook_detached", "binding_replaced"} -> "detached"
                 [] f.op = "session_expired" -> "auth_paused"
                 [] OTHER -> "same" IN
  /\ f.op \in Reasons
  /\ queue' = Staled(queue, f.hooks)
  /\ hooks' = [h \in Hooks |-> IF h \in f.hooks /\ state # "same"
                               THEN [hooks[h] EXCEPT !.state = state] ELSE hooks[h]]
  /\ UNCHANGED <<socket, requests, wait>>

ReceivePause ==
  LET f == Head(frames)
      state == CASE f.op \in {"hook_detached", "binding_replaced"} -> "detached"
                 [] f.op = "session_expired" -> "auth_paused"
                 [] OTHER -> "same" IN
  /\ f.op \in Reasons
  /\ socket' = [socket EXCEPT !.authorized = @ \ f.hooks]
  /\ queue' = Staled(queue, f.hooks)
  /\ hooks' = [h \in Hooks |-> IF h \in f.hooks /\ state # "same"
                               THEN [hooks[h] EXCEPT !.state = state] ELSE hooks[h]]
  /\ UNCHANGED <<requests, wait>>

\* Mutant: a subscription authorizes hooks a logout has blocked.
ReceiveAnswerUnblocked ==
  LET f == Head(frames) IN
  /\ f.op \in {"subscribed"} \cup Answers
  /\ socket' = IF f.op = "subscribed" THEN [socket EXCEPT !.authorized = @ \cup f.hooks]
               ELSE socket
  /\ wait' = IF f.by = None THEN wait
             ELSE [wait EXCEPT ![f.by] = IF f.op = "subscribed" THEN "ok" ELSE f.op]
  /\ UNCHANGED <<hooks, queue, requests>>

ReceiveAnswer ==
  LET f == Head(frames) IN
  /\ f.op \in {"subscribed"} \cup Answers
  /\ socket' = IF f.op = "subscribed"
               THEN [socket EXCEPT !.authorized = @ \cup (f.hooks \ socket.blocked)]
               ELSE socket
  /\ wait' = IF f.by = None THEN wait
             ELSE [wait EXCEPT ![f.by] = IF f.op = "subscribed" THEN "ok" ELSE f.op]
  /\ UNCHANGED <<hooks, queue, requests>>

Receive ==
  /\ socket.up /\ frames # <<>>
  /\ frames' = Tail(frames)
  /\ ReceiveTings \/ ReceivePause \/ ReceiveAnswer
  /\ UNCHANGED <<session, tasks, pauses, remote, world, disturbed>>

(* The daemon stops and starts: Store::open drops the eligibility of what   *)
(* it holds and what has expired; nothing in memory survives.               *)
Crash ==
  /\ Disturb("crash")
  /\ queue' = [h \in Hooks |-> [m \in Messages |->
                 IF age[m] = 3 THEN "none" ELSE Staled(queue, Hooks)[h][m]]]
  /\ socket' = [up |-> FALSE, authorized |-> {}, blocked |-> {}]
  /\ restores' = [r \in Restorers |-> Resting]
  /\ jobs' = [h \in Hooks |-> Waiting]
  /\ command' = NoCommand
  /\ wait' = [w \in Waiters |-> "none"]
  /\ requests' = <<>>
  /\ CutConnection
  /\ UNCHANGED <<hooks, session, inbox, muted, live, world>>

------------------------------------------------------------------------------
(* Restoring bindings: on connecting, after a pause and every 30 seconds.   *)

\* Mutant: the state is written to the wrong column.
SetStateMisplaced(h, state) == hooks' = [hooks EXCEPT ![h].failing = state]

SetState(h, state) == hooks' = [hooks EXCEPT ![h].state = state]

Unauthorize(hs) == socket' = [socket EXCEPT !.authorized = @ \ hs]

(* A restore works on the hooks as it reads them at its start.              *)
RestoreStart(r) ==
  /\ socket.up /\ restores[r].at = "idle"
  /\ LET cut == {h \in Hooks : \/ hooks[h].state = "pause_pending"
                               \/ hooks[h].state = "attached" /\ hooks[h].failing = "long"}
         attach == {h \in Hooks : hooks[h].state = "attached"} \ (cut \cup socket.authorized)
     IN /\ cut \cup attach # {}
        /\ restores' = [restores EXCEPT ![r] = [at |-> "next", todo |-> cut, hook |-> None,
                                                attach |-> attach,
                                                tokens |-> [h \in Hooks |-> hooks[h].token]]]
  /\ UNCHANGED <<disk, socket, jobs, command, wait, link, remote, world, disturbed>>

Remembers(r, h) == session # None /\ restores[r].tokens[h] = session

(* A hook past its twelve hours: the cutoff is saved first, then the hook   *)
(* is bound so that it can be paused at the server.                         *)
RestoreCut(r, h) ==
  /\ restores[r].at = "next" /\ h \in restores[r].todo
  /\ SetState(h, "pause_pending")
  /\ \/ /\ Remembers(r, h)
        /\ Ask(r, "subscribe", {h}, {}, session)
        /\ restores' = [restores EXCEPT ![r].at = "subscribing", ![r].hook = h]
        /\ UNCHANGED socket
     \/ /\ ~Remembers(r, h)
        /\ Unauthorize({h})
        /\ restores' = [restores EXCEPT ![r].todo = @ \ {h}]
        /\ UNCHANGED <<requests, wait>>
  /\ UNCHANGED <<queue, session, jobs, command, frames, pauses, remote, world, disturbed>>

RestorePause(r) ==
  /\ restores[r].at = "subscribing" /\ Granted(r)
  /\ Ask(r, "pause", {restores[r].hook}, {}, None)
  /\ restores' = [restores EXCEPT ![r].at = "pausing"]
  /\ UNCHANGED <<disk, socket, jobs, command, frames, pauses, remote, world, disturbed>>

(* Paused at the server, or refused on the way there.                       *)
RestorePaused(r) ==
  LET h == restores[r].hook IN
  /\ Answered(r) /\ Stop(r)
  /\ \/ restores[r].at = "pausing" /\ Granted(r) /\ SetState(h, "paused")
     \/ restores[r].at \in {"subscribing", "pausing"} /\ ~Granted(r) /\ UNCHANGED hooks
  /\ Unauthorize({h})
  /\ restores' = [restores EXCEPT ![r].at = "next", ![r].todo = @ \ {h}, ![r].hook = None]
  /\ UNCHANGED <<queue, session, jobs, command, link, remote, world, disturbed>>

(* All other attached hooks of the profile in one subscription.             *)
RestoreAttach(r) ==
  LET attach == restores[r].attach IN
  /\ restores[r].at = "next" /\ restores[r].todo = {}
  /\ \/ /\ \E h \in attach : Remembers(r, h)
        /\ Ask(r, "subscribe", attach, {}, session)
        /\ restores' = [restores EXCEPT ![r].at = "attaching"]
     \/ /\ attach = {} \/ \E h \in attach : ~Remembers(r, h)
        /\ restores' = [restores EXCEPT ![r] = Resting]
        /\ UNCHANGED <<requests, wait>>
  /\ UNCHANGED <<disk, socket, jobs, command, frames, pauses, remote, world, disturbed>>

RestoreDone(r) ==
  /\ restores[r].at = "attaching" /\ Answered(r)
  /\ Stop(r)
  /\ restores' = [restores EXCEPT ![r] = Resting]
  /\ UNCHANGED <<disk, socket, jobs, command, link, remote, world, disturbed>>

RestoreStep(r) ==
  \/ \E h \in Hooks : RestoreCut(r, h)
  \/ RestorePause(r) \/ RestorePaused(r) \/ RestoreAttach(r) \/ RestoreDone(r)

------------------------------------------------------------------------------
(* A worker: at most one for each hook.                                     *)

\* Mutant: a batch holds copies whatever their eligibility.
HoldingStale(h, what) ==
  {m \in Messages : queue[h][m] \in IF what = "ready" THEN {"ready", "stale"} ELSE {what}}

Holding(h, what) == {m \in Messages : queue[h][m] = what}

Fresh(ms) == {m \in ms : age[m] < 3}

\* Mutant: it deletes what is a month old.
ReadMonth(h, what) ==
  queue' = [queue EXCEPT ![h] = [m \in Messages |->
              IF @[m] \in what /\ age[m] > 0 THEN "none" ELSE @[m]]]

(* Reading a batch deletes what has expired of it.                          *)
Read(h, what) ==
  queue' = [queue EXCEPT ![h] = [m \in Messages |->
              IF @[m] \in what /\ age[m] = 3 THEN "none" ELSE @[m]]]

MonthOld(h) == {m \in Messages : queue[h][m] # "none" /\ age[m] > 0}
Working(h) ==
  /\ jobs[h].at = "idle" /\ hooks[h].state = "attached"
  /\ h \in socket.authorized /\ SessionFor(h)

(* A job works on the hook as it was read for it.                           *)
Token(h) == IF jobs[h].at = "idle" THEN hooks[h].token ELSE jobs[h].token
Mine(h) == session # None /\ Token(h) = session

SetJob(h, at, batch, check) ==
  jobs' = [jobs EXCEPT ![h] = [at |-> at, batch |-> batch, check |-> check, token |-> Token(h)]]
EndJob(h) == jobs' = [jobs EXCEPT ![h] = Waiting]
Quiet == UNCHANGED <<session, restores, command, frames, pauses, remote>>

(* What the destination has taken is acknowledged before anything else.     *)
JobAck(h) ==
  LET ids == Fresh(Holding(h, "accepted")) IN
  /\ Working(h) /\ ids # {}
  /\ Read(h, {"accepted"})
  /\ Ask(h, "read", {h}, ids, None)
  /\ SetJob(h, "acking", ids, {})
  /\ Quiet /\ UNCHANGED <<hooks, socket, world, disturbed>>

(* Twelve hours of failures.                                                *)
JobPause(h) ==
  /\ Working(h) /\ Fresh(Holding(h, "accepted")) = {} /\ hooks[h].failing = "long"
  /\ Read(h, {"accepted"})
  /\ SetState(h, "pause_pending")
  /\ Unauthorize({h})
  /\ Ask(h, "pause", {h}, {}, None)
  /\ SetJob(h, "pausing", {}, {})
  /\ Quiet /\ UNCHANGED <<world, disturbed>>

JobPaused(h) ==
  /\ jobs[h].at = "pausing" /\ Answered(h)
  /\ Stop(h)
  /\ IF Granted(h) THEN SetState(h, "paused") ELSE UNCHANGED hooks
  /\ EndJob(h)
  /\ Quiet /\ UNCHANGED <<queue, socket, requests, world, disturbed>>

(* From a batch in hand to the post: with a month-old message in it the     *)
(* server is asked first, and the hook and the session are checked again.   *)
Forward(h, batch) ==
  \/ /\ \E m \in batch : age[m] > 0
     /\ Mine(h) /\ SetJob(h, "checking", batch, MonthOld(h))
  \/ /\ \A m \in batch : age[m] = 0
     /\ h \in socket.authorized /\ Mine(h) /\ batch # {}
     /\ SetJob(h, "posting", batch, {})
  \/ /\ h \notin socket.authorized \/ ~Mine(h) \/ batch = {}
     /\ EndJob(h)

JobStart(h) ==
  LET batch == Fresh(Holding(h, "ready")) IN
  /\ Working(h) /\ Fresh(Holding(h, "accepted")) = {} /\ hooks[h].failing # "long"
  /\ batch # {}
  /\ Read(h, {"accepted", "ready"})
  /\ IF hooks[h].failing = "recent" /\ hooks[h].health THEN SetJob(h, "probing", batch, {})
     ELSE Forward(h, batch)
  /\ Quiet /\ UNCHANGED <<hooks, socket, wait, requests, world, disturbed>>

(* The health URL answers, refuses HEAD for good, or is not well.  A        *)
(* healthy hook may still have to wait for its next attempt.                *)
JobProbed(h) ==
  /\ jobs[h].at = "probing"
  /\ Forward(h, jobs[h].batch) \/ EndJob(h)
  /\ UNCHANGED hooks \/ hooks' = [hooks EXCEPT ![h].health = FALSE]
  /\ Quiet /\ UNCHANGED <<queue, socket, wait, requests, world, disturbed>>

\* Mutant: any answer counts as the message's absence.
KnownNever(m) == FALSE

(* cleanup_missing asks for one month-old message after the other and       *)
(* forgets those the server does not have.                                  *)
Known(m) == m \in inbox

Forget(h, m) == queue' = [queue EXCEPT ![h][m] = IF Known(m) THEN @ ELSE "none"]

JobCheck(h, m) ==
  /\ jobs[h].at \in {"checking", "clearing"} /\ m \in jobs[h].check
  /\ jobs[h].token \in live
  /\ Forget(h, m)
  /\ jobs' = [jobs EXCEPT ![h].check = @ \ {m}]
  /\ Quiet /\ UNCHANGED <<hooks, socket, wait, requests, world, disturbed>>

(* The batch is read again.  Any request that fails ends the work.          *)
JobChecked(h) ==
  LET batch == Fresh(Holding(h, "ready")) IN
  /\ jobs[h].at \in {"checking", "clearing"}
  /\ \/ /\ jobs[h].at = "checking" /\ jobs[h].check = {}
        /\ Read(h, {"ready"})
        /\ IF batch # {} /\ h \in socket.authorized /\ Mine(h)
           THEN SetJob(h, "posting", batch, {}) ELSE EndJob(h)
        /\ UNCHANGED disturbed
     \/ /\ \/ jobs[h].at = "clearing" /\ jobs[h].check = {}
           \/ jobs[h].token \notin live
        /\ EndJob(h) /\ UNCHANGED <<queue, disturbed>>
     \/ /\ Disturb("timeout")
        /\ EndJob(h) /\ UNCHANGED queue
  /\ Quiet /\ UNCHANGED <<hooks, socket, wait, requests, world>>

(* The destination takes the batch and the daemon hears of it.              *)
Mark(h) ==
  queue' = [queue EXCEPT ![h] = [m \in Messages |->
              IF m \in jobs[h].batch /\ @[m] # "none" THEN "accepted" ELSE @[m]]]

JobAccepted(h) ==
  /\ jobs[h].at = "posting"
  /\ answered' = [answered EXCEPT ![h] = @ \cup jobs[h].batch]
  /\ Mark(h)
  /\ hooks' = [hooks EXCEPT ![h].failing = "no"]
  /\ IF h \in socket.authorized
     THEN /\ Ask(h, "read", {h}, jobs[h].batch, None)
          /\ SetJob(h, "acking", jobs[h].batch, {})
     ELSE EndJob(h) /\ UNCHANGED <<requests, wait>>
  /\ Quiet /\ UNCHANGED <<socket, age, disturbed>>

\* Mutant: any answer of the destination counts.
JobFailedMarks(h) ==
  /\ jobs[h].at = "posting"
  /\ \/ Disturb("refuse") /\ UNCHANGED answered
     \/ Disturb("lost") /\ answered' = [answered EXCEPT ![h] = @ \cup jobs[h].batch]
  /\ Mark(h)
  /\ EndJob(h)
  /\ Quiet /\ UNCHANGED <<hooks, socket, wait, requests, age>>

(* The destination refuses the batch, or takes it and its answer is lost.   *)
JobFailed(h) ==
  /\ jobs[h].at = "posting"
  /\ \/ Disturb("refuse") /\ UNCHANGED answered
     \/ Disturb("lost") /\ answered' = [answered EXCEPT ![h] = @ \cup jobs[h].batch]
  /\ hooks' = [hooks EXCEPT ![h].failing = IF @ = "no" THEN "recent" ELSE @]
  /\ EndJob(h)
  /\ Quiet /\ UNCHANGED <<queue, socket, wait, requests, age>>

(* The server knows the messages are read: they leave the queue.            *)
Done(h) ==
  queue' = [queue EXCEPT ![h] = [m \in Messages |->
              IF m \in jobs[h].batch /\ @[m] = "accepted" THEN "none" ELSE @[m]]]

JobAcked(h) ==
  /\ jobs[h].at = "acking" /\ Answered(h)
  /\ Stop(h)
  /\ \/ /\ wait[h] = "ok"
        /\ Done(h) /\ EndJob(h)
     \/ /\ wait[h] = "invalid" /\ Mine(h)
        /\ SetJob(h, "clearing", {}, MonthOld(h)) /\ UNCHANGED queue
     \/ /\ \/ wait[h] = "error"
           \/ wait[h] = "invalid" /\ ~Mine(h)
        /\ EndJob(h) /\ UNCHANGED queue
  /\ Quiet /\ UNCHANGED <<hooks, socket, requests, world, disturbed>>

(* A worker that is not done after 45 seconds is aborted where it waits.    *)
JobAborted(h) ==
  /\ Disturb("timeout") /\ jobs[h].at # "idle"
  /\ Stop(h) /\ Forsake(h)
  /\ EndJob(h)
  /\ UNCHANGED <<disk, socket, restores, command, pauses, remote, world>>

JobStep(h) ==
  \/ JobAck(h) \/ JobPause(h) \/ JobPaused(h) \/ JobStart(h) \/ JobProbed(h)
  \/ \E m \in Messages : JobCheck(h, m)
  \/ JobChecked(h) \/ JobAccepted(h) \/ JobFailed(h) \/ JobAcked(h) \/ JobAborted(h)

(* Hourly: what has expired goes, and what the server no longer has.        *)
Sweep(h, m) ==
  /\ queue[h][m] # "none"
  /\ \/ age[m] = 3 /\ queue' = [queue EXCEPT ![h][m] = "none"]
     \/ age[m] > 0 /\ SessionFor(h) /\ hooks[h].token \in live /\ ~Known(m) /\ Forget(h, m)
  /\ UNCHANGED <<hooks, session, socket, tasks, wait, link, remote, world, disturbed>>

------------------------------------------------------------------------------
(* The user's commands.                                                     *)

SetCommand(at) == command' = [command EXCEPT !.at = at]
EndCommand == command' = NoCommand
Elsewhere == UNCHANGED <<session, restores, jobs, frames, inbox, muted, live, world>>

(* `reconnect` rebinds every hook of the session that is not detached,      *)
(* `webhook --id` one hook whatever its state.  Both greet the server first.*)
Reattach(op, hs) ==
  /\ Disturb(op) /\ command.at = "idle" /\ session # None
  /\ command' = [at |-> "greeting", op |-> op, todo |-> hs, hook |-> None,
                 token |-> session, fresh |-> FALSE]
  /\ Ask(Command, "subscribe", {}, {}, session)
  /\ Elsewhere /\ UNCHANGED <<hooks, queue, socket, pauses, binding>>

Reconnect == Reattach("reconnect", {h \in Hooks : SessionFor(h) /\ hooks[h].state # "detached"})
Attach(h) == Reattach("attach", {h})

(* The receiver to bind to is the connection of this moment.                *)
CommandGreeted ==
  /\ command.at = "greeting" /\ Answered(Command)
  /\ Stop(Command)
  /\ IF Granted(Command) /\ socket.up
     THEN command' = [command EXCEPT !.at = "patching", !.fresh = TRUE]
     ELSE EndCommand
  /\ Elsewhere /\ UNCHANGED <<hooks, queue, socket, requests, pauses, binding, disturbed>>

(* PATCH /webhooks/{id}: only `webhook --id` may take a hook over.          *)
CommandPatch(h) ==
  /\ command.at = "patching" /\ h \in command.todo
  /\ \/ /\ command.fresh /\ authed = command.token /\ authed \in live
        /\ command.op = "attach" \/ server[h].state # "other"
        /\ Hand({h}, "here", authed)
        /\ command' = [command EXCEPT !.at = "saving", !.hook = h]
     \/ /\ \/ ~command.fresh \/ authed # command.token \/ authed \notin live
           \/ server[h].state = "other"
        /\ EndCommand /\ UNCHANGED <<server, copies>>
  /\ Elsewhere /\ UNCHANGED <<hooks, queue, socket, wait, requests, pauses, authed, disturbed>>

CommandSave ==
  LET h == command.hook IN
  /\ command.at = "saving"
  /\ hooks' = [hooks EXCEPT ![h].state = "attached", ![h].failing = "no",
                            ![h].token = IF command.op = "attach" THEN command.token ELSE @]
  /\ socket' = [socket EXCEPT !.blocked = @ \ {h}]
  /\ Ask(Command, "subscribe", {h}, {}, command.token)
  /\ SetCommand("binding")
  /\ Elsewhere /\ UNCHANGED <<queue, pauses, binding, disturbed>>

CommandBound ==
  /\ command.at = "binding" /\ Answered(Command)
  /\ Stop(Command)
  /\ IF Granted(Command) /\ command.todo # {command.hook}
     THEN command' = [command EXCEPT !.at = "patching", !.todo = @ \ {command.hook}, !.hook = None]
     ELSE EndCommand
  /\ Elsewhere /\ UNCHANGED <<hooks, queue, socket, requests, pauses, binding, disturbed>>

(* DELETE /webhooks/{id}, then the local record of it.                      *)
Unhook(h) ==
  /\ Disturb("unhook") /\ command.at = "idle" /\ SessionFor(h) /\ session \in live
  /\ Withdraw({h}, "detached", "hook_detached")
  /\ command' = [NoCommand EXCEPT !.at = "unhooking", !.op = "unhook", !.hook = h]
  /\ Elsewhere /\ UNCHANGED <<hooks, queue, socket, wait, requests, authed>>

CommandUnhooked ==
  /\ command.at = "unhooking"
  /\ SetState(command.hook, "detached")
  /\ Unauthorize({command.hook})
  /\ EndCommand
  /\ Elsewhere /\ UNCHANGED <<queue, wait, requests, pauses, binding, disturbed>>

(* Logging out stops the hooks of the session at once, here; then the       *)
(* server is told about each of them.                                       *)
Logout ==
  LET mine == {h \in Hooks : SessionFor(h)} IN
  /\ Disturb("logout") /\ command.at = "idle" /\ session # None
  /\ socket' = [socket EXCEPT !.authorized = @ \ mine, !.blocked = @ \cup mine]
  /\ hooks' = [h \in Hooks |-> IF h \in mine THEN [hooks[h] EXCEPT !.state = "auth_paused"] ELSE hooks[h]]
  /\ command' = [NoCommand EXCEPT !.at = "leaving", !.op = "logout", !.todo = mine,
                                  !.token = session]
  /\ Elsewhere /\ UNCHANGED <<queue, wait, requests, pauses, binding>>

CommandLeave(h) ==
  /\ command.at = "leaving" /\ h \in command.todo
  /\ Ask(Command, "unsubscribe", {h}, {}, None)
  /\ command' = [command EXCEPT !.at = "left", !.todo = @ \ {h}]
  /\ Elsewhere /\ UNCHANGED <<hooks, queue, socket, pauses, binding, disturbed>>

CommandLeft ==
  /\ command.at = "left" /\ Answered(Command)
  /\ Stop(Command) /\ SetCommand("leaving")
  /\ Elsewhere /\ UNCHANGED <<hooks, queue, socket, requests, pauses, binding, disturbed>>

(* The command line then removes the session file, and the server ends the  *)
(* session and takes its hooks, unless it cannot be reached.                *)
EndSession ==
  /\ command.at = "leaving" /\ command.todo = {}
  /\ session' = None
  /\ \/ /\ live' = live \ {session}
        /\ Withdraw({h \in BoundHere : server[h].token = session}, "free", "session_expired")
        /\ authed' = IF authed = session THEN None ELSE authed
     \/ UNCHANGED <<live, server, copies, authed, pauses>>
  /\ EndCommand
  /\ UNCHANGED <<hooks, queue, socket, restores, jobs, wait, requests, frames, inbox, muted,
                 world, disturbed>>

Login(t) ==
  /\ Disturb("login") /\ session = None
  /\ t \notin live /\ \A h \in Hooks : hooks[h].token # t
  /\ session' = t /\ live' = live \cup {t}
  /\ UNCHANGED <<hooks, queue, socket, tasks, wait, link, binding, inbox, muted, world>>

(* A command is dropped after 30 seconds where it waits; the command line   *)
(* ends the session all the same.                                           *)
CommandAborted ==
  /\ Disturb("timeout") /\ command.at # "idle"
  /\ Stop(Command) /\ Forsake(Command)
  /\ command' = IF command.op = "logout" THEN [command EXCEPT !.at = "leaving", !.todo = {}]
                ELSE NoCommand
  /\ UNCHANGED <<disk, socket, restores, jobs, pauses, remote, world>>

CommandStep ==
  \/ CommandGreeted \/ CommandSave \/ CommandBound \/ CommandUnhooked
  \/ CommandLeft \/ EndSession \/ CommandAborted
  \/ \E h \in Hooks : CommandPatch(h) \/ CommandLeave(h)

------------------------------------------------------------------------------
(* The server, as far as this connection and these hooks go.                *)

Local == UNCHANGED <<disk, socket, tasks, wait>>

(* A reply nobody waits for changes nothing at the daemon, except that      *)
(* every subscription authorizes.                                           *)
Reply(op, r) ==
  frames' = IF r.by = None /\ op # "subscribed" THEN frames
            ELSE Append(frames, Frame(op, IF op = "subscribed" THEN r.hooks ELSE {}, {}, r.by))

(* Either every hook of a subscription is bound or none.                    *)
HandleSubscribe(r) ==
  /\ r.op = "subscribe"
  /\ \/ /\ r.token \in live /\ \A h \in r.hooks : server[h].state \in {"free", "here"}
        /\ Hand(r.hooks, "here", r.token)
        /\ authed' = r.token
        /\ Reply("subscribed", r)
     \/ /\ r.token \notin live \/ \E h \in r.hooks : server[h].state \notin {"free", "here"}
        /\ Reply("error", r)
        /\ UNCHANGED binding
  /\ UNCHANGED pauses

Yours(h) == server[h].state = "here" /\ server[h].token \in live

HandleUnsubscribe(r) ==
  /\ r.op \in {"unsubscribe", "pause"}
  /\ \/ /\ \A h \in r.hooks : Yours(h)
        /\ Hand(r.hooks, IF r.op = "pause" THEN "paused" ELSE "free", None)
        /\ Reply("ok", r)
     \/ /\ \E h \in r.hooks : ~Yours(h)
        /\ Reply("error", r)
        /\ UNCHANGED <<server, copies>>
  /\ UNCHANGED <<pauses, authed>>

(* An acknowledgement is taken whole or refused whole.  The first to read a *)
(* month-old message ends its retention, and every hook is withdrawn.       *)
Acked(r, h) ==
  [copies EXCEPT ![h] = [m \in Messages |->
     IF m \in r.tings /\ @[m] # "read" THEN IF r.op = "read" THEN "read" ELSE "queued"
     ELSE @[m]]]

HandleAck(r) ==
  LET h == CHOOSE h \in r.hooks : TRUE
      valid == {"out", "queued", "read"} \cup IF r.op = "read" THEN {"seen"} ELSE {}
      sound == \A m \in r.tings : m \in inbox /\ copies[h][m] \in valid IN
  /\ r.op \in {"delivery", "read"}
  /\ \/ /\ Yours(h) /\ sound
        /\ \/ copies' = Acked(r, h) /\ UNCHANGED <<server, pauses>>
           \/ /\ r.op = "read" /\ \E m \in r.tings : age[m] > 0 /\ copies[h][m] # "read"
              /\ copies' = Reset(Acked(r, h), Reached)
              /\ Unreach
        /\ Reply("ok", r)
     \/ /\ Yours(h) /\ ~sound
        /\ Reply("invalid", r) /\ UNCHANGED <<server, copies, pauses>>
     \/ /\ ~Yours(h)
        /\ Reply("error", r) /\ UNCHANGED <<server, copies, pauses>>
  /\ UNCHANGED authed

Handle ==
  /\ socket.up /\ requests # <<>>
  /\ requests' = Tail(requests)
  /\ HandleSubscribe(Head(requests)) \/ HandleUnsubscribe(Head(requests))
     \/ HandleAck(Head(requests))
  /\ Local /\ UNCHANGED <<inbox, muted, live, world, disturbed>>

(* Every second: a new window, or again what was not acknowledged of it.    *)
Offer(h) ==
  LET window == {m \in inbox : copies[h][m] \in {"out", "queued"}}
      batch == {m \in inbox : /\ age[m] < 3
                              /\ IF window = {} THEN m \notin muted /\ copies[h][m] # "read"
                                 ELSE copies[h][m] = "out"} IN
  /\ socket.up /\ Yours(h) /\ batch # {} /\ Len(frames) + Len(requests) < MaxFrames
  /\ copies' = [copies EXCEPT ![h] = [m \in Messages |-> IF m \in batch THEN "out" ELSE @[m]]]
  /\ frames' = Append(frames, Frame("tings", {h}, batch, None))
  /\ Local /\ UNCHANGED <<requests, pauses, server, inbox, muted, live, authed, world, disturbed>>

(* The same check finds hooks bound under a session that has ended.         *)
WithdrawExpired(h) ==
  /\ server[h].state = "here" /\ server[h].token \notin live
  /\ Withdraw({h}, "free", "session_expired")
  /\ Local /\ UNCHANGED <<requests, frames, inbox, muted, live, authed, world, disturbed>>

(* Every 30 seconds the account service is asked again about the session:   *)
(* it has ended, or the service does not answer.                            *)
Revalidate ==
  /\ socket.up /\ authed # None
  /\ LET mine == {h \in BoundHere : server[h].token = authed} IN
     \/ /\ authed \notin live /\ UNCHANGED disturbed
        /\ Withdraw(mine, "free", "session_expired")
     \/ /\ Disturb("outage")
        /\ Withdraw(mine, "free", "authorization_unavailable")
  /\ authed' = None
  /\ Local /\ UNCHANGED <<requests, frames, inbox, muted, live, world>>

(* The connection sends its control frames at any moment between others.    *)
SendPause ==
  /\ pauses # <<>>
  /\ pauses' = Tail(pauses) /\ frames' = Append(frames, Head(pauses))
  /\ Local /\ UNCHANGED <<requests, remote, world, disturbed>>

(* A lost connection is noticed and its receiver released.                  *)
ReleaseReceiver(h) ==
  /\ server[h].state = "other"
  /\ Hand({h}, "free", None)
  /\ Local /\ UNCHANGED <<link, inbox, muted, live, authed, world, disturbed>>

(* The recipient mutes or unmutes a message: every hook is withdrawn.       *)
Mute(m) ==
  /\ Disturb("mute")
  /\ muted' = IF m \in muted THEN muted \ {m} ELSE muted \cup {m}
  /\ Unreach /\ copies' = Reset(copies, Reached)
  /\ Local /\ UNCHANGED <<requests, frames, inbox, live, authed, world>>

(* Another device takes a hook over or detaches it.                         *)
Steal(h) ==
  /\ Disturb("steal") /\ Withdraw({h}, "other", "binding_replaced")
  /\ Local /\ UNCHANGED <<requests, frames, inbox, muted, live, authed, world>>

DetachElsewhere(h) ==
  /\ Disturb("detach") /\ Withdraw({h}, "detached", "hook_detached")
  /\ Local /\ UNCHANGED <<requests, frames, inbox, muted, live, authed, world>>

(* The account service ends the session.                                    *)
Expire ==
  /\ Disturb("expire") /\ live # {}
  /\ live' = {}
  /\ Local /\ UNCHANGED <<link, binding, inbox, muted, world>>

(* Retention: after one month if the message was read elsewhere or is       *)
(* silent, after three in any case.                                         *)
PruneInbox(m) ==
  /\ m \in inbox /\ age[m] > 0
  /\ inbox' = inbox \ {m}
  /\ Local /\ UNCHANGED <<link, binding, muted, live, world, disturbed>>

Grow(m) ==
  /\ Disturb("age") /\ age[m] < 3
  /\ age' = [age EXCEPT ![m] = IF @ = 0 THEN 1 ELSE 3]
  /\ Local /\ UNCHANGED <<link, remote, answered>>

(* A destination has failed for twelve hours.                               *)
HalfDay(h) ==
  /\ Disturb("halfday") /\ hooks[h].failing = "recent"
  /\ hooks' = [hooks EXCEPT ![h].failing = "long"]
  /\ UNCHANGED <<queue, session, socket, tasks, wait, link, remote, world>>

------------------------------------------------------------------------------
Settle(h) == ReleaseReceiver(h) \/ WithdrawExpired(h)

Next ==
  \/ Connect \/ Lose \/ Receive \/ Crash
  \/ Handle \/ SendPause \/ Expire \/ Revalidate
  \/ Reconnect \/ Logout \/ CommandStep
  \/ \E r \in Restorers : RestoreStart(r) \/ RestoreStep(r)
  \/ \E w \in Waiters : TimeOut(w)
  \/ \E t \in Tokens : Login(t)
  \/ \E h \in Hooks :
       \/ JobStep(h) \/ Attach(h) \/ Unhook(h)
       \/ Offer(h) \/ Settle(h) \/ Steal(h) \/ DetachElsewhere(h) \/ HalfDay(h)
       \/ \E m \in Messages : Sweep(h, m)
  \/ \E m \in Messages : Mute(m) \/ PruneInbox(m) \/ Grow(m)

Spec == Init /\ [][Next]_vars

(* Everything but the disturbances goes on: the daemon's loops and timers,  *)
(* the server's, a destination that answers in the end, and one that has a  *)
(* health URL is well again whenever it is asked often enough.              *)
Fairness ==
  /\ WF_vars(Connect) /\ WF_vars(Receive) /\ WF_vars(Handle) /\ WF_vars(SendPause)
  /\ WF_vars(CommandStep)
  /\ \A r \in Restorers : WF_vars(RestoreStart(r)) /\ WF_vars(RestoreStep(r))
  /\ \A h \in Hooks : WF_vars(JobStep(h)) /\ WF_vars(Offer(h)) /\ WF_vars(Settle(h))
                    /\ SF_vars(JobProbed(h) /\ jobs'[h].at # "idle")
  /\ \A m \in Messages : WF_vars(age[m] = 3 /\ PruneInbox(m))

FairSpec == Spec /\ Fairness

------------------------------------------------------------------------------
(* Properties.                                                              *)

(* The server counts a copy as read only if the hook's destination has      *)
(* answered 204 for it, whatever was lost, repeated or restarted between    *)
(* the two.                                                                 *)
ReadWasAnswered ==
  \A h \in Hooks, m \in Messages : copies[h][m] = "read" => m \in answered[h]

(* What the server counts as queued, and therefore will not offer again on  *)
(* this binding, the daemon holds on disk, or it has expired or gone.       *)
QueuedIsHeld ==
  \A h \in Hooks : \A m \in inbox :
    copies[h][m] = "queued" /\ age[m] < 3 => queue[h][m] # "none"

(* To its owner a hook keeps the promise of Delivery.                       *)
Promise == INSTANCE Delivery WITH
  stored <- inbox,
  posting <- [h \in Hooks |-> IF jobs[h].at = "posting" THEN jobs[h].batch ELSE {}],
  read <- [h \in Hooks |-> {m \in Messages : copies[h][m] = "read"}]

DeliversAsPromised == Promise!Spec

(* A hook blocked by a logout is not authorized before a command lifts the  *)
(* block, although subscriptions may still be under way.                    *)
BlockedIsSilent == socket.blocked \cap socket.authorized = {}

(* A hook the daemon works for and believes authorized, which is therefore  *)
(* not restored, is bound to its connection, unless it is about to learn    *)
(* otherwise: a pause is on its way to it, or it asked for the pause.  This *)
(* is so while no hook is past its twelve hours.  A worker's pause, unlike  *)
(* a logout, blocks nothing: a late answer may authorize the hook again     *)
(* before the server grants the pause, and a reconnect attach it.           *)
Learns(h) ==
  \/ \E i \in DOMAIN frames : frames[i].op \in Reasons /\ h \in frames[i].hooks
  \/ \E i \in DOMAIN pauses : h \in pauses[i].hooks
  \/ \E r \in Restorers : restores[r].at = "pausing" /\ restores[r].hook = h

AuthorizedIsBound ==
  \A h \in socket.authorized :
    hooks[h].state = "attached" => server[h].state = "here" \/ Learns(h)

(* What a destination has answered leaves the queue only when the server    *)
(* knows it is read, or no longer has it, or after three months.            *)
AnsweredIsReported ==
  [][\A h \in Hooks, m \in Messages :
       queue[h][m] = "accepted" /\ queue'[h][m] # "accepted" =>
         copies[h][m] = "read" \/ m \notin inbox \/ age[m] = 3]_vars

Posting(h) == jobs'[h].at = "posting" /\ jobs[h].at # "posting"

(* Only what a current binding has made eligible is posted.                 *)
PostedIsEligible ==
  [][\A h \in Hooks : Posting(h) =>
       \A m \in jobs'[h].batch : queue[h][m] = "ready"]_vars

(* A hook that is attached again, its failures forgotten, is not paused for *)
(* the failures it had before: "Twelve hours of repeated failure pauses the *)
(* hook until explicit reconnect."                                          *)
ReconnectHolds ==
  [][\A h \in Hooks :
       hooks[h].state = "attached" /\ hooks[h].failing = "no" => hooks'[h].state # "paused"]_vars

(* The hook needs its user: it was stopped here or at the server, or the    *)
(* session it was attached with has ended.                                  *)
Lapsed(h) ==
  \/ hooks[h].state # "attached" \/ server[h].state \in {"detached", "paused"}
  \/ hooks[h].token # session \/ session \notin live

(* What is stored for a hook is read in the end, however often the          *)
(* connection, the daemon, requests, offers and posts fail before that,     *)
(* unless it is muted or pruned, or the hook needs its user.                *)
OwedIsRead ==
  \A h \in Hooks, m \in Messages :
    (m \in inbox) ~> (copies[h][m] = "read" \/ m \notin inbox \/ m \in muted \/ Lapsed(h))

(* "Restore only still-authorized attached hooks": a hook the server would  *)
(* bind is bound again, whatever became of the others.                      *)
AttachedIsRestored ==
  \A h \in Hooks :
    (server[h].state = "free" /\ ~Lapsed(h)) ~> (server[h].state # "free" \/ Lapsed(h))
==============================================================================
