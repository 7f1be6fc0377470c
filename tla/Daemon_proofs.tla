---------------------------- MODULE Daemon_proofs ----------------------------
(***************************************************************************)
(* Proofs about Daemon: for every number of hooks, messages, sessions and  *)
(* restoring tasks, requests and frames in flight without a bound, and any *)
(* number of disturbances of every kind.                                   *)
(***************************************************************************)
EXTENDS Daemon, SequenceTheorems, TLAPS

(***************************************************************************)
(* Types, with what the handlers rely on.                                  *)
(***************************************************************************)
HookRecords ==
  [state : HookStates, failing : {"no", "recent", "long"}, token : Tokens, health : BOOLEAN]
HookTables == [Hooks -> HookRecords]
QueueTables == [Hooks -> [Messages -> Held]]
Sockets == [up : BOOLEAN, authorized : SUBSET Hooks, blocked : SUBSET Hooks]
RestoreRecords ==
  {o \in [at : {"idle", "next", "subscribing", "pausing", "attaching"}, todo : SUBSET Hooks,
          hook : Hooks \cup {None}, attach : SUBSET Hooks, tokens : [Hooks -> Tokens \cup {None}]] :
     o.at \in {"subscribing", "pausing"} => o.hook \in Hooks}
RestoreTables == [Restorers -> RestoreRecords]
JobRecords ==
  [at : {"idle", "acking", "clearing", "pausing", "probing", "checking", "posting"},
   batch : SUBSET Messages, check : SUBSET Messages, token : Tokens \cup {None}]
JobTables == [Hooks -> JobRecords]
CommandRecords ==
  {c \in [at : {"idle", "greeting", "patching", "saving", "binding", "unhooking", "leaving", "left"},
          op : {"none", "reconnect", "attach", "unhook", "logout"}, todo : SUBSET Hooks,
          hook : Hooks \cup {None}, token : Tokens \cup {None}, fresh : BOOLEAN] :
     /\ c.at \in {"saving", "binding", "unhooking"} => c.hook \in Hooks
     /\ c.at \in {"greeting", "patching", "saving", "binding"} => c.token \in Tokens}
WaitTables == [Waiters -> {"none", "asked"} \cup Answers]
Acks == {"delivery", "read"}
SentRequests == {r \in Requests : r.op \in Acks => \E h \in Hooks : r.hooks = {h}}
SentFrames ==
  {f \in Frames : f.op \in {"tings"} \cup Reasons =>
     f.by = None /\ (f.op = "tings" => \E h \in Hooks : f.hooks = {h})}
Pauses == {f \in SentFrames : f.op \in Reasons}
ServerRecords == [state : Bindings, token : Tokens \cup {None}]
ServerTables == [Hooks -> ServerRecords]
CopyTables == [Hooks -> [Messages -> CopyStates]]
AgeTables == [Messages -> {0, 1, 3}]
AnswerTables == [Hooks -> SUBSET Messages]

Typed ==
  /\ hooks \in HookTables /\ queue \in QueueTables /\ session \in Tokens \cup {None}
  /\ socket \in Sockets
  /\ restores \in RestoreTables /\ jobs \in JobTables /\ command \in CommandRecords
  /\ wait \in WaitTables
  /\ requests \in Seq(SentRequests) /\ frames \in Seq(SentFrames) /\ pauses \in Seq(Pauses)
  /\ server \in ServerTables /\ copies \in CopyTables
  /\ inbox \in SUBSET Messages /\ muted \in SUBSET Messages /\ live \in SUBSET Tokens
  /\ authed \in Tokens \cup {None}
  /\ age \in AgeTables /\ answered \in AnswerTables
  /\ disturbed \in 0 .. MaxDisturbed

LEMMA TypedIsTypeOK == Typed => TypeOK
<1> SUFFICES ASSUME Typed PROVE TypeOK
  OBVIOUS
<1>1. requests \in Seq(Requests)
  BY SeqMonotonic DEF Typed, SentRequests
<1>2. frames \in Seq(Frames) /\ pauses \in Seq(Frames)
  BY SeqMonotonic DEF Typed, SentFrames, Pauses
<1>3. command \in [at : {"idle", "greeting", "patching", "saving", "binding", "unhooking",
                        "leaving", "left"},
                  op : {"none", "reconnect", "attach", "unhook", "logout"},
                  todo : SUBSET Hooks, hook : Hooks \cup {None},
                  token : Tokens \cup {None}, fresh : BOOLEAN]
  BY DEF Typed, CommandRecords
<1>4. restores \in [Restorers -> [at : {"idle", "next", "subscribing", "pausing", "attaching"},
                                 todo : SUBSET Hooks, hook : Hooks \cup {None},
                                 attach : SUBSET Hooks, tokens : [Hooks -> Tokens \cup {None}]]]
  BY DEF Typed, RestoreTables, RestoreRecords
<1> QED
  BY <1>1, <1>2, <1>3, <1>4 DEF Typed, TypeOK, HookTables, HookRecords, QueueTables, Sockets,
     JobTables, JobRecords, WaitTables, ServerTables, ServerRecords, CopyTables, AgeTables,
     AnswerTables

------------------------------------------------------------------------------
(* The parts of a step.                                                     *)

LEMMA RestingTyped == Resting \in RestoreRecords
BY DEF Resting, RestoreRecords

LEMMA WaitingTyped == Waiting \in JobRecords /\ Waiting.batch = {} /\ Waiting.at = "idle"
BY DEF Waiting, JobRecords

LEMMA NoCommandTyped == NoCommand \in CommandRecords
BY DEF NoCommand, CommandRecords

LEMMA DisturbTyped ==
  ASSUME Typed, NEW kind, Disturb(kind) PROVE disturbed' \in 0 .. MaxDisturbed
BY DaemonAssumption DEF Typed, Disturb

LEMMA AskTyped ==
  ASSUME Typed, NEW w \in Waiters, NEW op \in RequestOps, NEW hs \in SUBSET Hooks,
         NEW ts \in SUBSET Messages, NEW token \in Tokens \cup {None},
         op \in Acks => \E h \in Hooks : hs = {h},
         Ask(w, op, hs, ts, token)
  PROVE  /\ requests' \in Seq(SentRequests) /\ wait' \in WaitTables
         /\ Request(op, hs, ts, w, token) \in SentRequests
<1>1. Request(op, hs, ts, w, token) \in SentRequests
  BY DEF Request, SentRequests, Requests
<1>2. requests' \in Seq(SentRequests)
  BY <1>1, AppendProperties DEF Ask, Typed
<1>3. wait' \in WaitTables
  BY DEF Ask, Typed, WaitTables
<1> QED BY <1>1, <1>2, <1>3

LEMMA StopTyped == ASSUME Typed, NEW w, Stop(w) PROVE wait' \in WaitTables
BY DEF Stop, Typed, WaitTables

LEMMA OrphanTyped ==
  /\ \A r \in SentRequests : [r EXCEPT !.by = None] \in SentRequests
  /\ \A f \in SentFrames : [f EXCEPT !.by = None] \in SentFrames
<1>1. ASSUME NEW r \in SentRequests PROVE [r EXCEPT !.by = None] \in SentRequests
  BY DEF SentRequests, Requests
<1>2. ASSUME NEW f \in SentFrames PROVE [f EXCEPT !.by = None] \in SentFrames
  BY DEF SentFrames, Frames
<1> QED BY <1>1, <1>2

LEMMA OrphanedTyped ==
  ASSUME NEW S, NEW q \in Seq(S), NEW w, \A r \in S : [r EXCEPT !.by = None] \in S
  PROVE  Orphaned(q, w) \in Seq(S) /\ Len(Orphaned(q, w)) = Len(q)
<1> DEFINE e(i) == IF q[i].by = w THEN [q[i] EXCEPT !.by = None] ELSE q[i]
<1>1. Len(q) \in Nat /\ DOMAIN q = 1 .. Len(q) /\ \A i \in 1 .. Len(q) : q[i] \in S
  BY LenProperties, ElementOfSeq
<1>2. \A i \in 1 .. Len(q) : e(i) \in S
  BY <1>1
<1>3. Orphaned(q, w) = [i \in 1 .. Len(q) |-> e(i)]
  BY <1>1 DEF Orphaned
<1> HIDE DEF e
<1>4. [i \in 1 .. Len(q) |-> e(i)] \in [1 .. Len(q) -> S]
  BY <1>2
<1>5. Orphaned(q, w) \in Seq(S)
  BY <1>1, <1>3, <1>4, SeqDef
<1> QED BY <1>1, <1>3, <1>5, LenProperties

LEMMA RemoveTyped ==
  ASSUME NEW S, NEW q \in Seq(S), NEW i \in DOMAIN q
  PROVE  /\ RemoveAt(q, i) \in Seq(S) /\ Len(RemoveAt(q, i)) = Len(q) - 1
         /\ \A j \in 1 .. Len(q) - 1 : RemoveAt(q, i)[j] = IF j < i THEN q[j] ELSE q[j + 1]
<1> DEFINE a == SubSeq(q, 1, i - 1)
           b == SubSeq(q, i + 1, Len(q))
<1>1. Len(q) \in Nat /\ DOMAIN q = 1 .. Len(q) /\ i \in 1 .. Len(q)
      /\ \A j \in 1 .. Len(q) : q[j] \in S
  BY LenProperties, ElementOfSeq
<1>2. a \in Seq(S) /\ Len(a) = i - 1 /\ \A j \in 1 .. i - 1 : a[j] = q[j]
  BY <1>1, SubSeqProperties
<1>3. b \in Seq(S) /\ Len(b) = Len(q) - i /\ \A j \in 1 .. Len(q) - i : b[j] = q[j + i]
  BY <1>1, SubSeqProperties
<1>4. RemoveAt(q, i) = a \o b
  BY DEF RemoveAt
<1> HIDE DEF a, b
<1>5. /\ a \o b \in Seq(S) /\ Len(a \o b) = Len(a) + Len(b)
      /\ \A j \in 1 .. Len(a) + Len(b) : (a \o b)[j] = IF j <= Len(a) THEN a[j] ELSE b[j - Len(a)]
  BY <1>2, <1>3, ConcatProperties
<1>6. ASSUME NEW j \in 1 .. Len(q) - 1
      PROVE  RemoveAt(q, i)[j] = IF j < i THEN q[j] ELSE q[j + 1]
  <2>1. CASE j < i
    BY <1>1, <1>2, <1>3, <1>4, <1>5, <2>1
  <2>2. CASE ~(j < i)
    <3>1. j - (i - 1) \in 1 .. Len(q) - i /\ j - (i - 1) + i = j + 1
      BY <1>1, <2>2
    <3>2. RemoveAt(q, i)[j] = b[j - (i - 1)]
      BY <1>1, <1>2, <1>3, <1>4, <1>5, <2>2
    <3> QED BY <1>3, <2>2, <3>1, <3>2
  <2> QED BY <2>1, <2>2
<1> QED BY <1>1, <1>2, <1>3, <1>4, <1>5, <1>6

LEMMA ForsakeTyped ==
  ASSUME Typed, NEW w, Forsake(w)
  PROVE  requests' \in Seq(SentRequests) /\ frames' \in Seq(SentFrames)
BY OrphanTyped, OrphanedTyped, RemoveTyped DEF Typed, Forsake

LEMMA StaledTyped ==
  ASSUME NEW q \in QueueTables, NEW hs PROVE Staled(q, hs) \in QueueTables
BY DEF Staled, QueueTables, Held

LEMMA ResetTyped ==
  ASSUME NEW c \in CopyTables, NEW hs PROVE Reset(c, hs) \in CopyTables
BY DEF Reset, CopyTables, CopyStates

LEMMA HandTyped ==
  ASSUME Typed, NEW hs, NEW state \in Bindings, NEW token \in Tokens \cup {None},
         Hand(hs, state, token)
  PROVE  server' \in ServerTables /\ copies' \in CopyTables
BY ResetTyped DEF Typed, Hand, ServerTables, ServerRecords

LEMMA PausingTyped ==
  ASSUME Typed, NEW hs, NEW reason \in Reasons, Pausing(hs, reason)
  PROVE  pauses' \in Seq(Pauses)
<1>1. Frame(reason, hs \cap BoundHere, {}, None) \in Pauses
  BY DEF Frame, Pauses, SentFrames, Frames, BoundHere, Reasons
<1> QED BY <1>1, AppendProperties DEF Typed, Pausing

LEMMA WithdrawTyped ==
  ASSUME Typed, NEW hs, NEW state \in Bindings, NEW reason \in Reasons,
         Withdraw(hs, state, reason)
  PROVE  server' \in ServerTables /\ copies' \in CopyTables /\ pauses' \in Seq(Pauses)
BY HandTyped, PausingTyped DEF Withdraw

LEMMA UnreachTyped ==
  ASSUME Typed, Unreach PROVE server' \in ServerTables /\ pauses' \in Seq(Pauses)
<1>1. "preference_changed" \in Reasons
  BY DEF Reasons
<1>2. pauses' \in Seq(Pauses)
  BY <1>1, PausingTyped DEF Unreach
<1>3. server' \in ServerTables
  BY DEF Typed, Unreach, ServerTables, ServerRecords, Bindings
<1> QED BY <1>2, <1>3

LEMMA CutTyped ==
  ASSUME Typed, CutConnection
  PROVE  /\ frames' \in Seq(SentFrames) /\ pauses' \in Seq(Pauses)
         /\ server' \in ServerTables /\ copies' \in CopyTables /\ authed' \in Tokens \cup {None}
<1>1. "other" \in Bindings
  BY DEF Bindings
<1> QED BY <1>1, HandTyped, EmptySeq DEF CutConnection

LEMMA StateTyped ==
  ASSUME Typed, NEW h, NEW state \in HookStates, SetState(h, state)
  PROVE  hooks' \in HookTables
<1> DEFINE o == [hooks[h] EXCEPT !.state = state]
<1>1. h \in Hooks => o \in HookRecords
  BY DEF Typed, HookTables, HookRecords
<1>2. hooks' = [hooks EXCEPT ![h] = o]
  BY DEF SetState
<1> HIDE DEF o
<1> QED BY <1>1, <1>2 DEF Typed, HookTables

LEMMA SocketTyped ==
  ASSUME Typed
  PROVE  /\ \A up \in BOOLEAN, hs \in SUBSET Hooks : 
              [socket EXCEPT !.up = up, !.authorized = hs] \in Sockets
         /\ \A hs \in SUBSET Hooks : [socket EXCEPT !.authorized = hs] \in Sockets
         /\ \A hs \in SUBSET Hooks : [socket EXCEPT !.blocked = hs] \in Sockets
         /\ socket.authorized \in SUBSET Hooks /\ socket.blocked \in SUBSET Hooks
BY DEF Typed, Sockets

LEMMA UnauthorizeTyped == ASSUME Typed, NEW hs, Unauthorize(hs) PROVE socket' \in Sockets
BY SocketTyped DEF Unauthorize

------------------------------------------------------------------------------
(* Every step keeps the types.                                              *)

LEMMA InitTyped == Init => Typed
<1> SUFFICES ASSUME Init PROVE Typed
  OBVIOUS
<1>1. PICK t \in Tokens :
        /\ hooks = [h \in Hooks |-> [state |-> "attached", failing |-> "no",
                                     token |-> t, health |-> h \in Probed]]
        /\ session = t /\ live = {t}
  BY DEF Init
<1>2. hooks \in HookTables
  BY <1>1 DEF HookTables, HookRecords, HookStates
<1>3. queue \in QueueTables /\ copies \in CopyTables /\ server \in ServerTables
  BY DEF Init, QueueTables, Held, CopyTables, CopyStates, ServerTables, ServerRecords, Bindings
<1>4. restores \in RestoreTables /\ jobs \in JobTables /\ command \in CommandRecords
  BY RestingTyped, WaitingTyped, NoCommandTyped DEF Init, RestoreTables, JobTables
<1>5. socket \in Sockets /\ wait \in WaitTables /\ age \in AgeTables /\ answered \in AnswerTables
  BY DEF Init, Sockets, WaitTables, AgeTables, AnswerTables
<1>6. requests \in Seq(SentRequests) /\ frames \in Seq(SentFrames) /\ pauses \in Seq(Pauses)
  BY EmptySeq DEF Init
<1>7. disturbed \in 0 .. MaxDisturbed /\ inbox \in SUBSET Messages /\ muted \in SUBSET Messages
      /\ authed = None
  BY DaemonAssumption DEF Init
<1> QED BY <1>1, <1>2, <1>3, <1>4, <1>5, <1>6, <1>7 DEF Typed

LEMMA ConnectTyped == ASSUME Typed, Connect PROVE Typed'
BY SocketTyped DEF Typed, Connect, disk, tasks, link, remote, world

LEMMA LoseTyped == ASSUME Typed, Lose PROVE Typed'
<1>1. socket' \in Sockets
  BY SocketTyped DEF Lose
<1>2. queue' \in QueueTables
  BY StaledTyped DEF Lose, Typed
<1>3. PICK sent \in 0 .. Len(requests) :
        /\ requests' = SubSeq(requests, sent + 1, Len(requests))
        /\ wait' = [w \in Waiters |->
                      IF wait[w] = "asked" /\ \A i \in sent + 1 .. Len(requests) : requests[i].by # w
                      THEN "error" ELSE wait[w]]
  BY DEF Lose
<1>4. Len(requests) \in Nat /\ \A i \in 1 .. Len(requests) : requests[i] \in SentRequests
  BY LenProperties, ElementOfSeq DEF Typed
<1>5. requests' \in Seq(SentRequests)
  BY <1>3, <1>4, SubSeqProperties
<1>6. wait' \in WaitTables
  BY <1>3 DEF Typed, WaitTables, Answers
<1>7. command' \in CommandRecords
  BY DEF Lose, Typed, CommandRecords
<1>8. disturbed' \in 0 .. MaxDisturbed
  BY DisturbTyped DEF Lose
<1> QED
  BY <1>1, <1>2, <1>5, <1>6, <1>7, <1>8, CutTyped DEF Typed, Lose, world

LEMMA FrameTyped ==
  ASSUME Typed, frames # <<>>
  PROVE  /\ Head(frames) \in SentFrames /\ Tail(frames) \in Seq(SentFrames)
         /\ Head(frames).hooks \in SUBSET Hooks /\ Head(frames).tings \in SUBSET Messages
         /\ Head(frames).by \in Waiters \cup {None}
         /\ Head(frames).op = "tings" => \E h \in Hooks : Head(frames).hooks = {h}
         /\ Head(frames).op \in {"tings"} \cup Reasons => Head(frames).by = None
<1>1. Head(frames) \in SentFrames /\ Tail(frames) \in Seq(SentFrames)
  BY HeadTailProperties DEF Typed
<1> QED BY <1>1 DEF SentFrames, Frames

LEMMA ReceiveTyped == ASSUME Typed, Receive PROVE Typed'
<1> DEFINE f == Head(frames)
<1>1. f \in SentFrames /\ frames' \in Seq(SentFrames) /\ f.hooks \in SUBSET Hooks
      /\ f.tings \in SUBSET Messages /\ f.by \in Waiters \cup {None}
      /\ (f.op = "tings" => \E h \in Hooks : f.hooks = {h})
  BY FrameTyped DEF Receive
<1> HIDE DEF f
<1>2. CASE ReceiveTings
  <2> DEFINE kept == {m \in f.tings : age[m] < 3}
             r == Request("delivery", f.hooks, kept, None, None)
  <2>1. queue' \in QueueTables
    BY <1>2 DEF ReceiveTings, Typed, QueueTables, Held
  <2>2. f.op = "tings"
    BY <1>2 DEF ReceiveTings, f
  <2>3. r \in SentRequests
    BY <1>1, <2>2 DEF Request, SentRequests, Requests, RequestOps
  <2>4. requests' = IF kept = {} THEN requests ELSE Append(requests, r)
    BY <1>2 DEF ReceiveTings, f
  <2> HIDE DEF r, kept
  <2>5. requests' \in Seq(SentRequests)
    BY <2>3, <2>4, AppendProperties DEF Typed
  <2> QED BY <1>1, <1>2, <2>1, <2>5 DEF Typed, Receive, ReceiveTings, tasks, remote, world
<1>3. CASE ReceivePause
  <2> DEFINE state == CASE f.op \in {"hook_detached", "binding_replaced"} -> "detached"
                        [] f.op = "session_expired" -> "auth_paused"
                        [] OTHER -> "same"
  <2>1. socket' \in Sockets
    BY <1>3, SocketTyped DEF ReceivePause
  <2>2. queue' \in QueueTables
    BY <1>3, StaledTyped DEF ReceivePause, Typed
  <2>3. state \in HookStates \cup {"same"}
    BY DEF HookStates
  <2>4. hooks' = [h \in Hooks |-> IF h \in f.hooks /\ state # "same"
                                  THEN [hooks[h] EXCEPT !.state = state] ELSE hooks[h]]
    BY <1>3 DEF ReceivePause, f
  <2> HIDE DEF state
  <2>5. \A h \in Hooks : state # "same" => [hooks[h] EXCEPT !.state = state] \in HookRecords
    BY <2>3 DEF Typed, HookTables, HookRecords
  <2>6. hooks' \in HookTables
    BY <2>4, <2>5 DEF Typed, HookTables
  <2> QED BY <1>1, <1>3, <2>1, <2>2, <2>6 DEF Typed, Receive, ReceivePause, tasks, remote, world
<1>4. CASE ReceiveAnswer
  <2>1. socket' \in Sockets
    BY <1>1, <1>4, SocketTyped DEF ReceiveAnswer, Typed, f
  <2>2. f.op \in {"subscribed"} \cup Answers
        /\ wait' = IF f.by = None THEN wait
                   ELSE [wait EXCEPT ![f.by] = IF f.op = "subscribed" THEN "ok" ELSE f.op]
    BY <1>4 DEF ReceiveAnswer, f
  <2>3. wait' \in WaitTables
    BY <2>2 DEF Typed, WaitTables, Answers
  <2> QED BY <1>1, <1>4, <2>1, <2>3 DEF Typed, Receive, ReceiveAnswer, tasks, remote, world
<1> QED BY <1>2, <1>3, <1>4 DEF Receive

LEMMA CrashTyped == ASSUME Typed, Crash PROVE Typed'
<1>1. queue' \in QueueTables
  <2>1. Staled(queue, Hooks) \in QueueTables
    BY StaledTyped DEF Typed
  <2> QED BY <2>1 DEF Crash, QueueTables, Held
<1>2. restores' \in RestoreTables /\ jobs' \in JobTables /\ command' \in CommandRecords
  BY RestingTyped, WaitingTyped, NoCommandTyped DEF Crash, RestoreTables, JobTables
<1>3. socket' \in Sockets /\ wait' \in WaitTables
  BY DEF Crash, Sockets, WaitTables
<1>4. requests' \in Seq(SentRequests) /\ disturbed' \in 0 .. MaxDisturbed
  BY EmptySeq, DisturbTyped DEF Crash
<1> QED BY <1>1, <1>2, <1>3, <1>4, CutTyped DEF Typed, Crash, world

LEMMA TimeOutTyped == ASSUME Typed, NEW w \in Waiters, TimeOut(w) PROVE Typed'
<1>1. wait' \in WaitTables
  BY DEF TimeOut, Typed, WaitTables, Answers
<1> QED BY <1>1, ForsakeTyped, DisturbTyped DEF Typed, TimeOut, disk, tasks, remote, world

------------------------------------------------------------------------------
(* Restoring.                                                               *)

LEMMA RestoreIs ==
  ASSUME Typed, NEW r \in Restorers
  PROVE  /\ restores[r] \in RestoreRecords
         /\ restores[r].todo \in SUBSET Hooks /\ restores[r].attach \in SUBSET Hooks
         /\ restores[r].at \in {"subscribing", "pausing"} => restores[r].hook \in Hooks
         /\ r \in Waiters
BY DEF Typed, RestoreTables, RestoreRecords, Waiters

LEMMA RestoreStartTyped == ASSUME Typed, NEW r \in Restorers, RestoreStart(r) PROVE Typed'
<1> DEFINE cut == {h \in Hooks : \/ hooks[h].state = "pause_pending"
                                 \/ hooks[h].state = "attached" /\ hooks[h].failing = "long"}
           attach == {h \in Hooks : hooks[h].state = "attached"} \ (cut \cup socket.authorized)
           tokens == [h \in Hooks |-> hooks[h].token]
           o == [at |-> "next", todo |-> cut, hook |-> None, attach |-> attach, tokens |-> tokens]
<1>1. restores' = [restores EXCEPT ![r] = o]
  BY DEF RestoreStart
<1>2. cut \in SUBSET Hooks /\ attach \in SUBSET Hooks /\ tokens \in [Hooks -> Tokens \cup {None}]
  BY DEF Typed, HookTables, HookRecords
<1> HIDE DEF cut, attach, tokens
<1>3. o \in RestoreRecords
  BY <1>2 DEF RestoreRecords
<1> HIDE DEF o
<1>4. restores' \in RestoreTables
  BY <1>1, <1>3 DEF Typed, RestoreTables
<1> QED BY <1>4 DEF RestoreStart, Typed, disk, link, remote, world

LEMMA RestoreCutTyped ==
  ASSUME Typed, NEW r \in Restorers, NEW h \in Hooks, RestoreCut(r, h) PROVE Typed'
<1>1. hooks' \in HookTables
  BY StateTyped DEF RestoreCut, HookStates
<1>2. CASE /\ Remembers(r, h)
           /\ Ask(r, "subscribe", {h}, {}, session)
           /\ restores' = [restores EXCEPT ![r].at = "subscribing", ![r].hook = h]
           /\ UNCHANGED socket
  <2> DEFINE a == [restores[r] EXCEPT !.at = "subscribing"]
             o == [a EXCEPT !.hook = h]
  <2>1. requests' \in Seq(SentRequests) /\ wait' \in WaitTables
    BY <1>2, AskTyped, RestoreIs DEF Typed, RequestOps, Acks
  <2>2. a.at = "subscribing" /\ o \in RestoreRecords
    BY RestoreIs DEF RestoreRecords
  <2>3. restores' = [restores EXCEPT ![r] = o]
    BY <1>2 DEF Typed, RestoreTables
  <2> HIDE DEF o
  <2>4. restores' \in RestoreTables
    BY <2>2, <2>3 DEF Typed, RestoreTables
  <2> QED BY <1>1, <1>2, <2>1, <2>4 DEF RestoreCut, Typed, remote, world
<1>3. CASE /\ ~Remembers(r, h)
           /\ Unauthorize({h})
           /\ restores' = [restores EXCEPT ![r].todo = @ \ {h}]
           /\ UNCHANGED <<requests, wait>>
  <2> DEFINE o == [restores[r] EXCEPT !.todo = @ \ {h}]
  <2>1. o \in RestoreRecords
    BY RestoreIs DEF RestoreRecords
  <2>2. restores' = [restores EXCEPT ![r] = o]
    BY <1>3 DEF Typed, RestoreTables
  <2> HIDE DEF o
  <2>3. restores' \in RestoreTables
    BY <2>1, <2>2 DEF Typed, RestoreTables
  <2> QED BY <1>1, <1>3, <2>3, UnauthorizeTyped DEF RestoreCut, Typed, remote, world
<1> QED BY <1>2, <1>3 DEF RestoreCut

LEMMA RestorePauseTyped == ASSUME Typed, NEW r \in Restorers, RestorePause(r) PROVE Typed'
<1> DEFINE o == [restores[r] EXCEPT !.at = "pausing"]
<1>1. restores[r].hook \in Hooks
  BY RestoreIs DEF RestorePause
<1>2. requests' \in Seq(SentRequests) /\ wait' \in WaitTables
  BY <1>1, AskTyped, RestoreIs DEF RestorePause, RequestOps, Acks
<1>3. o \in RestoreRecords
  BY <1>1, RestoreIs DEF RestoreRecords
<1>4. restores' = [restores EXCEPT ![r] = o]
  BY DEF RestorePause
<1> HIDE DEF o
<1>5. restores' \in RestoreTables
  BY <1>3, <1>4 DEF Typed, RestoreTables
<1> QED BY <1>2, <1>5 DEF RestorePause, Typed, disk, remote, world

LEMMA RestorePausedTyped == ASSUME Typed, NEW r \in Restorers, RestorePaused(r) PROVE Typed'
<1> DEFINE a == [restores[r] EXCEPT !.at = "next"]
           b == [a EXCEPT !.todo = a.todo \ {restores[r].hook}]
           o == [b EXCEPT !.hook = None]
<1>1. o \in RestoreRecords
  <2>1. a \in RestoreRecords /\ a.at = "next" /\ a.todo \in SUBSET Hooks
    BY RestoreIs DEF RestoreRecords
  <2> HIDE DEF a
  <2>2. b \in RestoreRecords /\ b.at = "next"
    BY <2>1 DEF RestoreRecords
  <2> HIDE DEF b
  <2> QED BY <2>2 DEF RestoreRecords
<1>2. restores' = [restores EXCEPT ![r] = o]
  BY DEF RestorePaused, Typed, RestoreTables
<1> HIDE DEF o
<1>3. restores' \in RestoreTables
  BY <1>1, <1>2 DEF Typed, RestoreTables
<1>4. hooks' \in HookTables
  BY StateTyped DEF RestorePaused, HookStates, Typed
<1> QED BY <1>3, <1>4, StopTyped, UnauthorizeTyped DEF RestorePaused, Typed, link, remote, world

LEMMA RestRestored ==
  ASSUME Typed, NEW r, restores' = [restores EXCEPT ![r] = Resting]
  PROVE  restores' \in RestoreTables
BY RestingTyped DEF Typed, RestoreTables

LEMMA RestoreAttachTyped == ASSUME Typed, NEW r \in Restorers, RestoreAttach(r) PROVE Typed'
<1>1. CASE /\ Ask(r, "subscribe", restores[r].attach, {}, session)
           /\ restores' = [restores EXCEPT ![r].at = "attaching"]
  <2> DEFINE o == [restores[r] EXCEPT !.at = "attaching"]
  <2>1. requests' \in Seq(SentRequests) /\ wait' \in WaitTables
    BY <1>1, AskTyped, RestoreIs DEF Typed, RequestOps, Acks
  <2>2. o \in RestoreRecords
    BY RestoreIs DEF RestoreRecords
  <2>3. restores' = [restores EXCEPT ![r] = o]
    BY <1>1
  <2> HIDE DEF o
  <2>4. restores' \in RestoreTables
    BY <2>2, <2>3 DEF Typed, RestoreTables
  <2> QED BY <2>1, <2>4 DEF RestoreAttach, Typed, disk, remote, world
<1>2. CASE restores' = [restores EXCEPT ![r] = Resting] /\ UNCHANGED <<requests, wait>>
  BY <1>2, RestRestored DEF RestoreAttach, Typed, disk, remote, world
<1> QED BY <1>1, <1>2 DEF RestoreAttach

LEMMA RestoreDoneTyped == ASSUME Typed, NEW r \in Restorers, RestoreDone(r) PROVE Typed'
BY RestRestored, StopTyped DEF RestoreDone, Typed, disk, link, remote, world

------------------------------------------------------------------------------
(* The workers.                                                             *)

LEMMA JobIs ==
  ASSUME Typed, NEW h \in Hooks
  PROVE  /\ jobs[h] \in JobRecords /\ h \in Waiters
         /\ jobs[h].batch \in SUBSET Messages /\ jobs[h].check \in SUBSET Messages
         /\ jobs[h].token \in Tokens \cup {None} /\ Token(h) \in Tokens \cup {None}
BY DEF Typed, JobTables, JobRecords, Waiters, Token, HookTables, HookRecords

LEMMA SetJobTyped ==
  ASSUME Typed, NEW h \in Hooks, NEW batch \in SUBSET Messages, NEW check \in SUBSET Messages,
         NEW at \in {"idle", "acking", "clearing", "pausing", "probing", "checking", "posting"},
         SetJob(h, at, batch, check)
  PROVE  jobs' \in JobTables
<1> DEFINE o == [at |-> at, batch |-> batch, check |-> check, token |-> Token(h)]
<1>1. o \in JobRecords
  BY JobIs DEF JobRecords
<1> HIDE DEF o
<1> QED BY <1>1 DEF SetJob, Typed, JobTables, o

LEMMA EndJobTyped == ASSUME Typed, NEW h, EndJob(h) PROVE jobs' \in JobTables
BY WaitingTyped DEF EndJob, Typed, JobTables

LEMMA ReadTyped == ASSUME Typed, NEW h, NEW what, Read(h, what) PROVE queue' \in QueueTables
BY DEF Read, Typed, QueueTables, Held

LEMMA ForgetTyped == ASSUME Typed, NEW h, NEW m, Forget(h, m) PROVE queue' \in QueueTables
<1> DEFINE q == [queue[h] EXCEPT ![m] = IF Known(m) THEN @ ELSE "none"]
<1>1. queue' = [queue EXCEPT ![h] = q]
  BY DEF Forget
<1>2. h \in Hooks => q \in [Messages -> Held]
  BY DEF Typed, QueueTables, Held
<1> HIDE DEF q
<1> QED BY <1>1, <1>2 DEF Typed, QueueTables

LEMMA BatchTyped ==
  ASSUME NEW h, NEW what, NEW ms \in SUBSET Messages
  PROVE  /\ Fresh(Holding(h, what)) \in SUBSET Messages
         /\ MonthOld(h) \in SUBSET Messages
BY DEF Fresh, Holding, MonthOld

LEMMA ForwardTyped ==
  ASSUME Typed, NEW h \in Hooks, NEW batch \in SUBSET Messages, Forward(h, batch)
  PROVE  jobs' \in JobTables
BY SetJobTyped, EndJobTyped, BatchTyped DEF Forward

LEMMA JobAckTyped == ASSUME Typed, NEW h \in Hooks, JobAck(h) PROVE Typed'
<1> DEFINE ids == Fresh(Holding(h, "accepted"))
<1>1. ids \in SUBSET Messages
  BY BatchTyped
<1>2. Read(h, {"accepted"}) /\ Ask(h, "read", {h}, ids, None) /\ SetJob(h, "acking", ids, {})
  BY DEF JobAck
<1> HIDE DEF ids
<1>3. requests' \in Seq(SentRequests) /\ wait' \in WaitTables
  BY <1>1, <1>2, AskTyped, JobIs DEF RequestOps
<1> QED BY <1>1, <1>2, <1>3, ReadTyped, SetJobTyped DEF JobAck, Typed, Quiet, remote, world

LEMMA JobPauseTyped == ASSUME Typed, NEW h \in Hooks, JobPause(h) PROVE Typed'
<1>1. requests' \in Seq(SentRequests) /\ wait' \in WaitTables
  BY AskTyped, JobIs DEF RequestOps, Acks, JobPause
<1>2. hooks' \in HookTables
  BY StateTyped DEF JobPause, HookStates
<1> QED BY <1>1, <1>2, ReadTyped, SetJobTyped, UnauthorizeTyped
        DEF JobPause, Typed, Quiet, remote, world

LEMMA JobPausedTyped == ASSUME Typed, NEW h \in Hooks, JobPaused(h) PROVE Typed'
<1>1. hooks' \in HookTables
  BY StateTyped DEF JobPaused, HookStates, Typed
<1> QED BY <1>1, StopTyped, EndJobTyped DEF JobPaused, Typed, Quiet, remote, world

LEMMA JobStartTyped == ASSUME Typed, NEW h \in Hooks, JobStart(h) PROVE Typed'
<1> DEFINE batch == Fresh(Holding(h, "ready"))
<1>1. batch \in SUBSET Messages
  BY BatchTyped
<1>2. SetJob(h, "probing", batch, {}) \/ Forward(h, batch)
  BY DEF JobStart
<1> HIDE DEF batch
<1>3. jobs' \in JobTables
  BY <1>1, <1>2, SetJobTyped, ForwardTyped
<1> QED BY <1>3, ReadTyped DEF JobStart, Typed, Quiet, remote, world

LEMMA HealthTyped ==
  ASSUME Typed, NEW h, hooks' = [hooks EXCEPT ![h].health = FALSE]
  PROVE  hooks' \in HookTables
<1> DEFINE o == [hooks[h] EXCEPT !.health = FALSE]
<1>1. h \in Hooks => o \in HookRecords
  BY DEF Typed, HookTables, HookRecords
<1>2. hooks' = [hooks EXCEPT ![h] = o]
  OBVIOUS
<1> HIDE DEF o
<1> QED BY <1>1, <1>2 DEF Typed, HookTables

LEMMA FailingTyped ==
  ASSUME Typed, NEW h, NEW failing \in {"no", "recent", "long"},
         hooks' = [hooks EXCEPT ![h].failing = failing]
  PROVE  hooks' \in HookTables
<1> DEFINE o == [hooks[h] EXCEPT !.failing = failing]
<1>1. h \in Hooks => o \in HookRecords
  BY DEF Typed, HookTables, HookRecords
<1>2. hooks' = [hooks EXCEPT ![h] = o]
  OBVIOUS
<1> HIDE DEF o
<1> QED BY <1>1, <1>2 DEF Typed, HookTables

LEMMA JobProbedTyped == ASSUME Typed, NEW h \in Hooks, JobProbed(h) PROVE Typed'
<1>1. jobs' \in JobTables
  BY JobIs, ForwardTyped, EndJobTyped DEF JobProbed
<1>2. hooks' \in HookTables
  BY HealthTyped DEF JobProbed, Typed
<1> QED BY <1>1, <1>2 DEF JobProbed, Typed, Quiet, remote, world

LEMMA JobCheckTyped ==
  ASSUME Typed, NEW h \in Hooks, NEW m \in Messages, JobCheck(h, m) PROVE Typed'
<1> DEFINE o == [jobs[h] EXCEPT !.check = @ \ {m}]
<1>1. o \in JobRecords
  BY JobIs DEF JobRecords
<1>2. jobs' = [jobs EXCEPT ![h] = o]
  BY DEF JobCheck
<1> HIDE DEF o
<1>3. jobs' \in JobTables
  BY <1>1, <1>2 DEF Typed, JobTables
<1> QED BY <1>3, ForgetTyped DEF JobCheck, Typed, Quiet, remote, world

LEMMA JobCheckedTyped == ASSUME Typed, NEW h \in Hooks, JobChecked(h) PROVE Typed'
<1>1. jobs' \in JobTables
  BY SetJobTyped, EndJobTyped, BatchTyped DEF JobChecked
<1>2. queue' \in QueueTables
  BY ReadTyped DEF JobChecked, Typed
<1>3. disturbed' \in 0 .. MaxDisturbed
  BY DisturbTyped DEF JobChecked, Typed
<1> QED BY <1>1, <1>2, <1>3 DEF JobChecked, Typed, Quiet, remote, world

LEMMA MarkTyped == ASSUME Typed, NEW h, Mark(h) PROVE queue' \in QueueTables
BY DEF Mark, Typed, QueueTables, Held

LEMMA AnswerTyped ==
  ASSUME Typed, NEW h \in Hooks, answered' = [answered EXCEPT ![h] = @ \cup jobs[h].batch]
  PROVE  answered' \in AnswerTables
BY JobIs DEF Typed, AnswerTables

LEMMA JobAcceptedTyped == ASSUME Typed, NEW h \in Hooks, JobAccepted(h) PROVE Typed'
<1>1. jobs' \in JobTables
  BY JobIs, SetJobTyped, EndJobTyped DEF JobAccepted
<1>2. requests' \in Seq(SentRequests) /\ wait' \in WaitTables
  BY JobIs, AskTyped DEF JobAccepted, Typed, RequestOps
<1>3. hooks' \in HookTables
  BY FailingTyped DEF JobAccepted
<1>4. queue' \in QueueTables /\ answered' \in AnswerTables
  BY MarkTyped, AnswerTyped DEF JobAccepted
<1> QED BY <1>1, <1>2, <1>3, <1>4 DEF JobAccepted, Typed, Quiet, remote

LEMMA JobFailedTyped == ASSUME Typed, NEW h \in Hooks, JobFailed(h) PROVE Typed'
<1>1. answered' \in AnswerTables
  BY AnswerTyped DEF JobFailed, Typed
<1>2. disturbed' \in 0 .. MaxDisturbed
  BY DisturbTyped DEF JobFailed
<1> DEFINE failing == IF hooks[h].failing = "no" THEN "recent" ELSE hooks[h].failing
<1>3. failing \in {"no", "recent", "long"}
  BY DEF Typed, HookTables, HookRecords
<1>4. hooks' = [hooks EXCEPT ![h].failing = failing]
  BY DEF JobFailed, Typed, HookTables
<1> HIDE DEF failing
<1>5. hooks' \in HookTables
  BY <1>3, <1>4, FailingTyped
<1> QED BY <1>1, <1>2, <1>5, EndJobTyped DEF JobFailed, Typed, Quiet, remote

LEMMA JobAckedTyped == ASSUME Typed, NEW h \in Hooks, JobAcked(h) PROVE Typed'
<1>1. jobs' \in JobTables
  BY SetJobTyped, EndJobTyped, BatchTyped DEF JobAcked
<1>2. queue' \in QueueTables
  BY DEF JobAcked, Done, Typed, QueueTables, Held
<1> QED BY <1>1, <1>2, StopTyped DEF JobAcked, Typed, Quiet, remote, world

LEMMA JobAbortedTyped == ASSUME Typed, NEW h \in Hooks, JobAborted(h) PROVE Typed'
BY DisturbTyped, StopTyped, ForsakeTyped, EndJobTyped
   DEF JobAborted, Typed, disk, remote, world

LEMMA SweepTyped ==
  ASSUME Typed, NEW h \in Hooks, NEW m \in Messages, Sweep(h, m) PROVE Typed'
<1>1. ASSUME queue' = [queue EXCEPT ![h][m] = "none"] PROVE queue' \in QueueTables
  <2> DEFINE q == [queue[h] EXCEPT ![m] = "none"]
  <2>1. queue' = [queue EXCEPT ![h] = q]
    BY <1>1
  <2>2. q \in [Messages -> Held]
    BY DEF Typed, QueueTables, Held
  <2> HIDE DEF q
  <2> QED BY <2>1, <2>2 DEF Typed, QueueTables
<1>2. queue' \in QueueTables
  BY <1>1, ForgetTyped DEF Sweep
<1> QED BY <1>2 DEF Sweep, Typed, tasks, link, remote, world

------------------------------------------------------------------------------
(* The commands.                                                            *)

LEMMA CommandIs ==
  ASSUME Typed
  PROVE  /\ command \in CommandRecords /\ command.todo \in SUBSET Hooks /\ Command \in Waiters
         /\ command.at \in {"saving", "binding", "unhooking"} => command.hook \in Hooks
         /\ command.at \in {"greeting", "patching", "saving", "binding"} => command.token \in Tokens
BY DEF Typed, CommandRecords, Waiters

LEMMA ReattachTyped ==
  ASSUME Typed, NEW op \in {"reconnect", "attach"}, NEW hs \in SUBSET Hooks, Reattach(op, hs)
  PROVE  Typed'
<1>1. session \in Tokens
  BY DEF Reattach, Typed
<1>2. command' \in CommandRecords
  BY <1>1 DEF Reattach, CommandRecords
<1>3. Ask(Command, "subscribe", {}, {}, session)
  BY DEF Reattach
<1>4. requests' \in Seq(SentRequests) /\ wait' \in WaitTables
  BY <1>1, <1>3, CommandIs, AskTyped DEF RequestOps, Acks
<1> QED BY <1>2, <1>4, DisturbTyped DEF Reattach, Typed, Elsewhere, world, binding

LEMMA FieldsTyped ==
  ASSUME Typed
  PROVE  /\ command.at = "greeting" =>
              \A fresh \in BOOLEAN :
                [command EXCEPT !.at = "patching", !.fresh = fresh] \in CommandRecords
         /\ command.at = "patching" => 
              \A h \in Hooks : [command EXCEPT !.at = "saving", !.hook = h] \in CommandRecords
         /\ command.at = "saving" => [command EXCEPT !.at = "binding"] \in CommandRecords
         /\ command.at = "binding" =>
              \A hs \in SUBSET Hooks :
                [command EXCEPT !.at = "patching", !.todo = hs, !.hook = None] \in CommandRecords
         /\ [command EXCEPT !.at = "leaving"] \in CommandRecords
         /\ \A hs \in SUBSET Hooks :
              /\ [command EXCEPT !.at = "left", !.todo = hs] \in CommandRecords
              /\ [command EXCEPT !.at = "leaving", !.todo = hs] \in CommandRecords
<1>1. command \in CommandRecords
  BY DEF Typed
<1>2. command.at = "greeting" =>
        \A fresh \in BOOLEAN : [command EXCEPT !.at = "patching", !.fresh = fresh] \in CommandRecords
  BY <1>1 DEF CommandRecords
<1>3. command.at = "patching" => 
        \A h \in Hooks : [command EXCEPT !.at = "saving", !.hook = h] \in CommandRecords
  BY <1>1 DEF CommandRecords
<1>4. command.at = "saving" => [command EXCEPT !.at = "binding"] \in CommandRecords
  BY <1>1 DEF CommandRecords
<1>5. command.at = "binding" =>
        \A hs \in SUBSET Hooks :
          [command EXCEPT !.at = "patching", !.todo = hs, !.hook = None] \in CommandRecords
  BY <1>1 DEF CommandRecords
<1>6. [command EXCEPT !.at = "leaving"] \in CommandRecords
  BY <1>1 DEF CommandRecords
<1>7. \A hs \in SUBSET Hooks : [command EXCEPT !.at = "left", !.todo = hs] \in CommandRecords
  BY <1>1 DEF CommandRecords
<1>8. \A hs \in SUBSET Hooks : [command EXCEPT !.at = "leaving", !.todo = hs] \in CommandRecords
  BY <1>1 DEF CommandRecords
<1> QED BY <1>2, <1>3, <1>4, <1>5, <1>6, <1>7, <1>8

LEMMA EndTyped == ASSUME Typed, EndCommand PROVE command' \in CommandRecords
BY NoCommandTyped DEF EndCommand

LEMMA CommandGreetedTyped == ASSUME Typed, CommandGreeted PROVE Typed'
<1>1. command' \in CommandRecords
  BY FieldsTyped, EndTyped DEF CommandGreeted
<1> QED BY <1>1, StopTyped DEF CommandGreeted, Typed, Elsewhere, world, binding

LEMMA CommandPatchTyped == ASSUME Typed, NEW h \in Hooks, CommandPatch(h) PROVE Typed'
<1>1. command' \in CommandRecords
  BY FieldsTyped, EndTyped DEF CommandPatch
<1>2. server' \in ServerTables /\ copies' \in CopyTables
  <2>1. "here" \in Bindings
    BY DEF Bindings
  <2> QED BY <2>1, HandTyped DEF CommandPatch, Typed
<1> QED BY <1>1, <1>2 DEF CommandPatch, Typed, Elsewhere, world

LEMMA CommandSaveTyped == ASSUME Typed, CommandSave PROVE Typed'
<1> DEFINE h == command.hook
           a == [hooks[h] EXCEPT !.state = "attached"]
           b == [a EXCEPT !.failing = "no"]
           o == [b EXCEPT !.token = IF command.op = "attach" THEN command.token ELSE b.token]
<1>1. h \in Hooks /\ command.token \in Tokens
  BY CommandIs DEF CommandSave
<1>2. o \in HookRecords
  <2>1. a \in HookRecords
    BY <1>1 DEF Typed, HookTables, HookRecords, HookStates
  <2> HIDE DEF a
  <2>2. b \in HookRecords
    BY <2>1 DEF HookRecords
  <2> HIDE DEF b
  <2> QED BY <1>1, <2>2 DEF HookRecords
<1>3. hooks' = [hooks EXCEPT ![h] = o]
  BY <1>1 DEF CommandSave, Typed, HookTables
<1> HIDE DEF o
<1>4. hooks' \in HookTables
  BY <1>2, <1>3 DEF Typed, HookTables
<1>5. requests' \in Seq(SentRequests) /\ wait' \in WaitTables
  BY <1>1, CommandIs, AskTyped DEF CommandSave, RequestOps, Acks
<1>6. socket' \in Sockets
  BY SocketTyped DEF CommandSave
<1>7. command' \in CommandRecords
  BY FieldsTyped DEF CommandSave, SetCommand
<1> QED BY <1>4, <1>5, <1>6, <1>7 DEF CommandSave, Typed, Elsewhere, world, binding

LEMMA CommandBoundTyped == ASSUME Typed, CommandBound PROVE Typed'
<1>1. command' \in CommandRecords
  BY FieldsTyped, EndTyped, CommandIs DEF CommandBound
<1> QED BY <1>1, StopTyped DEF CommandBound, Typed, Elsewhere, world, binding

LEMMA UnhookTyped == ASSUME Typed, NEW h \in Hooks, Unhook(h) PROVE Typed'
<1>1. command' \in CommandRecords
  BY DEF Unhook, NoCommand, CommandRecords
<1>2. server' \in ServerTables /\ copies' \in CopyTables /\ pauses' \in Seq(Pauses)
  BY WithdrawTyped DEF Unhook, Bindings, Reasons
<1> QED BY <1>1, <1>2, DisturbTyped DEF Unhook, Typed, Elsewhere, world

LEMMA CommandUnhookedTyped == ASSUME Typed, CommandUnhooked PROVE Typed'
<1>1. hooks' \in HookTables
  BY StateTyped DEF CommandUnhooked, HookStates
<1> QED BY <1>1, UnauthorizeTyped, EndTyped DEF CommandUnhooked, Typed, Elsewhere, world, binding

LEMMA LogoutTyped == ASSUME Typed, Logout PROVE Typed'
<1> DEFINE mine == {h \in Hooks : SessionFor(h)}
<1>1. \A h \in Hooks : [hooks[h] EXCEPT !.state = "auth_paused"] \in HookRecords
  BY DEF Typed, HookTables, HookRecords, HookStates
<1>2. mine \in SUBSET Hooks
  OBVIOUS
<1>3. /\ socket' = [socket EXCEPT !.authorized = @ \ mine, !.blocked = @ \cup mine]
      /\ hooks' = [h \in Hooks |-> IF h \in mine THEN [hooks[h] EXCEPT !.state = "auth_paused"]
                                   ELSE hooks[h]]
      /\ command' = [NoCommand EXCEPT !.at = "leaving", !.op = "logout", !.todo = mine,
                                      !.token = session]
  BY DEF Logout
<1> HIDE DEF mine
<1>4. hooks' \in HookTables
  BY <1>1, <1>3 DEF Typed, HookTables
<1>5. socket' \in Sockets
  BY <1>2, <1>3 DEF Typed, Sockets
<1>6. command' \in CommandRecords
  BY <1>2, <1>3 DEF NoCommand, CommandRecords, Typed
<1> QED BY <1>4, <1>5, <1>6, DisturbTyped DEF Logout, Typed, Elsewhere, world, binding

LEMMA CommandLeaveTyped == ASSUME Typed, NEW h \in Hooks, CommandLeave(h) PROVE Typed'
<1>1. command' \in CommandRecords
  BY FieldsTyped, CommandIs DEF CommandLeave
<1>2. requests' \in Seq(SentRequests) /\ wait' \in WaitTables
  BY CommandIs, AskTyped DEF CommandLeave, RequestOps, Acks
<1> QED BY <1>1, <1>2 DEF CommandLeave, Typed, Elsewhere, world, binding

LEMMA CommandLeftTyped == ASSUME Typed, CommandLeft PROVE Typed'
<1>1. command' \in CommandRecords
  BY FieldsTyped DEF CommandLeft, SetCommand
<1> QED BY <1>1, StopTyped DEF CommandLeft, Typed, Elsewhere, world, binding

LEMMA EndSessionTyped == ASSUME Typed, EndSession PROVE Typed'
<1>1. CASE /\ live' = live \ {session}
           /\ Withdraw({h \in BoundHere : server[h].token = session}, "free", "session_expired")
           /\ authed' = IF authed = session THEN None ELSE authed
  <2>1. server' \in ServerTables /\ copies' \in CopyTables /\ pauses' \in Seq(Pauses)
    BY <1>1, WithdrawTyped DEF Bindings, Reasons
  <2> QED BY <1>1, <2>1, EndTyped DEF EndSession, Typed, world
<1>2. CASE UNCHANGED <<live, server, copies, authed, pauses>>
  BY <1>2, EndTyped DEF EndSession, Typed, world
<1> QED BY <1>1, <1>2 DEF EndSession

LEMMA LoginTyped == ASSUME Typed, NEW t \in Tokens, Login(t) PROVE Typed'
BY DisturbTyped DEF Login, Typed, tasks, link, binding, world

LEMMA CommandAbortedTyped == ASSUME Typed, CommandAborted PROVE Typed'
<1>1. command' \in CommandRecords
  BY FieldsTyped, NoCommandTyped DEF CommandAborted
<1> QED BY <1>1, DisturbTyped, StopTyped, ForsakeTyped DEF CommandAborted, Typed, disk, remote, world

------------------------------------------------------------------------------
(* The server.                                                              *)

LEMMA RequestTyped ==
  ASSUME Typed, requests # <<>>
  PROVE  /\ Head(requests) \in SentRequests /\ Tail(requests) \in Seq(SentRequests)
         /\ Head(requests).hooks \in SUBSET Hooks /\ Head(requests).tings \in SUBSET Messages
         /\ Head(requests).by \in Waiters \cup {None}
         /\ Head(requests).op \in Acks => \E h \in Hooks : Head(requests).hooks = {h}
<1>1. Head(requests) \in SentRequests /\ Tail(requests) \in Seq(SentRequests)
  BY HeadTailProperties DEF Typed
<1> QED BY <1>1 DEF SentRequests, Requests

LEMMA ReplyTyped ==
  ASSUME Typed, NEW r \in SentRequests, NEW op \in {"subscribed"} \cup Answers, Reply(op, r)
  PROVE  /\ frames' \in Seq(SentFrames)
         /\ Frame(op, IF op = "subscribed" THEN r.hooks ELSE {}, {}, r.by) \in SentFrames
<1>1. Frame(op, IF op = "subscribed" THEN r.hooks ELSE {}, {}, r.by) \in SentFrames
  BY DEF Frame, SentFrames, Frames, SentRequests, Requests, Answers, Reasons
<1> QED BY <1>1, AppendProperties DEF Reply, Typed

LEMMA HandleSubscribeTyped ==
  ASSUME Typed, NEW r \in SentRequests, HandleSubscribe(r)
  PROVE  /\ frames' \in Seq(SentFrames) /\ pauses' \in Seq(Pauses)
         /\ server' \in ServerTables /\ copies' \in CopyTables /\ authed' \in Tokens \cup {None}
<1>1. frames' \in Seq(SentFrames)
  BY ReplyTyped DEF HandleSubscribe, Answers
<1>2. CASE /\ r.token \in live /\ Hand(r.hooks, "here", r.token) /\ authed' = r.token
  <2>1. "here" \in Bindings /\ r.token \in Tokens
    BY <1>2 DEF Bindings, Typed
  <2> QED BY <1>1, <1>2, <2>1, HandTyped DEF HandleSubscribe, Typed
<1>3. CASE UNCHANGED binding
  BY <1>1, <1>3 DEF HandleSubscribe, Typed, binding
<1> QED BY <1>2, <1>3 DEF HandleSubscribe

LEMMA HandleUnsubscribeTyped ==
  ASSUME Typed, NEW r \in SentRequests, HandleUnsubscribe(r)
  PROVE  /\ frames' \in Seq(SentFrames) /\ pauses' \in Seq(Pauses)
         /\ server' \in ServerTables /\ copies' \in CopyTables /\ authed' \in Tokens \cup {None}
<1>1. frames' \in Seq(SentFrames)
  BY ReplyTyped DEF HandleUnsubscribe, Answers
<1>2. CASE Hand(r.hooks, IF r.op = "pause" THEN "paused" ELSE "free", None)
  <2>1. (IF r.op = "pause" THEN "paused" ELSE "free") \in Bindings
    BY DEF Bindings
  <2> QED BY <1>1, <1>2, <2>1, HandTyped DEF HandleUnsubscribe, Typed
<1>3. CASE UNCHANGED <<server, copies>>
  BY <1>1, <1>3 DEF HandleUnsubscribe, Typed
<1> QED BY <1>2, <1>3 DEF HandleUnsubscribe

LEMMA AckedTyped == ASSUME Typed, NEW r, NEW h PROVE Acked(r, h) \in CopyTables
BY DEF Acked, Typed, CopyTables, CopyStates

LEMMA HandleAckTyped ==
  ASSUME Typed, NEW r \in SentRequests, HandleAck(r)
  PROVE  /\ frames' \in Seq(SentFrames) /\ pauses' \in Seq(Pauses)
         /\ server' \in ServerTables /\ copies' \in CopyTables /\ authed' \in Tokens \cup {None}
<1>1. frames' \in Seq(SentFrames)
  BY ReplyTyped DEF HandleAck, Answers
<1>2. server' \in ServerTables /\ copies' \in CopyTables /\ pauses' \in Seq(Pauses)
  BY AckedTyped, ResetTyped, UnreachTyped DEF HandleAck, Typed
<1> QED BY <1>1, <1>2 DEF HandleAck, Typed

LEMMA HandleTyped == ASSUME Typed, Handle PROVE Typed'
<1> DEFINE r == Head(requests)
<1>1. r \in SentRequests /\ requests' \in Seq(SentRequests)
  BY RequestTyped DEF Handle
<1>2. HandleSubscribe(r) \/ HandleUnsubscribe(r) \/ HandleAck(r)
  BY DEF Handle
<1> HIDE DEF r
<1>3. /\ frames' \in Seq(SentFrames) /\ pauses' \in Seq(Pauses)
      /\ server' \in ServerTables /\ copies' \in CopyTables /\ authed' \in Tokens \cup {None}
  BY <1>1, <1>2, HandleSubscribeTyped, HandleUnsubscribeTyped, HandleAckTyped
<1> QED BY <1>1, <1>3 DEF Handle, Typed, Local, disk, tasks, world

LEMMA OfferTyped == ASSUME Typed, NEW h \in Hooks, Offer(h) PROVE Typed'
<1> DEFINE window == {m \in inbox : copies[h][m] \in {"out", "queued"}}
           batch == {m \in inbox : /\ age[m] < 3
                                   /\ IF window = {} THEN m \notin muted /\ copies[h][m] # "read"
                                      ELSE copies[h][m] = "out"}
           f == Frame("tings", {h}, batch, None)
<1>1. f \in SentFrames
  BY DEF Frame, SentFrames, Frames, Typed, Answers
<1>2. frames' = Append(frames, f)
  BY DEF Offer
<1> HIDE DEF f
<1>3. frames' \in Seq(SentFrames)
  BY <1>1, <1>2, AppendProperties DEF Typed
<1>4. copies' \in CopyTables
  BY DEF Offer, Typed, CopyTables, CopyStates
<1> QED BY <1>3, <1>4 DEF Offer, Typed, Local, disk, tasks, world

LEMMA WithdrawExpiredTyped == ASSUME Typed, NEW h \in Hooks, WithdrawExpired(h) PROVE Typed'
<1>1. server' \in ServerTables /\ copies' \in CopyTables /\ pauses' \in Seq(Pauses)
  BY WithdrawTyped DEF WithdrawExpired, Bindings, Reasons
<1> QED BY <1>1 DEF WithdrawExpired, Typed, Local, disk, tasks, world

LEMMA RevalidateTyped == ASSUME Typed, Revalidate PROVE Typed'
<1>1. server' \in ServerTables /\ copies' \in CopyTables /\ pauses' \in Seq(Pauses)
  BY WithdrawTyped DEF Revalidate, Bindings, Reasons
<1>2. disturbed' \in 0 .. MaxDisturbed
  BY DisturbTyped DEF Revalidate, Typed
<1> QED BY <1>1, <1>2 DEF Revalidate, Typed, Local, disk, tasks, world

LEMMA SendPauseTyped == ASSUME Typed, SendPause PROVE Typed'
<1>1. Head(pauses) \in Pauses /\ pauses' \in Seq(Pauses)
  BY HeadTailProperties DEF SendPause, Typed
<1>2. Head(pauses) \in SentFrames
  BY <1>1 DEF Pauses
<1>3. frames' \in Seq(SentFrames)
  BY <1>2, AppendProperties DEF SendPause, Typed
<1> QED BY <1>1, <1>3 DEF SendPause, Typed, Local, disk, tasks, remote, world

LEMMA ReleaseReceiverTyped == ASSUME Typed, NEW h \in Hooks, ReleaseReceiver(h) PROVE Typed'
<1>1. server' \in ServerTables /\ copies' \in CopyTables
  BY HandTyped DEF ReleaseReceiver, Bindings
<1> QED BY <1>1 DEF ReleaseReceiver, Typed, Local, disk, tasks, link, world

LEMMA MuteTyped == ASSUME Typed, NEW m \in Messages, Mute(m) PROVE Typed'
<1>1. copies' \in CopyTables /\ muted' \in SUBSET Messages
  BY ResetTyped DEF Mute, Typed
<1> QED BY <1>1, UnreachTyped, DisturbTyped DEF Mute, Typed, Local, disk, tasks, world

LEMMA StealTyped == ASSUME Typed, NEW h \in Hooks, Steal(h) PROVE Typed'
<1>1. server' \in ServerTables /\ copies' \in CopyTables /\ pauses' \in Seq(Pauses)
  BY WithdrawTyped DEF Steal, Bindings, Reasons
<1> QED BY <1>1, DisturbTyped DEF Steal, Typed, Local, disk, tasks, world

LEMMA DetachElsewhereTyped == ASSUME Typed, NEW h \in Hooks, DetachElsewhere(h) PROVE Typed'
<1>1. server' \in ServerTables /\ copies' \in CopyTables /\ pauses' \in Seq(Pauses)
  BY WithdrawTyped DEF DetachElsewhere, Bindings, Reasons
<1> QED BY <1>1, DisturbTyped DEF DetachElsewhere, Typed, Local, disk, tasks, world

LEMMA ExpireTyped == ASSUME Typed, Expire PROVE Typed'
BY DisturbTyped DEF Expire, Typed, Local, disk, tasks, link, binding, world

LEMMA PruneInboxTyped == ASSUME Typed, NEW m \in Messages, PruneInbox(m) PROVE Typed'
BY DEF PruneInbox, Typed, Local, disk, tasks, link, binding, world

LEMMA GrowTyped == ASSUME Typed, NEW m \in Messages, Grow(m) PROVE Typed'
<1>1. age' \in AgeTables
  BY DEF Grow, Typed, AgeTables
<1> QED BY <1>1, DisturbTyped DEF Grow, Typed, Local, disk, tasks, link, remote

LEMMA HalfDayTyped == ASSUME Typed, NEW h \in Hooks, HalfDay(h) PROVE Typed'
<1>1. hooks' \in HookTables
  BY FailingTyped DEF HalfDay
<1> QED BY <1>1, DisturbTyped DEF HalfDay, Typed, tasks, link, remote, world

LEMMA TypedStep == ASSUME Typed, Next PROVE Typed'
<1>1. ASSUME NEW h \in Hooks, JobStep(h) PROVE Typed'
  BY <1>1, JobAckTyped, JobPauseTyped, JobPausedTyped, JobStartTyped, JobProbedTyped,
     JobCheckTyped, JobCheckedTyped, JobAcceptedTyped, JobFailedTyped, JobAckedTyped,
     JobAbortedTyped DEF JobStep
<1>2. ASSUME NEW r \in Restorers, RestoreStart(r) \/ RestoreStep(r) PROVE Typed'
  BY <1>2, RestoreStartTyped, RestoreCutTyped, RestorePauseTyped, RestorePausedTyped,
     RestoreAttachTyped, RestoreDoneTyped DEF RestoreStep
<1>3. ASSUME Reconnect \/ Logout \/ CommandStep PROVE Typed'
  <2>1. ASSUME Reconnect PROVE Typed'
    BY <2>1, ReattachTyped DEF Reconnect
  <2> QED
    BY <1>3, <2>1, LogoutTyped, CommandGreetedTyped, CommandPatchTyped, CommandSaveTyped,
       CommandBoundTyped, CommandUnhookedTyped, CommandLeaveTyped, CommandLeftTyped,
       EndSessionTyped, CommandAbortedTyped DEF CommandStep
<1>4. ASSUME NEW h \in Hooks,
             \/ Attach(h) \/ Unhook(h) \/ Offer(h) \/ Settle(h) \/ Steal(h)
             \/ DetachElsewhere(h) \/ HalfDay(h) \/ \E m \in Messages : Sweep(h, m)
      PROVE  Typed'
  <2>1. ASSUME Attach(h) PROVE Typed'
    BY <2>1, ReattachTyped DEF Attach
  <2> QED
    BY <1>4, <2>1, UnhookTyped, OfferTyped, ReleaseReceiverTyped, WithdrawExpiredTyped,
       StealTyped, DetachElsewhereTyped, HalfDayTyped, SweepTyped DEF Settle
<1>5. ASSUME \/ Connect \/ Lose \/ Receive \/ Crash
             \/ Handle \/ SendPause \/ Expire \/ Revalidate
      PROVE  Typed'
  BY <1>5, ConnectTyped, LoseTyped, ReceiveTyped, CrashTyped, HandleTyped, SendPauseTyped,
     ExpireTyped, RevalidateTyped
<1>6. ASSUME \/ \E w \in Waiters : TimeOut(w)
             \/ \E t \in Tokens : Login(t)
             \/ \E m \in Messages : Mute(m) \/ PruneInbox(m) \/ Grow(m)
      PROVE  Typed'
  BY <1>6, TimeOutTyped, LoginTyped, MuteTyped, PruneInboxTyped, GrowTyped
<1> QED BY <1>1, <1>2, <1>3, <1>4, <1>5, <1>6 DEF Next

LEMMA TypedStays == ASSUME Typed, UNCHANGED vars PROVE Typed'
BY DEF Typed, vars, disk, tasks, link, remote, world

LEMMA TypedAlways == Spec => []Typed
<1>1. Init => Typed
  BY InitTyped
<1>2. Typed /\ [Next]_vars => Typed'
  BY TypedStep, TypedStays
<1> QED BY <1>1, <1>2, PTL DEF Spec

(* What the daemon keeps, what is under way and what the server believes    *)
(* have their types in every reachable state.                               *)
THEOREM TypeCorrect == Spec => []TypeOK
<1>1. Spec => []Typed
  BY TypedAlways
<1>2. Typed => TypeOK
  BY TypedIsTypeOK
<1> QED BY <1>1, <1>2, PTL

------------------------------------------------------------------------------
(* The block of a logout.                                                   *)

LEMMA BlockKept ==
  ASSUME Typed, BlockedIsSilent,
         \/ UNCHANGED socket
         \/ \E hs : Unauthorize(hs)
         \/ socket'.authorized = {}
  PROVE  BlockedIsSilent'
BY DEF Typed, Sockets, Unauthorize, BlockedIsSilent

LEMMA BlockedStep == ASSUME Typed, BlockedIsSilent, Next PROVE BlockedIsSilent'
<1>1. ASSUME Connect \/ Lose \/ Crash PROVE BlockedIsSilent'
  <2>1. CASE Connect \/ Lose
    <3>1. \A up \in BOOLEAN : [socket EXCEPT !.up = up, !.authorized = {}].authorized = {}
      BY DEF Typed, Sockets
    <3>2. socket'.authorized = {}
      BY <2>1, <3>1 DEF Connect, Lose
    <3> QED BY <3>2, BlockKept
  <2>2. CASE Crash
    BY <2>2 DEF Crash, BlockedIsSilent
  <2> QED BY <1>1, <2>1, <2>2
<1>2. ASSUME Receive PROVE BlockedIsSilent'
  BY <1>2 DEF Receive, ReceiveTings, ReceivePause, ReceiveAnswer, BlockedIsSilent, Typed, Sockets
<1>3. ASSUME NEW r \in Restorers, RestoreStart(r) \/ RestoreStep(r) PROVE BlockedIsSilent'
  <2>1. UNCHANGED socket \/ \E hs : Unauthorize(hs)
    BY <1>3 DEF RestoreStart, RestoreStep, RestoreCut, RestorePause, RestorePaused,
                RestoreAttach, RestoreDone
  <2> QED BY <2>1, BlockKept
<1>4. ASSUME NEW h \in Hooks, JobStep(h) PROVE BlockedIsSilent'
  <2>1. UNCHANGED socket \/ \E hs : Unauthorize(hs)
    BY <1>4 DEF JobStep, JobAck, JobPause, JobPaused, JobStart, JobProbed, JobCheck, JobChecked,
                JobAccepted, JobFailed, JobAcked, JobAborted
  <2> QED BY <2>1, BlockKept
<1>5. ASSUME CommandSave PROVE BlockedIsSilent'
  BY <1>5 DEF CommandSave, BlockedIsSilent, Typed, Sockets
<1>6. ASSUME Logout PROVE BlockedIsSilent'
  <2> DEFINE mine == {h \in Hooks : SessionFor(h)}
  <2>1. socket' = [socket EXCEPT !.authorized = @ \ mine, !.blocked = @ \cup mine]
    BY <1>6 DEF Logout
  <2> HIDE DEF mine
  <2> QED BY <2>1 DEF BlockedIsSilent, Typed, Sockets
<1>7. ASSUME \/ Reconnect \/ \E h \in Hooks : Attach(h) \/ Unhook(h) \/ CommandPatch(h) \/ CommandLeave(h)
             \/ CommandGreeted \/ CommandBound \/ CommandUnhooked \/ CommandLeft \/ EndSession
             \/ CommandAborted
      PROVE  BlockedIsSilent'
  <2>1. UNCHANGED socket \/ \E hs : Unauthorize(hs)
    BY <1>7 DEF Reconnect, Attach, Reattach, Unhook, CommandPatch, CommandLeave, CommandGreeted,
                CommandBound, CommandUnhooked, CommandLeft, EndSession, CommandAborted
  <2> QED BY <2>1, BlockKept
<1>8. ASSUME \/ Handle \/ SendPause \/ Expire \/ Revalidate
             \/ \E w \in Waiters : TimeOut(w)
             \/ \E t \in Tokens : Login(t)
             \/ \E h \in Hooks : \/ Offer(h) \/ Settle(h) \/ Steal(h) \/ DetachElsewhere(h)
                                 \/ HalfDay(h) \/ \E m \in Messages : Sweep(h, m)
             \/ \E m \in Messages : Mute(m) \/ PruneInbox(m) \/ Grow(m)
      PROVE  BlockedIsSilent'
  <2>1. UNCHANGED socket
    BY <1>8 DEF Handle, SendPause, Expire, Revalidate, TimeOut, Login, Offer, Settle,
                ReleaseReceiver, WithdrawExpired, Steal, DetachElsewhere, HalfDay, Sweep, Mute,
                PruneInbox, Grow, Local
  <2> QED BY <2>1, BlockKept
<1> QED BY <1>1, <1>2, <1>3, <1>4, <1>5, <1>6, <1>7, <1>8 DEF Next, CommandStep

(* A hook blocked by a logout is never authorized before a command lifts    *)
(* the block, whatever subscriptions were under way when it was logged out. *)
THEOREM BlockHolds == Spec => []BlockedIsSilent
<1>1. Init => BlockedIsSilent
  BY DEF Init, BlockedIsSilent
<1>2. Typed /\ BlockedIsSilent /\ [Next]_vars => BlockedIsSilent'
  <2>1. ASSUME Typed, BlockedIsSilent, UNCHANGED vars PROVE BlockedIsSilent'
    BY <2>1 DEF vars, BlockedIsSilent
  <2> QED BY <2>1, BlockedStep
<1> QED BY <1>1, <1>2, TypedAlways, PTL DEF Spec

(***************************************************************************)
(* The delivery of one hook.                                               *)
(***************************************************************************)
IsRead(h, m) == copies[h][m] = "read"
Reads(r, h) == r.op = "read" /\ h \in r.hooks
Offers(f, h) == f.op = "tings" /\ h \in f.hooks
BatchRead(h) == \A m \in jobs[h].batch : IsRead(h, m)
Delivering(h) == jobs[h].at \in {"probing", "posting"}

(* A worker waits for one answer at a time, and for none when it does not   *)
(* wait.                                                                    *)
AsksOnce(h) ==
  /\ \A i, j \in DOMAIN requests : requests[i].by = h /\ requests[j].by = h => i = j
  /\ \A i, j \in DOMAIN frames : frames[i].by = h /\ frames[j].by = h => i = j
  /\ \A i \in DOMAIN requests, j \in DOMAIN frames : requests[i].by = h => frames[j].by # h
  /\ (\E i \in DOMAIN requests : requests[i].by = h) \/ (\E i \in DOMAIN frames : frames[i].by = h)
       => wait[h] = "asked" /\ jobs[h].at \in {"acking", "pausing"}

(* What it asks the server to count as read is its batch; when that was     *)
(* granted, no offer of it is behind the answer.                            *)
AsksItsBatch(h) ==
  jobs[h].at = "acking" =>
    /\ \A i \in DOMAIN requests :
         requests[i].by = h => Reads(requests[i], h) /\ requests[i].tings = jobs[h].batch
    /\ \A i \in DOMAIN frames :
         frames[i].by = h /\ frames[i].op \in {"ok", "subscribed"} =>
           /\ BatchRead(h)
           /\ \A j \in DOMAIN frames :
                i < j /\ Offers(frames[j], h) => frames[j].tings \cap jobs[h].batch = {}
    /\ wait[h] = "ok" =>
         /\ BatchRead(h)
         /\ \A j \in DOMAIN frames : Offers(frames[j], h) => frames[j].tings \cap jobs[h].batch = {}

(* Only what the destination has answered is accepted, acknowledged, read.  *)
AnswersKept(h) ==
  /\ \A m \in Messages : queue[h][m] = "accepted" \/ IsRead(h, m) => m \in answered[h]
  /\ \A i \in DOMAIN requests : Reads(requests[i], h) => requests[i].tings \subseteq answered[h]

(* What is read, or may be counted as read by what is under way, does not   *)
(* become eligible again.                                                   *)
Gone(h, m) == queue[h][m] = "none" /\ age[m] = 3
NotAgain(h) ==
  /\ \A m \in inbox : IsRead(h, m) => queue[h][m] \in {"none", "accepted"}
  /\ \A i \in DOMAIN frames : Offers(frames[i], h) =>
       \A m \in frames[i].tings \cap inbox :
         IsRead(h, m) => queue[h][m] = "accepted" \/ age[m] = 3
  /\ \A i \in DOMAIN requests : Reads(requests[i], h) =>
       \A m \in requests[i].tings \cap inbox :
         IsRead(h, m) \/ queue[h][m] = "accepted" \/ Gone(h, m)

(* Nobody has asked to count as read what is about to be posted.            *)
PostsUnread(h) ==
  /\ jobs[h].at = "posting" => jobs[h].batch # {}
  /\ Delivering(h) =>
       /\ \A m \in jobs[h].batch \cap inbox :
            ~IsRead(h, m) /\ (queue[h][m] \in {"ready", "stale"} \/ Gone(h, m))
       /\ \A i \in DOMAIN requests :
            Reads(requests[i], h) => requests[i].tings \cap jobs[h].batch \cap inbox = {}

(* What is or may be counted as queued is held.                             *)
HeldUntilRead(h) ==
  /\ \A m \in inbox : copies[h][m] = "queued" /\ age[m] < 3 => queue[h][m] # "none"
  /\ \A i \in DOMAIN requests : requests[i].op = "delivery" /\ h \in requests[i].hooks =>
       \A m \in requests[i].tings \cap inbox :
         queue[h][m] # "none" \/ age[m] = 3 \/ IsRead(h, m)

Delivered(h) ==
  /\ AsksOnce(h) /\ AsksItsBatch(h) /\ AnswersKept(h)
  /\ NotAgain(h) /\ PostsUnread(h) /\ HeldUntilRead(h)
DeliveryInv == \A h \in Hooks : Delivered(h)

------------------------------------------------------------------------------
(* Steps that neither ask, nor answer, nor offer, nor accept for a hook.    *)

Concerns(r, h) == r.by = h \/ (r.op \in Acks /\ h \in r.hooks)
Regards(f, h) == f.by = h \/ (f.op = "tings" /\ h \in f.hooks)
Silent(h) ==
  /\ \A i \in DOMAIN requests : requests[i].by # h
  /\ \A i \in DOMAIN frames : frames[i].by # h

(* What is under way for the hook was so before, in the same order.         *)
RequestsCalm(h) ==
  \E s : \A i \in DOMAIN requests' : Concerns(requests'[i], h) =>
    /\ s[i] \in DOMAIN requests
    /\ requests[s[i]].op = requests'[i].op /\ requests[s[i]].hooks = requests'[i].hooks
    /\ requests[s[i]].tings = requests'[i].tings
    /\ requests'[i].by = h => requests[s[i]].by = h
    /\ \A j \in DOMAIN requests' : Concerns(requests'[j], h) /\ i < j => s[i] < s[j]
FramesCalm(h) ==
  \E s : \A i \in DOMAIN frames' : Regards(frames'[i], h) =>
    /\ s[i] \in DOMAIN frames
    /\ frames[s[i]].op = frames'[i].op /\ frames[s[i]].hooks = frames'[i].hooks
    /\ frames[s[i]].tings = frames'[i].tings
    /\ frames'[i].by = h => frames[s[i]].by = h
    /\ \A j \in DOMAIN frames' : Regards(frames'[j], h) /\ i < j => s[i] < s[j]
WaitCalm(h) == wait'[h] = wait[h] \/ (Silent(h)' /\ wait'[h] # "ok")
JobCalm(h) ==
  \/ jobs'[h].at = jobs[h].at /\ jobs'[h].batch = jobs[h].batch
  \/ Silent(h)' /\ jobs'[h].at \notin {"acking", "pausing", "probing", "posting"}
QueueCalm(h) ==
  \A m \in Messages :
    \/ queue'[h][m] = queue[h][m]
    \/ queue[h][m] = "ready" /\ queue'[h][m] = "stale"
    \/ queue'[h][m] = "none" /\ (age[m] = 3 \/ m \notin inbox)
CopiesCalm(h) ==
  \A m \in Messages :
    /\ copies'[h][m] = "read" <=> copies[h][m] = "read"
    /\ copies'[h][m] = "queued" => copies[h][m] = "queued"
TimePasses ==
  /\ \A m \in Messages : age[m] = 3 => age'[m] = 3
  /\ inbox' \subseteq inbox

RestCalm(h) ==
  /\ RequestsCalm(h) /\ FramesCalm(h) /\ JobCalm(h)
  /\ QueueCalm(h) /\ CopiesCalm(h) /\ answered[h] \subseteq answered'[h]
Calm(h) == WaitCalm(h) /\ RestCalm(h)

LEMMA LinkIs ==
  ASSUME Typed
  PROVE  /\ Len(requests) \in Nat /\ DOMAIN requests = 1 .. Len(requests)
         /\ Len(frames) \in Nat /\ DOMAIN frames = 1 .. Len(frames)
         /\ \A i \in DOMAIN requests : requests[i] \in SentRequests /\ requests[i].tings \in SUBSET Messages
         /\ \A i \in DOMAIN frames : frames[i] \in SentFrames /\ frames[i].tings \in SUBSET Messages
<1>1. Len(requests) \in Nat /\ DOMAIN requests = 1 .. Len(requests)
      /\ \A i \in DOMAIN requests : requests[i] \in SentRequests
  BY LenProperties, ElementOfSeq DEF Typed
<1>2. Len(frames) \in Nat /\ DOMAIN frames = 1 .. Len(frames)
      /\ \A i \in DOMAIN frames : frames[i] \in SentFrames
  BY LenProperties, ElementOfSeq DEF Typed
<1> QED BY <1>1, <1>2 DEF SentRequests, Requests, SentFrames, Frames

LEMMA CalmAsks ==
  ASSUME Typed, Typed', NEW h \in Hooks, Delivered(h), Calm(h)
  PROVE  AsksOnce(h)'
<1>1. PICK s : \A i \in DOMAIN requests' : Concerns(requests'[i], h) =>
        /\ s[i] \in DOMAIN requests /\ (requests'[i].by = h => requests[s[i]].by = h)
        /\ \A j \in DOMAIN requests' : Concerns(requests'[j], h) /\ i < j => s[i] < s[j]
  BY DEF Calm, RestCalm, RequestsCalm
<1>2. PICK t : \A i \in DOMAIN frames' : Regards(frames'[i], h) =>
        /\ t[i] \in DOMAIN frames /\ (frames'[i].by = h => frames[t[i]].by = h)
        /\ \A j \in DOMAIN frames' : Regards(frames'[j], h) /\ i < j => t[i] < t[j]
  BY DEF Calm, RestCalm, FramesCalm
<1>3. /\ \A i, j \in DOMAIN requests : requests[i].by = h /\ requests[j].by = h => i = j
      /\ \A i, j \in DOMAIN frames : frames[i].by = h /\ frames[j].by = h => i = j
      /\ \A i \in DOMAIN requests, j \in DOMAIN frames : requests[i].by = h => frames[j].by # h
  BY DEF Delivered, AsksOnce
<1>4. ASSUME NEW i \in DOMAIN requests', requests'[i].by = h
      PROVE  s[i] \in DOMAIN requests /\ requests[s[i]].by = h
             /\ \A j \in DOMAIN requests' : requests'[j].by = h /\ i < j => s[i] < s[j]
  BY <1>1, <1>4 DEF Concerns
<1>5. ASSUME NEW i \in DOMAIN frames', frames'[i].by = h
      PROVE  t[i] \in DOMAIN frames /\ frames[t[i]].by = h
             /\ \A j \in DOMAIN frames' : frames'[j].by = h /\ i < j => t[i] < t[j]
  BY <1>2, <1>5 DEF Regards
<1>6. DOMAIN requests' \subseteq Nat /\ DOMAIN frames' \subseteq Nat
      /\ DOMAIN requests \subseteq Nat /\ DOMAIN frames \subseteq Nat
  <2>1. DOMAIN requests \subseteq Nat /\ DOMAIN frames \subseteq Nat
    BY LinkIs
  <2>2. DOMAIN requests' = 1 .. Len(requests') /\ DOMAIN frames' = 1 .. Len(frames')
        /\ Len(requests') \in Nat /\ Len(frames') \in Nat
    BY LenProperties DEF Typed
  <2> QED BY <2>1, <2>2
<1>7. ASSUME NEW i \in DOMAIN requests', NEW j \in DOMAIN requests',
             requests'[i].by = h, requests'[j].by = h
      PROVE  i = j
  BY <1>3, <1>4, <1>6, <1>7
<1>8. ASSUME NEW i \in DOMAIN frames', NEW j \in DOMAIN frames',
             frames'[i].by = h, frames'[j].by = h
      PROVE  i = j
  BY <1>3, <1>5, <1>6, <1>8
<1>9. ASSUME NEW i \in DOMAIN requests', NEW j \in DOMAIN frames', requests'[i].by = h
      PROVE  frames'[j].by # h
  BY <1>3, <1>4, <1>5, <1>9
<1>10. ASSUME \/ \E i \in DOMAIN requests' : requests'[i].by = h
              \/ \E i \in DOMAIN frames' : frames'[i].by = h
       PROVE  wait'[h] = "asked" /\ jobs'[h].at \in {"acking", "pausing"}
  <2>1. wait[h] = "asked" /\ jobs[h].at \in {"acking", "pausing"}
    BY <1>4, <1>5, <1>10 DEF Delivered, AsksOnce
  <2>2. ~Silent(h)'
    BY <1>10 DEF Silent
  <2> QED BY <2>1, <2>2 DEF Calm, RestCalm, WaitCalm, JobCalm
<1> QED BY <1>7, <1>8, <1>9, <1>10 DEF AsksOnce

LEMMA CalmBatch ==
  ASSUME Typed, NEW h \in Hooks, Delivered(h), Calm(h)
  PROVE  AsksItsBatch(h)'
<1> SUFFICES ASSUME jobs'[h].at = "acking" PROVE AsksItsBatch(h)'
  BY DEF AsksItsBatch
<1>1. jobs[h].at = "acking" /\ jobs'[h].batch = jobs[h].batch /\ jobs[h].batch \in SUBSET Messages
  BY JobIs DEF Calm, RestCalm, JobCalm
<1>2. BatchRead(h) => BatchRead(h)'
  BY <1>1 DEF BatchRead, IsRead, Calm, RestCalm, CopiesCalm
<1>3. ASSUME NEW i \in DOMAIN requests', requests'[i].by = h
      PROVE  Reads(requests'[i], h) /\ requests'[i].tings = jobs'[h].batch
  <2>1. PICK k \in DOMAIN requests :
          /\ requests[k].op = requests'[i].op /\ requests[k].hooks = requests'[i].hooks
          /\ requests[k].tings = requests'[i].tings /\ requests[k].by = h
    BY <1>3 DEF Calm, RestCalm, RequestsCalm, Concerns
  <2>2. Reads(requests[k], h) /\ requests[k].tings = jobs[h].batch
    BY <1>1, <2>1 DEF Delivered, AsksItsBatch
  <2> QED BY <1>1, <2>1, <2>2 DEF Reads
<1>4. PICK t : \A i \in DOMAIN frames' : Regards(frames'[i], h) =>
        /\ t[i] \in DOMAIN frames
        /\ frames[t[i]].op = frames'[i].op /\ frames[t[i]].hooks = frames'[i].hooks
        /\ frames[t[i]].tings = frames'[i].tings
        /\ frames'[i].by = h => frames[t[i]].by = h
        /\ \A j \in DOMAIN frames' : Regards(frames'[j], h) /\ i < j => t[i] < t[j]
  BY DEF Calm, RestCalm, FramesCalm
<1>5. ASSUME NEW i \in DOMAIN frames', frames'[i].by = h, frames'[i].op \in {"ok", "subscribed"}
      PROVE  /\ BatchRead(h)'
             /\ \A j \in DOMAIN frames' :
                  i < j /\ Offers(frames'[j], h) => frames'[j].tings \cap jobs'[h].batch = {}
  <2>1. t[i] \in DOMAIN frames /\ frames[t[i]].op = frames'[i].op /\ frames[t[i]].by = h
    BY <1>4, <1>5 DEF Regards
  <2>2. /\ BatchRead(h)
        /\ \A j \in DOMAIN frames :
             t[i] < j /\ Offers(frames[j], h) => frames[j].tings \cap jobs[h].batch = {}
    BY <1>1, <1>5, <2>1 DEF Delivered, AsksItsBatch
  <2>3. ASSUME NEW j \in DOMAIN frames', i < j, Offers(frames'[j], h)
        PROVE  frames'[j].tings \cap jobs'[h].batch = {}
    <3>1. Regards(frames'[i], h) /\ Regards(frames'[j], h)
      BY <1>5, <2>3 DEF Regards, Offers
    <3>2. t[j] \in DOMAIN frames /\ Offers(frames[t[j]], h) /\ frames[t[j]].tings = frames'[j].tings
      BY <1>4, <2>3, <3>1 DEF Offers
    <3>3. t[i] < t[j]
      BY <1>4, <2>3, <3>1
    <3> QED BY <1>1, <2>2, <3>2, <3>3
  <2> QED BY <1>2, <2>2, <2>3
<1>6. ASSUME wait'[h] = "ok"
      PROVE  /\ BatchRead(h)'
             /\ \A j \in DOMAIN frames' :
                  Offers(frames'[j], h) => frames'[j].tings \cap jobs'[h].batch = {}
  <2>1. wait[h] = "ok"
    BY <1>6 DEF Calm, RestCalm, WaitCalm
  <2>2. /\ BatchRead(h)
        /\ \A j \in DOMAIN frames : Offers(frames[j], h) => frames[j].tings \cap jobs[h].batch = {}
    BY <1>1, <2>1 DEF Delivered, AsksItsBatch
  <2>3. ASSUME NEW j \in DOMAIN frames', Offers(frames'[j], h)
        PROVE  frames'[j].tings \cap jobs'[h].batch = {}
    <3>1. t[j] \in DOMAIN frames /\ Offers(frames[t[j]], h) /\ frames[t[j]].tings = frames'[j].tings
      BY <1>4, <2>3 DEF Offers, Regards
    <3> QED BY <1>1, <2>2, <3>1
  <2> QED BY <1>2, <2>2, <2>3
<1> QED BY <1>3, <1>5, <1>6 DEF AsksItsBatch

(* The request, or the offer, was there before.                             *)
LEMMA CalmRequest ==
  ASSUME NEW h \in Hooks, RestCalm(h), NEW i \in DOMAIN requests', Concerns(requests'[i], h)
  PROVE  \E k \in DOMAIN requests :
           /\ requests[k].op = requests'[i].op /\ requests[k].hooks = requests'[i].hooks
           /\ requests[k].tings = requests'[i].tings
BY DEF Calm, RestCalm, RequestsCalm

LEMMA CalmFrame ==
  ASSUME NEW h \in Hooks, RestCalm(h), NEW i \in DOMAIN frames', Offers(frames'[i], h)
  PROVE  \E k \in DOMAIN frames : Offers(frames[k], h) /\ frames[k].tings = frames'[i].tings
BY DEF Calm, RestCalm, FramesCalm, Regards, Offers

LEMMA CalmReads ==
  ASSUME NEW h \in Hooks, RestCalm(h), NEW i \in DOMAIN requests', Reads(requests'[i], h)
  PROVE  \E k \in DOMAIN requests : Reads(requests[k], h) /\ requests[k].tings = requests'[i].tings
BY CalmRequest DEF Concerns, Reads, Acks

(* What may be said of a step that also accepts, or asks to count as read   *)
(* what it has accepted.                                                    *)
QueueKept(h) ==
  \A m \in Messages :
    \/ queue'[h][m] = queue[h][m]
    \/ queue[h][m] = "ready" /\ queue'[h][m] = "stale"
    \/ queue'[h][m] = "none" /\ (age[m] = 3 \/ m \notin inbox)
    \/ queue'[h][m] = "accepted" /\ m \in answered'[h]
Sound(r, h) ==
  /\ r.op = "read" /\ r.tings \subseteq answered'[h]
  /\ \A m \in r.tings \cap inbox' : queue'[h][m] = "accepted" \/ Gone(h, m)'
RequestsKept(h) ==
  \A i \in DOMAIN requests' : requests'[i].op \in Acks /\ h \in requests'[i].hooks =>
    \/ \E k \in DOMAIN requests :
         /\ requests[k].op = requests'[i].op /\ requests[k].hooks = requests'[i].hooks
         /\ requests[k].tings = requests'[i].tings
    \/ Sound(requests'[i], h)
FramesKept(h) ==
  \A i \in DOMAIN frames' : Offers(frames'[i], h) =>
    \E k \in DOMAIN frames : Offers(frames[k], h) /\ frames[k].tings = frames'[i].tings
Kept(h) ==
  /\ QueueKept(h) /\ RequestsKept(h) /\ FramesKept(h) /\ CopiesCalm(h)
  /\ answered[h] \subseteq answered'[h] /\ TimePasses

LEMMA KeptRest ==
  ASSUME Typed, Typed', NEW h \in Hooks, Delivered(h), Kept(h)
  PROVE  AnswersKept(h)' /\ NotAgain(h)' /\ HeldUntilRead(h)'
<1>1. \A m \in Messages : IsRead(h, m)' <=> IsRead(h, m)
  BY DEF Kept, CopiesCalm, IsRead
<1>2. \A m \in Messages :
        \/ queue'[h][m] = queue[h][m]
        \/ queue[h][m] = "ready" /\ queue'[h][m] = "stale"
        \/ queue'[h][m] = "none" /\ (age[m] = 3 \/ m \notin inbox)
        \/ queue'[h][m] = "accepted" /\ m \in answered'[h]
  BY DEF Kept, QueueKept
<1>3. inbox' \subseteq inbox /\ inbox \subseteq Messages /\ inbox' \subseteq Messages
      /\ \A m \in Messages : age[m] = 3 => age'[m] = 3
  BY DEF Kept, TimePasses, Typed
<1>4. \A m \in Messages : age[m] \in {0, 1, 3} /\ age'[m] \in {0, 1, 3}
  BY DEF Typed, AgeTables
<1>5. ASSUME NEW i \in DOMAIN requests', Reads(requests'[i], h), ~Sound(requests'[i], h)
      PROVE  \E k \in DOMAIN requests : Reads(requests[k], h) /\ requests[k].tings = requests'[i].tings
  BY <1>5 DEF Kept, RequestsKept, Reads, Acks
<1>6. answered[h] \subseteq answered'[h]
  BY DEF Kept
<1>7. AnswersKept(h)'
  <2>1. ASSUME NEW m \in Messages, queue'[h][m] = "accepted" \/ IsRead(h, m)'
        PROVE  m \in answered'[h]
    BY <1>1, <1>2, <1>6, <2>1 DEF Delivered, AnswersKept
  <2>2. ASSUME NEW i \in DOMAIN requests', Reads(requests'[i], h)
        PROVE  requests'[i].tings \subseteq answered'[h]
    BY <1>5, <1>6, <2>2 DEF Delivered, AnswersKept, Sound
  <2> QED BY <2>1, <2>2 DEF AnswersKept
<1>8. NotAgain(h)'
  <2>1. ASSUME NEW m \in inbox', IsRead(h, m)' PROVE queue'[h][m] \in {"none", "accepted"}
    BY <1>1, <1>2, <1>3, <2>1 DEF Delivered, NotAgain
  <2>2. ASSUME NEW i \in DOMAIN frames', Offers(frames'[i], h),
               NEW m \in frames'[i].tings \cap inbox', IsRead(h, m)'
        PROVE  queue'[h][m] = "accepted" \/ age'[m] = 3
    <3>1. PICK k \in DOMAIN frames : Offers(frames[k], h) /\ frames[k].tings = frames'[i].tings
      BY <2>2 DEF Kept, FramesKept
    <3>2. queue[h][m] = "accepted" \/ age[m] = 3
      BY <1>1, <1>3, <2>2, <3>1 DEF Delivered, NotAgain
    <3> QED BY <1>2, <1>3, <2>2, <3>2
  <2>3. ASSUME NEW i \in DOMAIN requests', Reads(requests'[i], h),
               NEW m \in requests'[i].tings \cap inbox'
        PROVE  IsRead(h, m)' \/ queue'[h][m] = "accepted" \/ Gone(h, m)'
    <3>1. CASE Sound(requests'[i], h)
      BY <2>3, <3>1 DEF Sound
    <3>2. CASE ~Sound(requests'[i], h)
      <4>1. PICK k \in DOMAIN requests :
              Reads(requests[k], h) /\ requests[k].tings = requests'[i].tings
        BY <1>5, <2>3, <3>2
      <4>2. IsRead(h, m) \/ queue[h][m] = "accepted" \/ Gone(h, m)
        BY <1>3, <2>3, <4>1 DEF Delivered, NotAgain
      <4> QED BY <1>1, <1>2, <1>3, <2>3, <4>2 DEF Gone
    <3> QED BY <3>1, <3>2
  <2> QED BY <2>1, <2>2, <2>3 DEF NotAgain
<1>9. HeldUntilRead(h)'
  <2>1. ASSUME NEW m \in inbox', copies'[h][m] = "queued", age'[m] < 3 PROVE queue'[h][m] # "none"
    <3>1. copies[h][m] = "queued" /\ age[m] < 3
      BY <1>3, <1>4, <2>1 DEF Kept, CopiesCalm
    <3>2. queue[h][m] # "none"
      BY <1>3, <2>1, <3>1 DEF Delivered, HeldUntilRead
    <3> QED BY <1>2, <1>3, <2>1, <3>1, <3>2
  <2>2. ASSUME NEW i \in DOMAIN requests', requests'[i].op = "delivery", h \in requests'[i].hooks,
               NEW m \in requests'[i].tings \cap inbox'
        PROVE  queue'[h][m] # "none" \/ age'[m] = 3 \/ IsRead(h, m)'
    <3>1. PICK k \in DOMAIN requests :
            /\ requests[k].op = "delivery" /\ h \in requests[k].hooks
            /\ requests[k].tings = requests'[i].tings
      BY <2>2 DEF Kept, RequestsKept, Acks, Sound
    <3>2. queue[h][m] # "none" \/ age[m] = 3 \/ IsRead(h, m)
      BY <1>3, <2>2, <3>1 DEF Delivered, HeldUntilRead
    <3> QED BY <1>1, <1>2, <1>3, <2>2, <3>2
  <2> QED BY <2>1, <2>2 DEF HeldUntilRead
<1> QED BY <1>7, <1>8, <1>9

LEMMA CalmRest ==
  ASSUME Typed, Typed', NEW h \in Hooks, Delivered(h), RestCalm(h), TimePasses
  PROVE  AnswersKept(h)' /\ NotAgain(h)' /\ PostsUnread(h)' /\ HeldUntilRead(h)'
<1>1. \A m \in Messages : IsRead(h, m)' <=> IsRead(h, m)
  BY DEF Calm, RestCalm, CopiesCalm, IsRead
<1>2. \A m \in Messages :
        \/ queue'[h][m] = queue[h][m]
        \/ queue[h][m] = "ready" /\ queue'[h][m] = "stale"
        \/ queue'[h][m] = "none" /\ (age[m] = 3 \/ m \notin inbox)
  BY DEF Calm, RestCalm, QueueCalm
<1>3. inbox' \subseteq inbox /\ inbox \subseteq Messages /\ inbox' \subseteq Messages
      /\ \A m \in Messages : age[m] = 3 => age'[m] = 3
  BY DEF TimePasses, Typed
<1>4. \A m \in Messages : age[m] \in {0, 1, 3} /\ age'[m] \in {0, 1, 3}
  BY DEF Typed, AgeTables
<1>5. AnswersKept(h)' /\ NotAgain(h)' /\ HeldUntilRead(h)'
  <2>1. RequestsKept(h)
    BY CalmRequest DEF RequestsKept, Concerns
  <2>2. FramesKept(h)
    BY CalmFrame DEF FramesKept
  <2>3. QueueKept(h)
    BY DEF RestCalm, QueueCalm, QueueKept
  <2> QED BY <2>1, <2>2, <2>3, KeptRest DEF RestCalm, Kept
<1>6. PostsUnread(h)'
  <2> SUFFICES ASSUME Delivering(h)' PROVE PostsUnread(h)'
    BY DEF PostsUnread, Delivering
  <2>1. jobs'[h].at = jobs[h].at /\ jobs'[h].batch = jobs[h].batch /\ Delivering(h)
    BY DEF Delivering, Calm, RestCalm, JobCalm
  <2>2. ASSUME NEW m \in jobs'[h].batch \cap inbox'
        PROVE  ~IsRead(h, m)' /\ (queue'[h][m] \in {"ready", "stale"} \/ Gone(h, m)')
    <3>1. ~IsRead(h, m) /\ (queue[h][m] \in {"ready", "stale"} \/ Gone(h, m))
      BY <1>3, <2>1, <2>2 DEF Delivered, PostsUnread
    <3> QED BY <1>1, <1>2, <1>3, <2>2, <3>1 DEF Gone
  <2>3. ASSUME NEW i \in DOMAIN requests', Reads(requests'[i], h)
        PROVE  requests'[i].tings \cap jobs'[h].batch \cap inbox' = {}
    <3>1. PICK k \in DOMAIN requests : Reads(requests[k], h) /\ requests[k].tings = requests'[i].tings
      BY <2>3, CalmReads
    <3>2. requests[k].tings \cap jobs[h].batch \cap inbox = {}
      BY <2>1, <3>1 DEF Delivered, PostsUnread
    <3> QED BY <1>3, <2>1, <3>1, <3>2
  <2>4. jobs'[h].at = "posting" => jobs'[h].batch # {}
    BY <2>1 DEF Delivered, PostsUnread
  <2> QED BY <2>2, <2>3, <2>4 DEF PostsUnread
<1> QED BY <1>5, <1>6

LEMMA CalmStep ==
  ASSUME Typed, Typed', NEW h \in Hooks, Delivered(h), Calm(h), TimePasses
  PROVE  Delivered(h)'
BY CalmAsks, CalmBatch, CalmRest DEF Delivered, Calm

LEMMA SameCalm ==
  ASSUME Typed, NEW h \in Hooks
  PROVE  /\ UNCHANGED requests => RequestsCalm(h)
         /\ UNCHANGED frames => FramesCalm(h)
         /\ UNCHANGED wait => WaitCalm(h)
         /\ UNCHANGED jobs => JobCalm(h)
         /\ UNCHANGED queue => QueueCalm(h)
         /\ UNCHANGED copies => CopiesCalm(h)
         /\ UNCHANGED answered => answered[h] \subseteq answered'[h]
         /\ UNCHANGED <<age, inbox>> => TimePasses
<1>1. ASSUME UNCHANGED requests PROVE RequestsCalm(h)
  <2> DEFINE s == [i \in DOMAIN requests |-> i]
  <2>1. \A i \in DOMAIN requests : s[i] = i
    OBVIOUS
  <2> HIDE DEF s
  <2> QED BY <1>1, <2>1 DEF RequestsCalm
<1>2. ASSUME UNCHANGED frames PROVE FramesCalm(h)
  <2> DEFINE s == [i \in DOMAIN frames |-> i]
  <2>1. \A i \in DOMAIN frames : s[i] = i
    OBVIOUS
  <2> HIDE DEF s
  <2> QED BY <1>2, <2>1 DEF FramesCalm
<1> QED BY <1>1, <1>2 DEF WaitCalm, JobCalm, QueueCalm, CopiesCalm, TimePasses

(* A request or a frame of others is added.                                 *)
LEMMA AddCalm ==
  ASSUME Typed, NEW h \in Hooks
  PROVE  /\ \A r \in SentRequests :
              requests' = Append(requests, r) /\ ~Concerns(r, h) => RequestsCalm(h)
         /\ \A f \in SentFrames :
              frames' = Append(frames, f) /\ ~Regards(f, h) => FramesCalm(h)
<1>1. ASSUME NEW r \in SentRequests, requests' = Append(requests, r), ~Concerns(r, h)
      PROVE  RequestsCalm(h)
  <2> DEFINE s == [i \in 1 .. Len(requests) + 1 |-> i]
  <2>1. /\ requests' \in Seq(SentRequests) /\ Len(requests') = Len(requests) + 1
        /\ \A i \in 1 .. Len(requests) : requests'[i] = requests[i]
        /\ requests'[Len(requests) + 1] = r
    BY <1>1, AppendProperties DEF Typed
  <2>2. DOMAIN requests' = 1 .. Len(requests) + 1
    BY <2>1, LenProperties
  <2>3. \A i \in DOMAIN requests' : s[i] = i
    BY <2>2
  <2> HIDE DEF s
  <2>4. \A i \in DOMAIN requests' :
          Concerns(requests'[i], h) => i \in DOMAIN requests /\ requests'[i] = requests[i]
    BY <1>1, <2>1, <2>2, LinkIs
  <2> QED BY <2>3, <2>4 DEF RequestsCalm
<1>2. ASSUME NEW f \in SentFrames, frames' = Append(frames, f), ~Regards(f, h)
      PROVE  FramesCalm(h)
  <2> DEFINE s == [i \in 1 .. Len(frames) + 1 |-> i]
  <2>1. /\ frames' \in Seq(SentFrames) /\ Len(frames') = Len(frames) + 1
        /\ \A i \in 1 .. Len(frames) : frames'[i] = frames[i]
        /\ frames'[Len(frames) + 1] = f
    BY <1>2, AppendProperties DEF Typed
  <2>2. DOMAIN frames' = 1 .. Len(frames) + 1
    BY <2>1, LenProperties
  <2>3. \A i \in DOMAIN frames' : s[i] = i
    BY <2>2
  <2> HIDE DEF s
  <2>4. \A i \in DOMAIN frames' :
          Regards(frames'[i], h) => i \in DOMAIN frames /\ frames'[i] = frames[i]
    BY <1>2, <2>1, <2>2, LinkIs
  <2> QED BY <2>3, <2>4 DEF FramesCalm
<1> QED BY <1>1, <1>2

(* The first of them are taken, or lost.                                    *)
LEMMA DropCalm ==
  ASSUME Typed, NEW h \in Hooks, NEW n \in Nat
  PROVE  /\ requests' = SubSeq(requests, n + 1, Len(requests)) => RequestsCalm(h)
         /\ requests # <<>> /\ requests' = Tail(requests) => RequestsCalm(h)
         /\ frames # <<>> /\ frames' = Tail(frames) => FramesCalm(h)
<1>1. ASSUME requests' = SubSeq(requests, n + 1, Len(requests)) PROVE RequestsCalm(h)
  <2> DEFINE s == [i \in 1 .. Len(requests) - n |-> i + n]
  <2>1. /\ requests' \in Seq(SentRequests)
        /\ Len(requests') = IF n + 1 <= Len(requests) THEN Len(requests) - n ELSE 0
        /\ \A i \in 1 .. Len(requests) - n : requests'[i] = requests[i + n]
    BY <1>1, LinkIs, SubSeqProperties
  <2>2. DOMAIN requests' = 1 .. Len(requests')
    BY <2>1, LenProperties
  <2>3. \A i \in DOMAIN requests' :
          /\ i \in Nat /\ i \in 1 .. Len(requests) - n
          /\ s[i] = i + n /\ s[i] \in DOMAIN requests /\ requests'[i] = requests[s[i]]
    <3>1. CASE n + 1 <= Len(requests)
      BY <2>1, <2>2, <3>1, LinkIs
    <3>2. CASE ~(n + 1 <= Len(requests))
      BY <2>1, <2>2, <3>2
    <3> QED BY <3>1, <3>2
  <2> HIDE DEF s
  <2>4. \A i, j \in DOMAIN requests' : i < j => s[i] < s[j]
    BY <2>2, <2>3, LinkIs
  <2> QED BY <2>3, <2>4 DEF RequestsCalm
<1>2. ASSUME requests # <<>>, requests' = Tail(requests) PROVE RequestsCalm(h)
  <2> DEFINE s == [i \in 1 .. Len(requests) - 1 |-> i + 1]
  <2>1. /\ requests' \in Seq(SentRequests) /\ Len(requests') = Len(requests) - 1
        /\ \A i \in 1 .. Len(requests') : requests'[i] = requests[i + 1]
    BY <1>2, HeadTailProperties DEF Typed
  <2>2. DOMAIN requests' = 1 .. Len(requests) - 1
    BY <2>1, LenProperties
  <2>3. \A i \in DOMAIN requests' :
          s[i] = i + 1 /\ s[i] \in DOMAIN requests /\ requests'[i] = requests[s[i]]
    BY <2>1, <2>2, LinkIs
  <2> HIDE DEF s
  <2>4. \A i, j \in DOMAIN requests' : i < j => s[i] < s[j]
    BY <2>2, <2>3, LinkIs
  <2> QED BY <2>3, <2>4 DEF RequestsCalm
<1>3. ASSUME frames # <<>>, frames' = Tail(frames) PROVE FramesCalm(h)
  <2> DEFINE s == [i \in 1 .. Len(frames) - 1 |-> i + 1]
  <2>1. /\ frames' \in Seq(SentFrames) /\ Len(frames') = Len(frames) - 1
        /\ \A i \in 1 .. Len(frames') : frames'[i] = frames[i + 1]
    BY <1>3, HeadTailProperties DEF Typed
  <2>2. DOMAIN frames' = 1 .. Len(frames) - 1
    BY <2>1, LenProperties
  <2>3. \A i \in DOMAIN frames' :
          s[i] = i + 1 /\ s[i] \in DOMAIN frames /\ frames'[i] = frames[s[i]]
    BY <2>1, <2>2, LinkIs
  <2> HIDE DEF s
  <2>4. \A i, j \in DOMAIN frames' : i < j => s[i] < s[j]
    BY <2>2, <2>3, LinkIs
  <2> QED BY <2>3, <2>4 DEF FramesCalm
<1> QED BY <1>1, <1>2, <1>3

LEMMA EmptyCalm ==
  ASSUME NEW h
  PROVE  (requests' = <<>> => RequestsCalm(h)) /\ (frames' = <<>> => FramesCalm(h))
<1>1. DOMAIN <<>> = {}
  BY EmptySeq, LenProperties
<1> QED BY <1>1 DEF RequestsCalm, FramesCalm

(* A waiter gives up.                                                       *)
LEMMA NoneIsNoHook == None \notin Hooks
BY DaemonAssumption

LEMMA OrphanedIs ==
  ASSUME NEW q, NEW w, NEW i \in DOMAIN q
  PROVE  /\ DOMAIN Orphaned(q, w) = DOMAIN q
         /\ Orphaned(q, w)[i] = IF q[i].by = w THEN [q[i] EXCEPT !.by = None] ELSE q[i]
BY DEF Orphaned

LEMMA OrphanIs ==
  /\ \A r \in SentRequests :
       LET o == [r EXCEPT !.by = None] IN
       o.by = None /\ o.op = r.op /\ o.hooks = r.hooks /\ o.tings = r.tings
  /\ \A f \in SentFrames :
       LET o == [f EXCEPT !.by = None] IN
       o.by = None /\ o.op = f.op /\ o.hooks = f.hooks /\ o.tings = f.tings
BY DEF SentRequests, Requests, SentFrames, Frames

LEMMA ForsakeCalm ==
  ASSUME Typed, NEW h \in Hooks, AsksOnce(h), NEW w \in Waiters, Forsake(w)
  PROVE  RequestsCalm(h) /\ FramesCalm(h) /\ (w = h => Silent(h)')
<1>0. None # h
  BY NoneIsNoHook
<1>1. FramesCalm(h) /\ (w = h => \A i \in DOMAIN frames' : frames'[i].by # h)
  <2> DEFINE s == [i \in DOMAIN frames |-> i]
  <2>1. frames' = Orphaned(frames, w)
    BY DEF Forsake
  <2>2. DOMAIN frames' = DOMAIN frames
    BY <2>1 DEF Orphaned
  <2>3. \A i \in DOMAIN frames' : s[i] = i
    BY <2>2
  <2> HIDE DEF s
  <2>4. ASSUME NEW i \in DOMAIN frames'
        PROVE  /\ frames'[i].op = frames[i].op /\ frames'[i].hooks = frames[i].hooks
               /\ frames'[i].tings = frames[i].tings
               /\ frames'[i].by = h => frames[i].by = h /\ w # h
    <3>1. frames[i] \in SentFrames
      BY <2>2, LinkIs
    <3>2. frames'[i] = IF frames[i].by = w THEN [frames[i] EXCEPT !.by = None] ELSE frames[i]
      <4>1. i \in DOMAIN frames
        BY <2>2
      <4>2. Orphaned(frames, w)[i]
              = IF frames[i].by = w THEN [frames[i] EXCEPT !.by = None] ELSE frames[i]
        BY <4>1, OrphanedIs
      <4> QED BY <2>1, <4>2
    <3>3. CASE frames[i].by = w
      BY <1>0, <3>1, <3>2, <3>3, OrphanIs
    <3>4. CASE frames[i].by # w
      BY <3>2, <3>4
    <3> QED BY <3>3, <3>4
  <2>5. \A i \in DOMAIN frames' : s[i] = i /\ s[i] \in DOMAIN frames
    BY <2>2, <2>3
  <2>6. FramesCalm(h)
    BY <2>4, <2>5 DEF FramesCalm
  <2> QED BY <2>4, <2>6
<1>2. CASE requests' = Orphaned(requests, w)
  <2> DEFINE s == [i \in DOMAIN requests |-> i]
  <2>2. DOMAIN requests' = DOMAIN requests
    BY <1>2 DEF Orphaned
  <2>3. \A i \in DOMAIN requests' : s[i] = i
    BY <2>2
  <2> HIDE DEF s
  <2>4. ASSUME NEW i \in DOMAIN requests'
        PROVE  /\ requests'[i].op = requests[i].op /\ requests'[i].hooks = requests[i].hooks
               /\ requests'[i].tings = requests[i].tings
               /\ requests'[i].by = h => requests[i].by = h /\ w # h
    <3>1. requests[i] \in SentRequests
      BY <2>2, LinkIs
    <3>2. requests'[i] = IF requests[i].by = w THEN [requests[i] EXCEPT !.by = None] ELSE requests[i]
      <4>1. i \in DOMAIN requests
        BY <2>2
      <4>2. Orphaned(requests, w)[i]
              = IF requests[i].by = w THEN [requests[i] EXCEPT !.by = None] ELSE requests[i]
        BY <4>1, OrphanedIs
      <4> QED BY <1>2, <4>2
    <3>3. CASE requests[i].by = w
      BY <1>0, <3>1, <3>2, <3>3, OrphanIs
    <3>4. CASE requests[i].by # w
      BY <3>2, <3>4
    <3> QED BY <3>3, <3>4
  <2>5. \A i \in DOMAIN requests' : s[i] = i /\ s[i] \in DOMAIN requests
    BY <2>2, <2>3
  <2>6. RequestsCalm(h)
    BY <2>4, <2>5 DEF RequestsCalm
  <2> QED BY <1>1, <2>4, <2>6 DEF Silent
<1>3. ASSUME NEW k \in DOMAIN requests, requests[k].by = w, requests' = RemoveAt(requests, k)
      PROVE  RequestsCalm(h) /\ FramesCalm(h) /\ (w = h => Silent(h)')
  <2> DEFINE s == [i \in 1 .. Len(requests) - 1 |-> IF i < k THEN i ELSE i + 1]
  <2>1. /\ requests' \in Seq(SentRequests) /\ Len(requests') = Len(requests) - 1
        /\ \A j \in 1 .. Len(requests) - 1 :
             requests'[j] = IF j < k THEN requests[j] ELSE requests[j + 1]
    BY <1>3, RemoveTyped DEF Typed
  <2>2. DOMAIN requests' = 1 .. Len(requests) - 1
    BY <2>1, LenProperties
  <2>3. \A i \in DOMAIN requests' :
          /\ s[i] \in DOMAIN requests /\ s[i] # k /\ requests'[i] = requests[s[i]]
          /\ s[i] = IF i < k THEN i ELSE i + 1
    BY <2>1, <2>2, LinkIs
  <2> HIDE DEF s
  <2>4. \A i, j \in DOMAIN requests' : i < j => s[i] < s[j]
    BY <2>2, <2>3, LinkIs
  <2>5. RequestsCalm(h)
    BY <2>3, <2>4 DEF RequestsCalm
  <2>6. w = h => \A i \in DOMAIN requests' : requests'[i].by # h
    BY <1>3, <2>3 DEF AsksOnce
  <2> QED BY <1>1, <2>5, <2>6 DEF Silent
<1>4. CASE (\A i \in DOMAIN requests : requests[i].by # w) /\ UNCHANGED requests
  BY <1>1, <1>4, SameCalm DEF Silent
<1> QED BY <1>2, <1>3, <1>4 DEF Forsake

(* Requests and answers of other tasks.                                     *)
LEMMA OtherAsk ==
  ASSUME Typed, NEW h \in Hooks, NEW w \in Waiters \ {h}, NEW op \in RequestOps,
         NEW hs \in SUBSET Hooks, NEW ts \in SUBSET Messages, NEW token \in Tokens \cup {None},
         op \in Acks => \E g \in Hooks \ {h} : hs = {g}, Ask(w, op, hs, ts, token)
  PROVE  RequestsCalm(h) /\ WaitCalm(h)
<1> DEFINE r == Request(op, hs, ts, w, token)
<1>1. r \in SentRequests
  BY AskTyped
<1>2. ~Concerns(r, h)
  BY DEF Request, Concerns
<1>3. requests' = Append(requests, r) /\ wait'[h] = wait[h]
  BY DEF Ask, Typed, WaitTables, Waiters
<1> HIDE DEF r
<1> QED BY <1>1, <1>2, <1>3, AddCalm DEF WaitCalm

LEMMA OtherStop ==
  ASSUME Typed, NEW h \in Hooks, NEW w \in Waiters \ {h}, Stop(w) PROVE WaitCalm(h)
BY DEF Typed, WaitTables, Waiters, Stop, WaitCalm

LEMMA OthersWait ==
  /\ Command \in Waiters /\ \A h \in Hooks : h \in Waiters /\ Command # h
  /\ \A r \in Restorers : r \in Waiters /\ \A h \in Hooks : r # h
BY DaemonAssumption DEF Waiters

(* A worker that waits for nothing has nothing under way.                   *)
LEMMA NoAnswerDue ==
  ASSUME Typed, NEW h \in Hooks, AsksOnce(h),
         wait[h] # "asked" \/ jobs[h].at \notin {"acking", "pausing"}
  PROVE  Silent(h)
BY DEF AsksOnce, Silent

LEMMA SilentStays ==
  ASSUME NEW h, Silent(h), UNCHANGED <<requests, frames>> PROVE Silent(h)'
BY DEF Silent

LEMMA ResetCalm ==
  ASSUME Typed, NEW h \in Hooks, NEW hs,
         copies' = copies \/ copies' = Reset(copies, hs)
  PROVE  CopiesCalm(h)
BY DEF CopiesCalm, Reset, Typed, CopyTables

LEMMA HandCalm ==
  ASSUME Typed, NEW h \in Hooks, NEW hs, NEW state, NEW token,
         Hand(hs, state, token) \/ UNCHANGED copies
  PROVE  CopiesCalm(h)
BY ResetCalm DEF Hand

LEMMA StaledCalm ==
  ASSUME Typed, NEW h \in Hooks, NEW hs, queue' = Staled(queue, hs) PROVE QueueCalm(h)
BY DEF QueueCalm, Staled, Typed, QueueTables

LEMMA ReadCalm ==
  ASSUME Typed, NEW h \in Hooks, NEW g, NEW what, Read(g, what) PROVE QueueCalm(h)
BY DEF QueueCalm, Read, Typed, QueueTables

LEMMA ForgetCalm ==
  ASSUME Typed, NEW h \in Hooks, NEW g \in Hooks, NEW k \in Messages, Forget(g, k)
  PROVE  QueueCalm(h)
<1> DEFINE q == [queue[g] EXCEPT ![k] = IF Known(k) THEN @ ELSE "none"]
<1>1. queue' = [queue EXCEPT ![g] = q]
  BY DEF Forget
<1>2. \A m \in Messages : q[m] = queue[g][m] \/ (q[m] = "none" /\ m \notin inbox)
  BY DEF Typed, QueueTables, Known
<1> HIDE DEF q
<1> QED BY <1>1, <1>2 DEF QueueCalm, Typed, QueueTables

LEMMA OtherJob ==
  ASSUME Typed, NEW h \in Hooks, NEW g \in Hooks \ {h}, NEW o, jobs' = [jobs EXCEPT ![g] = o]
  PROVE  JobCalm(h)
BY DEF Typed, JobTables, JobCalm

LEMMA EndsCalm ==
  ASSUME Typed, NEW h \in Hooks, NEW g \in Hooks, EndJob(g), g = h => Silent(h)'
  PROVE  JobCalm(h)
<1>1. CASE g = h
  BY <1>1, WaitingTyped DEF EndJob, JobCalm, Typed, JobTables
<1>2. CASE g # h
  BY <1>2, OtherJob DEF EndJob
<1> QED BY <1>1, <1>2

------------------------------------------------------------------------------
(* Which steps are calm for a hook.                                         *)

LEMMA ConnectCalm == ASSUME Typed, NEW h \in Hooks, Connect PROVE Calm(h) /\ TimePasses
BY SameCalm DEF Connect, Calm, RestCalm, disk, tasks, link, remote, world

LEMMA LoseCalm ==
  ASSUME Typed, NEW h \in Hooks, AsksOnce(h), Lose PROVE Calm(h) /\ TimePasses
<1>1. frames' = <<>> /\ FramesCalm(h)
  BY EmptyCalm DEF Lose, CutConnection
<1>2. CopiesCalm(h)
  BY HandCalm DEF Lose, CutConnection
<1>3. QueueCalm(h)
  BY StaledCalm DEF Lose
<1>4. RequestsCalm(h) /\ WaitCalm(h)
  <2>1. PICK sent \in 0 .. Len(requests) :
          /\ requests' = SubSeq(requests, sent + 1, Len(requests))
          /\ wait' = [w \in Waiters |->
                        IF wait[w] = "asked" /\ \A i \in sent + 1 .. Len(requests) : requests[i].by # w
                        THEN "error" ELSE wait[w]]
    BY DEF Lose
  <2>2. sent \in Nat /\ sent <= Len(requests) /\ Len(requests) \in Nat
    BY <2>1, LinkIs
  <2>3. RequestsCalm(h)
    BY <2>1, <2>2, DropCalm
  <2>4. CASE \A i \in sent + 1 .. Len(requests) : requests[i].by # h
    <3>1. /\ requests' \in Seq(SentRequests)
          /\ Len(requests') = IF sent + 1 <= Len(requests) THEN Len(requests) - sent ELSE 0
          /\ \A i \in 1 .. Len(requests) - sent : requests'[i] = requests[i + sent]
      BY <2>1, <2>2, LinkIs, SubSeqProperties
    <3>2. DOMAIN requests' = 1 .. Len(requests')
      BY <3>1, LenProperties
    <3>3. \A i \in DOMAIN requests' : requests'[i].by # h
      BY <2>2, <2>4, <3>1, <3>2
    <3>4. DOMAIN frames' = {}
      BY <1>1, EmptySeq, LenProperties
    <3>5. Silent(h)'
      BY <3>3, <3>4 DEF Silent
    <3>6. wait'[h] = wait[h] \/ wait'[h] = "error"
      BY <2>1, OthersWait
    <3> QED BY <2>3, <3>5, <3>6 DEF WaitCalm
  <2>5. CASE ~ \A i \in sent + 1 .. Len(requests) : requests[i].by # h
    BY <2>1, <2>3, <2>5, OthersWait DEF WaitCalm
  <2> QED BY <2>4, <2>5
<1> QED BY <1>1, <1>2, <1>3, <1>4, SameCalm DEF Lose, Calm, RestCalm, world

LEMMA CrashCalm == ASSUME Typed, NEW h \in Hooks, Crash PROVE Calm(h) /\ TimePasses
<1>1. frames' = <<>> /\ FramesCalm(h) /\ requests' = <<>> /\ RequestsCalm(h)
  BY EmptyCalm DEF Crash, CutConnection
<1>2. CopiesCalm(h)
  BY HandCalm DEF Crash, CutConnection
<1>3. QueueCalm(h)
  BY DEF Crash, QueueCalm, Staled, Typed, QueueTables
<1>4. Silent(h)'
  BY <1>1, EmptySeq, LenProperties DEF Silent
<1>5. WaitCalm(h) /\ JobCalm(h)
  BY <1>4, OthersWait, WaitingTyped DEF Crash, WaitCalm, JobCalm
<1> QED BY <1>1, <1>2, <1>3, <1>5, SameCalm DEF Crash, Calm, RestCalm, world

LEMMA TimeOutCalm ==
  ASSUME Typed, NEW h \in Hooks, AsksOnce(h), NEW w \in Waiters, TimeOut(w)
  PROVE  Calm(h) /\ TimePasses
<1>1. WaitCalm(h)
  <2>1. CASE w = h
    BY <2>1, ForsakeCalm DEF TimeOut, WaitCalm, Typed, WaitTables
  <2>2. CASE w # h
    BY <2>2, OthersWait DEF TimeOut, WaitCalm, Typed, WaitTables
  <2> QED BY <2>1, <2>2
<1> QED BY <1>1, ForsakeCalm, SameCalm DEF TimeOut, Calm, RestCalm, disk, tasks, remote, world

LEMMA RestoreCalm ==
  ASSUME Typed, NEW h \in Hooks, NEW r \in Restorers, RestoreStart(r) \/ RestoreStep(r)
  PROVE  Calm(h) /\ TimePasses
<1>0. r \in Waiters \ {h} /\ session \in Tokens \cup {None} /\ {"subscribe", "pause"} \subseteq RequestOps
      /\ "subscribe" \notin Acks /\ "pause" \notin Acks
  BY OthersWait DEF Typed, RequestOps, Acks
<1>1. CASE RestoreStart(r)
  BY <1>1, SameCalm DEF RestoreStart, Calm, RestCalm, disk, link, remote, world
<1>2. ASSUME NEW g \in Hooks, RestoreCut(r, g) PROVE Calm(h) /\ TimePasses
  <2>1. RequestsCalm(h) /\ WaitCalm(h)
    BY <1>0, <1>2, OtherAsk, SameCalm DEF RestoreCut
  <2> QED BY <1>2, <2>1, SameCalm DEF RestoreCut, Calm, RestCalm, remote, world
<1>3. CASE RestorePause(r)
  <2>1. RequestsCalm(h) /\ WaitCalm(h)
    BY <1>0, <1>3, OtherAsk, RestoreIs DEF RestorePause
  <2> QED BY <1>3, <2>1, SameCalm DEF RestorePause, Calm, RestCalm, disk, remote, world
<1>4. CASE RestorePaused(r)
  BY <1>0, <1>4, OtherStop, SameCalm DEF RestorePaused, Calm, RestCalm, link, remote, world
<1>5. CASE RestoreAttach(r)
  <2>1. RequestsCalm(h) /\ WaitCalm(h)
    BY <1>0, <1>5, OtherAsk, RestoreIs, SameCalm DEF RestoreAttach
  <2> QED BY <1>5, <2>1, SameCalm DEF RestoreAttach, Calm, RestCalm, disk, remote, world
<1>6. CASE RestoreDone(r)
  BY <1>0, <1>6, OtherStop, SameCalm DEF RestoreDone, Calm, RestCalm, disk, link, remote, world
<1> QED BY <1>1, <1>2, <1>3, <1>4, <1>5, <1>6 DEF RestoreStep

(* A worker's steps are calm for the other hooks.                           *)
LEMMA OtherJobCalm ==
  ASSUME Typed, NEW h \in Hooks, AsksOnce(h), NEW g \in Hooks \ {h}, JobStep(g)
  PROVE  Calm(h) /\ TimePasses
<1>0. /\ g \in Waiters \ {h} /\ {"read", "pause"} \subseteq RequestOps /\ "pause" \notin Acks
      /\ jobs[g].batch \in SUBSET Messages
      /\ Fresh(Holding(g, "accepted")) \in SUBSET Messages
  BY OthersWait, JobIs, BatchTyped DEF RequestOps, Acks
<1>1. JobCalm(h)
  <2>1. ASSUME NEW o, jobs' = [jobs EXCEPT ![g] = o] PROVE JobCalm(h)
    BY <2>1, OtherJob
  <2>2. (\E at, batch, check : SetJob(g, at, batch, check)) \/ EndJob(g)
        \/ \E m \in Messages : jobs' = [jobs EXCEPT ![g].check = @ \ {m}]
    BY DEF JobStep, JobAck, JobPause, JobPaused, JobStart, Forward, JobProbed, JobCheck,
           JobChecked, JobAccepted, JobFailed, JobAcked, JobAborted
  <2> QED BY <2>1, <2>2 DEF SetJob, EndJob
<1>2. CASE JobAck(g)
  <2>1. RequestsCalm(h) /\ WaitCalm(h)
    BY <1>0, <1>2, OtherAsk DEF JobAck
  <2> QED BY <1>1, <1>2, <2>1, ReadCalm, SameCalm DEF JobAck, Calm, RestCalm, Quiet, remote, world
<1>3. CASE JobPause(g)
  <2>1. RequestsCalm(h) /\ WaitCalm(h)
    BY <1>0, <1>3, OtherAsk DEF JobPause
  <2> QED BY <1>1, <1>3, <2>1, ReadCalm, SameCalm DEF JobPause, Calm, RestCalm, Quiet, remote, world
<1>4. CASE JobPaused(g)
  BY <1>0, <1>1, <1>4, OtherStop, SameCalm DEF JobPaused, Calm, RestCalm, Quiet, remote, world
<1>5. CASE JobStart(g)
  BY <1>1, <1>5, ReadCalm, SameCalm DEF JobStart, Calm, RestCalm, Quiet, remote, world
<1>6. CASE JobProbed(g)
  BY <1>1, <1>6, SameCalm DEF JobProbed, Calm, RestCalm, Quiet, remote, world
<1>7. ASSUME NEW m \in Messages, JobCheck(g, m) PROVE Calm(h) /\ TimePasses
  BY <1>1, <1>7, ForgetCalm, SameCalm DEF JobCheck, Calm, RestCalm, Quiet, remote, world
<1>8. CASE JobChecked(g)
  BY <1>1, <1>8, ReadCalm, SameCalm DEF JobChecked, Calm, RestCalm, Quiet, remote, world
<1>9. CASE JobAccepted(g)
  <2>1. RequestsCalm(h) /\ WaitCalm(h)
    BY <1>0, <1>9, OtherAsk, SameCalm DEF JobAccepted
  <2>2. QueueCalm(h) /\ answered'[h] = answered[h]
    BY <1>9 DEF JobAccepted, Mark, QueueCalm, Typed, QueueTables, AnswerTables
  <2> QED BY <1>1, <1>9, <2>1, <2>2, SameCalm DEF JobAccepted, Calm, RestCalm, Quiet, remote, TimePasses
<1>10. CASE JobFailed(g)
  <2>1. answered'[h] = answered[h]
    BY <1>10 DEF JobFailed, Typed, AnswerTables
  <2> QED BY <1>1, <1>10, <2>1, SameCalm DEF JobFailed, Calm, RestCalm, Quiet, remote, TimePasses
<1>11. CASE JobAcked(g)
  <2>1. QueueCalm(h)
    BY <1>11, SameCalm DEF JobAcked, Done, QueueCalm, Typed, QueueTables
  <2> QED BY <1>0, <1>1, <1>11, <2>1, OtherStop, SameCalm DEF JobAcked, Calm, RestCalm, Quiet, remote, world
<1>12. CASE JobAborted(g)
  BY <1>0, <1>1, <1>12, OtherStop, ForsakeCalm, SameCalm
     DEF JobAborted, Calm, RestCalm, disk, remote, world
<1> QED BY <1>2, <1>3, <1>4, <1>5, <1>6, <1>7, <1>8, <1>9, <1>10, <1>11, <1>12 DEF JobStep

LEMMA OwnJobCalm ==
  ASSUME Typed, NEW h \in Hooks, AsksOnce(h),
         \/ JobPaused(h) \/ JobFailed(h) \/ JobAborted(h)
         \/ \E m \in Messages : JobCheck(h, m)
  PROVE  Calm(h) /\ TimePasses
<1>1. CASE JobPaused(h)
  <2>1. Silent(h)'
    BY <1>1, NoAnswerDue, SilentStays DEF JobPaused, Answered, Answers, Quiet
  <2>2. WaitCalm(h)
    BY <1>1, <2>1, OthersWait DEF JobPaused, Stop, WaitCalm, Typed, WaitTables
  <2> QED BY <1>1, <2>1, <2>2, EndsCalm, SameCalm DEF JobPaused, Calm, RestCalm, Quiet, remote, world
<1>2. CASE JobFailed(h)
  <2>1. Silent(h)'
    BY <1>2, NoAnswerDue, SilentStays DEF JobFailed, Quiet
  <2>2. answered[h] \subseteq answered'[h]
    BY <1>2 DEF JobFailed, Typed, AnswerTables
  <2> QED BY <1>2, <2>1, <2>2, EndsCalm, SameCalm
          DEF JobFailed, Calm, RestCalm, Quiet, remote, TimePasses
<1>3. CASE JobAborted(h)
  <2>1. RequestsCalm(h) /\ FramesCalm(h) /\ Silent(h)'
    BY <1>3, ForsakeCalm, OthersWait DEF JobAborted
  <2>2. WaitCalm(h)
    BY <1>3, <2>1, OthersWait DEF JobAborted, Stop, WaitCalm, Typed, WaitTables
  <2> QED BY <1>3, <2>1, <2>2, EndsCalm, SameCalm DEF JobAborted, Calm, RestCalm, disk, remote, world
<1>4. ASSUME NEW m \in Messages, JobCheck(h, m) PROVE Calm(h) /\ TimePasses
  <2>1. JobCalm(h)
    <3> DEFINE o == [jobs[h] EXCEPT !.check = @ \ {m}]
    <3>1. o.at = jobs[h].at /\ o.batch = jobs[h].batch
      BY JobIs DEF JobRecords
    <3>2. jobs' = [jobs EXCEPT ![h] = o]
      BY <1>4 DEF JobCheck
    <3> HIDE DEF o
    <3> QED BY <3>1, <3>2 DEF JobCalm, Typed, JobTables
  <2> QED BY <1>4, <2>1, ForgetCalm, SameCalm DEF JobCheck, Calm, RestCalm, Quiet, remote, world
<1> QED BY <1>1, <1>2, <1>3, <1>4

LEMMA SweepCalm ==
  ASSUME Typed, NEW h \in Hooks, NEW g \in Hooks, NEW k \in Messages, Sweep(g, k)
  PROVE  Calm(h) /\ TimePasses
<1>1. ASSUME age[k] = 3, queue' = [queue EXCEPT ![g][k] = "none"] PROVE QueueCalm(h)
  <2> DEFINE q == [queue[g] EXCEPT ![k] = "none"]
  <2>1. queue' = [queue EXCEPT ![g] = q]
    BY <1>1
  <2>2. \A m \in Messages : q[m] = queue[g][m] \/ (q[m] = "none" /\ age[m] = 3)
    BY <1>1 DEF Typed, QueueTables
  <2> HIDE DEF q
  <2> QED BY <2>1, <2>2 DEF QueueCalm, Typed, QueueTables
<1>2. QueueCalm(h)
  BY <1>1, ForgetCalm DEF Sweep
<1> QED BY <1>2, SameCalm DEF Sweep, Calm, RestCalm, tasks, link, remote, world

LEMMA CommandCalm ==
  ASSUME Typed, NEW h \in Hooks, AsksOnce(h),
         \/ Reconnect \/ Logout \/ CommandStep
         \/ \E g \in Hooks : Attach(g) \/ Unhook(g)
         \/ \E t \in Tokens : Login(t)
  PROVE  Calm(h) /\ TimePasses
<1>0. /\ Command \in Waiters \ {h} /\ {"subscribe", "unsubscribe"} \subseteq RequestOps
      /\ "subscribe" \notin Acks /\ "unsubscribe" \notin Acks
  BY OthersWait DEF RequestOps, Acks
<1>1. ASSUME NEW op, NEW hs, Reattach(op, hs) PROVE Calm(h) /\ TimePasses
  <2>1. session \in Tokens /\ Ask(Command, "subscribe", {}, {}, session)
    BY <1>1 DEF Reattach, Typed
  <2>2. RequestsCalm(h) /\ WaitCalm(h)
    BY <1>0, <2>1, OtherAsk
  <2> QED BY <1>1, <2>2, SameCalm DEF Reattach, Calm, RestCalm, Elsewhere, binding, world
<1>2. CASE CommandGreeted \/ CommandBound \/ CommandLeft
  BY <1>0, <1>2, OtherStop, SameCalm
     DEF CommandGreeted, CommandBound, CommandLeft, Calm, RestCalm, Elsewhere, binding, world
<1>3. ASSUME NEW g \in Hooks, CommandPatch(g) PROVE Calm(h) /\ TimePasses
  <2>1. CopiesCalm(h)
    BY <1>3, HandCalm DEF CommandPatch
  <2> QED BY <1>3, <2>1, SameCalm DEF CommandPatch, Calm, RestCalm, Elsewhere, world
<1>4. CASE CommandSave
  <2>1. Ask(Command, "subscribe", {command.hook}, {}, command.token)
        /\ command.hook \in Hooks /\ command.token \in Tokens
    BY <1>4, CommandIs DEF CommandSave
  <2>2. RequestsCalm(h) /\ WaitCalm(h)
    BY <1>0, <2>1, OtherAsk
  <2> QED BY <1>4, <2>2, SameCalm DEF CommandSave, Calm, RestCalm, Elsewhere, binding, world
<1>5. ASSUME NEW g \in Hooks, Unhook(g) PROVE Calm(h) /\ TimePasses
  <2>1. CopiesCalm(h)
    BY <1>5, HandCalm DEF Unhook, Withdraw
  <2> QED BY <1>5, <2>1, SameCalm DEF Unhook, Calm, RestCalm, Elsewhere, world
<1>6. CASE CommandUnhooked \/ Logout
  BY <1>6, SameCalm DEF CommandUnhooked, Logout, Calm, RestCalm, Elsewhere, binding, world
<1>7. ASSUME NEW g \in Hooks, CommandLeave(g) PROVE Calm(h) /\ TimePasses
  <2>1. RequestsCalm(h) /\ WaitCalm(h)
    BY <1>0, <1>7, OtherAsk DEF CommandLeave
  <2> QED BY <1>7, <2>1, SameCalm DEF CommandLeave, Calm, RestCalm, Elsewhere, binding, world
<1>8. CASE EndSession
  <2>1. CopiesCalm(h)
    BY <1>8, HandCalm DEF EndSession, Withdraw
  <2> QED BY <1>8, <2>1, SameCalm DEF EndSession, Calm, RestCalm, world
<1>9. ASSUME NEW t \in Tokens, Login(t) PROVE Calm(h) /\ TimePasses
  BY <1>9, SameCalm DEF Login, Calm, RestCalm, tasks, link, binding, world
<1>10. CASE CommandAborted
  BY <1>0, <1>10, OtherStop, ForsakeCalm, SameCalm DEF CommandAborted, Calm, RestCalm, disk, remote, world
<1> QED BY <1>1, <1>2, <1>3, <1>4, <1>5, <1>6, <1>7, <1>8, <1>9, <1>10
        DEF Reconnect, Attach, CommandStep

LEMMA ServerCalm ==
  ASSUME Typed, NEW h \in Hooks,
         \/ SendPause \/ Revalidate \/ Expire
         \/ \E g \in Hooks : Settle(g) \/ Steal(g) \/ DetachElsewhere(g) \/ HalfDay(g)
         \/ \E g \in Hooks \ {h} : Offer(g)
         \/ \E m \in Messages : Mute(m) \/ PruneInbox(m) \/ Grow(m)
  PROVE  Calm(h) /\ TimePasses
<1>1. CASE SendPause
  <2>1. Head(pauses) \in Pauses
    BY <1>1, HeadTailProperties DEF SendPause, Typed
  <2>2. Head(pauses) \in SentFrames /\ ~Regards(Head(pauses), h)
    BY <2>1, NoneIsNoHook DEF Pauses, SentFrames, Regards, Reasons
  <2>3. FramesCalm(h)
    BY <1>1, <2>2, AddCalm DEF SendPause
  <2> QED BY <1>1, <2>3, SameCalm DEF SendPause, Calm, RestCalm, Local, disk, tasks, remote, world
<1>2. CASE Revalidate
  <2>1. CopiesCalm(h)
    BY <1>2, HandCalm DEF Revalidate, Withdraw
  <2> QED BY <1>2, <2>1, SameCalm DEF Revalidate, Calm, RestCalm, Local, disk, tasks, world
<1>3. CASE Expire
  BY <1>3, SameCalm DEF Expire, Calm, RestCalm, Local, disk, tasks, link, binding, world
<1>4. ASSUME NEW g \in Hooks, WithdrawExpired(g) \/ Steal(g) \/ DetachElsewhere(g)
      PROVE  Calm(h) /\ TimePasses
  <2>1. CopiesCalm(h)
    BY <1>4, HandCalm DEF WithdrawExpired, Steal, DetachElsewhere, Withdraw
  <2> QED BY <1>4, <2>1, SameCalm
          DEF WithdrawExpired, Steal, DetachElsewhere, Calm, RestCalm, Local, disk, tasks, world
<1>5. ASSUME NEW g \in Hooks, ReleaseReceiver(g) PROVE Calm(h) /\ TimePasses
  <2>1. CopiesCalm(h)
    BY <1>5, HandCalm DEF ReleaseReceiver
  <2> QED BY <1>5, <2>1, SameCalm DEF ReleaseReceiver, Calm, RestCalm, Local, disk, tasks, link, world
<1>6. ASSUME NEW g \in Hooks, HalfDay(g) PROVE Calm(h) /\ TimePasses
  BY <1>6, SameCalm DEF HalfDay, Calm, RestCalm, tasks, link, remote, world
<1>7. ASSUME NEW g \in Hooks \ {h}, Offer(g) PROVE Calm(h) /\ TimePasses
  <2> DEFINE window == {m \in inbox : copies[g][m] \in {"out", "queued"}}
             batch == {m \in inbox : /\ age[m] < 3
                                     /\ IF window = {} THEN m \notin muted /\ copies[g][m] # "read"
                                        ELSE copies[g][m] = "out"}
             f == Frame("tings", {g}, batch, None)
  <2>1. f \in SentFrames /\ ~Regards(f, h)
    BY NoneIsNoHook DEF Frame, SentFrames, Frames, Typed, Answers, Regards
  <2>2. frames' = Append(frames, f)
    BY <1>7 DEF Offer
  <2> HIDE DEF f
  <2>3. FramesCalm(h)
    BY <2>1, <2>2, AddCalm
  <2>4. CopiesCalm(h)
    BY <1>7 DEF Offer, CopiesCalm, Typed, CopyTables
  <2> QED BY <1>7, <2>3, <2>4, SameCalm DEF Offer, Calm, RestCalm, Local, disk, tasks, world
<1>8. ASSUME NEW m \in Messages, Mute(m) PROVE Calm(h) /\ TimePasses
  <2>1. CopiesCalm(h)
    BY <1>8, ResetCalm DEF Mute
  <2> QED BY <1>8, <2>1, SameCalm DEF Mute, Calm, RestCalm, Local, disk, tasks, world
<1>9. ASSUME NEW m \in Messages, PruneInbox(m) PROVE Calm(h) /\ TimePasses
  BY <1>9, SameCalm DEF PruneInbox, Calm, RestCalm, Local, disk, tasks, link, binding, world, TimePasses
<1>10. ASSUME NEW m \in Messages, Grow(m) PROVE Calm(h) /\ TimePasses
  <2>1. TimePasses
    BY <1>10 DEF Grow, TimePasses, Typed, AgeTables, remote
  <2> QED BY <1>10, <2>1, SameCalm DEF Grow, Calm, RestCalm, Local, disk, tasks, link, remote
<1> QED BY <1>1, <1>2, <1>3, <1>4, <1>5, <1>6, <1>7, <1>8, <1>9, <1>10 DEF Settle

------------------------------------------------------------------------------
(* The steps that are not.                                                  *)

(* What was accepted stays so until it is read, gone or too old.            *)
Reported(h) ==
  \A m \in Messages : queue[h][m] = "accepted" /\ queue'[h][m] # "accepted" =>
    IsRead(h, m) \/ m \notin inbox \/ age[m] = 3
Advances(h) == Delivered(h)' /\ Reported(h)

LEMMA CalmAdvances ==
  ASSUME Typed, Typed', NEW h \in Hooks, Delivered(h), Calm(h), TimePasses
  PROVE  Advances(h)
BY CalmStep DEF Advances, Reported, Calm, RestCalm, QueueCalm

LEMMA TailIs ==
  ASSUME Typed
  PROVE  /\ frames # <<>> /\ frames' = Tail(frames) =>
              /\ Head(frames) = frames[1] /\ 1 \in DOMAIN frames
              /\ \A i \in DOMAIN frames' : i + 1 \in DOMAIN frames /\ frames'[i] = frames[i + 1]
                                           /\ i + 1 # 1 /\ 1 < i + 1
         /\ requests # <<>> /\ requests' = Tail(requests) =>
              /\ Head(requests) = requests[1] /\ 1 \in DOMAIN requests
              /\ \A i \in DOMAIN requests' :
                   i + 1 \in DOMAIN requests /\ requests'[i] = requests[i + 1] /\ i + 1 # 1
<1>1. ASSUME NEW S, NEW q \in Seq(S), q # <<>>
      PROVE  /\ Head(q) = q[1] /\ 1 \in DOMAIN q
             /\ \A i \in DOMAIN Tail(q) : i + 1 \in DOMAIN q /\ Tail(q)[i] = q[i + 1]
                                          /\ i + 1 # 1 /\ 1 < i + 1
  <2>1. Len(q) \in Nat \ {0} /\ DOMAIN q = 1 .. Len(q)
    BY <1>1, EmptySeq, LenProperties
  <2>2. /\ Tail(q) \in Seq(S) /\ Len(Tail(q)) = Len(q) - 1
        /\ \A i \in 1 .. Len(Tail(q)) : Tail(q)[i] = q[i + 1]
    BY <1>1, HeadTailProperties
  <2>3. DOMAIN Tail(q) = 1 .. Len(q) - 1
    BY <2>2, LenProperties
  <2> QED BY <2>1, <2>2, <2>3
<1> QED BY <1>1 DEF Typed

LEMMA AppendIs ==
  ASSUME NEW S, NEW q \in Seq(S), NEW e \in S
  PROVE  /\ DOMAIN q = 1 .. Len(q) /\ Len(q) \in Nat
         /\ DOMAIN Append(q, e) = 1 .. Len(q) + 1
         /\ \A i \in DOMAIN q : Append(q, e)[i] = q[i]
         /\ Append(q, e)[Len(q) + 1] = e
         /\ \A i \in DOMAIN Append(q, e) : i \in DOMAIN q \/ i = Len(q) + 1
BY AppendProperties, LenProperties

LEMMA OwnTings ==
  ASSUME Typed, Typed', NEW h \in Hooks, Delivered(h), Receive, ReceiveTings,
         h \in Head(frames).hooks
  PROVE  Advances(h)
<1> DEFINE f == Head(frames)
           kept == {m \in f.tings : age[m] < 3}
           r == Request("delivery", f.hooks, kept, None, None)
<1>1. /\ f.op = "tings" /\ f.tings \in SUBSET Messages /\ f.hooks \in SUBSET Hooks /\ f.by = None
      /\ \E g \in Hooks : f.hooks = {g}
  BY FrameTyped DEF Receive, ReceiveTings
<1>2. /\ 1 \in DOMAIN frames /\ f = frames[1]
      /\ \A i \in DOMAIN frames' : i + 1 \in DOMAIN frames /\ frames'[i] = frames[i + 1]
                                   /\ i + 1 # 1 /\ 1 < i + 1
  BY TailIs DEF Receive
<1>3. r \in SentRequests /\ r.by = None /\ r.op = "delivery" /\ r.hooks = f.hooks /\ r.tings = kept
  BY <1>1 DEF Request, SentRequests, Requests, RequestOps
<1>4. requests' = requests \/ requests' = Append(requests, r)
  BY DEF ReceiveTings
<1>5. queue'[h] = [m \in Messages |-> IF m \in kept /\ queue[h][m] # "accepted" THEN "ready"
                                      ELSE queue[h][m]]
  BY DEF ReceiveTings
<1>6. UNCHANGED <<wait, jobs, copies, inbox, age, answered>>
  BY DEF Receive, ReceiveTings, tasks, remote, world
<1>7. kept \subseteq f.tings /\ \A m \in kept : age[m] < 3
  OBVIOUS
<1>8. inbox \subseteq Messages /\ \A m \in Messages : age[m] \in {0, 1, 3}
  BY DEF Typed, AgeTables
<1>9. \A m \in Messages : (queue[h][m] # "none" => queue'[h][m] # "none")
                          /\ (queue[h][m] = "accepted" <=> queue'[h][m] = "accepted")
                          /\ (m \in kept => queue'[h][m] # "none")
                          /\ (m \notin kept => queue'[h][m] = queue[h][m])
                          /\ (m \in kept /\ queue[h][m] # "accepted" => queue'[h][m] = "ready")
  BY <1>5
<1> HIDE DEF kept, r, f
<1>10. \A i \in DOMAIN requests' :
         \/ i \in DOMAIN requests /\ requests'[i] = requests[i]
         \/ requests'[i] = r
  <2>1. CASE requests' = requests
    BY <2>1
  <2>2. CASE requests' = Append(requests, r)
    <3>1. requests \in Seq(SentRequests)
      BY DEF Typed
    <3>2. /\ \A i \in DOMAIN requests : Append(requests, r)[i] = requests[i]
          /\ Append(requests, r)[Len(requests) + 1] = r
          /\ \A i \in DOMAIN Append(requests, r) : i \in DOMAIN requests \/ i = Len(requests) + 1
      BY <1>3, <3>1, AppendIs
    <3> QED BY <2>2, <3>2
  <2> QED BY <1>4, <2>1, <2>2
<1>11. None # h
  BY NoneIsNoHook
<1>12. AsksOnce(h)'
  <2>1. \A i \in DOMAIN requests' : requests'[i].by = h =>
          i \in DOMAIN requests /\ requests'[i] = requests[i]
    BY <1>3, <1>10, <1>11
  <2>2. AsksOnce(h)
    BY DEF Delivered
  <2>3. ASSUME NEW i \in DOMAIN frames', NEW j \in DOMAIN frames',
               frames'[i].by = h, frames'[j].by = h
        PROVE  i = j
    <3>1. i + 1 = j + 1
      BY <1>2, <2>2, <2>3 DEF AsksOnce
    <3>2. i \in Nat /\ j \in Nat
      BY LenProperties DEF Typed
    <3> QED BY <3>1, <3>2
  <2> QED BY <1>2, <1>6, <2>1, <2>2, <2>3 DEF AsksOnce
<1>13. AsksItsBatch(h)'
  <2>1. AsksItsBatch(h)
    BY DEF Delivered
  <2>2. BatchRead(h)' <=> BatchRead(h)
    BY <1>6 DEF BatchRead, IsRead
  <2>3. \A i \in DOMAIN requests' : requests'[i].by = h =>
          i \in DOMAIN requests /\ requests'[i] = requests[i]
    BY <1>3, <1>10, <1>11
  <2>4. DOMAIN frames' \subseteq Nat
    BY LenProperties DEF Typed
  <2>5. \A i, j \in DOMAIN frames' : i < j => i + 1 < j + 1
    BY <2>4
  <2> QED BY <1>2, <1>6, <2>1, <2>2, <2>3, <2>5 DEF AsksItsBatch
<1>14. \A i \in DOMAIN requests' : Reads(requests'[i], h) =>
         i \in DOMAIN requests /\ requests'[i] = requests[i]
  BY <1>3, <1>10 DEF Reads
<1>15. AnswersKept(h)'
  BY <1>6, <1>9, <1>14 DEF Delivered, AnswersKept, IsRead
<1>16. NotAgain(h)'
  <2>1. ASSUME NEW m \in inbox, IsRead(h, m) PROVE queue'[h][m] \in {"none", "accepted"}
    <3>1. queue[h][m] \in {"none", "accepted"}
      BY <2>1 DEF Delivered, NotAgain
    <3>2. CASE m \in kept
      <4>1. queue[h][m] = "accepted" \/ age[m] = 3
        BY <1>1, <1>2, <1>7, <2>1, <3>2 DEF Delivered, NotAgain, Offers, f
      <4> QED BY <1>7, <1>8, <1>9, <2>1, <3>2, <4>1
    <3> QED BY <1>8, <1>9, <3>1, <3>2
  <2>2. ASSUME NEW i \in DOMAIN frames', Offers(frames'[i], h),
               NEW m \in frames'[i].tings \cap inbox, IsRead(h, m)
        PROVE  queue'[h][m] = "accepted" \/ age[m] = 3
    BY <1>2, <1>8, <1>9, <2>2 DEF Delivered, NotAgain
  <2>3. ASSUME NEW i \in DOMAIN requests', Reads(requests'[i], h),
               NEW m \in requests'[i].tings \cap inbox
        PROVE  IsRead(h, m) \/ queue'[h][m] = "accepted" \/ Gone(h, m)'
    <3>1. IsRead(h, m) \/ queue[h][m] = "accepted" \/ Gone(h, m)
      BY <1>14, <2>3 DEF Delivered, NotAgain
    <3> QED BY <1>6, <1>7, <1>8, <1>9, <3>1 DEF Gone
  <2> QED BY <1>6, <2>1, <2>2, <2>3 DEF NotAgain, IsRead
<1>17. PostsUnread(h)'
  <2>1. ASSUME Delivering(h), NEW m \in jobs[h].batch \cap inbox
        PROVE  ~IsRead(h, m) /\ (queue'[h][m] \in {"ready", "stale"} \/ Gone(h, m)')
    <3>1. ~IsRead(h, m) /\ (queue[h][m] \in {"ready", "stale"} \/ Gone(h, m))
      BY <2>1 DEF Delivered, PostsUnread
    <3> QED BY <1>6, <1>7, <1>8, <1>9, <3>1 DEF Gone
  <2> QED BY <1>6, <1>14, <2>1 DEF Delivered, PostsUnread, Delivering, IsRead
<1>18. HeldUntilRead(h)'
  <2>1. ASSUME NEW i \in DOMAIN requests', requests'[i].op = "delivery", h \in requests'[i].hooks,
               NEW m \in requests'[i].tings \cap inbox
        PROVE  queue'[h][m] # "none" \/ age[m] = 3 \/ IsRead(h, m)
    <3>1. CASE i \in DOMAIN requests /\ requests'[i] = requests[i]
      BY <1>8, <1>9, <2>1, <3>1 DEF Delivered, HeldUntilRead
    <3>2. CASE requests'[i] = r
      BY <1>3, <1>8, <1>9, <2>1, <3>2
    <3> QED BY <1>10, <3>1, <3>2
  <2> QED BY <1>6, <1>8, <1>9, <2>1 DEF Delivered, HeldUntilRead, IsRead
<1> QED BY <1>9, <1>12, <1>13, <1>15, <1>16, <1>17, <1>18 DEF Advances, Reported, Delivered

LEMMA OwnAnswer ==
  ASSUME Typed, Typed', NEW h \in Hooks, Delivered(h), Receive, ReceiveAnswer,
         Head(frames).by = h
  PROVE  Advances(h)
<1> DEFINE f == Head(frames)
<1>1. /\ 1 \in DOMAIN frames /\ f = frames[1]
      /\ \A i \in DOMAIN frames' : i + 1 \in DOMAIN frames /\ frames'[i] = frames[i + 1]
                                   /\ i + 1 # 1 /\ 1 < i + 1
  BY TailIs DEF Receive
<1>2. h # None /\ h \in Waiters
  BY NoneIsNoHook, OthersWait
<1>3. wait'[h] = IF f.op = "subscribed" THEN "ok" ELSE f.op
  BY <1>2 DEF ReceiveAnswer, Typed, WaitTables
<1>4. UNCHANGED <<queue, requests, jobs, copies, inbox, age, answered>>
  BY DEF Receive, ReceiveAnswer, tasks, remote, world
<1>5. AsksOnce(h) /\ AsksItsBatch(h)
  BY DEF Delivered
<1>6. Silent(h)'
  BY <1>1, <1>4, <1>5 DEF AsksOnce, Silent
<1>7. AsksOnce(h)'
  BY <1>6 DEF AsksOnce, Silent
<1>8. AsksItsBatch(h)'
  <2>1. BatchRead(h)' <=> BatchRead(h)
    BY <1>4 DEF BatchRead, IsRead
  <2>2. ASSUME jobs'[h].at = "acking", wait'[h] = "ok"
        PROVE  /\ BatchRead(h)'
               /\ \A j \in DOMAIN frames' :
                    Offers(frames'[j], h) => frames'[j].tings \cap jobs'[h].batch = {}
    <3>1. f.op \in {"ok", "subscribed"}
      BY <1>3, <2>2
    <3>2. /\ BatchRead(h)
          /\ \A j \in DOMAIN frames :
               1 < j /\ Offers(frames[j], h) => frames[j].tings \cap jobs[h].batch = {}
      BY <1>1, <1>4, <1>5, <2>2, <3>1 DEF AsksItsBatch
    <3> QED BY <1>1, <1>4, <2>1, <3>2
  <2> QED BY <1>6, <2>2 DEF AsksItsBatch, Silent
<1>9. RestCalm(h) /\ TimePasses
  <2>1. FramesCalm(h)
    BY DropCalm DEF Receive
  <2> QED BY <1>4, <2>1, SameCalm DEF RestCalm
<1> QED BY <1>4, <1>7, <1>8, <1>9, CalmRest DEF Advances, Reported, Delivered

LEMMA ReceiveAdvances ==
  ASSUME Typed, Typed', NEW h \in Hooks, Delivered(h), Receive PROVE Advances(h)
<1> DEFINE f == Head(frames)
<1>1. FramesCalm(h)
  BY DropCalm DEF Receive
<1>2. CASE ReceiveTings /\ h \notin f.hooks
  <2> DEFINE kept == {m \in f.tings : age[m] < 3}
             r == Request("delivery", f.hooks, kept, None, None)
  <2>1. f.op = "tings" /\ f.tings \in SUBSET Messages /\ f.hooks \in SUBSET Hooks
        /\ \E g \in Hooks : f.hooks = {g}
    BY <1>2, FrameTyped DEF Receive, ReceiveTings
  <2>2. r \in SentRequests /\ ~Concerns(r, h)
    BY <1>2, <2>1, NoneIsNoHook DEF Request, SentRequests, Requests, RequestOps, Concerns
  <2>3. requests' = requests \/ requests' = Append(requests, r)
    BY <1>2 DEF ReceiveTings
  <2> HIDE DEF r
  <2>4. RequestsCalm(h)
    BY <2>2, <2>3, AddCalm, SameCalm
  <2>5. QueueCalm(h)
    BY <1>2 DEF ReceiveTings, QueueCalm
  <2>6. Calm(h) /\ TimePasses
    BY <1>1, <1>2, <2>4, <2>5, SameCalm
       DEF Receive, ReceiveTings, Calm, RestCalm, tasks, remote, world
  <2> QED BY <2>6, CalmAdvances
<1>3. CASE ReceivePause
  <2>1. QueueCalm(h)
    BY <1>3, StaledCalm DEF ReceivePause
  <2>2. Calm(h) /\ TimePasses
    BY <1>1, <1>3, <2>1, SameCalm DEF Receive, ReceivePause, Calm, RestCalm, tasks, remote, world
  <2> QED BY <2>2, CalmAdvances
<1>4. CASE ReceiveAnswer /\ f.by # h
  <2>1. WaitCalm(h)
    BY <1>4, OthersWait DEF ReceiveAnswer, WaitCalm, Typed, WaitTables
  <2>2. Calm(h) /\ TimePasses
    BY <1>1, <1>4, <2>1, SameCalm DEF Receive, ReceiveAnswer, Calm, RestCalm, tasks, remote, world
  <2> QED BY <2>2, CalmAdvances
<1> QED BY <1>2, <1>3, <1>4, OwnTings, OwnAnswer DEF Receive

LEMMA OwnOffer ==
  ASSUME Typed, Typed', NEW h \in Hooks, Delivered(h), Offer(h) PROVE Advances(h)
<1> DEFINE window == {m \in inbox : copies[h][m] \in {"out", "queued"}}
           batch == {m \in inbox : /\ age[m] < 3
                                   /\ IF window = {} THEN m \notin muted /\ copies[h][m] # "read"
                                      ELSE copies[h][m] = "out"}
           f == Frame("tings", {h}, batch, None)
<1>1. f \in SentFrames /\ f.by = None /\ f.op = "tings" /\ f.hooks = {h} /\ f.tings = batch
  BY DEF Frame, SentFrames, Frames, Typed, Answers
<1>2. frames' = Append(frames, f)
      /\ copies'[h] = [m \in Messages |-> IF m \in batch THEN "out" ELSE copies[h][m]]
  BY DEF Offer, Typed, CopyTables
<1>3. \A m \in batch : m \in Messages /\ ~IsRead(h, m)
  BY DEF IsRead, Typed
<1>4. UNCHANGED <<queue, requests, wait, jobs, inbox, age, answered>>
  BY DEF Offer, Local, disk, tasks, world
<1> HIDE DEF f, batch, window
<1>5. CopiesCalm(h)
  BY <1>2, <1>3 DEF CopiesCalm, IsRead
<1>6. /\ DOMAIN frames = 1 .. Len(frames) /\ Len(frames) \in Nat
      /\ DOMAIN frames' = 1 .. Len(frames) + 1
      /\ \A i \in DOMAIN frames : frames'[i] = frames[i]
      /\ frames'[Len(frames) + 1] = f
      /\ \A i \in DOMAIN frames' : i \in DOMAIN frames \/ i = Len(frames) + 1
  BY <1>1, <1>2, AppendIs DEF Typed
<1>7. \A m \in Messages : IsRead(h, m)' <=> IsRead(h, m)
  BY <1>5 DEF CopiesCalm, IsRead
<1>8. None # h /\ inbox \subseteq Messages /\ jobs[h].batch \in SUBSET Messages
  BY NoneIsNoHook, JobIs DEF Typed
<1>9. \A i \in DOMAIN frames' : frames'[i].by = h => i \in DOMAIN frames /\ frames'[i] = frames[i]
  BY <1>1, <1>6, <1>8
<1>10. AsksOnce(h)'
  BY <1>4, <1>9 DEF Delivered, AsksOnce
<1>11. AsksItsBatch(h)'
  <2>1. BatchRead(h) => BatchRead(h)' /\ f.tings \cap jobs[h].batch = {}
    BY <1>1, <1>3, <1>4, <1>7, <1>8 DEF BatchRead
  <2>2. AsksItsBatch(h)
    BY DEF Delivered
  <2>3. ASSUME NEW i \in DOMAIN frames', frames'[i].by = h, frames'[i].op \in {"ok", "subscribed"},
               jobs[h].at = "acking"
        PROVE  /\ BatchRead(h)'
               /\ \A j \in DOMAIN frames' :
                    i < j /\ Offers(frames'[j], h) => frames'[j].tings \cap jobs[h].batch = {}
    <3>1. /\ BatchRead(h)
          /\ \A j \in DOMAIN frames :
               i < j /\ Offers(frames[j], h) => frames[j].tings \cap jobs[h].batch = {}
      BY <1>9, <2>2, <2>3 DEF AsksItsBatch
    <3> QED BY <1>6, <2>1, <3>1
  <2>4. ASSUME wait[h] = "ok", jobs[h].at = "acking"
        PROVE  /\ BatchRead(h)'
               /\ \A j \in DOMAIN frames' :
                    Offers(frames'[j], h) => frames'[j].tings \cap jobs[h].batch = {}
    <3>1. /\ BatchRead(h)
          /\ \A j \in DOMAIN frames : Offers(frames[j], h) => frames[j].tings \cap jobs[h].batch = {}
      BY <2>2, <2>4 DEF AsksItsBatch
    <3> QED BY <1>6, <2>1, <3>1
  <2> QED BY <1>4, <2>2, <2>3, <2>4 DEF AsksItsBatch
<1>12. NotAgain(h)'
  <2>1. ASSUME NEW i \in DOMAIN frames', Offers(frames'[i], h),
               NEW m \in frames'[i].tings \cap inbox, IsRead(h, m)
        PROVE  queue[h][m] = "accepted" \/ age[m] = 3
    BY <1>1, <1>3, <1>6, <2>1 DEF Delivered, NotAgain
  <2>2. \A m \in inbox : IsRead(h, m)' <=> IsRead(h, m)
    BY <1>7, <1>8
  <2>3. \A i \in DOMAIN requests : Reads(requests[i], h) =>
          \A m \in requests[i].tings \cap inbox :
            IsRead(h, m)' \/ queue[h][m] = "accepted" \/ Gone(h, m)'
    BY <1>4, <2>2 DEF Delivered, NotAgain, Gone
  <2> QED BY <1>4, <2>1, <2>2, <2>3 DEF Delivered, NotAgain
<1>13. AnswersKept(h)' /\ PostsUnread(h)' /\ HeldUntilRead(h)'
  <2>1. AnswersKept(h)'
    BY <1>4, <1>7 DEF Delivered, AnswersKept
  <2>2. PostsUnread(h)'
    BY <1>4, <1>7, <1>8 DEF Delivered, PostsUnread, Delivering, Gone
  <2>3. HeldUntilRead(h)'
    <3>1. \A m \in inbox : copies'[h][m] = "queued" => copies[h][m] = "queued"
      BY <1>5, <1>8 DEF CopiesCalm
    <3> QED BY <1>4, <1>7, <1>8, <3>1 DEF Delivered, HeldUntilRead
  <2> QED BY <2>1, <2>2, <2>3
<1> QED BY <1>4, <1>10, <1>11, <1>12, <1>13 DEF Advances, Reported, Delivered

(* What the handling of a request does to the copies of a hook.             *)
Handled(r, h) ==
  /\ \A m \in Messages : IsRead(h, m) => IsRead(h, m)'
  /\ \A m \in Messages : IsRead(h, m)' => IsRead(h, m) \/ (Reads(r, h) /\ m \in r.tings)
  /\ \A m \in Messages : copies'[h][m] = "queued" =>
       copies[h][m] = "queued"
       \/ (r.op = "delivery" /\ h \in r.hooks /\ m \in r.tings /\ ~IsRead(h, m))
  /\ \E op \in {"subscribed"} \cup Answers :
       /\ Reply(op, r)
       /\ op \in {"ok", "subscribed"} /\ Reads(r, h) => \A m \in r.tings : IsRead(h, m)'

(* What an acknowledgement for a hook k makes of the copies of a hook h.    *)
LEMMA AckedIs ==
  ASSUME Typed, NEW h \in Hooks, NEW k \in Hooks, NEW r, NEW m \in Messages
  PROVE  Acked(r, k)[h][m] = IF h = k /\ m \in r.tings /\ copies[h][m] # "read"
                             THEN IF r.op = "read" THEN "read" ELSE "queued"
                             ELSE copies[h][m]
<1> DEFINE row == [n \in Messages |-> IF n \in r.tings /\ copies[k][n] # "read"
                                     THEN IF r.op = "read" THEN "read" ELSE "queued"
                                     ELSE copies[k][n]]
<1>1. Acked(r, k) = [copies EXCEPT ![k] = row]
  BY DEF Acked
<1>2. row[m] = IF m \in r.tings /\ copies[k][m] # "read"
               THEN IF r.op = "read" THEN "read" ELSE "queued"
               ELSE copies[k][m]
  OBVIOUS
<1>3. DOMAIN copies = Hooks
  BY DEF Typed, CopyTables
<1> HIDE DEF row
<1> QED BY <1>1, <1>2, <1>3

LEMMA AckHandled ==
  ASSUME Typed, NEW h \in Hooks, NEW r \in SentRequests, HandleAck(r)
  PROVE  Handled(r, h)
<1> DEFINE g == CHOOSE g \in r.hooks : TRUE
<1>1. PICK k \in Hooks : r.hooks = {k}
  BY DEF HandleAck, SentRequests, Acks
<1>2. g = k /\ r.op \in Acks /\ r.tings \in SUBSET Messages
  BY <1>1 DEF HandleAck, Acks, SentRequests, Requests
<1>3. CASE /\ copies' = Acked(r, g) \/ copies' = Reset(Acked(r, g), Reached)
           /\ Reply("ok", r)
  <2>1. \A m \in Messages :
          Acked(r, g)[h][m] = IF h = k /\ m \in r.tings /\ copies[h][m] # "read"
                              THEN IF r.op = "read" THEN "read" ELSE "queued"
                              ELSE copies[h][m]
    <3> HIDE DEF g
    <3> QED BY <1>2, AckedIs
  <2>2. Acked(r, g) \in CopyTables
    BY AckedTyped
  <2>3. \A m \in Messages :
          /\ copies'[h][m] = "read" <=> Acked(r, g)[h][m] = "read"
          /\ copies'[h][m] = "queued" => Acked(r, g)[h][m] = "queued"
    BY <1>3, <2>2 DEF Reset, CopyTables
  <2>4. "ok" \in {"subscribed"} \cup Answers
    BY DEF Answers
  <2>5. \A m \in Messages : IsRead(h, m) => IsRead(h, m)'
    BY <2>1, <2>3 DEF IsRead
  <2>6. \A m \in Messages : IsRead(h, m)' => IsRead(h, m) \/ (Reads(r, h) /\ m \in r.tings)
    BY <1>1, <2>1, <2>3 DEF IsRead, Reads
  <2>7. \A m \in Messages : copies'[h][m] = "queued" =>
          copies[h][m] = "queued"
          \/ (r.op = "delivery" /\ h \in r.hooks /\ m \in r.tings /\ ~IsRead(h, m))
    BY <1>1, <1>2, <2>1, <2>3 DEF IsRead, Acks
  <2>8. Reads(r, h) => \A m \in r.tings : IsRead(h, m)'
    BY <1>1, <1>2, <2>1, <2>3 DEF IsRead, Reads
  <2> QED BY <1>3, <2>4, <2>5, <2>6, <2>7, <2>8 DEF Handled
<1>4. CASE (Reply("invalid", r) \/ Reply("error", r)) /\ UNCHANGED copies
  BY <1>4 DEF Handled, IsRead, Answers
<1> QED BY <1>3, <1>4 DEF HandleAck

LEMMA RequestHandled ==
  ASSUME Typed, NEW h \in Hooks, NEW r \in SentRequests,
         HandleSubscribe(r) \/ HandleUnsubscribe(r) \/ HandleAck(r)
  PROVE  Handled(r, h)
<1>1. CASE HandleSubscribe(r) \/ HandleUnsubscribe(r)
  <2>1. CopiesCalm(h)
    BY <1>1, HandCalm, SameCalm DEF HandleSubscribe, HandleUnsubscribe, binding
  <2>2. PICK op \in {"subscribed"} \cup Answers : Reply(op, r)
    BY <1>1 DEF HandleSubscribe, HandleUnsubscribe, Answers
  <2>3. ~Reads(r, h)
    BY <1>1 DEF HandleSubscribe, HandleUnsubscribe, Reads
  <2> QED BY <2>1, <2>2, <2>3 DEF Handled, CopiesCalm, IsRead
<1> QED BY <1>1, AckHandled

LEMMA HandleAdvances ==
  ASSUME Typed, Typed', NEW h \in Hooks, Delivered(h), Handle PROVE Advances(h)
<1> DEFINE r == Head(requests)
<1>1. /\ r \in SentRequests /\ r.tings \in SUBSET Messages
      /\ 1 \in DOMAIN requests /\ r = requests[1]
      /\ \A i \in DOMAIN requests' :
           i + 1 \in DOMAIN requests /\ requests'[i] = requests[i + 1] /\ i + 1 # 1
  BY RequestTyped, TailIs DEF Handle
<1>2. HandleSubscribe(r) \/ HandleUnsubscribe(r) \/ HandleAck(r)
  BY DEF Handle
<1> HIDE DEF r
<1>3. Handled(r, h)
  BY <1>1, <1>2, RequestHandled
<1>4. UNCHANGED <<queue, wait, jobs, inbox, age, answered>>
  BY DEF Handle, Local, disk, tasks, world
<1>5. PICK op \in {"subscribed"} \cup Answers :
        /\ Reply(op, r)
        /\ op \in {"ok", "subscribed"} /\ Reads(r, h) => \A m \in r.tings : IsRead(h, m)'
  BY <1>3 DEF Handled
<1> DEFINE f == Frame(op, IF op = "subscribed" THEN r.hooks ELSE {}, {}, r.by)
<1>6. f \in SentFrames /\ f.op = op /\ f.by = r.by /\ (frames' = frames \/ frames' = Append(frames, f))
  BY <1>1, <1>5, ReplyTyped DEF Reply, Frame
<1>7. ~Offers(f, h) /\ h # None
  BY <1>6, NoneIsNoHook DEF Offers, Answers
<1> HIDE DEF f
<1>8. /\ DOMAIN frames \subseteq Nat /\ DOMAIN frames \subseteq DOMAIN frames'
      /\ \A i \in DOMAIN frames' :
           \/ i \in DOMAIN frames /\ frames'[i] = frames[i]
           \/ /\ frames'[i] = f
              /\ \A j \in DOMAIN frames' : j = i \/ (j \in DOMAIN frames /\ frames'[j] = frames[j])
  <2>1. CASE frames' = frames
    BY <2>1, LinkIs
  <2>2. CASE frames' = Append(frames, f)
    <3>1. frames \in Seq(SentFrames)
      BY DEF Typed
    <3>2. /\ DOMAIN frames = 1 .. Len(frames) /\ Len(frames) \in Nat
          /\ DOMAIN Append(frames, f) = 1 .. Len(frames) + 1
          /\ \A i \in DOMAIN frames : Append(frames, f)[i] = frames[i]
          /\ Append(frames, f)[Len(frames) + 1] = f
          /\ \A i \in DOMAIN Append(frames, f) : i \in DOMAIN frames \/ i = Len(frames) + 1
      BY <1>6, <3>1, AppendIs
    <3> QED BY <2>2, <3>2
  <2> QED BY <1>6, <2>1, <2>2
<1>9. AsksOnce(h) /\ AsksItsBatch(h)
  BY DEF Delivered
<1>10. DOMAIN requests' \subseteq Nat /\ DOMAIN frames' \subseteq Nat
  BY LenProperties DEF Typed
<1>11. AsksOnce(h)'
  <2>1. ASSUME NEW i \in DOMAIN requests', NEW j \in DOMAIN requests',
               requests'[i].by = h, requests'[j].by = h
        PROVE  i = j
    <3>1. i + 1 = j + 1
      BY <1>1, <1>9, <2>1 DEF AsksOnce
    <3> QED BY <1>10, <3>1
  <2>2. CASE r.by = h
    <3>1. /\ \A i \in DOMAIN requests' : requests'[i].by # h
          /\ \A i \in DOMAIN frames : frames[i].by # h
          /\ wait[h] = "asked" /\ jobs[h].at \in {"acking", "pausing"}
      BY <1>1, <1>9, <2>2 DEF AsksOnce
    <3>2. \A i, j \in DOMAIN frames' : frames'[i].by = h /\ frames'[j].by = h => i = j
      BY <1>8, <3>1
    <3> QED BY <1>4, <2>1, <3>1, <3>2 DEF AsksOnce
  <2>3. CASE r.by # h
    <3>1. \A i \in DOMAIN frames' : frames'[i].by = h => i \in DOMAIN frames /\ frames'[i] = frames[i]
      BY <1>6, <1>8, <2>3
    <3> QED BY <1>1, <1>4, <1>9, <2>1, <3>1 DEF AsksOnce
  <2> QED BY <2>2, <2>3
<1>12. AsksItsBatch(h)'
  <2> SUFFICES ASSUME jobs[h].at = "acking" PROVE AsksItsBatch(h)'
    BY <1>4 DEF AsksItsBatch
  <2>1. jobs[h].batch \in SUBSET Messages
    BY JobIs
  <2>2. BatchRead(h) => BatchRead(h)'
    BY <1>3, <1>4, <2>1 DEF BatchRead, Handled
  <2>3. \A j \in DOMAIN frames' : Offers(frames'[j], h) => j \in DOMAIN frames /\ frames'[j] = frames[j]
    BY <1>7, <1>8
  <2>4. ASSUME NEW i \in DOMAIN frames', frames'[i].by = h, frames'[i].op \in {"ok", "subscribed"}
        PROVE  /\ BatchRead(h)'
               /\ \A j \in DOMAIN frames' :
                    i < j /\ Offers(frames'[j], h) => frames'[j].tings \cap jobs[h].batch = {}
    <3>1. CASE i \in DOMAIN frames /\ frames'[i] = frames[i]
      <4>1. /\ BatchRead(h)
            /\ \A j \in DOMAIN frames :
                 i < j /\ Offers(frames[j], h) => frames[j].tings \cap jobs[h].batch = {}
        BY <1>9, <2>4, <3>1 DEF AsksItsBatch
      <4> QED BY <2>2, <2>3, <4>1
    <3>2. CASE /\ frames'[i] = f /\ i \notin DOMAIN frames
      <4>1. r.by = h /\ op \in {"ok", "subscribed"}
        BY <1>6, <2>4, <3>2
      <4>2. Reads(r, h) /\ r.tings = jobs[h].batch
        BY <1>1, <1>9, <4>1 DEF AsksItsBatch
      <4>3. BatchRead(h)'
        BY <1>4, <1>5, <4>1, <4>2 DEF BatchRead
      <4>4. \A j \in DOMAIN frames' : Offers(frames'[j], h) => j \in DOMAIN frames /\ ~(i < j)
        <5> SUFFICES ASSUME NEW j \in DOMAIN frames', Offers(frames'[j], h) PROVE ~(i < j)
          BY <2>3
        <5>1. frames' = Append(frames, f)
          BY <1>6, <3>2
        <5>2. frames \in Seq(SentFrames)
          BY DEF Typed
        <5>3. /\ DOMAIN frames = 1 .. Len(frames) /\ Len(frames) \in Nat
              /\ \A k \in DOMAIN Append(frames, f) : k \in DOMAIN frames \/ k = Len(frames) + 1
          BY <1>6, <5>2, AppendIs
        <5>4. i = Len(frames) + 1 /\ j \in 1 .. Len(frames)
          BY <2>3, <3>2, <5>1, <5>3
        <5> QED BY <5>3, <5>4
      <4> QED BY <4>3, <4>4
    <3> QED BY <1>6, <1>8, <3>1, <3>2
  <2>5. ASSUME wait[h] = "ok"
        PROVE  /\ BatchRead(h)'
               /\ \A j \in DOMAIN frames' :
                    Offers(frames'[j], h) => frames'[j].tings \cap jobs[h].batch = {}
    <3>1. /\ BatchRead(h)
          /\ \A j \in DOMAIN frames : Offers(frames[j], h) => frames[j].tings \cap jobs[h].batch = {}
      BY <1>9, <2>5 DEF AsksItsBatch
    <3> QED BY <2>2, <2>3, <3>1
  <2>6. \A i \in DOMAIN requests' : requests'[i].by = h =>
          Reads(requests'[i], h) /\ requests'[i].tings = jobs[h].batch
    BY <1>1, <1>9 DEF AsksItsBatch
  <2> QED BY <1>4, <2>4, <2>5, <2>6 DEF AsksItsBatch
<1>13. inbox \subseteq Messages
  BY DEF Typed
<1>14. AnswersKept(h)'
  <2>1. ASSUME NEW m \in Messages, IsRead(h, m)' PROVE m \in answered[h]
    BY <1>1, <1>3, <2>1 DEF Delivered, AnswersKept, Handled
  <2> QED BY <1>1, <1>4, <2>1 DEF Delivered, AnswersKept
<1>15. \A m \in inbox : IsRead(h, m)' => IsRead(h, m) \/ queue[h][m] = "accepted" \/ Gone(h, m)
  BY <1>1, <1>3, <1>13 DEF Delivered, NotAgain, Handled
<1>16. NotAgain(h)'
  <2>1. \A m \in inbox : IsRead(h, m)' => queue[h][m] \in {"none", "accepted"}
    BY <1>15 DEF Delivered, NotAgain, Gone
  <2>2. ASSUME NEW i \in DOMAIN frames', Offers(frames'[i], h),
               NEW m \in frames'[i].tings \cap inbox, IsRead(h, m)'
        PROVE  queue[h][m] = "accepted" \/ age[m] = 3
    <3>1. i \in DOMAIN frames /\ frames'[i] = frames[i]
      BY <1>7, <1>8, <2>2
    <3> QED BY <1>15, <2>2, <3>1 DEF Delivered, NotAgain, Gone
  <2>3. \A i \in DOMAIN requests' : Reads(requests'[i], h) =>
          \A m \in requests'[i].tings \cap inbox :
            IsRead(h, m)' \/ queue[h][m] = "accepted" \/ Gone(h, m)'
    BY <1>1, <1>3, <1>4, <1>13 DEF Delivered, NotAgain, Handled, Gone
  <2> QED BY <1>4, <2>1, <2>2, <2>3 DEF NotAgain
<1>17. PostsUnread(h)'
  <2>1. ASSUME Delivering(h), NEW m \in jobs[h].batch \cap inbox
        PROVE  ~IsRead(h, m)' /\ (queue[h][m] \in {"ready", "stale"} \/ Gone(h, m)')
    <3>1. ~IsRead(h, m) /\ (queue[h][m] \in {"ready", "stale"} \/ Gone(h, m))
          /\ ~(Reads(r, h) /\ m \in r.tings)
      BY <1>1, <2>1 DEF Delivered, PostsUnread
    <3> QED BY <1>3, <1>4, <1>13, <2>1, <3>1 DEF Handled, Gone
  <2> QED BY <1>1, <1>4, <2>1 DEF Delivered, PostsUnread, Delivering
<1>18. HeldUntilRead(h)'
  <2>1. ASSUME NEW m \in inbox, copies'[h][m] = "queued", age[m] < 3 PROVE queue[h][m] # "none"
    <3>1. CASE copies[h][m] = "queued"
      BY <2>1, <3>1 DEF Delivered, HeldUntilRead
    <3>2. CASE r.op = "delivery" /\ h \in r.hooks /\ m \in r.tings /\ ~IsRead(h, m)
      BY <1>1, <2>1, <3>2 DEF Delivered, HeldUntilRead
    <3> QED BY <1>3, <1>13, <2>1, <3>1, <3>2 DEF Handled
  <2>2. ASSUME NEW i \in DOMAIN requests', requests'[i].op = "delivery", h \in requests'[i].hooks,
               NEW m \in requests'[i].tings \cap inbox
        PROVE  queue[h][m] # "none" \/ age[m] = 3 \/ IsRead(h, m)'
    BY <1>1, <1>3, <1>13, <2>2 DEF Delivered, HeldUntilRead, Handled
  <2> QED BY <1>4, <2>1, <2>2 DEF HeldUntilRead
<1> QED BY <1>4, <1>11, <1>12, <1>14, <1>16, <1>17, <1>18 DEF Advances, Reported, Delivered

------------------------------------------------------------------------------
(* The worker of the hook itself.                                           *)

LEMMA SameKept ==
  ASSUME Typed, NEW h \in Hooks
  PROVE  /\ UNCHANGED requests => RequestsKept(h)
         /\ UNCHANGED frames => FramesKept(h)
         /\ QueueCalm(h) => QueueKept(h)
BY DEF RequestsKept, FramesKept, QueueKept, QueueCalm

(* It asks, when nothing of it is under way, to count as read what its      *)
(* destination has answered, or to pause.                                   *)
LEMMA OwnAsk ==
  ASSUME Typed, Typed', NEW h \in Hooks, Delivered(h), Silent(h),
         NEW op \in {"read", "pause"}, NEW ts \in SUBSET Messages, Ask(h, op, {h}, ts, None),
         UNCHANGED <<frames, copies, inbox, age>>, answered[h] \subseteq answered'[h],
         QueueKept(h), Reported(h),
         op = "read" => /\ jobs'[h].at = "acking" /\ jobs'[h].batch = ts
                        /\ ts \subseteq answered'[h]
                        /\ \A m \in ts \cap inbox : queue'[h][m] = "accepted" \/ Gone(h, m)',
         op = "pause" => jobs'[h].at = "pausing"
  PROVE  Advances(h)
<1> DEFINE r == Request(op, {h}, ts, h, None)
<1>1. r \in SentRequests /\ r.by = h /\ r.op = op /\ r.hooks = {h} /\ r.tings = ts
  BY OthersWait DEF Request, SentRequests, Requests, RequestOps
<1>2. requests' = Append(requests, r) /\ wait'[h] = "asked"
  BY OthersWait DEF Ask, Typed, WaitTables
<1> HIDE DEF r
<1>3. /\ DOMAIN requests = 1 .. Len(requests) /\ Len(requests) \in Nat
      /\ \A i \in DOMAIN requests : requests'[i] = requests[i]
      /\ requests'[Len(requests) + 1] = r
      /\ \A i \in DOMAIN requests' : i \in DOMAIN requests \/ i = Len(requests) + 1
  BY <1>1, <1>2, AppendIs DEF Typed
<1>4. \A i \in DOMAIN requests' : requests'[i].by = h => i = Len(requests) + 1 /\ requests'[i] = r
  BY <1>3 DEF Silent
<1>5. \A i \in DOMAIN frames' : frames'[i].by # h
  BY DEF Silent
<1>6. jobs'[h].at \in {"acking", "pausing"}
  OBVIOUS
<1>7. AsksOnce(h)'
  BY <1>2, <1>4, <1>5, <1>6 DEF AsksOnce
<1>8. AsksItsBatch(h)'
  BY <1>1, <1>2, <1>4, <1>5 DEF AsksItsBatch, Reads
<1>9. RequestsKept(h)
  <2>1. ASSUME NEW i \in DOMAIN requests', requests'[i].op \in Acks
        PROVE  \/ i \in DOMAIN requests /\ requests'[i] = requests[i]
               \/ Sound(requests'[i], h)
    <3>1. CASE i = Len(requests) + 1
      BY <1>1, <1>3, <2>1, <3>1 DEF Sound, Acks
    <3> QED BY <1>3, <3>1
  <2> QED BY <2>1 DEF RequestsKept
<1>10. AnswersKept(h)' /\ NotAgain(h)' /\ HeldUntilRead(h)'
  <2>1. FramesKept(h) /\ CopiesCalm(h) /\ TimePasses
    BY SameKept, SameCalm
  <2> QED BY <1>9, <2>1, KeptRest DEF Kept
<1>11. PostsUnread(h)'
  BY <1>6 DEF PostsUnread, Delivering
<1> QED BY <1>7, <1>8, <1>10, <1>11 DEF Advances, Delivered

LEMMA ReadIs ==
  ASSUME Typed, NEW h \in Hooks, NEW what, Read(h, what), NEW m \in Messages
  PROVE  queue'[h][m] = IF queue[h][m] \in what /\ age[m] = 3 THEN "none" ELSE queue[h][m]
BY DEF Read, Typed, QueueTables

LEMMA SetJobIs ==
  ASSUME Typed, NEW h \in Hooks, NEW at, NEW batch, NEW check, SetJob(h, at, batch, check)
  PROVE  jobs'[h].at = at /\ jobs'[h].batch = batch
BY DEF SetJob, Typed, JobTables

LEMMA EndJobIs ==
  ASSUME Typed, NEW h \in Hooks, EndJob(h) PROVE jobs'[h].at = "idle"
BY DEF EndJob, Waiting, Typed, JobTables

LEMMA AckAdvances ==
  ASSUME Typed, Typed', NEW h \in Hooks, Delivered(h), JobAck(h) PROVE Advances(h)
<1> DEFINE ids == Fresh(Holding(h, "accepted"))
<1>1. Silent(h)
  BY NoAnswerDue DEF JobAck, Working, Delivered
<1>2. /\ Read(h, {"accepted"}) /\ Ask(h, "read", {h}, ids, None)
      /\ jobs'[h].at = "acking" /\ jobs'[h].batch = ids
      /\ UNCHANGED <<frames, copies, inbox, age, answered>>
  BY SetJobIs DEF JobAck, Quiet, remote, world
<1>3. ids \in SUBSET Messages /\ \A m \in ids : queue[h][m] = "accepted" /\ age[m] < 3
  BY DEF Fresh, Holding
<1> HIDE DEF ids
<1>4. QueueCalm(h)
  BY <1>2, ReadCalm
<1>5. QueueKept(h) /\ Reported(h)
  BY <1>4, SameKept DEF QueueCalm, Reported
<1>6. \A m \in ids : queue'[h][m] = "accepted" /\ m \in answered[h]
  <2>1. ASSUME NEW m \in ids PROVE queue'[h][m] = "accepted" /\ m \in answered[h]
    <3>1. m \in Messages /\ queue[h][m] = "accepted" /\ age[m] # 3
      BY <1>3 DEF Typed, AgeTables
    <3> QED BY <1>2, <3>1, ReadIs DEF Delivered, AnswersKept
  <2> QED BY <2>1
<1>7. "read" \in {"read", "pause"} /\ ids \subseteq answered'[h]
  BY <1>2, <1>6
<1> QED BY <1>1, <1>2, <1>3, <1>5, <1>6, <1>7, OwnAsk

LEMMA PauseAdvances ==
  ASSUME Typed, Typed', NEW h \in Hooks, Delivered(h), JobPause(h) PROVE Advances(h)
<1>1. Silent(h)
  BY NoAnswerDue DEF JobPause, Working, Delivered
<1>2. /\ Read(h, {"accepted"}) /\ Ask(h, "pause", {h}, {}, None)
      /\ jobs'[h].at = "pausing"
      /\ UNCHANGED <<frames, copies, inbox, age, answered>>
  BY SetJobIs DEF JobPause, Quiet, remote, world
<1>3. QueueCalm(h)
  BY <1>2, ReadCalm
<1>4. QueueKept(h) /\ Reported(h)
  BY <1>3, SameKept DEF QueueCalm, Reported
<1>5. "pause" \in {"read", "pause"} /\ {} \in SUBSET Messages /\ "pause" # "read"
      /\ answered[h] \subseteq answered'[h]
  BY <1>2
<1> QED BY <1>1, <1>2, <1>4, <1>5, OwnAsk

(* It has a batch in hand, or has ended.                                    *)
LEMMA OwnBatch ==
  ASSUME Typed, Typed', NEW h \in Hooks, Delivered(h),
         jobs[h].at \notin {"acking", "pausing"}, jobs'[h].at \notin {"acking", "pausing"},
         UNCHANGED <<requests, frames, wait, copies, inbox, age, answered>>, QueueCalm(h),
         Delivering(h)' =>
           /\ jobs'[h].batch # {}
           /\ \/ Delivering(h) /\ jobs'[h].batch = jobs[h].batch
              \/ \A m \in jobs'[h].batch : queue[h][m] = "ready" /\ queue'[h][m] = "ready"
  PROVE  Advances(h)
<1>1. Silent(h) /\ Silent(h)'
  BY NoAnswerDue, SilentStays DEF Delivered
<1>2. AsksOnce(h)' /\ AsksItsBatch(h)'
  BY <1>1 DEF AsksOnce, AsksItsBatch, Silent
<1>3. AnswersKept(h)' /\ NotAgain(h)' /\ HeldUntilRead(h)'
  BY SameKept, SameCalm, KeptRest DEF Kept
<1>4. PostsUnread(h)'
  <2> SUFFICES ASSUME Delivering(h)' PROVE PostsUnread(h)'
    BY DEF PostsUnread, Delivering
  <2>1. CASE Delivering(h) /\ jobs'[h].batch = jobs[h].batch
    <3>1. ASSUME NEW m \in jobs'[h].batch \cap inbox
          PROVE  ~IsRead(h, m)' /\ (queue'[h][m] \in {"ready", "stale"} \/ Gone(h, m)')
      <4>1. ~IsRead(h, m) /\ (queue[h][m] \in {"ready", "stale"} \/ Gone(h, m)) /\ m \in Messages
        BY <2>1, <3>1, JobIs DEF Delivered, PostsUnread
      <4> QED BY <3>1, <4>1 DEF QueueCalm, Gone, IsRead
    <3> QED BY <2>1, <3>1 DEF Delivered, PostsUnread
  <2>2. CASE \A m \in jobs'[h].batch : queue[h][m] = "ready" /\ queue'[h][m] = "ready"
    <3>1. ASSUME NEW m \in jobs'[h].batch \cap inbox PROVE ~IsRead(h, m)
      BY <2>2, <3>1 DEF Delivered, NotAgain
    <3>2. ASSUME NEW i \in DOMAIN requests, Reads(requests[i], h),
                 NEW m \in requests[i].tings \cap jobs'[h].batch \cap inbox
          PROVE  FALSE
      <4>1. IsRead(h, m) \/ queue[h][m] = "accepted" \/ Gone(h, m)
        BY <3>2 DEF Delivered, NotAgain
      <4> QED BY <2>2, <3>1, <3>2, <4>1 DEF Gone
    <3> QED BY <2>2, <3>1, <3>2 DEF PostsUnread, IsRead
  <2> QED BY <2>1, <2>2
<1>5. Reported(h)
  BY DEF QueueCalm, Reported
<1> QED BY <1>2, <1>3, <1>4, <1>5 DEF Advances, Delivered

LEMMA ForwardIs ==
  ASSUME Typed, NEW h \in Hooks, NEW batch, Forward(h, batch)
  PROVE  /\ jobs'[h].at \in {"idle", "checking", "posting"}
         /\ jobs'[h].at = "posting" => jobs'[h].batch = batch /\ batch # {}
BY SetJobIs, EndJobIs DEF Forward

LEMMA StartAdvances ==
  ASSUME Typed, Typed', NEW h \in Hooks, Delivered(h), JobStart(h) PROVE Advances(h)
<1> DEFINE batch == Fresh(Holding(h, "ready"))
<1>1. /\ Read(h, {"accepted", "ready"}) /\ jobs[h].at = "idle" /\ batch # {}
      /\ SetJob(h, "probing", batch, {}) \/ Forward(h, batch)
      /\ UNCHANGED <<requests, frames, wait, copies, inbox, age, answered>>
  BY DEF JobStart, Working, Quiet, remote, world
<1>2. \A m \in batch : m \in Messages /\ queue[h][m] = "ready" /\ age[m] < 3
  BY DEF Fresh, Holding
<1> HIDE DEF batch
<1>3. QueueCalm(h)
  BY <1>1, ReadCalm
<1>4. \A m \in batch : queue[h][m] = "ready" /\ queue'[h][m] = "ready"
  <2>1. ASSUME NEW m \in batch PROVE queue'[h][m] = "ready"
    <3>1. m \in Messages /\ queue[h][m] = "ready" /\ age[m] # 3
      BY <1>2, <2>1 DEF Typed, AgeTables
    <3> QED BY <1>1, <3>1, ReadIs
  <2> QED BY <1>2, <2>1
<1>5. /\ jobs'[h].at \in {"idle", "probing", "checking", "posting"}
      /\ Delivering(h)' => jobs'[h].batch = batch
  BY <1>1, ForwardIs, SetJobIs DEF Delivering
<1> QED BY <1>1, <1>3, <1>4, <1>5, OwnBatch

LEMMA ProbedAdvances ==
  ASSUME Typed, Typed', NEW h \in Hooks, Delivered(h), JobProbed(h) PROVE Advances(h)
<1>1. /\ jobs[h].at = "probing"
      /\ Forward(h, jobs[h].batch) \/ EndJob(h)
      /\ UNCHANGED <<queue, requests, frames, wait, copies, inbox, age, answered>>
  BY DEF JobProbed, Quiet, remote, world
<1>2. QueueCalm(h)
  BY <1>1, SameCalm
<1>3. /\ jobs'[h].at \in {"idle", "checking", "posting"}
      /\ Delivering(h)' => jobs'[h].batch = jobs[h].batch /\ jobs'[h].batch # {}
  BY <1>1, ForwardIs, EndJobIs DEF Delivering
<1>4. Delivering(h) /\ jobs[h].at \notin {"acking", "pausing"}
      /\ jobs'[h].at \notin {"acking", "pausing"}
  BY <1>1, <1>3 DEF Delivering
<1> QED BY <1>1, <1>2, <1>3, <1>4, OwnBatch

LEMMA CheckedAdvances ==
  ASSUME Typed, Typed', NEW h \in Hooks, Delivered(h), JobChecked(h) PROVE Advances(h)
<1> DEFINE batch == Fresh(Holding(h, "ready"))
<1>1. /\ jobs[h].at \in {"checking", "clearing"}
      /\ \/ Read(h, {"ready"}) /\ (EndJob(h) \/ (batch # {} /\ SetJob(h, "posting", batch, {})))
         \/ UNCHANGED queue /\ EndJob(h)
      /\ UNCHANGED <<requests, frames, wait, copies, inbox, age, answered>>
  BY DEF JobChecked, Quiet, remote, world
<1>2. \A m \in batch : m \in Messages /\ queue[h][m] = "ready" /\ age[m] < 3
  BY DEF Fresh, Holding
<1> HIDE DEF batch
<1>3. QueueCalm(h)
  BY <1>1, ReadCalm, SameCalm
<1>4. /\ jobs'[h].at \in {"idle", "posting"}
      /\ Delivering(h)' => jobs'[h].batch = batch /\ batch # {} /\ Read(h, {"ready"})
  BY <1>1, EndJobIs, SetJobIs DEF Delivering
<1>5. ASSUME Delivering(h)', NEW m \in batch PROVE queue'[h][m] = "ready"
  <2>1. m \in Messages /\ queue[h][m] = "ready" /\ age[m] # 3
    BY <1>2, <1>5 DEF Typed, AgeTables
  <2> QED BY <1>4, <1>5, <2>1, ReadIs
<1> QED BY <1>1, <1>2, <1>3, <1>4, <1>5, OwnBatch

LEMMA MarkIs ==
  ASSUME Typed, NEW h \in Hooks, Mark(h), NEW m \in Messages
  PROVE  queue'[h][m] = IF m \in jobs[h].batch /\ queue[h][m] # "none" THEN "accepted"
                        ELSE queue[h][m]
BY DEF Mark, Typed, QueueTables

LEMMA AcceptedAdvances ==
  ASSUME Typed, Typed', NEW h \in Hooks, Delivered(h), JobAccepted(h) PROVE Advances(h)
<1> DEFINE b == jobs[h].batch
<1>1. /\ jobs[h].at = "posting" /\ Mark(h)
      /\ answered' = [answered EXCEPT ![h] = @ \cup b]
      /\ \/ /\ Ask(h, "read", {h}, b, None) /\ jobs'[h].at = "acking" /\ jobs'[h].batch = b
         \/ EndJob(h) /\ UNCHANGED <<requests, wait>>
      /\ UNCHANGED <<frames, copies, inbox, age>>
  BY SetJobIs DEF JobAccepted, Quiet, remote
<1>2. b \in SUBSET Messages
  BY JobIs
<1>3. Silent(h)
  BY <1>1, NoAnswerDue DEF Delivered
<1>4. answered'[h] = answered[h] \cup b
  BY <1>1 DEF Typed, AnswerTables
<1> HIDE DEF b
<1>5. QueueKept(h) /\ Reported(h)
  BY <1>1, <1>4, MarkIs DEF QueueKept, Reported, b
<1>6. \A m \in b \cap inbox : queue'[h][m] = "accepted" \/ Gone(h, m)'
  <2>1. ASSUME NEW m \in b \cap inbox PROVE queue'[h][m] = "accepted" \/ Gone(h, m)'
    <3>1. (queue[h][m] \in {"ready", "stale"} \/ Gone(h, m)) /\ m \in Messages
      BY <1>1, <1>2, <2>1 DEF Delivered, PostsUnread, Delivering, b
    <3> QED BY <1>1, <2>1, <3>1, MarkIs DEF Gone, b
  <2> QED BY <2>1
<1>7. CASE Ask(h, "read", {h}, b, None) /\ jobs'[h].at = "acking" /\ jobs'[h].batch = b
  <2>1. "read" \in {"read", "pause"} /\ "read" # "pause"
        /\ b \subseteq answered'[h] /\ answered[h] \subseteq answered'[h]
    BY <1>4
  <2> QED BY <1>1, <1>2, <1>3, <1>5, <1>6, <1>7, <2>1, OwnAsk
<1>8. CASE EndJob(h) /\ UNCHANGED <<requests, wait>>
  <2>1. Silent(h)' /\ jobs'[h].at = "idle"
    BY <1>1, <1>3, <1>8, SilentStays, EndJobIs
  <2>2. AsksOnce(h)' /\ AsksItsBatch(h)' /\ PostsUnread(h)'
    BY <2>1 DEF AsksOnce, AsksItsBatch, PostsUnread, Delivering, Silent
  <2>3. AnswersKept(h)' /\ NotAgain(h)' /\ HeldUntilRead(h)'
    BY <1>1, <1>4, <1>5, <1>8, SameKept, SameCalm, KeptRest DEF Kept
  <2> QED BY <1>5, <2>2, <2>3 DEF Advances, Delivered
<1> QED BY <1>1, <1>7, <1>8

LEMMA DoneIs ==
  ASSUME Typed, NEW h \in Hooks, Done(h), NEW m \in Messages
  PROVE  queue'[h][m] = IF m \in jobs[h].batch /\ queue[h][m] = "accepted" THEN "none"
                        ELSE queue[h][m]
BY DEF Done, Typed, QueueTables

(* Granted: what leaves the queue is read, and no offer of it is under way. *)
LEMMA DoneAdvances ==
  ASSUME Typed, Typed', NEW h \in Hooks, Delivered(h), jobs[h].at = "acking", wait[h] = "ok",
         Done(h), EndJob(h), UNCHANGED <<requests, frames, copies, inbox, age, answered>>
  PROVE  Advances(h)
<1>1. Silent(h)
  BY NoAnswerDue DEF Delivered
<1>2. Silent(h)' /\ jobs'[h].at = "idle"
  BY <1>1, SilentStays, EndJobIs
<1>3. AsksOnce(h)' /\ AsksItsBatch(h)' /\ PostsUnread(h)'
  BY <1>2 DEF AsksOnce, AsksItsBatch, PostsUnread, Delivering, Silent
<1>4. /\ \A m \in jobs[h].batch : IsRead(h, m)
      /\ \A j \in DOMAIN frames : Offers(frames[j], h) => frames[j].tings \cap jobs[h].batch = {}
  BY DEF Delivered, AsksItsBatch, BatchRead
<1>5. \A m \in Messages :
        queue'[h][m] = IF m \in jobs[h].batch /\ queue[h][m] = "accepted" THEN "none"
                       ELSE queue[h][m]
  BY DoneIs
<1>6. inbox \subseteq Messages /\ \A m \in Messages : IsRead(h, m)' <=> IsRead(h, m)
  BY DEF Typed, IsRead
<1>7. AnswersKept(h)'
  BY <1>5, <1>6 DEF Delivered, AnswersKept
<1>8. NotAgain(h)'
  <2>1. ASSUME NEW m \in inbox, IsRead(h, m) PROVE queue'[h][m] \in {"none", "accepted"}
    BY <1>5, <1>6, <2>1 DEF Delivered, NotAgain
  <2>2. ASSUME NEW i \in DOMAIN frames, Offers(frames[i], h),
               NEW m \in frames[i].tings \cap inbox, IsRead(h, m)
        PROVE  queue'[h][m] = "accepted" \/ age[m] = 3
    <3>1. m \notin jobs[h].batch /\ m \in Messages
      BY <1>4, <1>6, <2>2
    <3> QED BY <1>5, <2>2, <3>1 DEF Delivered, NotAgain
  <2>3. ASSUME NEW i \in DOMAIN requests, Reads(requests[i], h),
               NEW m \in requests[i].tings \cap inbox
        PROVE  IsRead(h, m) \/ queue'[h][m] = "accepted" \/ Gone(h, m)'
    <3>1. IsRead(h, m) \/ queue[h][m] = "accepted" \/ Gone(h, m)
      BY <2>3 DEF Delivered, NotAgain
    <3> QED BY <1>4, <1>5, <1>6, <2>3, <3>1 DEF Gone
  <2> QED BY <1>6, <2>1, <2>2, <2>3 DEF NotAgain
<1>9. HeldUntilRead(h)'
  <2>1. ASSUME NEW m \in inbox, copies[h][m] = "queued", age[m] < 3 PROVE queue'[h][m] # "none"
    <3>1. queue[h][m] # "none" /\ m \notin jobs[h].batch
      BY <1>4, <2>1 DEF Delivered, HeldUntilRead, IsRead
    <3> QED BY <1>5, <1>6, <3>1
  <2>2. ASSUME NEW i \in DOMAIN requests, requests[i].op = "delivery", h \in requests[i].hooks,
               NEW m \in requests[i].tings \cap inbox
        PROVE  queue'[h][m] # "none" \/ age[m] = 3 \/ IsRead(h, m)
    <3>1. queue[h][m] # "none" \/ age[m] = 3 \/ IsRead(h, m)
      BY <2>2 DEF Delivered, HeldUntilRead
    <3> QED BY <1>4, <1>5, <1>6, <3>1
  <2> QED BY <1>6, <2>1, <2>2 DEF HeldUntilRead
<1>10. Reported(h)
  BY <1>4, <1>5 DEF Reported
<1> QED BY <1>3, <1>7, <1>8, <1>9, <1>10 DEF Advances, Delivered

LEMMA AckedAdvances ==
  ASSUME Typed, Typed', NEW h \in Hooks, Delivered(h), JobAcked(h) PROVE Advances(h)
<1>1. /\ jobs[h].at = "acking" /\ Answered(h) /\ Stop(h)
      /\ UNCHANGED <<requests, frames, copies, inbox, age, answered>>
  BY DEF JobAcked, Quiet, remote, world
<1>2. CASE wait[h] = "ok" /\ Done(h) /\ EndJob(h)
  BY <1>1, <1>2, DoneAdvances
<1>3. CASE UNCHANGED queue /\ (SetJob(h, "clearing", {}, MonthOld(h)) \/ EndJob(h))
  <2>1. Silent(h)'
    BY <1>1, NoAnswerDue, SilentStays DEF Delivered, Answered, Answers
  <2>2. WaitCalm(h)
    BY <1>1, <2>1, OthersWait DEF Stop, WaitCalm, Typed, WaitTables
  <2>3. JobCalm(h)
    BY <1>3, <2>1, SetJobIs, EndJobIs DEF JobCalm
  <2>4. Calm(h) /\ TimePasses
    BY <1>1, <1>3, <2>2, <2>3, SameCalm DEF Calm, RestCalm
  <2> QED BY <2>4, CalmAdvances
<1> QED BY <1>2, <1>3 DEF JobAcked

LEMMA OwnJobAdvances ==
  ASSUME Typed, Typed', NEW h \in Hooks, Delivered(h), JobStep(h) PROVE Advances(h)
<1>1. CASE \/ JobPaused(h) \/ JobFailed(h) \/ JobAborted(h)
           \/ \E m \in Messages : JobCheck(h, m)
  <2>1. AsksOnce(h)
    BY DEF Delivered
  <2>2. Calm(h) /\ TimePasses
    BY <1>1, <2>1, OwnJobCalm
  <2> QED BY <2>2, CalmAdvances
<1> QED
  BY <1>1, AckAdvances, PauseAdvances, StartAdvances, ProbedAdvances, CheckedAdvances,
     AcceptedAdvances, AckedAdvances
     DEF JobStep

LEMMA StepAdvances ==
  ASSUME Typed, Typed', NEW h \in Hooks, Delivered(h), Next PROVE Advances(h)
<1>1. AsksOnce(h)
  BY DEF Delivered
<1>2. ASSUME Calm(h), TimePasses PROVE Advances(h)
  BY <1>2, CalmAdvances
<1>3. CASE Connect \/ Lose \/ Crash
  BY <1>1, <1>2, <1>3, ConnectCalm, LoseCalm, CrashCalm
<1>4. CASE Receive \/ Handle
  BY <1>4, ReceiveAdvances, HandleAdvances
<1>5. CASE \/ Reconnect \/ Logout \/ CommandStep
           \/ \E g \in Hooks : Attach(g) \/ Unhook(g)
           \/ \E t \in Tokens : Login(t)
  BY <1>1, <1>2, <1>5, CommandCalm
<1>6. ASSUME NEW r \in Restorers, RestoreStart(r) \/ RestoreStep(r) PROVE Advances(h)
  BY <1>2, <1>6, RestoreCalm
<1>7. ASSUME NEW w \in Waiters, TimeOut(w) PROVE Advances(h)
  BY <1>1, <1>2, <1>7, TimeOutCalm
<1>8. ASSUME NEW g \in Hooks, JobStep(g) PROVE Advances(h)
  <2>1. CASE g = h
    BY <1>8, <2>1, OwnJobAdvances
  <2>2. CASE g # h
    BY <1>1, <1>2, <1>8, <2>2, OtherJobCalm
  <2> QED BY <2>1, <2>2
<1>9. ASSUME NEW g \in Hooks, Offer(g) PROVE Advances(h)
  <2>1. CASE g = h
    BY <1>9, <2>1, OwnOffer
  <2>2. CASE g # h
    BY <1>2, <1>9, <2>2, ServerCalm
  <2> QED BY <2>1, <2>2
<1>10. CASE \/ SendPause \/ Revalidate \/ Expire
            \/ \E g \in Hooks : Settle(g) \/ Steal(g) \/ DetachElsewhere(g) \/ HalfDay(g)
            \/ \E m \in Messages : Mute(m) \/ PruneInbox(m) \/ Grow(m)
  BY <1>2, <1>10, ServerCalm
<1>11. ASSUME NEW g \in Hooks, NEW m \in Messages, Sweep(g, m) PROVE Advances(h)
  BY <1>2, <1>11, SweepCalm
<1> QED BY <1>3, <1>4, <1>5, <1>6, <1>7, <1>8, <1>9, <1>10, <1>11 DEF Next

LEMMA DeliveryInit == Init => DeliveryInv
<1> SUFFICES ASSUME Init, NEW h \in Hooks PROVE Delivered(h)
  BY DEF DeliveryInv
<1>1. DOMAIN requests = {} /\ DOMAIN frames = {}
  BY EmptySeq, LenProperties DEF Init
<1>2. /\ jobs[h].at = "idle" /\ wait[h] = "none"
      /\ \A m \in Messages : queue[h][m] = "none" /\ copies[h][m] = "owed"
      /\ inbox = Messages
  BY OthersWait DEF Init, Waiting
<1> QED
  BY <1>1, <1>2 DEF Delivered, AsksOnce, AsksItsBatch, AnswersKept, NotAgain, PostsUnread,
     HeldUntilRead, Delivering, IsRead

LEMMA DeliveryStep ==
  Typed /\ Typed' /\ DeliveryInv /\ [Next]_vars => \A h \in Hooks : Advances(h)
<1> SUFFICES ASSUME Typed, Typed', DeliveryInv, [Next]_vars, NEW h \in Hooks PROVE Advances(h)
  OBVIOUS
<1>1. Delivered(h)
  BY DEF DeliveryInv
<1>2. CASE UNCHANGED vars
  <2>1. Calm(h) /\ TimePasses
    BY <1>2, SameCalm DEF vars, disk, tasks, link, remote, world, Calm, RestCalm
  <2> QED BY <1>1, <2>1, CalmAdvances
<1> QED BY <1>1, <1>2, StepAdvances

LEMMA DeliveryAlways == Spec => []DeliveryInv
<1>1. Typed /\ Typed' /\ DeliveryInv /\ [Next]_vars => DeliveryInv'
  BY DeliveryStep DEF Advances, DeliveryInv
<1> QED BY <1>1, DeliveryInit, TypedAlways, PTL DEF Spec

------------------------------------------------------------------------------
(* The server counts a copy as read only if the destination of the hook has *)
(* answered 204 for it, whatever was lost, repeated or restarted between    *)
(* the answer of the destination and the acknowledgement of the daemon.     *)
THEOREM ReadIsAnswered == Spec => []ReadWasAnswered
<1>1. Typed /\ DeliveryInv => ReadWasAnswered
  BY DEF DeliveryInv, Delivered, AnswersKept, IsRead, ReadWasAnswered
<1> QED BY <1>1, TypedAlways, DeliveryAlways, PTL

(* What the server counts as queued the daemon holds on disk, unless it has *)
(* expired or the server has lost it: a batch is saved before its receipt   *)
(* is acknowledged, and no restart or repeated offer comes between.         *)
THEOREM QueuedHeld == Spec => []QueuedIsHeld
<1>1. DeliveryInv => QueuedIsHeld
  BY DEF DeliveryInv, Delivered, HeldUntilRead, QueuedIsHeld
<1> QED BY <1>1, DeliveryAlways, PTL

(* What a destination has answered 204 for stays in the queue until the     *)
(* server counts it as read, or no longer has it, or for three months: an   *)
(* acknowledgement that was lost is sent again.                             *)
THEOREM AnsweredReported == Spec => AnsweredIsReported
<1>1. Typed /\ Typed' /\ DeliveryInv /\ [Next]_vars =>
        [\A h \in Hooks, m \in Messages :
           queue[h][m] = "accepted" /\ queue'[h][m] # "accepted" =>
             copies[h][m] = "read" \/ m \notin inbox \/ age[m] = 3]_vars
  BY DeliveryStep DEF Advances, Reported, IsRead
<1> QED BY <1>1, TypedAlways, DeliveryAlways, PTL DEF Spec, AnsweredIsReported

------------------------------------------------------------------------------
(* What a step is to the owner of a hook.                                   *)

(* No batch is newly on its way to the destination.                         *)
NoPost(h) ==
  jobs'[h].at = "posting" => jobs[h].at = "posting" /\ jobs'[h].batch = jobs[h].batch
Unread(h) == \A m \in Messages : IsRead(h, m)' <=> IsRead(h, m)

LEMMA FailsPromise ==
  ASSUME Typed, Typed', \A h \in Hooks : NoPost(h) /\ Unread(h), UNCHANGED <<inbox, answered>>
  PROVE  Promise!Next
<1>1. PICK hs \in SUBSET Hooks : hs = {h \in Hooks : jobs'[h].at # "posting"}
  OBVIOUS
<1>2. Promise!Fail(hs)
  BY <1>1 DEF Promise!Fail, NoPost, Unread, IsRead
<1> QED BY <1>2 DEF Promise!Next

LEMMA CalmPromise ==
  ASSUME Typed, Typed', \A h \in Hooks : Calm(h), UNCHANGED <<inbox, answered>>
  PROVE  Promise!Next
BY FailsPromise DEF Calm, RestCalm, JobCalm, CopiesCalm, NoPost, Unread, IsRead

LEMMA PrunePromise ==
  ASSUME Typed, NEW m \in Messages, PruneInbox(m) PROVE Promise!Next
<1>1. Promise!Remove(m)
  BY DEF PruneInbox, Promise!Remove, Local, binding, world, tasks
<1> QED BY <1>1 DEF Promise!Next

LEMMA HandlePromise ==
  ASSUME Typed, Typed', DeliveryInv, Handle PROVE Promise!Next
<1> DEFINE r == Head(requests)
<1>1. r \in SentRequests /\ r.tings \in SUBSET Messages /\ 1 \in DOMAIN requests /\ r = requests[1]
  BY RequestTyped, TailIs DEF Handle
<1>2. HandleSubscribe(r) \/ HandleUnsubscribe(r) \/ HandleAck(r)
  BY DEF Handle
<1>3. UNCHANGED <<jobs, inbox, answered>>
  BY DEF Handle, Local, tasks, world
<1> HIDE DEF r
<1>4. \A h \in Hooks : Handled(r, h)
  BY <1>1, <1>2, RequestHandled
<1>5. \A h \in Hooks : NoPost(h)
  BY <1>3 DEF NoPost
<1>6. CASE HandleAck(r)
  <2>1. PICK k \in Hooks : r.hooks = {k}
    BY <1>1, <1>6 DEF HandleAck, SentRequests, Acks
  <2>0. PICK ms \in SUBSET Messages :
          ms = {m \in Messages : copies'[k][m] = "read" /\ copies[k][m] # "read"}
    OBVIOUS
  <2>2. \A h \in Hooks : h # k => Unread(h)
    BY <1>4, <2>1 DEF Handled, Unread, Reads
  <2>3. ms \subseteq inbox
    <3>1. ASSUME NEW m \in ms PROVE m \in inbox
      <4>1. m \in r.tings /\ copies' # copies
        BY <1>4, <2>0, <3>1 DEF Handled, IsRead
      <4> QED BY <1>6, <4>1 DEF HandleAck
    <3> QED BY <3>1
  <2>4. ms \subseteq answered[k]
    <3>1. ASSUME NEW m \in ms PROVE m \in answered[k]
      <4>1. m \in r.tings /\ Reads(r, k)
        BY <1>4, <2>0, <3>1 DEF Handled, IsRead
      <4> QED BY <1>1, <4>1 DEF DeliveryInv, Delivered, AnswersKept
    <3> QED BY <3>1
  <2>5. {m \in Messages : copies'[k][m] = "read"} = {m \in Messages : copies[k][m] = "read"} \cup ms
    BY <1>4, <2>0 DEF Handled, IsRead
  <2>6. Promise!Report(k, ms)
    <3>1. [h \in Hooks |-> {m \in Messages : copies'[h][m] = "read"}]
            = [[h \in Hooks |-> {m \in Messages : copies[h][m] = "read"}] EXCEPT ![k] = @ \cup ms]
      BY <2>2, <2>5 DEF Unread, IsRead
    <3> QED BY <1>3, <2>3, <2>4, <3>1 DEF Promise!Report
  <2> QED BY <2>6 DEF Promise!Next
<1>7. CASE ~HandleAck(r)
  <2>1. \A h \in Hooks : Unread(h)
    BY <1>2, <1>4, <1>7 DEF Handled, Unread, Reads, HandleSubscribe, HandleUnsubscribe
  <2> QED BY <1>3, <1>5, <2>1, FailsPromise
<1> QED BY <1>6, <1>7

(* A batch goes out.                                                        *)
LEMMA PostPromise ==
  ASSUME Typed, Typed', DeliveryInv', NEW h \in Hooks, jobs[h].at # "posting",
         jobs'[h].at = "posting", \A g \in Hooks \ {h} : jobs'[g] = jobs[g],
         UNCHANGED <<copies, inbox, answered>>
  PROVE  Promise!Next
<1>1. PICK b \in SUBSET Messages : b = jobs'[h].batch
  BY DEF Typed, JobTables, JobRecords
<1>2. b # {} /\ \A m \in b \cap inbox : copies[h][m] # "read"
  BY <1>1 DEF DeliveryInv, Delivered, PostsUnread, Delivering, IsRead
<1>3. [g \in Hooks |-> IF jobs'[g].at = "posting" THEN jobs'[g].batch ELSE {}]
        = [[g \in Hooks |-> IF jobs[g].at = "posting" THEN jobs[g].batch ELSE {}] EXCEPT ![h] = b]
  BY <1>1
<1>4. Promise!Post(h, b)
  BY <1>2, <1>3 DEF Promise!Post
<1> QED BY <1>4 DEF Promise!Next

(* The destination takes it.                                                *)
LEMMA AnswerPromise ==
  ASSUME Typed, Typed', DeliveryInv, NEW h \in Hooks, jobs[h].at = "posting",
         jobs'[h].at # "posting", \A g \in Hooks \ {h} : jobs'[g] = jobs[g],
         answered' = [answered EXCEPT ![h] = @ \cup jobs[h].batch],
         UNCHANGED <<copies, inbox>>
  PROVE  Promise!Next
<1>1. jobs[h].batch # {}
  BY DEF DeliveryInv, Delivered, PostsUnread
<1>2. Promise!Answer(h)
  BY <1>1 DEF Promise!Answer
<1> QED BY <1>2 DEF Promise!Next

LEMMA JobPromise ==
  ASSUME Typed, Typed', DeliveryInv, DeliveryInv', NEW g \in Hooks, JobStep(g)
  PROVE  Promise!Next
<1>1. UNCHANGED <<copies, inbox>>
  BY DEF JobStep, JobAck, JobPause, JobPaused, JobStart, JobProbed, JobCheck, JobChecked,
         JobAccepted, JobFailed, JobAcked, JobAborted, Quiet, remote
<1>2. \A h \in Hooks \ {g} : jobs'[h] = jobs[h]
  BY DEF JobStep, JobAck, JobPause, JobPaused, JobStart, JobProbed, JobCheck, JobChecked,
         JobAccepted, JobFailed, JobAcked, JobAborted, Forward, SetJob, EndJob, Typed, JobTables
<1>3. \A h \in Hooks : Unread(h) /\ (h # g => NoPost(h))
  BY <1>1, <1>2 DEF Unread, IsRead, NoPost
<1>4. CASE \/ JobAccepted(g)
           \/ JobFailed(g) /\ answered' = [answered EXCEPT ![g] = @ \cup jobs[g].batch]
  <2>1. /\ jobs[g].at = "posting" /\ jobs'[g].at # "posting"
        /\ answered' = [answered EXCEPT ![g] = @ \cup jobs[g].batch]
    BY <1>4, SetJobIs, EndJobIs DEF JobAccepted, JobFailed
  <2> QED BY <1>1, <1>2, <2>1, AnswerPromise
<1>5. CASE JobFailed(g) /\ UNCHANGED answered
  <2>1. NoPost(g)
    BY <1>5, EndJobIs DEF JobFailed, NoPost
  <2> QED BY <1>1, <1>3, <1>5, <2>1, FailsPromise
<1>6. CASE ~JobAccepted(g) /\ ~JobFailed(g)
  <2>1. UNCHANGED answered
    BY <1>6 DEF JobStep, JobAck, JobPause, JobPaused, JobStart, JobProbed, JobCheck, JobChecked,
                JobAcked, JobAborted, world
  <2>2. jobs'[g].at # "posting" \/ jobs[g].at # "posting"
    <3>1. CASE JobAborted(g)
      BY <3>1, EndJobIs DEF JobAborted
    <3>2. CASE ~JobAborted(g)
      BY <1>6, <3>2 DEF JobStep, JobAck, JobPause, JobPaused, JobStart, JobProbed, JobCheck,
                        JobChecked, JobAcked, Working
    <3> QED BY <3>1, <3>2
  <2>3. CASE jobs'[g].at # "posting"
    <3>1. NoPost(g)
      BY <2>3 DEF NoPost
    <3> QED BY <1>1, <1>3, <2>1, <3>1, FailsPromise
  <2>4. CASE jobs'[g].at = "posting"
    BY <1>1, <1>2, <2>1, <2>2, <2>4, PostPromise
  <2> QED BY <2>3, <2>4
<1> QED BY <1>4, <1>5, <1>6 DEF JobFailed

LEMMA StepPromise ==
  ASSUME Typed, Typed', DeliveryInv, DeliveryInv', Next PROVE Promise!Next
<1>1. \A h \in Hooks : AsksOnce(h)
  BY DEF DeliveryInv, Delivered
<1>2. CASE Connect \/ Lose \/ Crash
  <2>1. \A h \in Hooks : Calm(h)
    BY <1>1, <1>2, ConnectCalm, LoseCalm, CrashCalm
  <2>2. UNCHANGED <<inbox, answered>>
    BY <1>2 DEF Connect, Lose, Crash, remote, world
  <2> QED BY <2>1, <2>2, CalmPromise
<1>3. CASE Receive
  <2>1. UNCHANGED <<jobs, copies, inbox, answered>>
    BY <1>3 DEF Receive, tasks, remote, world
  <2>2. \A h \in Hooks : NoPost(h) /\ Unread(h)
    BY <2>1 DEF NoPost, Unread, IsRead
  <2> QED BY <2>1, <2>2, FailsPromise
<1>4. CASE \/ Reconnect \/ Logout \/ CommandStep
           \/ \E g \in Hooks : Attach(g) \/ Unhook(g)
           \/ \E t \in Tokens : Login(t)
  <2>1. \A h \in Hooks : Calm(h)
    BY <1>1, <1>4, CommandCalm
  <2>2. UNCHANGED <<inbox, answered>>
    BY <1>4 DEF Reconnect, Reattach, Logout, Attach, Unhook, Login, CommandStep, CommandGreeted,
                CommandPatch, CommandSave, CommandBound, CommandUnhooked, CommandLeave,
                CommandLeft, EndSession, CommandAborted, Elsewhere, remote, world
  <2> QED BY <2>1, <2>2, CalmPromise
<1>5. CASE \/ \E r \in Restorers : RestoreStart(r) \/ RestoreStep(r)
           \/ \E w \in Waiters : TimeOut(w)
           \/ \E g \in Hooks, m \in Messages : Sweep(g, m)
  <2>1. \A h \in Hooks : Calm(h)
    BY <1>1, <1>5, RestoreCalm, TimeOutCalm, SweepCalm
  <2>2. UNCHANGED <<inbox, answered>>
    BY <1>5 DEF RestoreStart, RestoreStep, RestoreCut, RestorePause, RestorePaused, RestoreAttach,
                RestoreDone, TimeOut, Sweep, remote, world
  <2> QED BY <2>1, <2>2, CalmPromise
<1>6. CASE \/ SendPause \/ Revalidate \/ Expire
           \/ \E g \in Hooks : Settle(g) \/ Steal(g) \/ DetachElsewhere(g) \/ HalfDay(g)
           \/ \E m \in Messages : Mute(m) \/ Grow(m)
  <2>1. \A h \in Hooks : Calm(h)
    BY <1>6, ServerCalm
  <2>2. UNCHANGED <<inbox, answered>>
    BY <1>6 DEF SendPause, Revalidate, Expire, Settle, ReleaseReceiver, WithdrawExpired, Steal,
                DetachElsewhere, HalfDay, Mute, Grow, remote, world
  <2> QED BY <2>1, <2>2, CalmPromise
<1>7. ASSUME NEW g \in Hooks, Offer(g) PROVE Promise!Next
  <2>1. UNCHANGED <<jobs, inbox, answered>>
    BY <1>7 DEF Offer, Local, tasks, world
  <2>2. \A h \in Hooks : Unread(h)
    BY <1>7 DEF Offer, Unread, IsRead, Typed, CopyTables
  <2> QED BY <2>1, <2>2, FailsPromise DEF NoPost
<1> QED
  BY <1>2, <1>3, <1>4, <1>5, <1>6, <1>7, HandlePromise, JobPromise, PrunePromise DEF Next

(* To its owner a hook keeps the promise of Delivery, whatever fails on the *)
(* way: what is posted the server does not count as read, what it counts as *)
(* read the destination has answered, and nothing but retention removes it. *)
THEOREM Delivers == Spec => DeliversAsPromised
<1>1. Init => Promise!Init
  BY DEF Init, Promise!Init, Waiting
<1>2. Typed /\ Typed' /\ DeliveryInv /\ DeliveryInv' /\ [Next]_vars => [Promise!Next]_(Promise!vars)
  <2>1. UNCHANGED vars => UNCHANGED Promise!vars
    BY DEF vars, tasks, remote, world, Promise!vars
  <2> QED BY <2>1, StepPromise
<1> QED BY <1>1, <1>2, TypedAlways, DeliveryAlways, PTL DEF Spec, Promise!Spec, DeliversAsPromised

------------------------------------------------------------------------------
(* Hooks without a health URL.                                              *)
Unprobed(h) == hooks[h].health = FALSE /\ jobs[h].at # "probing"

LEMMA HealthKept ==
  ASSUME Typed, NEW h \in Hooks, hooks[h].health = FALSE, Next PROVE hooks'[h].health = FALSE
<1>1. ASSUME NEW g, NEW state, SetState(g, state) PROVE hooks'[h].health = FALSE
  BY <1>1 DEF SetState, Typed, HookTables, HookRecords
<1>2. ASSUME UNCHANGED hooks PROVE hooks'[h].health = FALSE
  BY <1>2
<1>3. CASE Connect \/ Lose \/ Crash
  BY <1>2, <1>3 DEF Connect, Lose, Crash, disk
<1>4. CASE Receive
  BY <1>2, <1>4 DEF Receive, ReceiveTings, ReceivePause, ReceiveAnswer, Typed, HookTables, HookRecords
<1>5. ASSUME NEW r \in Restorers, RestoreStart(r) \/ RestoreStep(r)
      PROVE  hooks'[h].health = FALSE
  BY <1>1, <1>2, <1>5 DEF RestoreStart, RestoreStep, RestoreCut, RestorePause, RestorePaused,
                          RestoreAttach, RestoreDone, disk
<1>6. ASSUME NEW g \in Hooks, JobStep(g) PROVE hooks'[h].health = FALSE
  <2>1. CASE JobProbed(g) \/ JobAccepted(g) \/ JobFailed(g)
    <3> DEFINE o(failing) == [hooks[g] EXCEPT !.failing = failing]
               p == [hooks[g] EXCEPT !.health = FALSE]
    <3>1. \/ UNCHANGED hooks \/ hooks' = [hooks EXCEPT ![g] = p]
          \/ \E failing : hooks' = [hooks EXCEPT ![g] = o(failing)]
      BY <2>1 DEF JobProbed, JobAccepted, JobFailed
    <3>2. p.health = FALSE /\ \A failing : o(failing).health = hooks[g].health
      BY DEF Typed, HookTables, HookRecords
    <3> HIDE DEF o, p
    <3> QED BY <3>1, <3>2 DEF Typed, HookTables
  <2>2. CASE ~JobProbed(g) /\ ~JobAccepted(g) /\ ~JobFailed(g)
    <3>1. UNCHANGED hooks \/ \E state : SetState(g, state)
      BY <1>6, <2>2 DEF JobStep, JobAck, JobPause, JobPaused, JobStart, JobCheck, JobChecked,
                        JobAcked, JobAborted, disk
    <3> QED BY <1>1, <1>2, <3>1
  <2> QED BY <2>1, <2>2
<1>7. CASE CommandSave
  <2> DEFINE k == command.hook
             o == [hooks[k] EXCEPT !.state = "attached", !.failing = "no",
                                   !.token = IF command.op = "attach" THEN command.token ELSE @]
  <2>1. hooks' = [hooks EXCEPT ![k] = o]
    BY <1>7 DEF CommandSave
  <2>2. k \in Hooks => o.health = hooks[k].health
    BY DEF Typed, HookTables, HookRecords
  <2> HIDE DEF o, k
  <2> QED BY <2>1, <2>2 DEF Typed, HookTables
<1>8. CASE Logout
  BY <1>8 DEF Logout, Typed, HookTables, HookRecords
<1>9. CASE \/ Reconnect \/ (CommandStep /\ ~CommandSave)
           \/ \E g \in Hooks : Attach(g) \/ Unhook(g)
           \/ \E t \in Tokens : Login(t)
  BY <1>1, <1>2, <1>9 DEF Reconnect, Reattach, Attach, Unhook, Login, CommandStep, CommandGreeted,
     CommandPatch, CommandBound, CommandUnhooked, CommandLeave, CommandLeft, EndSession,
     CommandAborted, disk
<1>10. ASSUME NEW g \in Hooks, HalfDay(g) PROVE hooks'[h].health = FALSE
  BY <1>10 DEF HalfDay, Typed, HookTables, HookRecords
<1>11. CASE \/ Handle \/ SendPause \/ Expire \/ Revalidate
            \/ \E w \in Waiters : TimeOut(w)
            \/ \E g \in Hooks : \/ Offer(g) \/ Settle(g) \/ Steal(g) \/ DetachElsewhere(g)
                                \/ \E m \in Messages : Sweep(g, m)
            \/ \E m \in Messages : Mute(m) \/ PruneInbox(m) \/ Grow(m)
  BY <1>2, <1>11 DEF Handle, SendPause, Expire, Revalidate, TimeOut, Offer, Settle,
     ReleaseReceiver, WithdrawExpired, Steal, DetachElsewhere, Sweep, Mute, PruneInbox, Grow,
     Local, disk
<1> QED BY <1>3, <1>4, <1>5, <1>6, <1>7, <1>8, <1>9, <1>10, <1>11 DEF Next

(* A worker posts what it has just found ready, unless it has probed first. *)
LEMMA JobPosts ==
  ASSUME Typed, NEW h \in Hooks, Unprobed(h), Next
  PROVE  /\ jobs'[h].at # "probing"
         /\ Posting(h) => \A m \in jobs'[h].batch : queue[h][m] = "ready"
<1> DEFINE Fine == /\ jobs'[h].at # "probing"
                   /\ Posting(h) => \A m \in jobs'[h].batch : queue[h][m] = "ready"
<1>1. ASSUME jobs'[h].at \notin {"posting", "probing"} PROVE Fine
  BY <1>1 DEF Posting
<1>2. ASSUME jobs'[h] = jobs[h] PROVE Fine
  BY <1>2 DEF Posting, Unprobed
<1>3. CASE Crash
  BY <1>1, <1>3, WaitingTyped DEF Crash
<1>4. ASSUME NEW g \in Hooks, JobStep(g) PROVE Fine
  <2>1. CASE g # h
    <3>1. jobs'[h] = jobs[h]
      BY <1>4, <2>1 DEF JobStep, JobAck, JobPause, JobPaused, JobStart, JobProbed, JobCheck,
                        JobChecked, JobAccepted, JobFailed, JobAcked, JobAborted, Forward, SetJob,
                        EndJob, Typed, JobTables
    <3> QED BY <1>2, <3>1
  <2>2. CASE g = h /\ (JobStart(h) \/ JobChecked(h))
    <3>1. PICK b : /\ \A m \in b : queue[h][m] = "ready"
                   /\ Forward(h, b) \/ SetJob(h, "posting", b, {}) \/ EndJob(h)
      BY <2>2 DEF JobStart, JobChecked, Fresh, Holding, Unprobed
    <3>2. jobs'[h].at # "probing" /\ (jobs'[h].at = "posting" => jobs'[h].batch = b)
      BY <3>1, ForwardIs, SetJobIs, EndJobIs
    <3> QED BY <3>1, <3>2 DEF Posting
  <2>3. CASE g = h /\ ~JobStart(h) /\ ~JobChecked(h)
    <3>1. ASSUME NEW m \in Messages, JobCheck(h, m) PROVE Fine
      <4> DEFINE o == [jobs[h] EXCEPT !.check = @ \ {m}]
      <4>1. o.at = jobs[h].at /\ jobs[h].at \in {"checking", "clearing"}
        BY <3>1, JobIs DEF JobRecords, JobCheck
      <4>2. jobs' = [jobs EXCEPT ![h] = o]
        BY <3>1 DEF JobCheck
      <4> HIDE DEF o
      <4>3. jobs'[h].at \in {"checking", "clearing"}
        BY <4>1, <4>2 DEF Typed, JobTables
      <4> QED BY <1>1, <4>3
    <3>2. CASE \A m \in Messages : ~JobCheck(h, m)
      <4>1. jobs'[h].at \in {"idle", "acking", "pausing", "clearing"}
        BY <1>4, <2>3, <3>2, SetJobIs, EndJobIs
           DEF JobStep, JobAck, JobPause, JobPaused, JobProbed, JobAccepted, JobFailed, JobAcked,
               JobAborted, Unprobed
      <4> QED BY <1>1, <4>1
    <3> QED BY <3>1, <3>2
  <2> QED BY <1>4, <2>1, <2>2, <2>3
<1>5. CASE ~Crash /\ ~\E g \in Hooks : JobStep(g)
  <2>1. UNCHANGED jobs
    BY <1>5 DEF Next, Connect, Lose, Receive, Handle, SendPause, Expire, Revalidate, Reconnect,
       Reattach, Logout, CommandStep, RestoreStart, RestoreStep, TimeOut, Login, Attach, Unhook,
       Offer, Settle, Steal, DetachElsewhere, HalfDay, Sweep, Mute, PruneInbox, Grow,
       CommandGreeted, CommandPatch, CommandSave, CommandBound, CommandUnhooked, CommandLeave,
       CommandLeft, EndSession, CommandAborted, RestoreCut, RestorePause, RestorePaused,
       RestoreAttach, RestoreDone, ReleaseReceiver, WithdrawExpired, Elsewhere, Local, tasks
  <2> QED BY <1>2, <2>1
<1> QED BY <1>3, <1>4, <1>5

(* Of hooks without a health URL only what a current binding has made       *)
(* eligible is posted, although pauses and losses of the connection take    *)
(* eligibility back at any moment between the offer and the post.           *)
THEOREM PostedEligible == Probed = {} => (Spec => PostedIsEligible)
<1> SUFFICES ASSUME Probed = {} PROVE Spec => PostedIsEligible
  OBVIOUS
<1> DEFINE I == \A h \in Hooks : Unprobed(h)
<1>1. Init => I
  <2> SUFFICES ASSUME Init, NEW h \in Hooks PROVE Unprobed(h)
    OBVIOUS
  <2>1. hooks[h].health = (h \in Probed)
    BY DEF Init
  <2>2. (h \in Probed) = FALSE
    OBVIOUS
  <2>3. jobs[h].at = "idle"
    BY DEF Init, Waiting
  <2> QED BY <2>1, <2>2, <2>3 DEF Unprobed
<1>2. Typed /\ I /\ [Next]_vars => I'
  <2>1. ASSUME UNCHANGED vars, I PROVE I'
    BY <2>1 DEF vars, disk, tasks, Unprobed
  <2> QED BY <2>1, HealthKept, JobPosts DEF Unprobed
<1>3. Typed /\ I /\ [Next]_vars =>
        [\A h \in Hooks : Posting(h) => \A m \in jobs'[h].batch : queue[h][m] = "ready"]_vars
  BY JobPosts
<1> HIDE DEF I
<1> QED BY <1>1, <1>2, <1>3, TypedAlways, PTL DEF Spec, PostedIsEligible

(***************************************************************************)
(* What the daemon believes authorized is bound to its connection.         *)
(*                                                                         *)
(* Whoever takes a hook from the connection leaves word of it behind every *)
(* subscription answered before, so whatever authorizes the hook afterwards*)
(* comes from a newer subscription.  Only a logout lets hooks go without   *)
(* word: it blocks them first, and lifting the block takes a command whose *)
(* greeting has overtaken nothing the logout asked for.                    *)
(***************************************************************************)
Subscribes(f, h) == f.op = "subscribed" /\ h \in f.hooks
Halts(f, h) == f.op \in Reasons /\ h \in f.hooks

(* Word of its loss is on its way to the connection or to the daemon, and   *)
(* no older answer comes after it.                                          *)
Paused(h) == \E i \in DOMAIN pauses : h \in pauses[i].hooks
Told(h) ==
  \E i \in DOMAIN frames :
    Halts(frames[i], h) /\ \A j \in DOMAIN frames : i < j => ~Subscribes(frames[j], h)
Safe(h) == server[h].state = "here" \/ Paused(h) \/ Told(h)
SafeFrom(i) ==
  \A j \in DOMAIN frames : \A h \in Hooks : i <= j /\ Subscribes(frames[j], h) => Safe(h)

NoPause(q) == \A i \in DOMAIN q : q[i].op # "pause"
NoUnsubscribe(q) == \A i \in DOMAIN q : q[i].op # "unsubscribe"
UnsubscribeOnly(q, hs) ==
  \A i \in DOMAIN q : q[i].op = "unsubscribe" => q[i].hooks \subseteq hs
NoneAfterCommand(q) ==
  \A i, j \in DOMAIN q : q[i].by = Command /\ i <= j => q[j].op # "unsubscribe"
CommandOnce(q) ==
  \A i, j \in DOMAIN q : q[i].by = Command /\ q[j].by = Command => i = j
OfCommand(q) == \E i \in DOMAIN q : q[i].by = Command

(* No hook is past its twelve hours, and nobody asks for its pause.         *)
NothingCut ==
  /\ \A h \in Hooks : hooks[h].state # "pause_pending" /\ hooks[h].failing # "long"
  /\ \A r \in Restorers : restores[r].todo = {} /\ restores[r].at \notin {"subscribing", "pausing"}
  /\ NoPause(requests)

Authority ==
  /\ \A h \in socket.authorized : Safe(h)
  /\ \A i \in DOMAIN frames : \A h \in Hooks :
       Subscribes(frames[i], h) => Safe(h) \/ h \in socket.blocked

(* A logout lets go only of what it has blocked.                            *)
LeavesBlocked ==
  /\ UnsubscribeOnly(requests, socket.blocked)
  /\ command.at \in {"leaving", "left"} => command.todo \subseteq socket.blocked

(* Once a command is greeted, what an earlier logout asked for is over, and *)
(* so is every subscription it may have undone.                             *)
Greeted ==
  \/ command.at \in {"patching", "saving", "binding"}
  \/ command.at = "greeting" /\ wait[Command] = "ok"
GreetsLast ==
  /\ Greeted => NoUnsubscribe(requests) /\ SafeFrom(1)
  /\ command.at = "greeting" =>
       /\ NoneAfterCommand(requests)
       /\ \A i \in DOMAIN frames :
            frames[i].by = Command => NoUnsubscribe(requests) /\ SafeFrom(i)

(* A command waits for one answer at a time.                                *)
CommandAsks ==
  /\ CommandOnce(requests) /\ CommandOnce(frames)
  /\ ~(OfCommand(requests) /\ OfCommand(frames))
  /\ OfCommand(requests) \/ OfCommand(frames) =>
       wait[Command] = "asked" /\ command.at \in {"greeting", "binding", "left"}

AuthorityInv == NothingCut /\ Authority /\ LeavesBlocked /\ GreetsLast /\ CommandAsks

LEMMA AuthorityInit == Init => AuthorityInv
<1> SUFFICES ASSUME Init PROVE AuthorityInv
  OBVIOUS
<1>1. DOMAIN requests = {} /\ DOMAIN frames = {}
  BY EmptySeq, LenProperties DEF Init
<1>2. NothingCut
  BY <1>1 DEF NothingCut, NoPause, Init, Resting
<1>3. Authority
  BY <1>1 DEF Authority, Init
<1>4. command.at = "idle"
  BY DEF Init, NoCommand
<1>5. LeavesBlocked /\ GreetsLast /\ CommandAsks
  BY <1>1, <1>4 DEF LeavesBlocked, GreetsLast, CommandAsks, Greeted, UnsubscribeOnly,
                    CommandOnce, OfCommand
<1> QED BY <1>2, <1>3, <1>5 DEF AuthorityInv

LEMMA AuthorityBinds == Authority => AuthorizedIsBound
BY DEF Authority, AuthorizedIsBound, Safe, Paused, Told, Halts, Learns

------------------------------------------------------------------------------
(* Requests under way: fewer, or more of others.                            *)

Matters(r) == r.by = Command \/ r.op \in {"unsubscribe", "pause"}
Thins(q, p) ==
  /\ NoPause(q) => NoPause(p)
  /\ NoUnsubscribe(q) => NoUnsubscribe(p)
  /\ \A hs : UnsubscribeOnly(q, hs) => UnsubscribeOnly(p, hs)
  /\ NoneAfterCommand(q) => NoneAfterCommand(p)
  /\ CommandOnce(q) => CommandOnce(p)
  /\ OfCommand(p) => OfCommand(q)

LEMMA Thinned ==
  ASSUME NEW q, NEW p, NEW s,
         \A i \in DOMAIN p : i \in Nat /\ s[i] \in Nat,
         \A i \in DOMAIN p : Matters(p[i]) =>
           /\ s[i] \in DOMAIN q
           /\ q[s[i]].op = p[i].op /\ q[s[i]].hooks = p[i].hooks
           /\ p[i].by = Command => q[s[i]].by = Command,
         \A i, j \in DOMAIN p : i < j => s[i] < s[j]
  PROVE  Thins(q, p)
<1>1. (NoUnsubscribe(q) => NoUnsubscribe(p)) /\ (NoPause(q) => NoPause(p))
  BY DEF NoUnsubscribe, NoPause, Matters
<1>2. \A hs : UnsubscribeOnly(q, hs) => UnsubscribeOnly(p, hs)
  BY DEF UnsubscribeOnly, Matters
<1>3. NoneAfterCommand(q) => NoneAfterCommand(p)
  <2> SUFFICES ASSUME NoneAfterCommand(q), NEW i \in DOMAIN p, NEW j \in DOMAIN p,
                      p[i].by = Command, i <= j, p[j].op = "unsubscribe"
               PROVE  FALSE
    BY DEF NoneAfterCommand
  <2>1. i = j \/ i < j
    OBVIOUS
  <2>2. s[i] <= s[j]
    BY <2>1
  <2> QED BY <2>2 DEF NoneAfterCommand, Matters
<1>4. CommandOnce(q) => CommandOnce(p)
  <2> SUFFICES ASSUME CommandOnce(q), NEW i \in DOMAIN p, NEW j \in DOMAIN p,
                      p[i].by = Command, p[j].by = Command
               PROVE  i = j
    BY DEF CommandOnce
  <2>1. s[i] = s[j]
    BY DEF CommandOnce, Matters
  <2>2. i = j \/ i < j \/ j < i
    OBVIOUS
  <2> QED BY <2>1, <2>2
<1>5. OfCommand(p) => OfCommand(q)
  BY DEF OfCommand, Matters
<1> QED BY <1>1, <1>2, <1>3, <1>4, <1>5 DEF Thins

LEMMA SameThins == ASSUME NEW q PROVE Thins(q, q)
BY DEF Thins

LEMMA AppendThins ==
  ASSUME NEW q \in Seq(SentRequests), NEW r \in SentRequests, ~Matters(r)
  PROVE  Thins(q, Append(q, r))
<1> DEFINE p == Append(q, r)
           s == [i \in DOMAIN p |-> i]
<1>1. /\ DOMAIN q = 1 .. Len(q) /\ Len(q) \in Nat /\ DOMAIN p = 1 .. Len(q) + 1
      /\ \A i \in DOMAIN q : p[i] = q[i]
      /\ p[Len(q) + 1] = r
      /\ \A i \in DOMAIN p : i \in DOMAIN q \/ i = Len(q) + 1
  BY AppendIs
<1>2. \A i \in DOMAIN p : s[i] = i
  OBVIOUS
<1> HIDE DEF s, p
<1>3. \A i \in DOMAIN p : Matters(p[i]) => i \in DOMAIN q /\ p[i] = q[i]
  BY <1>1
<1>4. \A i \in DOMAIN p : i \in Nat /\ s[i] \in Nat
  BY <1>1, <1>2
<1>5. \A i \in DOMAIN p : Matters(p[i]) =>
        /\ s[i] \in DOMAIN q
        /\ q[s[i]].op = p[i].op /\ q[s[i]].hooks = p[i].hooks
        /\ p[i].by = Command => q[s[i]].by = Command
  BY <1>2, <1>3
<1>6. \A i, j \in DOMAIN p : i < j => s[i] < s[j]
  BY <1>2
<1>7. Thins(q, p)
  BY <1>4, <1>5, <1>6, Thinned
<1> QED BY <1>7 DEF p

LEMMA SubSeqThins ==
  ASSUME NEW q \in Seq(SentRequests), NEW n \in 0 .. Len(q)
  PROVE  Thins(q, SubSeq(q, n + 1, Len(q)))
<1> DEFINE p == SubSeq(q, n + 1, Len(q))
           s == [i \in DOMAIN p |-> i + n]
<1>1. Len(q) \in Nat /\ DOMAIN q = 1 .. Len(q) /\ \A i \in 1 .. Len(q) : q[i] \in SentRequests
  BY LenProperties, ElementOfSeq
<1>2. /\ p \in Seq(SentRequests) /\ Len(p) = IF n + 1 <= Len(q) THEN Len(q) - n ELSE 0
      /\ \A i \in 1 .. Len(q) - n : p[i] = q[i + n]
  BY <1>1, SubSeqProperties
<1>3. \A i \in DOMAIN p : s[i] = i + n
  OBVIOUS
<1> HIDE DEF s, p
<1>4. DOMAIN p = 1 .. Len(q) - n
  <2>1. n \in Nat /\ Len(q) \in Nat /\ n <= Len(q)
    BY <1>1
  <2>2. CASE n + 1 <= Len(q)
    <3>1. Len(p) = Len(q) - n
      BY <1>2, <2>2
    <3> QED BY <1>2, <3>1, LenProperties
  <2>3. CASE ~(n + 1 <= Len(q))
    <3>1. n = Len(q)
      BY <2>1, <2>3
    <3>2. Len(p) = 0
      BY <1>2, <2>3
    <3> QED BY <1>1, <1>2, <3>1, <3>2, LenProperties
  <2> QED BY <2>2, <2>3
<1>5. ASSUME NEW i \in DOMAIN p
      PROVE  i \in Nat /\ s[i] \in DOMAIN q /\ s[i] \in Nat /\ p[i] = q[s[i]]
  <2>1. n \in Nat /\ i \in 1 .. Len(q) - n
    BY <1>1, <1>4
  <2>2. i + n \in 1 .. Len(q) /\ i \in Nat /\ i + n \in Nat
    BY <1>1, <2>1
  <2> QED BY <1>1, <1>2, <1>3, <2>1, <2>2
<1>6. \A i, j \in DOMAIN p : i < j => s[i] < s[j]
  BY <1>1, <1>3, <1>4
<1>7. Thins(q, p)
  BY <1>5, <1>6, Thinned
<1> QED BY <1>7 DEF p

LEMMA TailThins ==
  ASSUME NEW q \in Seq(SentRequests), q # <<>> PROVE Thins(q, Tail(q))
<1> DEFINE p == Tail(q)
           s == [i \in DOMAIN p |-> i + 1]
<1>1. Len(q) \in Nat \ {0} /\ DOMAIN q = 1 .. Len(q)
  BY EmptySeq, LenProperties
<1>2. /\ p \in Seq(SentRequests) /\ Len(p) = Len(q) - 1
      /\ \A i \in 1 .. Len(p) : p[i] = q[i + 1]
  BY HeadTailProperties
<1>3. DOMAIN p = 1 .. Len(q) - 1
  BY <1>2, LenProperties
<1>4. \A i \in DOMAIN p : s[i] = i + 1
  OBVIOUS
<1> HIDE DEF s, p
<1>5. \A i \in DOMAIN p : i \in Nat /\ s[i] \in DOMAIN q /\ s[i] \in Nat /\ p[i] = q[s[i]]
  BY <1>1, <1>2, <1>3, <1>4
<1>6. \A i, j \in DOMAIN p : i < j => s[i] < s[j]
  BY <1>1, <1>3, <1>4
<1>7. Thins(q, p)
  BY <1>5, <1>6, Thinned
<1> QED BY <1>7 DEF p

(* Whoever gives up: its requests are nobody's, or one of them is gone.     *)
SameFrames(q, p) ==
  /\ DOMAIN p = DOMAIN q
  /\ \A i \in DOMAIN q : /\ p[i].op = q[i].op /\ p[i].hooks = q[i].hooks
                         /\ p[i].by = Command => q[i].by = Command

LEMMA CommandIsNotNone == Command # None
BY DaemonAssumption

LEMMA OrphanedSame ==
  ASSUME NEW S, NEW q \in Seq(S), NEW w,
         \A r \in S : LET o == [r EXCEPT !.by = None] IN
                      o.by = None /\ o.op = r.op /\ o.hooks = r.hooks
  PROVE  SameFrames(q, Orphaned(q, w)) /\ \A i \in DOMAIN Orphaned(q, w) : Orphaned(q, w)[i].by = w => w = None
<1> DEFINE p == Orphaned(q, w)
<1>1. DOMAIN p = DOMAIN q /\ \A i \in DOMAIN q : p[i] = IF q[i].by = w THEN [q[i] EXCEPT !.by = None] ELSE q[i]
  BY DEF Orphaned
<1> HIDE DEF p
<1>2. ASSUME NEW i \in DOMAIN q
      PROVE  /\ p[i].op = q[i].op /\ p[i].hooks = q[i].hooks
             /\ p[i].by = Command => q[i].by = Command
             /\ p[i].by = w => w = None
  <2>1. q[i] \in S
    BY ElementOfSeq, LenProperties
  <2>2. CASE q[i].by = w
    <3>1. p[i] = [q[i] EXCEPT !.by = None]
      BY <1>1, <2>2
    <3>2. p[i].by = None /\ p[i].op = q[i].op /\ p[i].hooks = q[i].hooks
      BY <2>1, <3>1
    <3> QED BY <3>2, CommandIsNotNone
  <2>3. CASE q[i].by # w
    BY <1>1, <2>3
  <2> QED BY <2>2, <2>3
<1>3. SameFrames(q, p) /\ \A i \in DOMAIN p : p[i].by = w => w = None
  BY <1>1, <1>2 DEF SameFrames
<1> QED BY <1>3 DEF p

LEMMA ForsakeThins ==
  ASSUME Typed, NEW w \in Waiters, Forsake(w)
  PROVE  /\ Thins(requests, requests') /\ SameFrames(frames, frames')
         /\ w = Command /\ CommandOnce(requests) => ~OfCommand(requests')
         /\ w = Command => ~OfCommand(frames')
<1>0. w # None
  BY DaemonAssumption DEF Waiters
<1>1. SameFrames(frames, frames') /\ \A i \in DOMAIN frames' : frames'[i].by # w
  <2>1. frames' = Orphaned(frames, w) /\ frames \in Seq(SentFrames)
    BY DEF Forsake, Typed
  <2> QED BY <1>0, <2>1, OrphanedSame, OrphanIs
<1>2. CASE requests' = Orphaned(requests, w)
  <2>1. requests \in Seq(SentRequests)
    BY DEF Typed
  <2>2. SameFrames(requests, requests') /\ \A i \in DOMAIN requests' : requests'[i].by # w
    BY <1>0, <1>2, <2>1, OrphanedSame, OrphanIs
  <2> DEFINE s == [i \in DOMAIN requests |-> i]
  <2>3. \A i \in DOMAIN requests : s[i] = i /\ i \in Nat
    BY LinkIs
  <2> HIDE DEF s
  <2>4. Thins(requests, requests')
    BY <2>2, <2>3, Thinned DEF SameFrames
  <2> QED BY <1>1, <2>2, <2>4 DEF OfCommand
<1>3. ASSUME NEW k \in DOMAIN requests, requests[k].by = w, requests' = RemoveAt(requests, k)
      PROVE  Thins(requests, requests') /\ (w = Command /\ CommandOnce(requests) => ~OfCommand(requests'))
  <2> DEFINE s == [i \in 1 .. Len(requests) - 1 |-> IF i < k THEN i ELSE i + 1]
  <2>1. /\ requests' \in Seq(SentRequests) /\ Len(requests') = Len(requests) - 1
        /\ \A j \in 1 .. Len(requests) - 1 :
             requests'[j] = IF j < k THEN requests[j] ELSE requests[j + 1]
    BY <1>3, RemoveTyped DEF Typed
  <2>2. DOMAIN requests' = 1 .. Len(requests) - 1
    BY <2>1, LenProperties
  <2>3. \A i \in DOMAIN requests' :
          /\ s[i] \in DOMAIN requests /\ s[i] # k /\ requests'[i] = requests[s[i]]
          /\ s[i] = IF i < k THEN i ELSE i + 1
    BY <2>1, <2>2, LinkIs
  <2> HIDE DEF s
  <2>4. \A i, j \in DOMAIN requests' : i < j => s[i] < s[j]
    BY <2>2, <2>3, LinkIs
  <2>5. \A i \in DOMAIN requests' : i \in Nat /\ s[i] \in Nat
    BY <2>2, <2>3, LinkIs
  <2>6. Thins(requests, requests')
    BY <2>3, <2>4, <2>5, Thinned
  <2>7. w = Command /\ CommandOnce(requests) => ~OfCommand(requests')
    BY <1>3, <2>3 DEF CommandOnce, OfCommand
  <2> QED BY <2>6, <2>7
<1>4. CASE (\A i \in DOMAIN requests : requests[i].by # w) /\ UNCHANGED requests
  BY <1>1, <1>4, SameThins DEF OfCommand
<1> QED BY <1>1, <1>2, <1>3, <1>4 DEF Forsake, OfCommand

------------------------------------------------------------------------------
(* Steps that let no hook go without word, and ask or grant nothing to the  *)
(* command.                                                                 *)

LEMMA PausesAre ==
  ASSUME Typed
  PROVE  /\ Len(pauses) \in Nat /\ DOMAIN pauses = 1 .. Len(pauses)
         /\ \A i \in DOMAIN pauses : pauses[i] \in Pauses
BY LenProperties, ElementOfSeq DEF Typed

WordKept(h) ==
  /\ server[h].state = "here" => server'[h].state = "here" \/ Paused(h)'
  /\ Paused(h) => Paused(h)'

Steady ==
  /\ \A h \in Hooks : Safe(h) => Safe(h)'
  /\ socket'.authorized \subseteq socket.authorized /\ socket.blocked \subseteq socket'.blocked
  /\ \A i \in DOMAIN frames' : \A h \in Hooks :
       Subscribes(frames'[i], h) => Safe(h)' \/ (i \in DOMAIN frames /\ Subscribes(frames[i], h))
  /\ Thins(requests, requests')
OthersAnswered ==
  \A i \in DOMAIN frames' :
    frames'[i].by = Command => i \in DOMAIN frames /\ frames[i].by = Command
CommandRests ==
  command'.at = command.at /\ command'.todo = command.todo /\ wait'[Command] = wait[Command]

LEMMA SteadyIs ==
  ASSUME Typed, AuthorityInv, Steady
  PROVE  /\ Authority' /\ UnsubscribeOnly(requests, socket.blocked)'
         /\ NoUnsubscribe(requests) => NoUnsubscribe(requests')
         /\ NoneAfterCommand(requests) => NoneAfterCommand(requests')
         /\ \A i : SafeFrom(i) => SafeFrom(i)'
         /\ CommandOnce(requests') /\ (OfCommand(requests') => OfCommand(requests))
<1>1. Authority'
  <2>1. ASSUME NEW h \in socket'.authorized PROVE Safe(h)'
    BY DEF Steady, AuthorityInv, Authority, Typed, Sockets
  <2>2. ASSUME NEW i \in DOMAIN frames', NEW h \in Hooks, Subscribes(frames'[i], h)
        PROVE  Safe(h)' \/ h \in socket'.blocked
    BY <2>2 DEF Steady, AuthorityInv, Authority
  <2> QED BY <2>1, <2>2 DEF Authority
<1>2. UnsubscribeOnly(requests', socket'.blocked)
  <2>1. UnsubscribeOnly(requests', socket.blocked)
    BY DEF Steady, Thins, AuthorityInv, LeavesBlocked
  <2> QED BY <2>1 DEF Steady, UnsubscribeOnly
<1>3. /\ NoUnsubscribe(requests) => NoUnsubscribe(requests')
      /\ NoneAfterCommand(requests) => NoneAfterCommand(requests')
      /\ CommandOnce(requests') /\ (OfCommand(requests') => OfCommand(requests))
  BY DEF Steady, Thins, AuthorityInv, CommandAsks
<1>4. ASSUME NEW i, SafeFrom(i) PROVE SafeFrom(i)'
  <2>1. ASSUME NEW j \in DOMAIN frames', NEW h \in Hooks, i <= j, Subscribes(frames'[j], h)
        PROVE  Safe(h)'
    BY <1>4, <2>1 DEF Steady, SafeFrom
  <2> QED BY <2>1 DEF SafeFrom
<1> QED BY <1>1, <1>2, <1>3, <1>4

LEMMA QuietAsks ==
  ASSUME Typed, AuthorityInv, Steady, OthersAnswered
  PROVE  /\ CommandOnce(requests') /\ CommandOnce(frames')
         /\ ~(OfCommand(requests') /\ OfCommand(frames'))
         /\ OfCommand(requests') \/ OfCommand(frames') => OfCommand(requests) \/ OfCommand(frames)
<1>1. CommandOnce(requests') /\ (OfCommand(requests') => OfCommand(requests))
  BY SteadyIs
<1>2. CommandOnce(frames') /\ (OfCommand(frames') => OfCommand(frames))
  BY DEF OthersAnswered, AuthorityInv, CommandAsks, CommandOnce, OfCommand
<1> QED BY <1>1, <1>2 DEF AuthorityInv, CommandAsks

LEMMA RestsAuthority ==
  ASSUME Typed, AuthorityInv, Steady, OthersAnswered, CommandRests, NothingCut'
  PROVE  AuthorityInv'
<1>1. LeavesBlocked'
  <2>1. UnsubscribeOnly(requests', socket'.blocked)
    BY SteadyIs
  <2>2. command'.at \in {"leaving", "left"} => command'.todo \subseteq socket'.blocked
    BY DEF Steady, CommandRests, AuthorityInv, LeavesBlocked
  <2> QED BY <2>1, <2>2 DEF LeavesBlocked
<1>2. GreetsLast'
  <2>1. Greeted' => Greeted
    BY DEF Greeted, CommandRests
  <2>2. ASSUME command'.at = "greeting", NEW i \in DOMAIN frames', frames'[i].by = Command
        PROVE  NoUnsubscribe(requests') /\ SafeFrom(i)'
    BY <2>2, SteadyIs DEF AuthorityInv, GreetsLast, CommandRests, OthersAnswered
  <2>3. command'.at = "greeting" => NoneAfterCommand(requests')
    BY SteadyIs DEF AuthorityInv, GreetsLast, CommandRests
  <2>4. Greeted' => NoUnsubscribe(requests') /\ SafeFrom(1)'
    BY <2>1, SteadyIs DEF AuthorityInv, GreetsLast
  <2> QED BY <2>2, <2>3, <2>4 DEF GreetsLast
<1>3. CommandAsks'
  BY QuietAsks DEF CommandAsks, AuthorityInv, CommandRests
<1>4. Authority'
  BY SteadyIs
<1> QED BY <1>1, <1>2, <1>3, <1>4 DEF AuthorityInv

(* Word stays word.                                                         *)
LEMMA SameTold ==
  ASSUME NEW h, SameFrames(frames, frames'), Told(h) PROVE Told(h)'
BY DEF SameFrames, Told, Halts, Subscribes

LEMMA MoreTold ==
  ASSUME Typed, NEW h, NEW f \in SentFrames, frames' = Append(frames, f), ~Subscribes(f, h),
         Told(h) \/ Halts(f, h)
  PROVE  Told(h)'
<1>1. frames \in Seq(SentFrames)
  BY DEF Typed
<1>2. /\ DOMAIN frames = 1 .. Len(frames) /\ Len(frames) \in Nat
      /\ DOMAIN Append(frames, f) = 1 .. Len(frames) + 1
      /\ \A i \in DOMAIN frames : Append(frames, f)[i] = frames[i]
      /\ Append(frames, f)[Len(frames) + 1] = f
      /\ \A i \in DOMAIN Append(frames, f) : i \in DOMAIN frames \/ i = Len(frames) + 1
  BY <1>1, AppendIs
<1>3. CASE Told(h)
  <2>1. PICK i \in DOMAIN frames :
          Halts(frames[i], h) /\ \A j \in DOMAIN frames : i < j => ~Subscribes(frames[j], h)
    BY <1>3 DEF Told
  <2>2. i \in DOMAIN frames' /\ Halts(frames'[i], h)
    BY <1>2, <2>1
  <2>3. \A j \in DOMAIN frames' : i < j => ~Subscribes(frames'[j], h)
    BY <1>2, <2>1
  <2> QED BY <2>2, <2>3 DEF Told
<1>4. CASE Halts(f, h)
  <2>1. Len(frames) + 1 \in DOMAIN frames' /\ frames'[Len(frames) + 1] = f
    BY <1>2
  <2>2. \A j \in DOMAIN frames' : ~(Len(frames) + 1 < j)
    BY <1>2
  <2> QED BY <1>4, <2>1, <2>2 DEF Told
<1> QED BY <1>3, <1>4

LEMMA SameSafe ==
  ASSUME NEW h, SameFrames(frames, frames'), WordKept(h), Safe(h) PROVE Safe(h)'
BY SameTold DEF Safe, WordKept

LEMMA FramesAreSame == ASSUME UNCHANGED frames PROVE SameFrames(frames, frames')
BY DEF SameFrames

LEMMA SameSteady ==
  ASSUME SameFrames(frames, frames'), \A h \in Hooks : WordKept(h),
         socket'.authorized \subseteq socket.authorized, socket.blocked \subseteq socket'.blocked,
         Thins(requests, requests')
  PROVE  Steady /\ OthersAnswered
<1>1. \A h \in Hooks : Safe(h) => Safe(h)'
  BY SameSafe
<1>2. \A i \in DOMAIN frames' : \A h \in Hooks :
        Subscribes(frames'[i], h) => i \in DOMAIN frames /\ Subscribes(frames[i], h)
  BY DEF SameFrames, Subscribes
<1>3. OthersAnswered
  BY DEF SameFrames, OthersAnswered
<1> QED BY <1>1, <1>2, <1>3 DEF Steady

(* A frame more.                                                            *)
LEMMA MoreSteady ==
  ASSUME Typed, NEW f \in SentFrames, frames' = Append(frames, f),
         \A h \in Hooks : WordKept(h) \/ Halts(f, h),
         \A h \in Hooks : Subscribes(f, h) => server'[h].state = "here",
         socket'.authorized \subseteq socket.authorized, socket.blocked \subseteq socket'.blocked,
         Thins(requests, requests')
  PROVE  Steady /\ (f.by # Command => OthersAnswered)
<1>1. frames \in Seq(SentFrames)
  BY DEF Typed
<1>2. /\ DOMAIN frames = 1 .. Len(frames) /\ Len(frames) \in Nat
      /\ DOMAIN Append(frames, f) = 1 .. Len(frames) + 1
      /\ \A i \in DOMAIN frames : Append(frames, f)[i] = frames[i]
      /\ Append(frames, f)[Len(frames) + 1] = f
      /\ \A i \in DOMAIN Append(frames, f) : i \in DOMAIN frames \/ i = Len(frames) + 1
  BY <1>1, AppendIs
<1>3. ASSUME NEW h \in Hooks, Safe(h) PROVE Safe(h)'
  <2>1. CASE Subscribes(f, h)
    BY <2>1 DEF Safe
  <2>2. CASE ~Subscribes(f, h) /\ (Told(h) \/ Halts(f, h))
    BY <2>2, MoreTold DEF Safe
  <2>3. CASE ~Told(h) /\ ~Halts(f, h)
    BY <1>3, <2>3 DEF Safe, WordKept
  <2> QED BY <2>1, <2>2, <2>3
<1>4. ASSUME NEW i \in DOMAIN frames'
      PROVE  /\ \A h \in Hooks : Subscribes(frames'[i], h) =>
                  Safe(h)' \/ (i \in DOMAIN frames /\ Subscribes(frames[i], h))
             /\ frames'[i].by = Command /\ f.by # Command => i \in DOMAIN frames /\ frames[i].by = Command
  <2>1. CASE i \in DOMAIN frames
    BY <1>2, <2>1
  <2>2. CASE i = Len(frames) + 1
    BY <1>2, <2>2 DEF Safe
  <2> QED BY <1>2, <2>1, <2>2
<1>5. Steady
  BY <1>3, <1>4 DEF Steady
<1>6. f.by # Command => OthersAnswered
  BY <1>4 DEF OthersAnswered
<1> QED BY <1>5, <1>6

(* Taking hooks from the connection.                                        *)
LEMMA PausingKeeps ==
  ASSUME Typed, NEW hs, NEW reason \in Reasons, Pausing(hs, reason)
  PROVE  /\ \A h \in Hooks : Paused(h) => Paused(h)'
         /\ \A h \in hs \cap BoundHere : Paused(h)'
<1> DEFINE f == Frame(reason, hs \cap BoundHere, {}, None)
<1>1. f \in Pauses /\ f.hooks = hs \cap BoundHere
  BY DEF Frame, Pauses, SentFrames, Frames, BoundHere, Reasons
<1>2. pauses' = IF hs \cap BoundHere = {} THEN pauses ELSE Append(pauses, f)
  BY DEF Pausing
<1> HIDE DEF f
<1>3. CASE hs \cap BoundHere = {}
  BY <1>2, <1>3 DEF Paused
<1>4. CASE hs \cap BoundHere # {}
  <2>1. pauses \in Seq(Pauses) /\ pauses' = Append(pauses, f)
    BY <1>2, <1>4 DEF Typed
  <2>2. /\ DOMAIN pauses = 1 .. Len(pauses) /\ Len(pauses) \in Nat
        /\ DOMAIN Append(pauses, f) = 1 .. Len(pauses) + 1
        /\ \A i \in DOMAIN pauses : Append(pauses, f)[i] = pauses[i]
        /\ Append(pauses, f)[Len(pauses) + 1] = f
        /\ \A i \in DOMAIN Append(pauses, f) : i \in DOMAIN pauses \/ i = Len(pauses) + 1
    BY <1>1, <2>1, AppendIs
  <2>3. \A h \in Hooks : Paused(h) => Paused(h)'
    BY <2>1, <2>2 DEF Paused
  <2>4. \A h \in hs \cap BoundHere : Paused(h)'
    BY <1>1, <2>1, <2>2 DEF Paused
  <2> QED BY <2>3, <2>4
<1> QED BY <1>3, <1>4

LEMMA WithdrawKeeps ==
  ASSUME Typed, NEW hs, NEW state, NEW reason \in Reasons, Withdraw(hs, state, reason)
  PROVE  \A h \in Hooks : WordKept(h)
<1> SUFFICES ASSUME NEW h \in Hooks PROVE WordKept(h)
  OBVIOUS
<1>1. (Paused(h) => Paused(h)') /\ (h \in hs \cap BoundHere => Paused(h)')
  BY PausingKeeps DEF Withdraw
<1>2. h \notin hs => server'[h] = server[h]
  BY DEF Withdraw, Hand
<1> QED BY <1>1, <1>2 DEF WordKept, BoundHere

LEMMA UnreachKeeps ==
  ASSUME Typed, Unreach PROVE \A h \in Hooks : WordKept(h)
<1> SUFFICES ASSUME NEW h \in Hooks PROVE WordKept(h)
  OBVIOUS
<1>1. (Paused(h) => Paused(h)') /\ (h \in Reached \cap BoundHere => Paused(h)')
  <2>1. "preference_changed" \in Reasons /\ Pausing(Reached, "preference_changed")
    BY DEF Reasons, Unreach
  <2> QED BY <2>1, PausingKeeps
<1>2. h \notin Reached => server'[h] = server[h]
  BY DEF Unreach
<1> QED BY <1>1, <1>2 DEF WordKept, BoundHere, Reached

LEMMA SameKeeps ==
  ASSUME NEW h, UNCHANGED <<server, pauses>> PROVE WordKept(h)
BY DEF WordKept, Paused

------------------------------------------------------------------------------
(* Without a hook past its twelve hours nobody asks for a pause.            *)

LEMMA UncutHooks ==
  ASSUME Typed, "halfday" \notin Disturbances, NothingCut, NEW h \in Hooks, Next
  PROVE  hooks'[h].state # "pause_pending" /\ hooks'[h].failing # "long"
<1> DEFINE Uncut == hooks'[h].state # "pause_pending" /\ hooks'[h].failing # "long"
<1>0. hooks[h].state # "pause_pending" /\ hooks[h].failing # "long"
  BY DEF NothingCut
<1>1. ASSUME NEW g, NEW state, SetState(g, state), state # "pause_pending" PROVE Uncut
  BY <1>0, <1>1 DEF SetState, Typed, HookTables, HookRecords
<1>2. ASSUME UNCHANGED hooks PROVE Uncut
  BY <1>0, <1>2
<1>3. CASE Connect \/ Lose \/ Crash
  BY <1>2, <1>3 DEF Connect, Lose, Crash, disk
<1>4. CASE Receive
  <2>1. CASE ReceiveTings \/ ReceiveAnswer
    BY <1>2, <2>1 DEF ReceiveTings, ReceiveAnswer
  <2>2. CASE ReceivePause
    <3> DEFINE f == Head(frames)
               state == CASE f.op \in {"hook_detached", "binding_replaced"} -> "detached"
                          [] f.op = "session_expired" -> "auth_paused"
                          [] OTHER -> "same"
    <3>1. hooks' = [g \in Hooks |-> IF g \in f.hooks /\ state # "same"
                                    THEN [hooks[g] EXCEPT !.state = state] ELSE hooks[g]]
      BY <2>2 DEF ReceivePause
    <3>2. state # "pause_pending"
      OBVIOUS
    <3> HIDE DEF state
    <3> QED BY <1>0, <3>1, <3>2 DEF Typed, HookTables, HookRecords
  <2> QED BY <1>4, <2>1, <2>2 DEF Receive
<1>5. ASSUME NEW r \in Restorers, RestoreStart(r) \/ RestoreStep(r) PROVE Uncut
  <2>1. ~RestorePaused(r) /\ \A g \in Hooks : ~RestoreCut(r, g)
    BY DEF NothingCut, RestorePaused, RestoreCut
  <2>2. UNCHANGED hooks
    BY <1>5, <2>1 DEF RestoreStart, RestoreStep, RestorePause, RestoreAttach, RestoreDone, disk
  <2> QED BY <1>2, <2>2
<1>6. ASSUME NEW g \in Hooks, JobStep(g) PROVE Uncut
  <2>1. CASE JobProbed(g) \/ JobAccepted(g) \/ JobFailed(g)
    <3> DEFINE o(failing) == [hooks[g] EXCEPT !.failing = failing]
               p == [hooks[g] EXCEPT !.health = FALSE]
    <3>1. \/ UNCHANGED hooks \/ hooks' = [hooks EXCEPT ![g] = p]
          \/ \E failing \in {"no", "recent", hooks[g].failing} : hooks' = [hooks EXCEPT ![g] = o(failing)]
      BY <2>1 DEF JobProbed, JobAccepted, JobFailed
    <3>2. /\ p.failing = hooks[g].failing /\ p.state = hooks[g].state
          /\ \A failing : o(failing).failing = failing /\ o(failing).state = hooks[g].state
      BY DEF Typed, HookTables, HookRecords
    <3>3. hooks[g].state # "pause_pending" /\ hooks[g].failing # "long"
      BY DEF NothingCut
    <3> HIDE DEF o, p
    <3>4. hooks \in [Hooks -> HookRecords]
      BY DEF Typed, HookTables
    <3>5. ASSUME NEW r, hooks' = [hooks EXCEPT ![g] = r], r.state # "pause_pending", r.failing # "long"
          PROVE  Uncut
      <4>1. hooks'[h] = IF h = g THEN r ELSE hooks[h]
        BY <3>4, <3>5
      <4> QED BY <1>0, <3>5, <4>1
    <3>6. CASE UNCHANGED hooks
      BY <1>0, <3>6
    <3>7. CASE hooks' = [hooks EXCEPT ![g] = p]
      BY <3>2, <3>3, <3>5, <3>7
    <3>8. ASSUME NEW failing \in {"no", "recent", hooks[g].failing},
                 hooks' = [hooks EXCEPT ![g] = o(failing)]
          PROVE  Uncut
      <4>1. o(failing).state # "pause_pending" /\ o(failing).failing # "long"
        BY <3>2, <3>3
      <4> QED BY <3>5, <3>8, <4>1
    <3> QED BY <3>1, <3>6, <3>7, <3>8
  <2>2. CASE ~JobProbed(g) /\ ~JobAccepted(g) /\ ~JobFailed(g)
    <3>1. UNCHANGED hooks \/ SetState(g, "paused")
      BY <1>6, <2>2 DEF JobStep, JobAck, JobPause, JobPaused, JobStart, JobCheck, JobChecked,
                        JobAcked, JobAborted, disk, NothingCut
    <3> QED BY <1>1, <1>2, <3>1
  <2> QED BY <2>1, <2>2
<1>7. CASE CommandSave
  <2> DEFINE k == command.hook
             o == [hooks[k] EXCEPT !.state = "attached", !.failing = "no",
                                   !.token = IF command.op = "attach" THEN command.token ELSE @]
  <2>1. hooks' = [hooks EXCEPT ![k] = o]
    BY <1>7 DEF CommandSave
  <2>2. k \in Hooks => o.state = "attached" /\ o.failing = "no"
    BY DEF Typed, HookTables, HookRecords
  <2> HIDE DEF o, k
  <2> QED BY <1>0, <2>1, <2>2 DEF Typed, HookTables
<1>8. CASE Logout
  BY <1>0, <1>8 DEF Logout, Typed, HookTables, HookRecords
<1>9. CASE \/ Reconnect \/ (CommandStep /\ ~CommandSave)
           \/ \E g \in Hooks : Attach(g) \/ Unhook(g)
           \/ \E t \in Tokens : Login(t)
  BY <1>1, <1>2, <1>9 DEF Reconnect, Reattach, Attach, Unhook, Login, CommandStep, CommandGreeted,
     CommandPatch, CommandBound, CommandUnhooked, CommandLeave, CommandLeft, EndSession,
     CommandAborted, disk
<1>10. ASSUME NEW g \in Hooks, HalfDay(g) PROVE Uncut
  BY <1>10 DEF HalfDay, Disturb
<1>11. CASE \/ Handle \/ SendPause \/ Expire \/ Revalidate
            \/ \E w \in Waiters : TimeOut(w)
            \/ \E g \in Hooks : \/ Offer(g) \/ Settle(g) \/ Steal(g) \/ DetachElsewhere(g)
                                \/ \E m \in Messages : Sweep(g, m)
            \/ \E m \in Messages : Mute(m) \/ PruneInbox(m) \/ Grow(m)
  BY <1>2, <1>11 DEF Handle, SendPause, Expire, Revalidate, TimeOut, Offer, Settle,
     ReleaseReceiver, WithdrawExpired, Steal, DetachElsewhere, Sweep, Mute, PruneInbox, Grow,
     Local, disk
<1> QED BY <1>3, <1>4, <1>5, <1>6, <1>7, <1>8, <1>9, <1>10, <1>11 DEF Next

LEMMA UncutRestores ==
  ASSUME Typed, NothingCut, NEW r \in Restorers, Next
  PROVE  restores'[r].todo = {} /\ restores'[r].at \notin {"subscribing", "pausing"}
<1> DEFINE Uncut == restores'[r].todo = {} /\ restores'[r].at \notin {"subscribing", "pausing"}
<1>0. restores[r].todo = {} /\ restores[r].at \notin {"subscribing", "pausing"}
  BY DEF NothingCut
<1>1. ASSUME UNCHANGED restores PROVE Uncut
  BY <1>0, <1>1
<1>2. Resting.todo = {} /\ Resting.at = "idle"
  BY DEF Resting
<1>3. ASSUME NEW k \in Restorers, RestoreStart(k) PROVE Uncut
  <2> DEFINE cut == {h \in Hooks : \/ hooks[h].state = "pause_pending"
                                   \/ hooks[h].state = "attached" /\ hooks[h].failing = "long"}
             attach == {h \in Hooks : hooks[h].state = "attached"} \ (cut \cup socket.authorized)
             tokens == [h \in Hooks |-> hooks[h].token]
             o == [at |-> "next", todo |-> cut, hook |-> None, attach |-> attach, tokens |-> tokens]
  <2>1. restores' = [restores EXCEPT ![k] = o]
    BY <1>3 DEF RestoreStart
  <2>2. cut = {}
    BY DEF NothingCut
  <2>3. o.todo = {} /\ o.at = "next"
    BY <2>2
  <2> HIDE DEF o
  <2> QED BY <1>0, <2>1, <2>3 DEF Typed, RestoreTables
<1>4. ASSUME NEW k \in Restorers, RestoreAttach(k) \/ RestoreDone(k) PROVE Uncut
  <2> DEFINE o == [restores[k] EXCEPT !.at = "attaching"]
  <2>1. restores' = [restores EXCEPT ![k] = o] \/ restores' = [restores EXCEPT ![k] = Resting]
    BY <1>4 DEF RestoreAttach, RestoreDone
  <2>2. o.at = "attaching" /\ o.todo = {}
    BY RestoreIs DEF RestoreRecords, NothingCut
  <2> HIDE DEF o
  <2> QED BY <1>0, <1>2, <2>1, <2>2 DEF Typed, RestoreTables
<1>5. ASSUME NEW k \in Restorers, RestoreStep(k), ~RestoreAttach(k), ~RestoreDone(k) PROVE Uncut
  BY <1>5 DEF RestoreStep, RestoreCut, RestorePause, RestorePaused, NothingCut
<1>6. CASE Crash
  BY <1>2, <1>6 DEF Crash
<1>7. CASE ~Crash /\ ~\E k \in Restorers : RestoreStart(k) \/ RestoreStep(k)
  <2>1. UNCHANGED restores
    BY <1>7 DEF Next, Connect, Lose, Receive, Handle, SendPause, Expire, Revalidate, Reconnect,
       Reattach, Logout, CommandStep, TimeOut, Login, Attach, Unhook, Offer, Settle, Steal,
       DetachElsewhere, HalfDay, Sweep, Mute, PruneInbox, Grow, CommandGreeted, CommandPatch,
       CommandSave, CommandBound, CommandUnhooked, CommandLeave, CommandLeft, EndSession,
       CommandAborted, ReleaseReceiver, WithdrawExpired, Elsewhere, Local, Quiet, tasks,
       JobStep, JobAck, JobPause, JobPaused, JobStart, JobProbed, JobCheck, JobChecked,
       JobAccepted, JobFailed, JobAcked, JobAborted
  <2> QED BY <1>1, <2>1
<1> QED BY <1>3, <1>4, <1>5, <1>6, <1>7

LEMMA UncutStep ==
  ASSUME Typed, "halfday" \notin Disturbances, NothingCut, Next, NoPause(requests')
  PROVE  NothingCut'
BY UncutHooks, UncutRestores DEF NothingCut

------------------------------------------------------------------------------
(* Which steps are steady.                                                  *)

LEMMA OthersAsk ==
  ASSUME Typed, NEW w \in Waiters \ {Command}, NEW op \in RequestOps \ {"unsubscribe", "pause"},
         NEW hs \in SUBSET Hooks, NEW ts \in SUBSET Messages, NEW token \in Tokens \cup {None},
         op \in Acks => \E g \in Hooks : hs = {g}, Ask(w, op, hs, ts, token)
  PROVE  Thins(requests, requests') /\ wait'[Command] = wait[Command]
<1> DEFINE r == Request(op, hs, ts, w, token)
<1>1. r \in SentRequests
  BY AskTyped
<1>2. ~Matters(r)
  BY DEF Request, Matters
<1>3. requests' = Append(requests, r) /\ wait'[Command] = wait[Command]
  BY DEF Ask, Typed, WaitTables, Waiters
<1> HIDE DEF r
<1>4. requests \in Seq(SentRequests)
  BY DEF Typed
<1> QED BY <1>1, <1>2, <1>3, <1>4, AppendThins

LEMMA OthersStop ==
  ASSUME Typed, NEW w \in Waiters \ {Command}, Stop(w) PROVE wait'[Command] = wait[Command]
BY DEF Typed, WaitTables, Waiters, Stop

(* Nothing on the way changes, and nothing becomes authorized.              *)
LEMMA LinkSteady ==
  ASSUME Typed, UNCHANGED <<server, frames, pauses>>, Thins(requests, requests'),
         UNCHANGED socket \/ \E hs : Unauthorize(hs)
  PROVE  Steady /\ OthersAnswered
<1>1. socket'.authorized \subseteq socket.authorized /\ socket.blocked \subseteq socket'.blocked
  BY DEF Unauthorize, Typed, Sockets
<1>2. \A h \in Hooks : WordKept(h)
  BY SameKeeps
<1> QED BY <1>1, <1>2, FramesAreSame, SameSteady

(* Hooks change hands with word of it.                                      *)
LEMMA HandsSteady ==
  ASSUME \A h \in Hooks : WordKept(h), UNCHANGED <<socket, frames, requests>>
  PROVE  Steady /\ OthersAnswered
BY FramesAreSame, SameThins, SameSteady

LEMMA DaemonSteady ==
  ASSUME Typed, NothingCut,
         \/ Connect
         \/ \E r \in Restorers : RestoreStart(r) \/ RestoreStep(r)
         \/ \E h \in Hooks : JobStep(h) \/ \E m \in Messages : Sweep(h, m)
         \/ \E w \in Waiters \ {Command} : TimeOut(w)
  PROVE  Steady /\ OthersAnswered /\ CommandRests
<1>1. CASE Connect
  <2>1. socket'.authorized = {} /\ socket'.blocked = socket.blocked
    BY <1>1 DEF Connect, Typed, Sockets
  <2>2. UNCHANGED <<server, frames, pauses, requests, command, wait>>
    BY <1>1 DEF Connect, link, remote, tasks
  <2>3. \A h \in Hooks : WordKept(h)
    BY <2>2, SameKeeps
  <2> QED BY <2>1, <2>2, <2>3, FramesAreSame, SameThins, SameSteady DEF CommandRests
<1>2. ASSUME NEW r \in Restorers, RestoreStart(r) \/ RestoreStep(r)
      PROVE  Steady /\ OthersAnswered /\ CommandRests
  <2>0. r \in Waiters \ {Command}
    BY DaemonAssumption DEF Waiters
  <2>1. \A h \in Hooks : ~RestoreCut(r, h)
    BY DEF NothingCut, RestoreCut
  <2>2. ~RestorePause(r)
    BY DEF NothingCut, RestorePause
  <2>3. ~RestorePaused(r)
    BY DEF NothingCut, RestorePaused
  <2>4. UNCHANGED <<server, frames, pauses, socket, command>>
    BY <1>2, <2>1, <2>2, <2>3 DEF RestoreStart, RestoreStep, RestoreAttach, RestoreDone, disk,
       link, remote
  <2>5. Thins(requests, requests') /\ wait'[Command] = wait[Command]
    <3>1. CASE RestoreStart(r)
      BY <3>1, SameThins DEF RestoreStart, link
    <3>2. CASE RestoreDone(r)
      BY <2>0, <3>2, SameThins, OthersStop DEF RestoreDone, link
    <3>3. CASE RestoreAttach(r)
      <4>1. CASE Ask(r, "subscribe", restores[r].attach, {}, session)
        <5>1. "subscribe" \in RequestOps \ {"unsubscribe", "pause"} /\ "subscribe" \notin Acks
          BY DEF RequestOps, Acks
        <5>2. restores[r].attach \in SUBSET Hooks /\ session \in Tokens \cup {None}
          BY RestoreIs DEF Typed
        <5> QED BY <2>0, <4>1, <5>1, <5>2, OthersAsk
      <4>2. CASE UNCHANGED <<requests, wait>>
        BY <4>2, SameThins
      <4> QED BY <3>3, <4>1, <4>2 DEF RestoreAttach
    <3> QED BY <1>2, <2>1, <2>2, <2>3, <3>1, <3>2, <3>3 DEF RestoreStep
  <2> QED BY <2>4, <2>5, LinkSteady DEF CommandRests
<1>3. ASSUME NEW h \in Hooks, JobStep(h) \/ \E m \in Messages : Sweep(h, m)
      PROVE  Steady /\ OthersAnswered /\ CommandRests
  <2>0. h \in Waiters \ {Command}
    BY DaemonAssumption DEF Waiters
  <2>1. ~JobPause(h)
    BY DEF NothingCut, JobPause
  <2>2. CASE JobAborted(h)
    <3>1. Thins(requests, requests') /\ SameFrames(frames, frames')
      BY <2>0, <2>2, ForsakeThins DEF JobAborted
    <3>2. UNCHANGED <<server, pauses, socket, command>> /\ wait'[Command] = wait[Command]
      BY <2>0, <2>2, OthersStop DEF JobAborted, remote
    <3>3. \A g \in Hooks : WordKept(g)
      BY <3>2, SameKeeps
    <3> QED BY <3>1, <3>2, <3>3, SameSteady DEF CommandRests
  <2>3. CASE ~JobAborted(h)
    <3>1. UNCHANGED <<server, frames, pauses, socket, command>>
      BY <1>3, <2>1, <2>3 DEF JobStep, JobAck, JobPaused, JobStart, JobProbed, JobCheck, JobChecked,
         JobAccepted, JobFailed, JobAcked, Sweep, Quiet, remote, tasks, link
    <3>2. Thins(requests, requests') /\ wait'[Command] = wait[Command]
      <4>1. "read" \in RequestOps \ {"unsubscribe", "pause"} /\ {h} \in SUBSET Hooks
            /\ None \in Tokens \cup {None}
        BY DEF RequestOps
      <4>2. CASE JobAck(h)
        <5> DEFINE ids == Fresh(Holding(h, "accepted"))
        <5>1. Ask(h, "read", {h}, ids, None)
          BY <4>2 DEF JobAck
        <5>2. ids \in SUBSET Messages
          BY DEF Fresh, Holding
        <5> HIDE DEF ids
        <5> QED BY <2>0, <4>1, <5>1, <5>2, OthersAsk
      <4>3. CASE JobAccepted(h)
        <5>1. \/ Ask(h, "read", {h}, jobs[h].batch, None)
              \/ UNCHANGED <<requests, wait>>
          BY <4>3 DEF JobAccepted
        <5>2. jobs[h].batch \in SUBSET Messages
          BY JobIs
        <5> QED BY <2>0, <4>1, <5>1, <5>2, OthersAsk, SameThins
      <4>4. CASE JobPaused(h) \/ JobAcked(h)
        BY <2>0, <4>4, SameThins, OthersStop DEF JobPaused, JobAcked
      <4>5. CASE ~JobAck(h) /\ ~JobAccepted(h) /\ ~JobPaused(h) /\ ~JobAcked(h)
        <5>1. UNCHANGED <<requests, wait>>
          BY <1>3, <2>1, <2>3, <4>5 DEF JobStep, JobStart, JobProbed, JobCheck, JobChecked,
             JobFailed, Sweep, link
        <5> QED BY <5>1, SameThins
      <4> QED BY <4>2, <4>3, <4>4, <4>5
    <3> QED BY <3>1, <3>2, LinkSteady DEF CommandRests
  <2> QED BY <2>2, <2>3
<1>4. ASSUME NEW w \in Waiters \ {Command}, TimeOut(w)
      PROVE  Steady /\ OthersAnswered /\ CommandRests
  <2>1. Thins(requests, requests') /\ SameFrames(frames, frames')
    BY <1>4, ForsakeThins DEF TimeOut
  <2>2. UNCHANGED <<server, pauses, socket, command>> /\ wait'[Command] = wait[Command]
    BY <1>4 DEF TimeOut, remote, tasks, Typed, WaitTables, Waiters
  <2>3. \A g \in Hooks : WordKept(g)
    BY <2>2, SameKeeps
  <2> QED BY <2>1, <2>2, <2>3, SameSteady DEF CommandRests
<1> QED BY <1>1, <1>2, <1>3, <1>4

LEMMA WorldSteady ==
  ASSUME Typed,
         \/ Expire \/ Revalidate
         \/ \E t \in Tokens : Login(t)
         \/ \E h \in Hooks : Settle(h) \/ Steal(h) \/ DetachElsewhere(h) \/ HalfDay(h)
         \/ \E m \in Messages : Mute(m) \/ PruneInbox(m) \/ Grow(m)
  PROVE  Steady /\ OthersAnswered /\ CommandRests
<1> DEFINE AllKept == \A h \in Hooks : WordKept(h)
<1>1. UNCHANGED <<socket, frames, requests, command, wait>>
  BY DEF Expire, Revalidate, Login, Settle, ReleaseReceiver, WithdrawExpired, Steal,
     DetachElsewhere, HalfDay, Mute, PruneInbox, Grow, Local, tasks, link
<1>2. ASSUME Expire \/ \E m \in Messages : PruneInbox(m) \/ Grow(m) PROVE AllKept
  BY <1>2, SameKeeps DEF Expire, PruneInbox, Grow, binding, link, remote
<1>3. ASSUME (\E t \in Tokens : Login(t)) \/ \E h \in Hooks : HalfDay(h) PROVE AllKept
  BY <1>3, SameKeeps DEF Login, HalfDay, binding, link, remote
<1>4. ASSUME Revalidate PROVE AllKept
  <2>1. PICK reason \in Reasons : \E hs : Withdraw(hs, "free", reason)
    BY <1>4 DEF Revalidate, Reasons
  <2> QED BY <2>1, WithdrawKeeps
<1>5. ASSUME NEW h \in Hooks, Steal(h) \/ DetachElsewhere(h) \/ WithdrawExpired(h) PROVE AllKept
  BY <1>5, WithdrawKeeps DEF Steal, DetachElsewhere, WithdrawExpired, Reasons
<1>6. ASSUME NEW h \in Hooks, ReleaseReceiver(h) PROVE AllKept
  <2>1. ASSUME NEW g \in Hooks PROVE WordKept(g)
    <3>1. server[g].state = "here" => server'[g] = server[g]
      BY <1>6 DEF ReleaseReceiver, Hand
    <3>2. UNCHANGED pauses
      BY <1>6 DEF ReleaseReceiver, link
    <3> QED BY <3>1, <3>2 DEF WordKept, Paused
  <2> QED BY <2>1
<1>7. ASSUME NEW m \in Messages, Mute(m) PROVE AllKept
  BY <1>7, UnreachKeeps DEF Mute
<1>8. AllKept
  BY <1>2, <1>3, <1>4, <1>5, <1>6, <1>7 DEF Settle
<1> QED BY <1>1, <1>8, HandsSteady DEF CommandRests

LEMMA OfferSteady ==
  ASSUME Typed, NEW h \in Hooks, Offer(h) PROVE Steady /\ OthersAnswered /\ CommandRests
<1> DEFINE window == {m \in inbox : copies[h][m] \in {"out", "queued"}}
           batch == {m \in inbox : /\ age[m] < 3
                                   /\ IF window = {} THEN m \notin muted /\ copies[h][m] # "read"
                                      ELSE copies[h][m] = "out"}
           f == Frame("tings", {h}, batch, None)
<1>1. f \in SentFrames /\ f.by # Command /\ \A g \in Hooks : ~Subscribes(f, g)
  BY CommandIsNotNone DEF Frame, SentFrames, Frames, Typed, Answers, Subscribes
<1>2. frames' = Append(frames, f)
  BY DEF Offer
<1> HIDE DEF f
<1>3. UNCHANGED <<server, pauses, socket, requests, command, wait>>
  BY DEF Offer, Local, tasks
<1>4. \A g \in Hooks : WordKept(g)
  BY <1>3, SameKeeps
<1> QED BY <1>1, <1>2, <1>3, <1>4, SameThins, MoreSteady DEF CommandRests

LEMMA SendPauseSteady ==
  ASSUME Typed, SendPause PROVE Steady /\ OthersAnswered /\ CommandRests
<1> DEFINE f == Head(pauses)
<1>1. /\ Len(pauses) \in Nat \ {0} /\ DOMAIN pauses = 1 .. Len(pauses)
      /\ f \in Pauses /\ f = pauses[1]
      /\ Len(Tail(pauses)) = Len(pauses) - 1 /\ Tail(pauses) \in Seq(Pauses)
      /\ \A i \in 1 .. Len(Tail(pauses)) : Tail(pauses)[i] = pauses[i + 1]
  BY HeadTailProperties, EmptySeq, LenProperties DEF SendPause, Typed
<1>2. f \in SentFrames /\ f.by # Command /\ f.op \in Reasons
  BY <1>1, CommandIsNotNone DEF Pauses, SentFrames
<1>3. frames' = Append(frames, f) /\ pauses' = Tail(pauses)
  BY DEF SendPause
<1> HIDE DEF f
<1>4. DOMAIN pauses' = 1 .. Len(pauses) - 1
  BY <1>1, <1>3, LenProperties
<1>5. UNCHANGED <<server, socket, requests, command, wait>>
  BY DEF SendPause, Local, tasks, remote
<1>6. ASSUME NEW h \in Hooks PROVE WordKept(h) \/ Halts(f, h)
  <2>1. ASSUME NEW i \in DOMAIN pauses, h \in pauses[i].hooks, i # 1 PROVE Paused(h)'
    <3>1. i - 1 \in DOMAIN pauses' /\ i - 1 \in 1 .. Len(Tail(pauses)) /\ (i - 1) + 1 = i
      BY <1>1, <1>4, <2>1
    <3>2. pauses'[i - 1] = pauses[i]
      BY <1>1, <1>3, <3>1
    <3> QED BY <2>1, <3>1, <3>2 DEF Paused
  <2>2. h \in pauses[1].hooks => Halts(f, h)
    BY <1>1, <1>2 DEF Halts
  <2> QED BY <1>5, <2>1, <2>2 DEF WordKept, Paused
<1>7. \A h \in Hooks : ~Subscribes(f, h)
  BY <1>2 DEF Subscribes, Reasons
<1> QED BY <1>2, <1>3, <1>5, <1>6, <1>7, SameThins, MoreSteady DEF CommandRests

------------------------------------------------------------------------------
(* The commands.                                                            *)

LEMMA MovesAuthority ==
  ASSUME Typed, AuthorityInv, Steady, OthersAnswered, NothingCut',
         ~OfCommand(requests'), ~OfCommand(frames'), Greeted' => Greeted,
         command'.at \in {"leaving", "left"} => command'.todo \subseteq socket'.blocked
  PROVE  AuthorityInv'
<1>1. CommandAsks'
  BY QuietAsks DEF CommandAsks
<1>2. GreetsLast'
  <2>1. NoneAfterCommand(requests')
    BY DEF NoneAfterCommand, OfCommand
  <2>2. \A i \in DOMAIN frames' : frames'[i].by # Command
    BY DEF OfCommand
  <2>3. Greeted' => NoUnsubscribe(requests') /\ SafeFrom(1)'
    BY SteadyIs DEF AuthorityInv, GreetsLast
  <2> QED BY <2>1, <2>2, <2>3 DEF GreetsLast
<1>3. LeavesBlocked' /\ Authority'
  BY SteadyIs DEF LeavesBlocked
<1> QED BY <1>1, <1>2, <1>3 DEF AuthorityInv

(* The command asks.                                                        *)
LEMMA CommandAsking ==
  ASSUME Typed, NEW r \in SentRequests, requests' = Append(requests, r), r.by = Command,
         ~OfCommand(requests)
  PROVE  /\ OfCommand(requests') /\ CommandOnce(requests')
         /\ r.op # "pause" /\ NoPause(requests) => NoPause(requests')
         /\ r.op # "unsubscribe" => NoneAfterCommand(requests')
         /\ r.op # "unsubscribe" /\ NoUnsubscribe(requests) => NoUnsubscribe(requests')
         /\ \A hs : UnsubscribeOnly(requests, hs) /\ (r.op = "unsubscribe" => r.hooks \subseteq hs)
                      => UnsubscribeOnly(requests', hs)
<1>1. requests \in Seq(SentRequests)
  BY DEF Typed
<1>2. /\ DOMAIN requests = 1 .. Len(requests) /\ Len(requests) \in Nat
      /\ DOMAIN requests' = 1 .. Len(requests) + 1
      /\ \A i \in DOMAIN requests : requests'[i] = requests[i]
      /\ requests'[Len(requests) + 1] = r
      /\ \A i \in DOMAIN requests' : i \in DOMAIN requests \/ i = Len(requests) + 1
  BY <1>1, AppendIs
<1>3. \A i \in DOMAIN requests' :
        i = Len(requests) + 1 \/ (i \in DOMAIN requests /\ requests'[i] = requests[i] /\ requests'[i].by # Command)
  BY <1>2 DEF OfCommand
<1>4. OfCommand(requests') /\ CommandOnce(requests')
  BY <1>2, <1>3 DEF OfCommand, CommandOnce
<1>5. r.op # "pause" /\ NoPause(requests) => NoPause(requests')
  BY <1>2, <1>3 DEF NoPause
<1>6. r.op # "unsubscribe" => NoneAfterCommand(requests')
  <2> SUFFICES ASSUME r.op # "unsubscribe", NEW i \in DOMAIN requests', NEW j \in DOMAIN requests',
                      requests'[i].by = Command, i <= j
               PROVE  requests'[j].op # "unsubscribe"
    BY DEF NoneAfterCommand
  <2>1. i = Len(requests) + 1
    BY <1>3
  <2>2. j = Len(requests) + 1
    BY <1>2, <2>1
  <2> QED BY <1>2, <2>2
<1>7. r.op # "unsubscribe" /\ NoUnsubscribe(requests) => NoUnsubscribe(requests')
  BY <1>2, <1>3 DEF NoUnsubscribe
<1>8. \A hs : UnsubscribeOnly(requests, hs) /\ (r.op = "unsubscribe" => r.hooks \subseteq hs)
                => UnsubscribeOnly(requests', hs)
  BY <1>2, <1>3 DEF UnsubscribeOnly
<1> QED BY <1>4, <1>5, <1>6, <1>7, <1>8

LEMMA CommandAsk ==
  ASSUME Typed, NEW op \in {"subscribe", "unsubscribe"}, NEW hs \in SUBSET Hooks,
         NEW token \in Tokens \cup {None}, Ask(Command, op, hs, {}, token)
  PROVE  /\ \E r \in SentRequests :
              requests' = Append(requests, r) /\ r.op = op /\ r.hooks = hs /\ r.by = Command
         /\ wait'[Command] = "asked"
<1>1. Request(op, hs, {}, Command, token) \in SentRequests
  BY CommandIs, AskTyped DEF RequestOps, Acks
<1> QED BY <1>1, CommandIs DEF Ask, Request, Typed, WaitTables

(* Frames and authority stay as they are.                                   *)
LEMMA SameAuthority ==
  ASSUME AuthorityInv, UNCHANGED <<server, pauses, frames>>,
         socket'.authorized = socket.authorized, socket'.blocked = socket.blocked
  PROVE  Authority' /\ (CommandOnce(frames) /\ CommandOnce(frames'))
BY DEF AuthorityInv, Authority, Safe, Paused, Told, CommandAsks, CommandOnce

LEMMA ReattachAuthority ==
  ASSUME Typed, AuthorityInv, NEW op, NEW hs, Reattach(op, hs), NoPause(requests') => NothingCut'
  PROVE  AuthorityInv'
<1>1. command.at = "idle" /\ session \in Tokens
  BY DEF Reattach, Typed
<1>2. ~OfCommand(requests) /\ ~OfCommand(frames)
  BY <1>1 DEF AuthorityInv, CommandAsks
<1>3. Ask(Command, "subscribe", {}, {}, session)
  BY DEF Reattach
<1>4. PICK r \in SentRequests :
        requests' = Append(requests, r) /\ r.op = "subscribe" /\ r.by = Command /\ wait'[Command] = "asked"
  BY <1>1, <1>3, CommandAsk
<1>5. /\ OfCommand(requests') /\ CommandOnce(requests') /\ NoneAfterCommand(requests')
      /\ NoPause(requests) => NoPause(requests')
      /\ UnsubscribeOnly(requests, socket.blocked) => UnsubscribeOnly(requests', socket.blocked)
  BY <1>2, <1>4, CommandAsking
<1>6. UNCHANGED <<server, pauses, frames, socket>>
  BY DEF Reattach, Elsewhere, binding
<1>7. Authority' /\ CommandOnce(frames')
  BY <1>6, SameAuthority
<1>8. command'.at = "greeting"
  BY DEF Reattach
<1>9. LeavesBlocked'
  BY <1>5, <1>6, <1>8 DEF AuthorityInv, LeavesBlocked
<1>10. ~OfCommand(frames')
  BY <1>2, <1>6
<1>11. GreetsLast'
  BY <1>4, <1>5, <1>8, <1>10 DEF GreetsLast, Greeted, OfCommand
<1>12. CommandAsks'
  BY <1>4, <1>5, <1>7, <1>8, <1>10 DEF CommandAsks
<1>13. NothingCut'
  BY <1>5 DEF AuthorityInv, NothingCut
<1> QED BY <1>7, <1>9, <1>11, <1>12, <1>13 DEF AuthorityInv

LEMMA SaveAuthority ==
  ASSUME Typed, AuthorityInv, CommandSave, NoPause(requests') => NothingCut' PROVE AuthorityInv'
<1>1. command.at = "saving" /\ command.hook \in Hooks /\ command.token \in Tokens
  BY CommandIs DEF CommandSave
<1>2. ~OfCommand(requests) /\ ~OfCommand(frames)
  BY <1>1 DEF AuthorityInv, CommandAsks
<1>3. NoUnsubscribe(requests) /\ SafeFrom(1)
  BY <1>1 DEF AuthorityInv, GreetsLast, Greeted
<1>4. PICK r \in SentRequests :
        requests' = Append(requests, r) /\ r.op = "subscribe" /\ r.by = Command /\ wait'[Command] = "asked"
  BY <1>1, CommandAsk DEF CommandSave
<1>5. /\ OfCommand(requests') /\ CommandOnce(requests') /\ NoUnsubscribe(requests')
      /\ NoPause(requests) => NoPause(requests')
  BY <1>2, <1>3, <1>4, CommandAsking
<1>6. UNCHANGED <<server, pauses, frames>> /\ socket'.authorized = socket.authorized
  BY DEF CommandSave, Elsewhere, binding, Typed, Sockets
<1>7. \A h : Safe(h)' <=> Safe(h)
  BY <1>6 DEF Safe, Paused, Told
<1>8. SafeFrom(1)'
  BY <1>3, <1>6, <1>7 DEF SafeFrom
<1>9. Authority'
  <2>1. \A i \in DOMAIN frames : 1 <= i
    BY LinkIs
  <2>2. ASSUME NEW i \in DOMAIN frames', NEW h \in Hooks, Subscribes(frames'[i], h) PROVE Safe(h)'
    BY <1>3, <1>6, <1>7, <2>1, <2>2 DEF SafeFrom
  <2>3. \A h \in socket'.authorized : Safe(h)'
    BY <1>6, <1>7 DEF AuthorityInv, Authority
  <2> QED BY <2>2, <2>3 DEF Authority
<1>10. command'.at = "binding"
  BY CommandIs DEF CommandSave, SetCommand, CommandRecords
<1>11. LeavesBlocked'
  BY <1>5, <1>10 DEF LeavesBlocked, UnsubscribeOnly, NoUnsubscribe
<1>12. GreetsLast'
  BY <1>5, <1>8, <1>10 DEF GreetsLast
<1>13. ~OfCommand(frames') /\ CommandOnce(frames')
  BY <1>2, <1>6 DEF OfCommand, CommandOnce
<1>14. CommandAsks'
  BY <1>4, <1>5, <1>10, <1>13 DEF CommandAsks
<1>15. NothingCut'
  BY <1>5 DEF AuthorityInv, NothingCut
<1> QED BY <1>9, <1>11, <1>12, <1>14, <1>15 DEF AuthorityInv

LEMMA LeaveAuthority ==
  ASSUME Typed, AuthorityInv, NEW h \in Hooks, CommandLeave(h), NoPause(requests') => NothingCut'
  PROVE  AuthorityInv'
<1>1. command.at = "leaving" /\ h \in command.todo /\ command.todo \subseteq socket.blocked
  BY DEF CommandLeave, AuthorityInv, LeavesBlocked
<1>2. ~OfCommand(requests) /\ ~OfCommand(frames)
  BY <1>1 DEF AuthorityInv, CommandAsks
<1>3. PICK r \in SentRequests :
        /\ requests' = Append(requests, r) /\ r.op = "unsubscribe" /\ r.hooks = {h} /\ r.by = Command
        /\ wait'[Command] = "asked"
  <2>1. Ask(Command, "unsubscribe", {h}, {}, None) /\ {h} \in SUBSET Hooks
        /\ None \in Tokens \cup {None}
    BY DEF CommandLeave
  <2> QED BY <2>1, CommandAsk
<1>4. UNCHANGED <<server, pauses, frames, socket>>
  BY DEF CommandLeave, Elsewhere, binding
<1>5. /\ OfCommand(requests') /\ CommandOnce(requests')
      /\ NoPause(requests) => NoPause(requests')
      /\ UnsubscribeOnly(requests', socket.blocked)
  BY <1>1, <1>2, <1>3, CommandAsking DEF AuthorityInv, LeavesBlocked
<1>6. Authority' /\ CommandOnce(frames')
  BY <1>4, SameAuthority
<1>7. command'.at = "left" /\ command'.todo \subseteq command.todo
  BY CommandIs DEF CommandLeave, CommandRecords
<1>8. LeavesBlocked'
  BY <1>1, <1>4, <1>5, <1>7 DEF LeavesBlocked
<1>9. GreetsLast'
  BY <1>7 DEF GreetsLast, Greeted
<1>10. ~OfCommand(frames')
  BY <1>2, <1>4
<1>11. CommandAsks'
  BY <1>3, <1>5, <1>6, <1>7, <1>10 DEF CommandAsks
<1>12. NothingCut'
  BY <1>5 DEF AuthorityInv, NothingCut
<1> QED BY <1>6, <1>8, <1>9, <1>11, <1>12 DEF AuthorityInv

LEMMA NotAsking ==
  ASSUME AuthorityInv,
         Answered(Command) \/ command.at \notin {"greeting", "binding", "left"}
  PROVE  ~OfCommand(requests) /\ ~OfCommand(frames)
BY DEF AuthorityInv, CommandAsks, Answered, Answers

LEMMA CommandAuthority ==
  ASSUME Typed, AuthorityInv, NothingCut',
         \/ CommandGreeted \/ CommandBound \/ CommandUnhooked \/ CommandLeft \/ EndSession
         \/ CommandAborted \/ Logout
         \/ \E h \in Hooks : CommandPatch(h) \/ Unhook(h)
  PROVE  AuthorityInv'
<1>0. command \in CommandRecords /\ Command \in Waiters /\ command.todo \in SUBSET Hooks
  BY CommandIs
<1>1. NoCommand.at = "idle"
  BY DEF NoCommand
<1>2. /\ [command EXCEPT !.at = "patching", !.fresh = TRUE].at = "patching"
      /\ [command EXCEPT !.at = "leaving"].at = "leaving"
      /\ [command EXCEPT !.at = "leaving"].todo = command.todo
      /\ [command EXCEPT !.at = "leaving", !.todo = {}].at = "leaving"
      /\ [command EXCEPT !.at = "leaving", !.todo = {}].todo = {}
  BY <1>0 DEF CommandRecords
<1>a. [command EXCEPT !.at = "patching", !.todo = @ \ {command.hook}, !.hook = None].at = "patching"
  BY <1>0 DEF CommandRecords
<1>3. CASE CommandGreeted \/ CommandBound \/ CommandLeft
  <2>1. UNCHANGED <<server, frames, pauses, socket, requests>>
    BY <1>3 DEF CommandGreeted, CommandBound, CommandLeft, Elsewhere, binding
  <2>2. Steady /\ OthersAnswered
    BY <2>1, SameThins, LinkSteady
  <2>3. ~OfCommand(requests') /\ ~OfCommand(frames')
    BY <1>3, <2>1, NotAsking DEF CommandGreeted, CommandBound, CommandLeft
  <2>4. CASE CommandGreeted
    <3>1. CASE Granted(Command) /\ socket.up
      <4>1. command'.at = "patching" /\ Greeted
        BY <1>2, <2>4, <3>1 DEF CommandGreeted, Granted, Greeted
      <4> QED BY <2>2, <2>3, <4>1, MovesAuthority
    <3>2. CASE ~(Granted(Command) /\ socket.up)
      <4>1. command'.at = "idle"
        BY <1>1, <2>4, <3>2 DEF CommandGreeted, EndCommand
      <4> QED BY <2>2, <2>3, <4>1, MovesAuthority DEF Greeted
    <3> QED BY <3>1, <3>2
  <2>5. CASE CommandBound
    <3>1. Greeted
      BY <2>5 DEF CommandBound, Greeted
    <3>2. command' = NoCommand
          \/ command' = [command EXCEPT !.at = "patching", !.todo = @ \ {command.hook}, !.hook = None]
      BY <2>5 DEF CommandBound, EndCommand
    <3>3. command'.at \in {"idle", "patching"}
      BY <1>1, <1>a, <3>2
    <3> QED BY <2>2, <2>3, <3>1, <3>3, MovesAuthority
  <2>6. CASE CommandLeft
    <3>1. command'.at = "leaving" /\ command'.todo = command.todo
      BY <1>0, <1>2, <2>6 DEF CommandLeft, SetCommand
    <3>2. command'.todo \subseteq socket'.blocked
      BY <2>1, <2>6, <3>1 DEF CommandLeft, AuthorityInv, LeavesBlocked
    <3> QED BY <2>2, <2>3, <3>1, <3>2, MovesAuthority DEF Greeted
  <2> QED BY <1>3, <2>4, <2>5, <2>6
<1>4. CASE CommandUnhooked
  <2>1. UNCHANGED <<server, frames, pauses, requests>> /\ Unauthorize({command.hook})
    BY <1>4 DEF CommandUnhooked, Elsewhere, binding
  <2>2. Steady /\ OthersAnswered
    BY <2>1, SameThins, LinkSteady
  <2>3. ~OfCommand(requests') /\ ~OfCommand(frames')
    BY <1>4, <2>1, NotAsking DEF CommandUnhooked
  <2>4. command'.at = "idle"
    BY <1>1, <1>4 DEF CommandUnhooked, EndCommand
  <2> QED BY <2>2, <2>3, <2>4, MovesAuthority DEF Greeted
<1>5. CASE EndSession
  <2>1. \A h \in Hooks : WordKept(h)
    <3>1. CASE UNCHANGED <<live, server, copies, authed, pauses>>
      BY <3>1, SameKeeps
    <3>2. CASE ~UNCHANGED <<live, server, copies, authed, pauses>>
      <4>1. "session_expired" \in Reasons
        BY DEF Reasons
      <4>2. \E hs : Withdraw(hs, "free", "session_expired")
        BY <1>5, <3>2 DEF EndSession
      <4> QED BY <4>1, <4>2, WithdrawKeeps
    <3> QED BY <3>1, <3>2
  <2>2. Steady /\ OthersAnswered
    BY <1>5, <2>1, HandsSteady DEF EndSession
  <2>3. ~OfCommand(requests') /\ ~OfCommand(frames')
    BY <1>5, NotAsking DEF EndSession
  <2>4. command'.at = "idle"
    BY <1>1, <1>5 DEF EndSession, EndCommand
  <2> QED BY <2>2, <2>3, <2>4, MovesAuthority DEF Greeted
<1>6. CASE CommandAborted
  <2>1. /\ Thins(requests, requests') /\ SameFrames(frames, frames')
        /\ ~OfCommand(requests') /\ ~OfCommand(frames')
    BY <1>0, <1>6, ForsakeThins DEF CommandAborted, AuthorityInv, CommandAsks
  <2>2. UNCHANGED <<server, pauses, socket>>
    BY <1>6 DEF CommandAborted, remote
  <2>3. \A h \in Hooks : WordKept(h)
    BY <2>2, SameKeeps
  <2>4. Steady /\ OthersAnswered
    BY <2>1, <2>2, <2>3, SameSteady
  <2>5. command'.at = "idle" \/ (command'.at = "leaving" /\ command'.todo = {})
    BY <1>0, <1>1, <1>2, <1>6 DEF CommandAborted
  <2> QED BY <2>1, <2>4, <2>5, MovesAuthority DEF Greeted
<1>7. CASE Logout
  <2> DEFINE mine == {h \in Hooks : SessionFor(h)}
  <2>1. /\ socket' = [socket EXCEPT !.authorized = @ \ mine, !.blocked = @ \cup mine]
        /\ command' = [NoCommand EXCEPT !.at = "leaving", !.op = "logout", !.todo = mine,
                                        !.token = session]
        /\ UNCHANGED <<server, pauses, requests, frames>> /\ command.at = "idle"
    BY <1>7 DEF Logout, Elsewhere, binding
  <2> HIDE DEF mine
  <2>2. /\ socket'.authorized \subseteq socket.authorized
        /\ socket.blocked \subseteq socket'.blocked /\ mine \subseteq socket'.blocked
    BY <2>1 DEF Typed, Sockets
  <2>3. command'.at = "leaving" /\ command'.todo = mine
    BY <2>1 DEF NoCommand
  <2>4. \A h \in Hooks : WordKept(h)
    BY <2>1, SameKeeps
  <2>5. Steady /\ OthersAnswered
    BY <2>1, <2>2, <2>4, FramesAreSame, SameThins, SameSteady
  <2>6. ~OfCommand(requests') /\ ~OfCommand(frames')
    BY <2>1, NotAsking
  <2> QED BY <2>2, <2>3, <2>5, <2>6, MovesAuthority DEF Greeted
<1>8. ASSUME NEW h \in Hooks, CommandPatch(h) PROVE AuthorityInv'
  <2>1. UNCHANGED <<socket, frames, requests, pauses>> /\ command.at = "patching"
    BY <1>8 DEF CommandPatch, Elsewhere
  <2>2. ASSUME NEW g \in Hooks PROVE WordKept(g)
    <3>1. CASE Hand({h}, "here", authed)
      <4>1. server'[g] = IF g \in {h} THEN [state |-> "here", token |-> authed] ELSE server[g]
        BY <3>1 DEF Hand
      <4> QED BY <2>1, <4>1 DEF WordKept, Paused
    <3>2. CASE UNCHANGED server
      BY <2>1, <3>2 DEF WordKept, Paused
    <3>3. Hand({h}, "here", authed) \/ UNCHANGED server
      BY <1>8 DEF CommandPatch
    <3> QED BY <3>1, <3>2, <3>3
  <2>3. Steady /\ OthersAnswered
    BY <2>1, <2>2, HandsSteady
  <2>4. ~OfCommand(requests') /\ ~OfCommand(frames')
    BY <2>1, NotAsking
  <2>5. command' = NoCommand \/ command' = [command EXCEPT !.at = "saving", !.hook = h]
    BY <1>8 DEF CommandPatch, EndCommand
  <2>6. command'.at \in {"idle", "saving"}
    <3>1. [command EXCEPT !.at = "saving", !.hook = h].at = "saving"
      BY <1>0 DEF CommandRecords
    <3> QED BY <1>1, <2>5, <3>1
  <2>7. Greeted
    BY <2>1 DEF Greeted
  <2> QED BY <2>3, <2>4, <2>6, <2>7, MovesAuthority
<1>9. ASSUME NEW h \in Hooks, Unhook(h) PROVE AuthorityInv'
  <2>1. UNCHANGED <<socket, frames, requests>> /\ command.at = "idle"
    BY <1>9 DEF Unhook, Elsewhere
  <2>2. "hook_detached" \in Reasons /\ Withdraw({h}, "detached", "hook_detached")
    BY <1>9 DEF Unhook, Reasons
  <2>3. \A g \in Hooks : WordKept(g)
    BY <2>2, WithdrawKeeps
  <2>4. Steady /\ OthersAnswered
    BY <2>1, <2>3, HandsSteady
  <2>5. ~OfCommand(requests') /\ ~OfCommand(frames')
    BY <2>1, NotAsking
  <2>6. command'.at = "unhooking"
    BY <1>9 DEF Unhook, NoCommand
  <2> QED BY <2>4, <2>5, <2>6, MovesAuthority DEF Greeted
<1> QED BY <1>3, <1>4, <1>5, <1>6, <1>7, <1>8, <1>9

LEMMA TimeOutAuthority ==
  ASSUME Typed, AuthorityInv, NothingCut', TimeOut(Command) PROVE AuthorityInv'
<1>0. Command \in Waiters
  BY CommandIs
<1>1. /\ Thins(requests, requests') /\ SameFrames(frames, frames')
      /\ ~OfCommand(requests') /\ ~OfCommand(frames')
  BY <1>0, ForsakeThins DEF TimeOut, AuthorityInv, CommandAsks
<1>2. UNCHANGED <<server, pauses, socket, command>> /\ wait'[Command] = "error"
  BY <1>0 DEF TimeOut, remote, tasks, Typed, WaitTables
<1>3. \A h \in Hooks : WordKept(h)
  BY <1>2, SameKeeps
<1>4. Steady /\ OthersAnswered
  BY <1>1, <1>2, <1>3, SameSteady
<1>5. (Greeted' => Greeted)
      /\ (command'.at \in {"leaving", "left"} => command'.todo \subseteq socket'.blocked)
  BY <1>2 DEF Greeted, AuthorityInv, LeavesBlocked
<1> QED BY <1>1, <1>4, <1>5, MovesAuthority

------------------------------------------------------------------------------
(* The connection is lost, the daemon starts anew.                          *)

LEMMA LostAsks ==
  ASSUME Typed, Lose
  PROVE  /\ Thins(requests, requests')
         /\ wait'[Command] = "ok" => wait[Command] = "ok"
         /\ OfCommand(requests') => OfCommand(requests) /\ wait'[Command] = wait[Command]
<1>1. PICK sent \in 0 .. Len(requests) :
        /\ requests' = SubSeq(requests, sent + 1, Len(requests))
        /\ wait' = [w \in Waiters |->
                      IF wait[w] = "asked" /\ \A i \in sent + 1 .. Len(requests) : requests[i].by # w
                      THEN "error" ELSE wait[w]]
  BY DEF Lose
<1>2. requests \in Seq(SentRequests) /\ Command \in Waiters
  BY CommandIs DEF Typed
<1>3. Thins(requests, requests')
  BY <1>1, <1>2, SubSeqThins
<1>4. ASSUME OfCommand(requests')
      PROVE  \E i \in sent + 1 .. Len(requests) : requests[i].by = Command
  <2>1. Len(requests) \in Nat /\ sent \in Nat
    BY LinkIs
  <2>2. /\ requests' \in Seq(SentRequests)
        /\ Len(requests') = IF sent + 1 <= Len(requests) THEN Len(requests) - sent ELSE 0
        /\ \A i \in 1 .. Len(requests) - sent : requests'[i] = requests[i + sent]
    <3>1. \A i \in 1 .. Len(requests) : requests[i] \in SentRequests
      BY LinkIs
    <3>2. sent + 1 \in Nat /\ 1 <= sent + 1 /\ Len(requests) <= Len(requests)
      BY <2>1
    <3> QED BY <1>1, <1>2, <2>1, <3>1, <3>2, SubSeqProperties
  <2>3. PICK i \in DOMAIN requests' : requests'[i].by = Command
    BY <1>4 DEF OfCommand
  <2>4. i \in 1 .. Len(requests')
    BY <2>2, <2>3, LenProperties
  <2>5. i \in 1 .. Len(requests) - sent /\ i + sent \in sent + 1 .. Len(requests)
    BY <2>1, <2>2, <2>4
  <2> QED BY <2>2, <2>3, <2>5
<1>5. wait'[Command] = "ok" => wait[Command] = "ok"
  BY <1>1, <1>2
<1>6. OfCommand(requests') => wait'[Command] = wait[Command]
  BY <1>1, <1>2, <1>4
<1> QED BY <1>3, <1>5, <1>6 DEF Thins

LEMMA LoseAuthority ==
  ASSUME Typed, AuthorityInv, Lose, NoPause(requests') => NothingCut' PROVE AuthorityInv'
<1>1. DOMAIN frames' = {} /\ socket'.authorized = {} /\ socket'.blocked = socket.blocked
  BY EmptySeq, LenProperties DEF Lose, CutConnection, Typed, Sockets
<1>2. command'.at = command.at /\ command'.todo = command.todo
  <2>1. command \in CommandRecords
    BY CommandIs
  <2> QED BY <2>1 DEF Lose, CommandRecords
<1>3. Authority' /\ SafeFrom(1)' /\ ~OfCommand(frames') /\ CommandOnce(frames')
  BY <1>1 DEF Authority, SafeFrom, OfCommand, CommandOnce
<1>4. Thins(requests, requests') /\ (Greeted' => Greeted)
  BY <1>2, LostAsks DEF Greeted
<1>5. LeavesBlocked'
  BY <1>1, <1>2, <1>4 DEF AuthorityInv, LeavesBlocked, Thins
<1>6. GreetsLast'
  BY <1>1, <1>2, <1>3, <1>4 DEF AuthorityInv, GreetsLast, Thins
<1>7. CommandAsks'
  BY <1>2, <1>3, <1>4, LostAsks DEF AuthorityInv, CommandAsks, Thins
<1>8. NothingCut'
  BY <1>4 DEF AuthorityInv, NothingCut, Thins
<1> QED BY <1>3, <1>5, <1>6, <1>7, <1>8 DEF AuthorityInv

LEMMA CrashAuthority ==
  ASSUME Typed, Crash, NoPause(requests') => NothingCut' PROVE AuthorityInv'
<1>1. /\ DOMAIN frames' = {} /\ DOMAIN requests' = {}
      /\ socket'.authorized = {} /\ command'.at = "idle"
  BY EmptySeq, LenProperties DEF Crash, CutConnection, NoCommand
<1>2. Authority'
  BY <1>1 DEF Authority
<1>3. NoPause(requests') /\ LeavesBlocked'
  BY <1>1 DEF LeavesBlocked, UnsubscribeOnly, NoPause
<1>4. GreetsLast' /\ CommandAsks'
  BY <1>1 DEF GreetsLast, Greeted, CommandAsks, OfCommand, CommandOnce
<1> QED BY <1>2, <1>3, <1>4 DEF AuthorityInv

------------------------------------------------------------------------------
(* A frame is received: what halted a hook in it is learned, what authorized*)
(* one is bound.                                                            *)

LEMMA ReceivedIs ==
  ASSUME Typed, frames # <<>>, frames' = Tail(frames)
  PROVE  /\ 1 \in DOMAIN frames /\ Head(frames) = frames[1]
         /\ \A i \in DOMAIN frames' :
              i \in Nat /\ i + 1 \in DOMAIN frames /\ frames'[i] = frames[i + 1] /\ 1 <= i + 1
         /\ \A i \in DOMAIN frames : i = 1 \/ (i - 1 \in DOMAIN frames' /\ frames'[i - 1] = frames[i])
<1>1. /\ 1 \in DOMAIN frames /\ Head(frames) = frames[1]
      /\ \A i \in DOMAIN frames' : i + 1 \in DOMAIN frames /\ frames'[i] = frames[i + 1]
  BY TailIs
<1>2. frames \in Seq(SentFrames) /\ Len(frames) \in Nat /\ DOMAIN frames = 1 .. Len(frames)
  BY LinkIs DEF Typed
<1>3. frames' \in Seq(SentFrames) /\ Len(frames') = Len(frames) - 1
  BY <1>2, HeadTailProperties
<1>4. DOMAIN frames' = 1 .. Len(frames) - 1
  BY <1>3, LenProperties
<1>5. ASSUME NEW i \in DOMAIN frames, i # 1
      PROVE  i - 1 \in DOMAIN frames' /\ frames'[i - 1] = frames[i]
  <2>1. i - 1 \in DOMAIN frames' /\ (i - 1) + 1 = i
    BY <1>2, <1>4, <1>5
  <2> QED BY <1>1, <2>1
<1> QED BY <1>1, <1>2, <1>4, <1>5

LEMMA ReceivedWord ==
  ASSUME Typed, frames # <<>>, frames' = Tail(frames), UNCHANGED <<server, pauses>>,
         NEW h, Safe(h)
  PROVE  Safe(h)' \/ (Halts(Head(frames), h) /\ \A j \in DOMAIN frames' : ~Subscribes(frames'[j], h))
<1>1. CASE ~Told(h)
  BY <1>1 DEF Safe, Paused
<1>2. ASSUME NEW i \in DOMAIN frames, Halts(frames[i], h),
             \A j \in DOMAIN frames : i < j => ~Subscribes(frames[j], h)
      PROVE  Told(h)' \/ (Halts(Head(frames), h) /\ \A j \in DOMAIN frames' : ~Subscribes(frames'[j], h))
  <2>1. CASE i = 1
    <3>1. \A j \in DOMAIN frames' : 1 < j + 1
      BY LinkIs, ReceivedIs
    <3> QED BY <1>2, <2>1, <3>1, ReceivedIs
  <2>2. CASE i # 1
    <3>1. i - 1 \in DOMAIN frames' /\ frames'[i - 1] = frames[i]
      BY <2>2, ReceivedIs
    <3>2. \A j \in DOMAIN frames' : i - 1 < j => i < j + 1
      BY LinkIs, ReceivedIs
    <3>3. \A j \in DOMAIN frames' : i - 1 < j => ~Subscribes(frames'[j], h)
      BY <1>2, <3>2, ReceivedIs
    <3> QED BY <1>2, <3>1, <3>3 DEF Told
  <2> QED BY <2>1, <2>2
<1> QED BY <1>1, <1>2 DEF Told, Safe

LEMMA ReceivedAuthority ==
  ASSUME Typed, AuthorityInv, frames # <<>>, frames' = Tail(frames),
         UNCHANGED <<server, pauses, command>>, socket'.blocked = socket.blocked,
         \A h \in socket'.authorized :
           /\ h \in Hooks /\ ~Halts(Head(frames), h)
           /\ h \in socket.authorized \/ (Subscribes(Head(frames), h) /\ h \notin socket.blocked),
         Thins(requests, requests'),
         Head(frames).by # Command => wait'[Command] = wait[Command],
         NoPause(requests') => NothingCut'
  PROVE  AuthorityInv'
<1>1. ASSUME NEW i \in DOMAIN frames', NEW h \in Hooks, Subscribes(frames'[i], h), Safe(h)
      PROVE  Safe(h)'
  BY <1>1, ReceivedWord
<1>2. ASSUME NEW n \in Nat, SafeFrom(n + 1) \/ SafeFrom(1) PROVE SafeFrom(n)'
  <2>1. ASSUME NEW j \in DOMAIN frames', NEW h \in Hooks, n <= j, Subscribes(frames'[j], h)
        PROVE  Safe(h)'
    <3>1. j + 1 \in DOMAIN frames /\ Subscribes(frames[j + 1], h) /\ 1 <= j + 1 /\ n + 1 <= j + 1
      BY <2>1, ReceivedIs
    <3>2. Safe(h)
      BY <1>2, <3>1 DEF SafeFrom
    <3> QED BY <1>1, <2>1, <3>2
  <2> QED BY <2>1 DEF SafeFrom
<1>3. Authority'
  <2>1. ASSUME NEW h \in socket'.authorized PROVE Safe(h)'
    <3>1. Safe(h)
      BY <2>1, ReceivedIs DEF AuthorityInv, Authority
    <3> QED BY <2>1, <3>1, ReceivedWord
  <2>2. ASSUME NEW i \in DOMAIN frames', NEW h \in Hooks, Subscribes(frames'[i], h)
        PROVE  Safe(h)' \/ h \in socket'.blocked
    <3>1. i + 1 \in DOMAIN frames /\ Subscribes(frames[i + 1], h)
      BY <2>2, ReceivedIs
    <3>2. Safe(h) \/ h \in socket.blocked
      BY <3>1 DEF AuthorityInv, Authority
    <3> QED BY <1>1, <2>2, <3>2
  <2> QED BY <2>1, <2>2 DEF Authority
<1>4. LeavesBlocked'
  BY DEF AuthorityInv, LeavesBlocked, Thins
<1>5. CommandOnce(frames') /\ (OfCommand(frames') => OfCommand(frames) /\ Head(frames).by # Command)
  <2>1. CommandOnce(frames) /\ \A i \in DOMAIN frames' : i + 1 # 1
    BY LinkIs, ReceivedIs DEF AuthorityInv, CommandAsks
  <2>2. ASSUME NEW i \in DOMAIN frames', NEW j \in DOMAIN frames',
               frames'[i].by = Command, frames'[j].by = Command
        PROVE  i = j
    <3>1. i + 1 = j + 1 /\ i \in Nat /\ j \in Nat
      BY <2>1, <2>2, ReceivedIs DEF CommandOnce
    <3> QED BY <3>1
  <2>3. ASSUME NEW i \in DOMAIN frames', frames'[i].by = Command
        PROVE  OfCommand(frames) /\ Head(frames).by # Command
    BY <2>1, <2>3, ReceivedIs DEF CommandOnce, OfCommand
  <2> QED BY <2>2, <2>3 DEF CommandOnce, OfCommand
<1>6. CommandAsks'
  <2>1. CommandOnce(requests') /\ (OfCommand(requests') => OfCommand(requests))
    BY DEF AuthorityInv, CommandAsks, Thins
  <2>2. Head(frames).by = Command => OfCommand(frames)
    BY ReceivedIs DEF OfCommand
  <2> QED BY <1>5, <2>1, <2>2 DEF AuthorityInv, CommandAsks
<1>7. GreetsLast'
  <2>1. ASSUME Greeted' PROVE NoUnsubscribe(requests) /\ SafeFrom(1)
    <3>1. CASE Greeted
      BY <3>1 DEF AuthorityInv, GreetsLast
    <3>2. CASE ~Greeted
      <4>1. command.at = "greeting" /\ Head(frames).by = Command
        BY <2>1, <3>2 DEF Greeted
      <4>2. frames[1].by = Command /\ 1 \in DOMAIN frames
        BY <4>1, ReceivedIs
      <4> QED BY <4>1, <4>2 DEF AuthorityInv, GreetsLast
    <3> QED BY <3>1, <3>2
  <2>2. ASSUME command.at = "greeting", NEW i \in DOMAIN frames', frames'[i].by = Command
        PROVE  NoUnsubscribe(requests) /\ SafeFrom(i)'
    <3>1. i \in Nat /\ i + 1 \in DOMAIN frames /\ frames[i + 1].by = Command
      BY <2>2, ReceivedIs
    <3>2. NoUnsubscribe(requests) /\ SafeFrom(i + 1)
      BY <2>2, <3>1 DEF AuthorityInv, GreetsLast
    <3> QED BY <1>2, <3>1, <3>2
  <2>3. SafeFrom(1) => SafeFrom(1)'
    BY <1>2
  <2> QED BY <2>1, <2>2, <2>3 DEF AuthorityInv, GreetsLast, Thins
<1>8. NothingCut'
  BY DEF AuthorityInv, NothingCut, Thins
<1> QED BY <1>3, <1>4, <1>6, <1>7, <1>8 DEF AuthorityInv

LEMMA ReceiveAuthority ==
  ASSUME Typed, AuthorityInv, Receive, NoPause(requests') => NothingCut' PROVE AuthorityInv'
<1> DEFINE f == Head(frames)
<1>1. /\ f \in SentFrames /\ f.hooks \in SUBSET Hooks /\ f.tings \in SUBSET Messages
      /\ f.by \in Waiters \cup {None} /\ (f.op = "tings" => \E h \in Hooks : f.hooks = {h})
      /\ f.op \in {"tings"} \cup Reasons => f.by = None
  BY FrameTyped DEF Receive
<1>2. /\ frames # <<>> /\ frames' = Tail(frames)
      /\ UNCHANGED <<server, pauses, command>>
  BY DEF Receive, tasks, remote
<1>3. socket \in Sockets /\ socket.authorized \subseteq Hooks /\ requests \in Seq(SentRequests)
  BY DEF Typed, Sockets
<1>4. CASE ReceiveTings
  <2> DEFINE kept == {m \in f.tings : age[m] < 3}
             r == Request("delivery", f.hooks, kept, None, None)
  <2>1. f.op = "tings" /\ UNCHANGED <<socket, wait>>
        /\ requests' = IF kept = {} THEN requests ELSE Append(requests, r)
    BY <1>4 DEF ReceiveTings
  <2>2. r \in SentRequests
    BY <1>1, <2>1 DEF Request, SentRequests, Requests, RequestOps
  <2>3. ~Matters(r)
    BY CommandIsNotNone DEF Matters, Request
  <2> HIDE DEF r, kept
  <2>4. Thins(requests, requests')
    BY <1>3, <2>1, <2>2, <2>3, AppendThins, SameThins
  <2>5. \A h : ~Halts(f, h)
    BY <2>1 DEF Halts, Reasons
  <2> QED BY <1>2, <1>3, <2>1, <2>4, <2>5, ReceivedAuthority
<1>5. CASE ReceivePause
  <2>1. f.op \in Reasons /\ UNCHANGED <<requests, wait>>
        /\ socket' = [socket EXCEPT !.authorized = @ \ f.hooks]
    BY <1>5 DEF ReceivePause
  <2>2. socket'.authorized = socket.authorized \ f.hooks /\ socket'.blocked = socket.blocked
    BY <1>3, <2>1 DEF Sockets
  <2>3. \A h \in socket'.authorized : ~Halts(f, h)
    BY <2>2 DEF Halts
  <2>4. Thins(requests, requests')
    BY <2>1, SameThins
  <2> QED BY <1>2, <1>3, <2>1, <2>2, <2>3, <2>4, ReceivedAuthority
<1>6. CASE ReceiveAnswer
  <2>1. /\ f.op \in {"subscribed"} \cup Answers /\ UNCHANGED requests
        /\ socket' = IF f.op = "subscribed"
                     THEN [socket EXCEPT !.authorized = @ \cup (f.hooks \ socket.blocked)] ELSE socket
        /\ wait' = IF f.by = None THEN wait
                   ELSE [wait EXCEPT ![f.by] = IF f.op = "subscribed" THEN "ok" ELSE f.op]
    BY <1>6 DEF ReceiveAnswer
  <2>2. \A h : ~Halts(f, h)
    BY <2>1 DEF Halts, Reasons, Answers
  <2>3. f.by # Command => wait'[Command] = wait[Command]
    BY <2>1, CommandIs DEF Typed, WaitTables
  <2>4. socket'.blocked = socket.blocked
    BY <1>3, <2>1 DEF Sockets
  <2>5. ASSUME NEW h \in socket'.authorized
        PROVE  h \in Hooks /\ (h \in socket.authorized \/ (Subscribes(f, h) /\ h \notin socket.blocked))
    BY <1>1, <1>3, <2>1 DEF Sockets, Subscribes
  <2>6. Thins(requests, requests')
    BY <2>1, SameThins
  <2> QED BY <1>2, <2>2, <2>3, <2>4, <2>5, <2>6, ReceivedAuthority
<1> QED BY <1>4, <1>5, <1>6 DEF Receive

------------------------------------------------------------------------------
(* The server grants or refuses a request.                                  *)

(* At most the answer to the first request is new.                          *)
Replies ==
  \/ UNCHANGED frames
  \/ \E f \in SentFrames :
       /\ frames' = Append(frames, f) /\ f.by = Head(requests).by
       /\ \A h \in Hooks : Subscribes(f, h) => server'[h].state = "here"

LEMMA RepliesIs ==
  ASSUME Typed, requests # <<>>, NEW op \in {"subscribed"} \cup Answers,
         Reply(op, Head(requests)),
         op = "subscribed" => \A h \in Head(requests).hooks : server'[h].state = "here"
  PROVE  Replies
<1> DEFINE r == Head(requests)
           f == Frame(op, IF op = "subscribed" THEN r.hooks ELSE {}, {}, r.by)
<1>1. r \in SentRequests /\ f \in SentFrames
  BY RequestTyped, ReplyTyped
<1>2. f.by = r.by /\ \A h \in Hooks : Subscribes(f, h) => server'[h].state = "here"
  BY DEF Frame, Subscribes
<1>3. UNCHANGED frames \/ frames' = Append(frames, f)
  BY DEF Reply
<1> HIDE DEF f
<1> QED BY <1>1, <1>2, <1>3 DEF Replies

LEMMA RepliesAre ==
  ASSUME Typed, Replies
  PROVE  \A i \in DOMAIN frames' :
           \/ i \in DOMAIN frames /\ frames'[i] = frames[i]
           \/ /\ i \notin DOMAIN frames /\ frames'[i].by = Head(requests).by
              /\ \A j \in DOMAIN frames' : i <= j => i = j
              /\ \A h \in Hooks : Subscribes(frames'[i], h) => server'[h].state = "here"
<1>1. CASE UNCHANGED frames
  BY <1>1
<1>2. ASSUME NEW f \in SentFrames, frames' = Append(frames, f), f.by = Head(requests).by,
             \A h \in Hooks : Subscribes(f, h) => server'[h].state = "here",
             NEW i \in DOMAIN frames'
      PROVE  \/ i \in DOMAIN frames /\ frames'[i] = frames[i]
             \/ /\ i \notin DOMAIN frames /\ frames'[i].by = Head(requests).by
                /\ \A j \in DOMAIN frames' : i <= j => i = j
                /\ \A h \in Hooks : Subscribes(frames'[i], h) => server'[h].state = "here"
  <2>1. frames \in Seq(SentFrames)
    BY DEF Typed
  <2>2. /\ DOMAIN frames = 1 .. Len(frames) /\ Len(frames) \in Nat
        /\ DOMAIN frames' = 1 .. Len(frames) + 1
        /\ \A k \in DOMAIN frames : frames'[k] = frames[k]
        /\ frames'[Len(frames) + 1] = f
        /\ \A k \in DOMAIN frames' : k \in DOMAIN frames \/ k = Len(frames) + 1
    BY <1>2, <2>1, AppendIs
  <2>3. CASE i \in DOMAIN frames
    BY <2>2, <2>3
  <2>4. CASE i = Len(frames) + 1
    <3>1. i \notin DOMAIN frames /\ \A j \in DOMAIN frames' : i <= j => i = j
      BY <2>2, <2>4
    <3> QED BY <1>2, <2>2, <2>4, <3>1
  <2> QED BY <2>2, <2>3, <2>4
<1> QED BY <1>1, <1>2 DEF Replies

LEMMA RequestIs ==
  ASSUME Typed, requests # <<>>, requests' = Tail(requests)
  PROVE  /\ Thins(requests, requests') /\ 1 \in DOMAIN requests /\ Head(requests) = requests[1]
         /\ CommandOnce(requests) /\ Head(requests).by = Command => ~OfCommand(requests')
         /\ \A j \in DOMAIN requests : 1 <= j
<1>1. requests \in Seq(SentRequests)
  BY DEF Typed
<1> QED BY <1>1, LinkIs, TailIs, TailThins DEF CommandOnce, OfCommand

LEMMA HandledAsks ==
  ASSUME Typed, AuthorityInv, requests # <<>>, requests' = Tail(requests), Replies,
         UNCHANGED <<command, wait>>
  PROVE  CommandAsks'
<1>1. /\ Thins(requests, requests')
      /\ Head(requests).by = Command => ~OfCommand(requests') /\ OfCommand(requests)
  BY RequestIs DEF AuthorityInv, CommandAsks, OfCommand
<1>2. CommandOnce(requests') /\ (OfCommand(requests') => OfCommand(requests))
  BY <1>1 DEF AuthorityInv, CommandAsks, Thins
<1>3. OfCommand(frames') => OfCommand(frames) \/ Head(requests).by = Command
  BY RepliesAre DEF OfCommand
<1>4. CommandOnce(frames')
  <2> SUFFICES ASSUME NEW i \in DOMAIN frames', NEW j \in DOMAIN frames',
                      frames'[i].by = Command, frames'[j].by = Command
               PROVE  i = j
    BY DEF CommandOnce
  <2>1. CASE i \in DOMAIN frames /\ j \in DOMAIN frames
    BY <2>1, RepliesAre DEF AuthorityInv, CommandAsks, CommandOnce
  <2>2. ASSUME NEW k \in DOMAIN frames', k \notin DOMAIN frames, frames'[k].by = Command
        PROVE  ~OfCommand(frames)
    <3>1. Head(requests).by = Command
      BY <2>2, RepliesAre
    <3> QED BY <1>1, <3>1 DEF AuthorityInv, CommandAsks
  <2>3. i \in DOMAIN frames <=> j \in DOMAIN frames
    BY <2>2, RepliesAre DEF OfCommand
  <2>4. CASE i \notin DOMAIN frames /\ j \notin DOMAIN frames
    <3>1. i \in Nat /\ j \in Nat /\ (i <= j \/ j <= i)
      <4>1. frames' \in Seq(SentFrames)
        <5>1. frames \in Seq(SentFrames)
          BY DEF Typed
        <5> QED BY <5>1, AppendProperties DEF Replies
      <4>2. DOMAIN frames' = 1 .. Len(frames') /\ Len(frames') \in Nat
        BY <4>1, LenProperties
      <4> QED BY <4>2
    <3>2. (i <= j => i = j) /\ (j <= i => j = i)
      BY <2>4, RepliesAre
    <3> QED BY <3>1, <3>2
  <2> QED BY <2>1, <2>3, <2>4
<1> QED BY <1>1, <1>2, <1>3, <1>4 DEF AuthorityInv, CommandAsks

(* No hook goes without word.                                               *)
LEMMA HandledKept ==
  ASSUME Typed, AuthorityInv, requests # <<>>, requests' = Tail(requests), Replies,
         UNCHANGED <<command, wait, socket>>, \A h \in Hooks : WordKept(h),
         NoPause(requests') => NothingCut'
  PROVE  AuthorityInv'
<1>1. Thins(requests, requests')
  BY RequestIs
<1>2. Steady
  <2>1. CASE UNCHANGED frames
    BY <1>1, <2>1, FramesAreSame, SameSteady
  <2>2. CASE ~UNCHANGED frames
    <3>1. PICK f \in SentFrames :
            frames' = Append(frames, f) /\ \A h \in Hooks : Subscribes(f, h) => server'[h].state = "here"
      BY <2>2 DEF Replies
    <3> QED BY <1>1, <3>1, MoreSteady
  <2> QED BY <2>1, <2>2
<1>3. /\ Authority' /\ UnsubscribeOnly(requests, socket.blocked)'
      /\ NoUnsubscribe(requests) => NoUnsubscribe(requests')
      /\ NoneAfterCommand(requests) => NoneAfterCommand(requests')
      /\ \A i : SafeFrom(i) => SafeFrom(i)'
  BY <1>2, SteadyIs
<1>4. LeavesBlocked'
  BY <1>3 DEF AuthorityInv, LeavesBlocked
<1>5. ASSUME command.at = "greeting", NEW i \in DOMAIN frames', frames'[i].by = Command
      PROVE  NoUnsubscribe(requests) /\ SafeFrom(i)'
  <2>1. CASE i \in DOMAIN frames
    <3>1. frames[i].by = Command
      BY <1>5, <2>1, RepliesAre
    <3> QED BY <1>3, <1>5, <2>1, <3>1 DEF AuthorityInv, GreetsLast
  <2>2. CASE i \notin DOMAIN frames
    <3>1. Head(requests).by = Command
      BY <1>5, <2>2, RepliesAre
    <3>2. NoneAfterCommand(requests)
      BY <1>5 DEF AuthorityInv, GreetsLast
    <3>3. NoUnsubscribe(requests)
      BY <3>1, <3>2, RequestIs DEF NoneAfterCommand, NoUnsubscribe
    <3>4. SafeFrom(i)'
      BY <2>2, RepliesAre DEF SafeFrom, Safe
    <3> QED BY <3>3, <3>4
  <2> QED BY <2>1, <2>2
<1>6. GreetsLast'
  <2>1. Greeted' <=> Greeted
    BY DEF Greeted
  <2> QED BY <1>3, <1>5, <2>1 DEF AuthorityInv, GreetsLast
<1>7. CommandAsks'
  BY HandledAsks
<1>8. NothingCut'
  BY <1>1 DEF AuthorityInv, NothingCut, Thins
<1> QED BY <1>3, <1>4, <1>6, <1>7, <1>8 DEF AuthorityInv

(* Hooks go without word: those a logout has blocked, before any command    *)
(* that could lift the block is greeted.                                    *)
LEMMA UnsubscribedAuthority ==
  ASSUME Typed, BlockedIsSilent, AuthorityInv, requests # <<>>, requests' = Tail(requests), Replies,
         UNCHANGED <<command, wait, socket, pauses>>, Head(requests).op = "unsubscribe",
         Hand(Head(requests).hooks, "free", None), Reply("ok", Head(requests)),
         NoPause(requests') => NothingCut'
  PROVE  AuthorityInv'
<1> DEFINE r == Head(requests)
<1>1. /\ Thins(requests, requests') /\ r = requests[1] /\ 1 \in DOMAIN requests
      /\ ~NoUnsubscribe(requests) /\ r.hooks \subseteq socket.blocked
  BY RequestIs DEF NoUnsubscribe, AuthorityInv, LeavesBlocked, UnsubscribeOnly
<1>2. PICK f : /\ UNCHANGED frames \/ frames' = Append(frames, f)
               /\ f \in SentFrames /\ \A h : ~Subscribes(f, h)
  <2> DEFINE f == Frame("ok", {}, {}, r.by)
  <2>1. f \in SentFrames
    BY RequestTyped, ReplyTyped DEF Answers
  <2>2. \A h : ~Subscribes(f, h)
    BY DEF Subscribes, Frame
  <2>3. UNCHANGED frames \/ frames' = Append(frames, f)
    BY DEF Reply
  <2> HIDE DEF f
  <2> QED BY <2>1, <2>2, <2>3
<1>3. ASSUME NEW h \in Hooks, h \notin socket.blocked \/ h \notin r.hooks, Safe(h) PROVE Safe(h)'
  <2>1. server'[h] = server[h]
    BY <1>1, <1>3 DEF Hand
  <2>2. Told(h) => Told(h)'
    <3>1. CASE UNCHANGED frames
      BY <3>1 DEF Told
    <3>2. CASE frames' = Append(frames, f)
      BY <1>2, <3>2, MoreTold
    <3> QED BY <1>2, <3>1, <3>2
  <2> QED BY <1>3, <2>1, <2>2 DEF Safe, Paused
<1>4. ASSUME NEW i \in DOMAIN frames', NEW h, Subscribes(frames'[i], h)
      PROVE  i \in DOMAIN frames /\ Subscribes(frames[i], h)
  <2>1. CASE UNCHANGED frames
    BY <1>4, <2>1
  <2>2. CASE frames' = Append(frames, f)
    <3>1. frames \in Seq(SentFrames)
      BY DEF Typed
    <3> QED BY <1>2, <1>4, <2>2, <3>1, AppendIs
  <2> QED BY <1>2, <2>1, <2>2
<1>5. Authority'
  <2>1. ASSUME NEW h \in socket'.authorized PROVE Safe(h)'
    <3>1. h \in Hooks /\ h \notin socket.blocked /\ Safe(h)
      BY <2>1 DEF Typed, Sockets, BlockedIsSilent, AuthorityInv, Authority
    <3> QED BY <1>3, <3>1
  <2>2. ASSUME NEW i \in DOMAIN frames', NEW h \in Hooks, Subscribes(frames'[i], h)
        PROVE  Safe(h)' \/ h \in socket'.blocked
    BY <1>3, <1>4, <2>2 DEF AuthorityInv, Authority
  <2> QED BY <2>1, <2>2 DEF Authority
<1>6. LeavesBlocked'
  BY <1>1 DEF AuthorityInv, LeavesBlocked, Thins
<1>7. GreetsLast'
  <2>1. ~Greeted'
    BY <1>1 DEF AuthorityInv, GreetsLast, Greeted
  <2>2. ASSUME command.at = "greeting", NEW i \in DOMAIN frames', frames'[i].by = Command
        PROVE  FALSE
    <3>1. NoneAfterCommand(requests)
      BY <2>2 DEF AuthorityInv, GreetsLast
    <3>2. r.by # Command
      BY <1>1, <3>1, RequestIs DEF NoneAfterCommand
    <3>3. i \in DOMAIN frames /\ frames[i].by = Command
      BY <2>2, <3>2, RepliesAre
    <3> QED BY <1>1, <2>2, <3>3 DEF AuthorityInv, GreetsLast
  <2>3. command.at = "greeting" => NoneAfterCommand(requests')
    BY <1>1 DEF AuthorityInv, GreetsLast, Thins
  <2> QED BY <2>1, <2>2, <2>3 DEF GreetsLast
<1>8. CommandAsks'
  BY HandledAsks
<1>9. NothingCut'
  BY <1>1 DEF AuthorityInv, NothingCut, Thins
<1> QED BY <1>5, <1>6, <1>7, <1>8, <1>9 DEF AuthorityInv

LEMMA HandleAuthority ==
  ASSUME Typed, BlockedIsSilent, AuthorityInv, Handle, NoPause(requests') => NothingCut'
  PROVE  AuthorityInv'
<1> DEFINE r == Head(requests)
<1>1. /\ requests # <<>> /\ requests' = Tail(requests) /\ UNCHANGED <<command, wait, socket>>
      /\ HandleSubscribe(r) \/ HandleUnsubscribe(r) \/ HandleAck(r)
  BY DEF Handle, Local, tasks
<1>2. r \in SentRequests /\ r.hooks \in SUBSET Hooks /\ r.op # "pause"
  BY <1>1, RequestTyped, RequestIs DEF AuthorityInv, NothingCut, NoPause
<1>3. /\ "ok" \in {"subscribed"} \cup Answers /\ "error" \in {"subscribed"} \cup Answers
      /\ "invalid" \in {"subscribed"} \cup Answers
  BY DEF Answers
<1>4. ASSUME Reply("ok", r) \/ Reply("error", r) \/ Reply("invalid", r) PROVE Replies
  BY <1>1, <1>3, <1>4, RepliesIs
<1>5. CASE UNCHANGED <<server, pauses>>
           /\ (Reply("ok", r) \/ Reply("error", r) \/ Reply("invalid", r))
  BY <1>1, <1>4, <1>5, SameKeeps, HandledKept
<1>6. CASE Hand(r.hooks, "here", r.token) /\ Reply("subscribed", r) /\ UNCHANGED pauses
  <2>1. \A h \in Hooks : server'[h] = IF h \in r.hooks THEN [state |-> "here", token |-> r.token]
                                      ELSE server[h]
    BY <1>6 DEF Hand
  <2>2. /\ \A h \in r.hooks : server'[h].state = "here"
        /\ \A h \in Hooks : server[h].state = "here" => server'[h].state = "here"
    BY <1>2, <2>1
  <2>3. Replies
    BY <1>1, <1>6, <2>2, RepliesIs
  <2>4. \A h \in Hooks : WordKept(h)
    BY <1>6, <2>2 DEF WordKept, Paused
  <2> QED BY <1>1, <2>3, <2>4, HandledKept
<1>7. CASE Unreach /\ Reply("ok", r)
  BY <1>1, <1>4, <1>7, UnreachKeeps, HandledKept
<1>8. CASE /\ r.op = "unsubscribe" /\ Hand(r.hooks, "free", None) /\ Reply("ok", r)
           /\ UNCHANGED pauses
  BY <1>1, <1>4, <1>8, UnsubscribedAuthority
<1>9. CASE HandleSubscribe(r)
  BY <1>5, <1>6, <1>9 DEF HandleSubscribe, binding
<1>10. CASE HandleUnsubscribe(r)
  BY <1>2, <1>5, <1>8, <1>10 DEF HandleUnsubscribe
<1>11. CASE HandleAck(r)
  BY <1>5, <1>7, <1>11 DEF HandleAck
<1> QED BY <1>1, <1>9, <1>10, <1>11

------------------------------------------------------------------------------

LEMMA AuthorityStep ==
  ASSUME Typed, BlockedIsSilent, "halfday" \notin Disturbances, AuthorityInv, Next
  PROVE  AuthorityInv'
<1>1. NothingCut /\ (NoPause(requests') => NothingCut')
  BY UncutStep DEF AuthorityInv
<1>2. ASSUME Steady, OthersAnswered, CommandRests PROVE AuthorityInv'
  <2>1. NothingCut'
    BY <1>1, <1>2 DEF Steady, Thins, NothingCut
  <2> QED BY <1>2, <2>1, RestsAuthority
<1>3. CASE \/ Connect
           \/ \E r \in Restorers : RestoreStart(r) \/ RestoreStep(r)
           \/ \E h \in Hooks : JobStep(h) \/ \E m \in Messages : Sweep(h, m)
           \/ \E w \in Waiters \ {Command} : TimeOut(w)
  BY <1>1, <1>2, <1>3, DaemonSteady
<1>4. CASE \/ Expire \/ Revalidate
           \/ \E t \in Tokens : Login(t)
           \/ \E h \in Hooks : Settle(h) \/ Steal(h) \/ DetachElsewhere(h) \/ HalfDay(h)
           \/ \E m \in Messages : Mute(m) \/ PruneInbox(m) \/ Grow(m)
  BY <1>2, <1>4, WorldSteady
<1>5. CASE SendPause \/ \E h \in Hooks : Offer(h)
  BY <1>2, <1>5, OfferSteady, SendPauseSteady
<1>6. CASE Lose \/ Crash \/ Receive \/ Handle
  BY <1>1, <1>6, LoseAuthority, CrashAuthority, ReceiveAuthority, HandleAuthority
<1>7. CASE Reconnect \/ \E h \in Hooks : Attach(h)
  BY <1>1, <1>7, ReattachAuthority DEF Reconnect, Attach
<1>8. CASE CommandSave \/ \E h \in Hooks : CommandLeave(h)
  BY <1>1, <1>8, SaveAuthority, LeaveAuthority
<1>9. CASE \/ CommandGreeted \/ CommandBound \/ CommandUnhooked \/ CommandLeft \/ EndSession
           \/ CommandAborted \/ Logout \/ TimeOut(Command)
           \/ \E h \in Hooks : CommandPatch(h) \/ Unhook(h)
  <2>1. NoPause(requests')
    <3>1. NoPause(requests) /\ Command \in Waiters
      BY <1>1, CommandIs DEF NothingCut
    <3>2. CASE CommandAborted \/ TimeOut(Command)
      BY <3>1, <3>2, ForsakeThins DEF CommandAborted, TimeOut, Thins
    <3>3. CASE ~(CommandAborted \/ TimeOut(Command))
      <4>1. UNCHANGED requests
        BY <1>9, <3>3 DEF CommandGreeted, CommandBound, CommandUnhooked, CommandLeft, EndSession,
           Logout, CommandPatch, Unhook
      <4> QED BY <3>1, <4>1
    <3> QED BY <3>2, <3>3
  <2>2. NothingCut'
    BY <1>1, <2>1
  <2> QED BY <1>9, <2>2, CommandAuthority, TimeOutAuthority
<1>10. \A w \in Waiters : w = Command \/ w \in Waiters \ {Command}
  OBVIOUS
<1> QED
  BY <1>3, <1>4, <1>5, <1>6, <1>7, <1>8, <1>9, <1>10 DEF Next, CommandStep

LEMMA AuthorityStays == ASSUME AuthorityInv, UNCHANGED vars PROVE AuthorityInv'
<1>1. UNCHANGED <<hooks, socket, restores, command, wait, requests, frames, pauses, server>>
  BY DEF vars, disk, tasks, link, remote
<1>2. NothingCut' /\ LeavesBlocked' /\ CommandAsks'
  BY <1>1 DEF AuthorityInv, NothingCut, NoPause, LeavesBlocked, UnsubscribeOnly, CommandAsks,
     CommandOnce, OfCommand
<1>3. \A h : Safe(h)' <=> Safe(h)
  BY <1>1 DEF Safe, Paused, Told
<1>4. Authority' /\ \A i : SafeFrom(i) => SafeFrom(i)'
  BY <1>1, <1>3 DEF AuthorityInv, Authority, SafeFrom
<1>5. GreetsLast'
  BY <1>1, <1>4 DEF AuthorityInv, GreetsLast, Greeted, NoUnsubscribe, NoneAfterCommand
<1> QED BY <1>2, <1>4, <1>5 DEF AuthorityInv

(* While no hook is past its twelve hours, a hook the daemon works for is   *)
(* bound to its connection or word to the contrary is on its way, whatever  *)
(* late answers, lost connections, logouts and takeovers cross each other.  *)
THEOREM AuthorizedBound == "halfday" \notin Disturbances => (Spec => []AuthorizedIsBound)
<1> SUFFICES ASSUME "halfday" \notin Disturbances PROVE Spec => []AuthorizedIsBound
  OBVIOUS
<1>1. Typed /\ BlockedIsSilent /\ AuthorityInv /\ [Next]_vars => AuthorityInv'
  BY AuthorityStep, AuthorityStays
<1>2. AuthorityInv => AuthorizedIsBound
  BY AuthorityBinds DEF AuthorityInv
<1> QED BY <1>1, <1>2, AuthorityInit, TypedAlways, BlockHolds, PTL DEF Spec
==============================================================================
