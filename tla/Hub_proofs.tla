----------------------------- MODULE Hub_proofs -----------------------------
(***************************************************************************)
(* Proofs about Hub: for every number of connections, requests, sessions   *)
(* and hooks, queues of every length, and any number of disturbances.      *)
(***************************************************************************)
EXTENDS Hub, SequenceTheorems, TLAPS

HookRecords == [state : HookStates, to : Receivers \cup {None}, by : Sessions \cup {None}]
Messages == [hooks : SUBSET Hooks, watch : BOOLEAN]
HubRecords ==
  [open : BOOLEAN, queue : Seq(Messages), cut : BOOLEAN, auth : SUBSET Sessions,
   watch : Sessions \cup {None}]
TaskRecords ==
  [at : Stages, op : Ops, of : Accounts \cup {None}, by : SUBSET Sessions, hooks : SUBSET Hooks,
   to : Receivers \cup {None}, rows : SUBSET ((Receivers \cup Sessions) \X Hooks)]

(***************************************************************************)
(* The invariant.                                                          *)
(***************************************************************************)
SessionsOK ==
  /\ active \subseteq Sessions /\ valid \subseteq Sessions /\ pending \subseteq Sessions
  /\ ended \subseteq Sessions /\ ended \cap valid = {}
  /\ disturbed \in 0 .. MaxDisturbed

ReceiverOK(q) == q \in HubRecords /\ Len(q.queue) <= Capacity
HubOK ==
  /\ hub \in [Receivers -> HubRecords] /\ \A r \in Receivers : ReceiverOK(hub[r])
  /\ told \in [Receivers -> SUBSET Hooks]

(* A hook has a receiver and a session exactly while it is connected.       *)
HookOK(o) ==
  /\ o \in HookRecords
  /\ o.to # None <=> o.state = "connected"
  /\ o.to # None => o.by \in Sessions

(* What is out, is out under the session of the binding, and under none     *)
(* that has ended.                                                          *)
StoreOK ==
  /\ hooks \in [Hooks -> HookRecords] /\ out \in [Hooks -> Sessions \cup {None}]
  /\ \A h \in Hooks :
       /\ HookOK(hooks[h])
       /\ hooks[h].to # None => hub[hooks[h].to].open
       /\ out[h] # None => hooks[h].to # None /\ out[h] = hooks[h].by /\ out[h] \notin ended

(* What a task remembers, whatever the state.                               *)
BindOps == {"subscribe", "attach", "takeover", "create"}
Handles(o) == o.at \in {"asking", "waiting", "checked", "finishing", "revoking"}
ShapeOK(t, o) ==
  /\ o \in TaskRecords
  /\ Handles(o) /\ o.op \in BindOps \cup {"watch", "logout"} => o.by # {}
  /\ Handles(o) /\ o.op \in BindOps => o.to \in Receivers
  /\ Handles(o) /\ o.op \in {"subscribe", "watch", "unsubscribe", "pause"} => t \in Receivers
  /\ Handles(o) /\ o.op = "subscribe" => o.to = t
  /\ o.at = "revoking" => o.op = "logout"

(* Where it stands with regard to the state.                                *)
HoldsGate(o) ==
  \/ o.at \in {"checked", "offering", "putting", "dropping"}
  \/ o.at = "finishing" /\ o.op # "logout"
Deletes(o) == o.at = "revoking" \/ (o.at = "finishing" /\ o.op = "logout")
PlaceOK(t) ==
  /\ HoldsGate(task[t]) => gate = t
  /\ Deletes(task[t]) => task[t].by \cap valid = {}
  /\ task[t].at = "checked" /\ task[t].op \in BindOps => hub[task[t].to].open
  /\ t \in Receivers => (hub[t].open <=> task[t].at \notin {"closed", "gone"})

(* The rows of an offer name the session of every hook that is still bound  *)
(* to the connection, and a hook whose session was found usable is not      *)
(* bound under one whose deletion was answered since.                       *)
OfferOK(t) ==
  /\ task[t].at \in {"offering", "putting", "dropping"} =>
       \A s \in Receivers \cup Sessions, h \in Hooks :
         <<s, h>> \in task[t].rows /\ hooks[h].to = t => hooks[h].by = s
  /\ task[t].at = "putting" =>
       \A h \in task[t].hooks : hooks[h].to = t => hooks[h].by \notin ended

TasksOK ==
  /\ task \in [Tasks -> TaskRecords] /\ gate \in Tasks \cup {None}
  /\ \A t \in Tasks : ShapeOK(t, task[t]) /\ PlaceOK(t) /\ OfferOK(t)

HubInv == SessionsOK /\ HubOK /\ StoreOK /\ TasksOK

LEMMA InvIsTyped == HubInv => TypeOK
BY DEF HubInv, SessionsOK, HubOK, ReceiverOK, StoreOK, TasksOK, TypeOK, HookRecords, Messages,
       HubRecords, TaskRecords

------------------------------------------------------------------------------
(* Records.                                                                 *)

LEMMA IdleOK ==
  /\ Idle \in TaskRecords /\ Idle.at = "idle"
  /\ \A t : ShapeOK(t, Idle)
<1>1. Idle \in TaskRecords /\ Idle.at = "idle"
  BY DEF Idle, Handler, TaskRecords, Stages, Ops
<1> QED BY <1>1 DEF ShapeOK, Handles

(* A task that stands still otherwise.                                      *)
LEMMA ParkedOK ==
  ASSUME NEW at \in {"closed", "broken", "gone"}
  PROVE  /\ [Idle EXCEPT !.at = at] \in TaskRecords /\ [Idle EXCEPT !.at = at].at = at
         /\ \A t : ShapeOK(t, [Idle EXCEPT !.at = at])
<1> DEFINE o == [Idle EXCEPT !.at = at]
<1>1. o \in TaskRecords /\ o.at = at
  BY DEF Idle, Handler, TaskRecords, Stages, Ops
<1> HIDE DEF o
<1>2. \A t : ShapeOK(t, o)
  BY <1>1 DEF ShapeOK, Handles
<1> QED BY <1>1, <1>2 DEF o

LEMMA NoReceiverOK == ReceiverOK(NoReceiver) /\ NoReceiver.open = FALSE
<1>1. NoReceiver \in HubRecords /\ NoReceiver.open = FALSE /\ NoReceiver.queue = <<>>
  BY DEF NoReceiver, HubRecords
<1> QED BY <1>1, HubAssumption DEF ReceiverOK

(* Queueing keeps a receiver as open as it was.                             *)
LEMMA DeliverOK ==
  ASSUME NEW q, ReceiverOK(q), NEW msg \in Messages
  PROVE  ReceiverOK(Deliver(q, msg)) /\ Deliver(q, msg).open = q.open
<1>1. q \in HubRecords /\ Len(q.queue) <= Capacity /\ Len(q.queue) \in Nat
  BY LenProperties DEF ReceiverOK, HubRecords
<1>2. CASE q.open /\ ~q.cut /\ Len(q.queue) < Capacity
  <2> DEFINE longer == Append(q.queue, msg)
             d == [q EXCEPT !.queue = longer]
  <2>1. longer \in Seq(Messages) /\ Len(longer) = Len(q.queue) + 1
    BY <1>1, AppendProperties DEF HubRecords
  <2>2. Deliver(q, msg) = d
    BY <1>2 DEF Deliver
  <2> HIDE DEF longer
  <2>3. d \in HubRecords /\ d.queue = longer /\ d.open = q.open
    BY <1>1, <2>1 DEF HubRecords
  <2> HIDE DEF d
  <2> QED BY <1>1, <1>2, <2>1, <2>2, <2>3, HubAssumption DEF ReceiverOK
<1>3. CASE q.open /\ ~q.cut /\ ~(Len(q.queue) < Capacity)
  <2> DEFINE d == [q EXCEPT !.cut = TRUE]
  <2>1. Deliver(q, msg) = d
    BY <1>3 DEF Deliver
  <2>2. d \in HubRecords /\ d.queue = q.queue /\ d.open = q.open
    BY <1>1 DEF HubRecords
  <2> HIDE DEF d
  <2> QED BY <1>1, <2>1, <2>2 DEF ReceiverOK
<1>4. CASE ~q.open \/ q.cut
  BY <1>4 DEF Deliver
<1> QED BY <1>2, <1>3, <1>4

LEMMA ForgetOK ==
  ASSUME NEW q, ReceiverOK(q), NEW s \in Sessions
  PROVE  ReceiverOK(Forget(q, s)) /\ Forget(q, s).open = q.open
<1> DEFINE kept == [q EXCEPT !.auth = @ \ {s}]
           deaf == [kept EXCEPT !.watch = None]
<1>1. kept \in HubRecords /\ kept.queue = q.queue /\ kept.open = q.open
  BY DEF ReceiverOK, HubRecords
<1> HIDE DEF kept
<1>2. deaf \in HubRecords /\ deaf.queue = q.queue /\ deaf.open = q.open
  BY <1>1 DEF HubRecords
<1> HIDE DEF deaf
<1>3. ReceiverOK(kept) /\ ReceiverOK(deaf)
  BY <1>1, <1>2 DEF ReceiverOK
<1>4. Pause({}, TRUE) \in Messages
  BY DEF Pause, Messages
<1>5. ReceiverOK(Deliver(deaf, Pause({}, TRUE))) /\ Deliver(deaf, Pause({}, TRUE)).open = deaf.open
  BY <1>3, <1>4, DeliverOK
<1> QED BY <1>1, <1>2, <1>3, <1>5 DEF Forget, kept, deaf

(* Queues of every receiver that are as open as they were.                  *)
Queued(q) ==
  /\ q \in [Receivers -> HubRecords]
  /\ \A r \in Receivers : ReceiverOK(q[r]) /\ q[r].open = hub[r].open

LEMMA SameQueued == ASSUME HubInv PROVE Queued(hub)
BY DEF HubInv, HubOK, Queued

LEMMA PauseAllOK == ASSUME HubInv, NEW rows PROVE Queued(PauseAll(rows))
<1> SUFFICES ASSUME NEW r \in Receivers
             PROVE  ReceiverOK(PauseAll(rows)[r]) /\ PauseAll(rows)[r].open = hub[r].open
  BY DEF Queued, PauseAll, ReceiverOK
<1> DEFINE hs == {h \in Hooks : <<r, h>> \in rows}
<1>1. ReceiverOK(hub[r])
  BY DEF HubInv, HubOK
<1>2. Pause(hs, FALSE) \in Messages
  BY DEF Pause, Messages
<1>3. PauseAll(rows)[r] = IF hs = {} THEN hub[r] ELSE Deliver(hub[r], Pause(hs, FALSE))
  BY DEF PauseAll
<1> HIDE DEF hs
<1> QED BY <1>1, <1>2, <1>3, DeliverOK

LEMMA HintedOK == ASSUME NEW q, Queued(q), NEW a PROVE Queued(Hinted(q, a))
<1> SUFFICES ASSUME NEW r \in Receivers
             PROVE  ReceiverOK(Hinted(q, a)[r]) /\ Hinted(q, a)[r].open = hub[r].open
  BY DEF Queued, Hinted, ReceiverOK
<1>1. ReceiverOK(q[r]) /\ q[r].open = hub[r].open
  BY DEF Queued
<1>2. Hint \in Messages
  BY DEF Hint, Pause, Messages
<1> QED BY <1>1, <1>2, DeliverOK DEF Hinted
------------------------------------------------------------------------------
(* A step of one task.                                                      *)

GateMoves(t) == gate' = gate \/ (gate = None /\ gate' = t) \/ (gate = t /\ gate' = None)

(* Who does not hold the gate, while another task does, unbinds at most.    *)
BindsUnderGate(t) ==
  gate \in {None, t} \/ \A h \in Hooks : hooks'[h] = hooks[h] \/ hooks'[h].to = None
NoneEnds == \A h \in Hooks : hooks'[h].to # None => hooks'[h].by \notin ended' \ ended
HubMoves(t) ==
  /\ hub' \in [Receivers -> HubRecords] /\ \A r \in Receivers : ReceiverOK(hub'[r])
  /\ \A r \in Receivers \ {t} : hub'[r].open = hub[r].open
  /\ t \in Receivers /\ hub[t].open /\ gate \notin {None, t} => hub'[t].open

(* What the task becomes fits the state that the step leaves.               *)
OfferFits(t, o) ==
  /\ o.at \in {"offering", "putting", "dropping"} =>
       \A s \in Receivers \cup Sessions, h \in Hooks :
         <<s, h>> \in o.rows /\ hooks'[h].to = t => hooks'[h].by = s
  /\ o.at = "putting" =>
       \A h \in o.hooks : hooks'[h].to = t => hooks'[h].by \notin ended'
Fits(t, o) ==
  /\ HoldsGate(o) => gate' = t
  /\ Deletes(o) => o.by \cap valid' = {}
  /\ o.at = "checked" /\ o.op \in BindOps => hub'[o.to].open
  /\ t \in Receivers => (hub'[t].open <=> o.at \notin {"closed", "gone"})
  /\ OfferFits(t, o)

Becomes(t, o) == ShapeOK(t, o) /\ Fits(t, o) /\ task' = [task EXCEPT ![t] = o]

LEMMA NoneIsNoTask == None \notin Tasks
BY HubAssumption DEF Tasks

LEMMA OthersOK ==
  ASSUME HubInv, NEW t \in Tasks, NEW u \in Tasks \ {t}, task'[u] = task[u],
         GateMoves(t), BindsUnderGate(t), NoneEnds, HubMoves(t), valid' \subseteq valid
  PROVE  ShapeOK(u, task'[u]) /\ PlaceOK(u)' /\ OfferOK(u)'
<1>1. ShapeOK(u, task[u]) /\ PlaceOK(u) /\ OfferOK(u) /\ None \notin Tasks
  BY NoneIsNoTask DEF HubInv, TasksOK
<1>2. HoldsGate(task[u]) => gate = u /\ gate' = u /\ gate \notin {None, t}
  BY <1>1 DEF PlaceOK, GateMoves
<1>3. PlaceOK(u)'
  <2>1. Deletes(task[u]) => task[u].by \cap valid' = {}
    BY <1>1 DEF PlaceOK
  <2>2. task[u].at = "checked" /\ task[u].op \in BindOps => hub'[task[u].to].open
    <3> HAVE task[u].at = "checked" /\ task[u].op \in BindOps
    <3>1. task[u].to \in Receivers /\ hub[task[u].to].open /\ gate \notin {None, t}
      BY <1>1, <1>2 DEF ShapeOK, Handles, PlaceOK, HoldsGate
    <3> QED BY <3>1 DEF HubMoves
  <2>3. u \in Receivers => (hub'[u].open <=> task[u].at \notin {"closed", "gone"})
    BY <1>1 DEF PlaceOK, HubMoves
  <2> QED BY <1>2, <2>1, <2>2, <2>3 DEF PlaceOK
<1>4. OfferOK(u)'
  <2> SUFFICES ASSUME task[u].at \in {"offering", "putting", "dropping"}
               PROVE  OfferOK(u)'
    BY DEF OfferOK
  <2>1. \A h \in Hooks : hooks'[h] = hooks[h] \/ hooks'[h].to = None
    BY <1>2 DEF HoldsGate, BindsUnderGate
  <2>2. \A h \in Hooks : hooks'[h].to = u =>
          hooks'[h] = hooks[h] /\ hooks'[h].by \notin ended' \ ended
    BY <1>1, <2>1 DEF NoneEnds
  <2>3. task[u].hooks \subseteq Hooks
    BY <1>1 DEF ShapeOK, TaskRecords
  <2> QED BY <1>1, <2>2, <2>3 DEF OfferOK
<1> QED BY <1>1, <1>3, <1>4

LEMMA StepOK ==
  ASSUME HubInv, NEW t \in Tasks, NEW o, Becomes(t, o),
         GateMoves(t), BindsUnderGate(t), NoneEnds, HubMoves(t), valid' \subseteq valid,
         SessionsOK', StoreOK', told' \in [Receivers -> SUBSET Hooks]
  PROVE  HubInv'
<1>1. task' \in [Tasks -> TaskRecords] /\ task'[t] = o /\ \A u \in Tasks \ {t} : task'[u] = task[u]
  BY DEF HubInv, TasksOK, Becomes, ShapeOK
<1>2. gate' \in Tasks \cup {None}
  BY DEF HubInv, TasksOK, GateMoves
<1>3. ShapeOK(t, task'[t]) /\ PlaceOK(t)' /\ OfferOK(t)'
  BY <1>1 DEF Becomes, Fits, OfferFits, PlaceOK, OfferOK
<1>4. \A u \in Tasks : ShapeOK(u, task'[u]) /\ PlaceOK(u)' /\ OfferOK(u)'
  BY <1>1, <1>3, OthersOK
<1>5. TasksOK'
  BY <1>1, <1>2, <1>4 DEF TasksOK
<1>6. HubOK'
  BY DEF HubMoves, HubOK
<1> QED BY <1>5, <1>6 DEF HubInv

(* A step that leaves the store and the queues alone.                       *)
LEMMA QuietStep ==
  ASSUME HubInv, NEW t \in Tasks, NEW o, Becomes(t, o), GateMoves(t),
         SessionsOK', valid' \subseteq valid, UNCHANGED <<hooks, out, hub, told, ended>>
  PROVE  HubInv'
<1>1. BindsUnderGate(t) /\ NoneEnds /\ HubMoves(t)
  BY DEF BindsUnderGate, NoneEnds, HubMoves, HubInv, HubOK
<1>2. StoreOK' /\ told' \in [Receivers -> SUBSET Hooks]
  BY DEF HubInv, StoreOK, HubOK
<1> QED BY <1>1, <1>2, StepOK

(* A step that leaves the store alone and queues at most.                   *)
LEMMA QueueingStep ==
  ASSUME HubInv, NEW t \in Tasks, NEW o, Becomes(t, o), GateMoves(t), Queued(hub'),
         told' \in [Receivers -> SUBSET Hooks], UNCHANGED <<sessions, hooks, out, ended, disturbed>>
  PROVE  HubInv'
<1>1. BindsUnderGate(t) /\ NoneEnds /\ HubMoves(t)
  BY DEF BindsUnderGate, NoneEnds, HubMoves, Queued
<1>2. SessionsOK' /\ valid' \subseteq valid
  BY DEF HubInv, SessionsOK, sessions
<1>3. StoreOK'
  BY DEF HubInv, StoreOK, HookOK, HookRecords, Queued
<1> QED BY <1>1, <1>2, <1>3, StepOK

(* What a task may become without holding the gate or deleting a session.   *)
LEMMA RestFits ==
  ASSUME NEW t, NEW o, ~HoldsGate(o), ~Deletes(o),
         t \in Receivers => (hub'[t].open <=> o.at \notin {"closed", "gone"})
  PROVE  Fits(t, o)
BY DEF Fits, OfferFits, HoldsGate, Deletes

LEMMA EndsOK ==
  ASSUME HubInv, NEW t \in Tasks, task[t].at \notin {"closed", "gone"}, End(t),
         t \in Receivers => hub'[t].open = hub[t].open
  PROVE  Becomes(t, Idle) /\ GateMoves(t)
<1>1. t \in Receivers => hub[t].open
  BY DEF HubInv, TasksOK, PlaceOK
<1>2. ~HoldsGate(Idle) /\ ~Deletes(Idle) /\ Idle.at \notin {"closed", "gone"}
  BY IdleOK DEF HoldsGate, Deletes
<1>3. Fits(t, Idle)
  BY <1>1, <1>2, RestFits
<1> QED BY <1>3, IdleOK DEF Becomes, End, LetGo, GateMoves

(* The bound on what happens.                                               *)
LEMMA DisturbOK ==
  ASSUME HubInv, NEW kind, Disturb(kind) PROVE disturbed' \in 0 .. MaxDisturbed
BY HubAssumption DEF HubInv, SessionsOK, Disturb

(* What is known of one task.                                               *)
LEMMA TaskIs ==
  ASSUME HubInv, NEW t \in Tasks
  PROVE  ShapeOK(t, task[t]) /\ PlaceOK(t) /\ OfferOK(t) /\ task[t] \in TaskRecords
BY DEF HubInv, TasksOK, ShapeOK

------------------------------------------------------------------------------
(* Releasing and binding hooks.                                             *)

LEMMA ReleaseStep ==
  ASSUME HubInv, NEW t \in Tasks, NEW o, Becomes(t, o), GateMoves(t), HubMoves(t),
         SessionsOK', valid' \subseteq valid, told' \in [Receivers -> SUBSET Hooks],
         NEW hs, NEW state \in HookStates \ {"connected"}, Hand(hs, state, None, None),
         \A h \in Hooks \ hs : hooks[h].to # None =>
           hub'[hooks[h].to].open /\ hooks[h].by \notin ended' \ ended
  PROVE  HubInv'
<1> DEFINE free == [state |-> state, to |-> None, by |-> None]
<1>1. free \in HookRecords /\ free.to = None /\ free.state # "connected"
  BY DEF HookRecords
<1>2. \A h \in Hooks : hooks'[h] = (IF h \in hs THEN free ELSE hooks[h])
                       /\ out'[h] = (IF h \in hs THEN None ELSE out[h])
  BY DEF Hand
<1> HIDE DEF free
<1>3. StoreOK
  BY DEF HubInv
<1>4. hooks' \in [Hooks -> HookRecords] /\ out' \in [Hooks -> Sessions \cup {None}]
  <2>1. \A h \in Hooks : hooks'[h] \in HookRecords /\ out'[h] \in Sessions \cup {None}
    BY <1>1, <1>2, <1>3 DEF StoreOK
  <2>2. hooks' = [h \in Hooks |-> hooks'[h]] /\ out' = [h \in Hooks |-> out'[h]]
    BY DEF Hand
  <2> QED BY <2>1, <2>2
<1>5. ASSUME NEW h \in Hooks
      PROVE  /\ HookOK(hooks'[h])
             /\ hooks'[h].to # None => hub'[hooks'[h].to].open
             /\ out'[h] # None =>
                  hooks'[h].to # None /\ out'[h] = hooks'[h].by /\ out'[h] \notin ended'
  <2>1. CASE h \in hs
    BY <1>1, <1>2, <2>1 DEF HookOK
  <2>2. CASE h \notin hs
    BY <1>2, <1>3, <2>2 DEF StoreOK
  <2> QED BY <2>1, <2>2
<1>6. StoreOK'
  BY <1>4, <1>5 DEF StoreOK
<1>7. BindsUnderGate(t) /\ NoneEnds
  BY <1>1, <1>2 DEF BindsUnderGate, NoneEnds
<1> QED BY <1>6, <1>7, StepOK

LEMMA BindStep ==
  ASSUME HubInv, NEW t \in Tasks, NEW o, Becomes(t, o), GateMoves(t), gate = t,
         NEW hs, NEW r \in Receivers, NEW s \in Sessions, hub[r].open,
         Hand(hs, "connected", r, s), UNCHANGED <<sessions, hub, told, ended, disturbed>>
  PROVE  HubInv'
<1> DEFINE held == [state |-> "connected", to |-> r, by |-> s]
<1>1. held \in HookRecords /\ held.to = r /\ held.state = "connected" /\ held.by = s /\ r # None
  BY HubAssumption DEF HookRecords, HookStates
<1>2. \A h \in Hooks : hooks'[h] = (IF h \in hs THEN held ELSE hooks[h])
                       /\ out'[h] = (IF h \in hs THEN None ELSE out[h])
  BY DEF Hand
<1> HIDE DEF held
<1>3. StoreOK
  BY DEF HubInv
<1>4. hooks' \in [Hooks -> HookRecords] /\ out' \in [Hooks -> Sessions \cup {None}]
  <2>1. \A h \in Hooks : hooks'[h] \in HookRecords /\ out'[h] \in Sessions \cup {None}
    BY <1>1, <1>2, <1>3 DEF StoreOK
  <2>2. hooks' = [h \in Hooks |-> hooks'[h]] /\ out' = [h \in Hooks |-> out'[h]]
    BY DEF Hand
  <2> QED BY <2>1, <2>2
<1>5. ASSUME NEW h \in Hooks
      PROVE  /\ HookOK(hooks'[h])
             /\ hooks'[h].to # None => hub'[hooks'[h].to].open
             /\ out'[h] # None =>
                  hooks'[h].to # None /\ out'[h] = hooks'[h].by /\ out'[h] \notin ended'
  <2>1. CASE h \in hs
    BY <1>1, <1>2, <2>1 DEF HookOK
  <2>2. CASE h \notin hs
    BY <1>2, <1>3, <2>2 DEF StoreOK
  <2> QED BY <2>1, <2>2
<1>6. StoreOK'
  BY <1>4, <1>5 DEF StoreOK
<1>7. BindsUnderGate(t) /\ NoneEnds /\ HubMoves(t)
  BY DEF BindsUnderGate, NoneEnds, HubMoves, HubInv, HubOK
<1>8. SessionsOK' /\ valid' \subseteq valid /\ told' \in [Receivers -> SUBSET Hooks]
  BY DEF HubInv, SessionsOK, HubOK, sessions
<1> QED BY <1>6, <1>7, <1>8, StepOK

------------------------------------------------------------------------------
(* The start.                                                               *)

LEMMA InitOK == Init => HubInv
<1> SUFFICES ASSUME Init PROVE HubInv
  OBVIOUS
<1>1. SessionsOK
  BY HubAssumption DEF Init, SessionsOK
<1>2. HubOK
  BY NoReceiverOK DEF Init, HubOK, ReceiverOK
<1>3. StoreOK
  BY DEF Init, StoreOK, HookOK, HookRecords, HookStates
<1> DEFINE shut == [Idle EXCEPT !.at = "closed"]
<1>4. ASSUME NEW t \in Tasks
      PROVE  /\ task[t] \in TaskRecords /\ ShapeOK(t, task[t])
             /\ IF t \in Receivers THEN task[t].at = "closed" ELSE task[t].at = "idle"
  BY IdleOK, ParkedOK DEF Init
<1>5. \A t \in Tasks : PlaceOK(t) /\ OfferOK(t)
  BY <1>4, NoReceiverOK DEF PlaceOK, OfferOK, HoldsGate, Deletes, Init
<1>6. task \in [Tasks -> TaskRecords] /\ gate \in Tasks \cup {None}
  BY <1>4 DEF Init
<1> QED BY <1>1, <1>2, <1>3, <1>4, <1>5, <1>6 DEF HubInv, TasksOK
------------------------------------------------------------------------------
(* Steps that leave the store and the queues alone.                         *)

LEMMA BeginOK ==
  ASSUME HubInv, NEW t \in Tasks, NEW op \in Ops \ {"logout"}, NEW of \in Accounts \cup {None},
         NEW by \in SUBSET Sessions, NEW hs \in SUBSET Hooks, NEW to \in Receivers \cup {None},
         Begin(t, op, of, by, hs, to),
         op \in BindOps \cup {"watch"} => by # {},
         op \in BindOps => to \in Receivers,
         op \in {"subscribe", "watch", "unsubscribe", "pause"} => t \in Receivers,
         op = "subscribe" => to = t
  PROVE  HubInv'
<1> DEFINE o == Handler("asking", op, of, by, hs, to)
<1>2. task' = [task EXCEPT ![t] = o] /\ UNCHANGED <<sessions, store, gate, hub, told, ended>>
  BY DEF Begin, Silent
<1>3. o \in TaskRecords /\ o.at = "asking" /\ o.op = op /\ o.by = by /\ o.to = to
  BY DEF Handler, TaskRecords, Stages
<1> HIDE DEF o
<1>4. ShapeOK(t, o)
  BY <1>3 DEF ShapeOK, Handles
<1>5. Fits(t, o)
  BY <1>2, <1>3, TaskIs, RestFits DEF HoldsGate, Deletes, PlaceOK, Begin
<1>6. SessionsOK' /\ valid' \subseteq valid
  BY <1>2, DisturbOK DEF HubInv, SessionsOK, sessions, Begin
<1> QED BY <1>2, <1>4, <1>5, <1>6, QuietStep DEF Becomes, GateMoves, store

(* What a bound hook is bound under is a session.                           *)
LEMMA BoundOK ==
  ASSUME HubInv, NEW r, NEW h \in Bound(r)
  PROVE  h \in Hooks /\ hooks[h].to = r /\ hooks[h].to # None /\ hooks[h].by \in Sessions
BY DEF HubInv, StoreOK, HookOK, Bound

LEMMA FrameOK == ASSUME HubInv, NEW r \in Receivers, Frame(r) PROVE HubInv'
<1>1. r \in Tasks
  BY DEF Tasks
<1>2. ASSUME NEW s \in Sessions, NEW hs \in SUBSET HooksOf(Owner[s]),
             Begin(r, "subscribe", Owner[s], {s}, hs, r)
      PROVE  HubInv'
  BY <1>1, <1>2, BeginOK DEF Ops, Accounts, HooksOf, BindOps
<1>3. ASSUME NEW s \in Sessions, Begin(r, "watch", Owner[s], {s}, {}, r) PROVE HubInv'
  BY <1>1, <1>3, BeginOK DEF Ops, Accounts, BindOps
<1>4. ASSUME NEW op \in {"unsubscribe", "pause"}, NEW hs \in SUBSET Bound(r) \ {{}},
             Begin(r, op, None, {hooks[h].by : h \in hs}, hs, r)
      PROVE  HubInv'
  <2>1. {hooks[h].by : h \in hs} \in SUBSET Sessions /\ hs \in SUBSET Hooks
    BY BoundOK
  <2>2. op \in Ops \ {"logout"} /\ op \notin BindOps \cup {"watch"} /\ op # "subscribe"
    BY DEF Ops, BindOps
  <2> QED BY <1>1, <1>4, <2>1, <2>2, BeginOK
<1>5. ASSUME NEW h \in Bound(r), Begin(r, "ack", Owner[h], {hooks[h].by}, {h}, r) PROVE HubInv'
  BY <1>1, <1>5, BoundOK, BeginOK DEF Ops, Accounts, BindOps
<1>6. ASSUME NEW a \in Accounts, Begin(r, "hint", a, {}, {}, None) PROVE HubInv'
  BY <1>1, <1>6, BeginOK DEF Ops, BindOps
<1> QED BY <1>2, <1>3, <1>4, <1>5, <1>6 DEF Frame

LEMMA RequestOK == ASSUME HubInv, NEW c \in Callers, Request(c) PROVE HubInv'
<1>1. c \in Tasks
  BY DEF Tasks
<1>2. ASSUME NEW s \in Sessions, NEW h \in Hooks, Begin(c, "detach", Owner[s], {s}, {h}, None)
      PROVE  HubInv'
  BY <1>1, <1>2, BeginOK DEF Ops, Accounts, BindOps
<1>3. ASSUME NEW s \in Sessions, NEW h \in Hooks, NEW r \in Receivers,
             NEW op \in {"attach", "takeover", "create"}, Begin(c, op, Owner[s], {s}, {h}, r)
      PROVE  HubInv'
  BY <1>1, <1>3, BeginOK DEF Ops, Accounts, BindOps
<1>4. ASSUME NEW a \in Accounts, NEW op \in {"invalidate", "hint"},
             NEW by \in {{}} \cup {{s} : s \in Sessions}, Begin(c, op, a, by, {}, None)
      PROVE  HubInv'
  <2>1. by \in SUBSET Sessions
    OBVIOUS
  <2>2. op \in Ops \ {"logout"} /\ op \notin BindOps \cup {"watch"} /\ op # "subscribe"
        /\ op \notin {"subscribe", "watch", "unsubscribe", "pause"}
    BY DEF Ops, BindOps
  <2> QED BY <1>1, <1>4, <2>1, <2>2, BeginOK
<1> QED BY <1>2, <1>3, <1>4 DEF Request

(* Ending without having changed anything else.                             *)
LEMMA EndStep ==
  ASSUME HubInv, NEW t \in Tasks, task[t].at \notin {"closed", "gone"}, End(t),
         UNCHANGED <<sessions, store, hub, told, ended>>, disturbed' \in 0 .. MaxDisturbed
  PROVE  HubInv'
<1>1. Becomes(t, Idle) /\ GateMoves(t)
  BY EndsOK
<1>2. SessionsOK' /\ valid' \subseteq valid
  BY DEF HubInv, SessionsOK, sessions
<1> QED BY <1>1, <1>2, QuietStep DEF store

LEMMA Undisturbed == ASSUME HubInv, UNCHANGED disturbed PROVE disturbed' \in 0 .. MaxDisturbed
BY DEF HubInv, SessionsOK

(* What a task becomes that only moves on to another place.                 *)
LEMMA GotoShape ==
  ASSUME HubInv, NEW t \in Tasks, NEW at \in Stages
  PROVE  LET o == [task[t] EXCEPT !.at = at] IN
         /\ o \in TaskRecords /\ o.at = at /\ o.op = task[t].op /\ o.by = task[t].by
         /\ o.hooks = task[t].hooks /\ o.to = task[t].to /\ o.rows = task[t].rows
BY TaskIs DEF TaskRecords

LEMMA AuthenticateOK == ASSUME HubInv, NEW t \in Tasks, Authenticate(t) PROVE HubInv'
<1>1. task[t].at = "asking" /\ task[t].op # "logout"
      /\ UNCHANGED <<sessions, store, hub, told, ended>>
  BY DEF Authenticate, Silent
<1>2. CASE Goto(t, "waiting") /\ UNCHANGED <<gate, disturbed>>
  <2> DEFINE o == [task[t] EXCEPT !.at = "waiting"]
  <2>1. o \in TaskRecords /\ o.at = "waiting" /\ o.op = task[t].op /\ o.by = task[t].by
        /\ o.to = task[t].to
    BY GotoShape DEF Stages
  <2>2. task' = [task EXCEPT ![t] = o]
    BY <1>2 DEF Goto
  <2> HIDE DEF o
  <2>3. ShapeOK(t, o)
    BY <1>1, <2>1, TaskIs DEF ShapeOK, Handles
  <2>4. Fits(t, o)
    BY <1>1, <2>1, TaskIs, RestFits DEF HoldsGate, Deletes, PlaceOK
  <2>5. SessionsOK' /\ valid' \subseteq valid
    BY <1>1, <1>2 DEF HubInv, SessionsOK, sessions
  <2> QED BY <1>1, <1>2, <2>2, <2>3, <2>4, <2>5, QuietStep DEF Becomes, GateMoves, store
<1>3. CASE End(t) /\ UNCHANGED disturbed
  BY <1>1, <1>3, EndStep, Undisturbed
<1>4. CASE Disturb("outage") /\ End(t)
  BY <1>1, <1>4, EndStep, DisturbOK
<1> QED BY <1>2, <1>3, <1>4 DEF Authenticate

LEMMA EnterOK == ASSUME HubInv, NEW t \in Tasks, Enter(t) PROVE HubInv'
<1>1. task[t].at = "waiting" /\ gate = None
      /\ UNCHANGED <<sessions, store, disturbed, hub, told, ended>>
  BY DEF Enter, Silent
<1>2. CASE Admitted(t) /\ Take(t) /\ Goto(t, "checked")
  <2> DEFINE o == [task[t] EXCEPT !.at = "checked"]
  <2>1. o \in TaskRecords /\ o.at = "checked" /\ o.op = task[t].op /\ o.by = task[t].by
        /\ o.to = task[t].to
    BY GotoShape DEF Stages
  <2>2. task' = [task EXCEPT ![t] = o] /\ gate' = t
    BY <1>2 DEF Goto, Take
  <2> HIDE DEF o
  <2>3. ShapeOK(t, o)
    BY <1>1, <2>1, TaskIs DEF ShapeOK, Handles
  <2>4. o.op \in BindOps => hub[o.to].open
    <3>1. o.op = "subscribe" => o.to = t /\ t \in Receivers
      BY <2>1, <2>3 DEF ShapeOK, Handles
    <3>2. t \in Receivers => hub[t].open
      BY <1>1, TaskIs DEF PlaceOK
    <3> QED BY <1>2, <2>1, <3>1, <3>2 DEF Admitted, Authorized, BindOps
  <2>5. Fits(t, o)
    BY <1>1, <2>1, <2>2, <2>4, TaskIs DEF Fits, OfferFits, Deletes, PlaceOK
  <2>6. SessionsOK' /\ valid' \subseteq valid
    BY <1>1 DEF HubInv, SessionsOK, sessions
  <2> QED BY <1>1, <2>2, <2>3, <2>5, <2>6, QuietStep DEF Becomes, GateMoves, store
<1>3. CASE End(t)
  BY <1>1, <1>3, EndStep, Undisturbed
<1> QED BY <1>2, <1>3 DEF Enter

LEMMA CancelOK == ASSUME HubInv, NEW t \in Tasks, Cancel(t) PROVE HubInv'
BY EndStep, DisturbOK DEF Cancel, Silent
(* What a task becomes that moves on and remembers rows, or hooks and rows. *)
AllRows == (Receivers \cup Sessions) \X Hooks

MovesTo(t, at) ==
  task' = [task EXCEPT ![t] = task'[t]] /\ task'[t] \in TaskRecords /\ task'[t].at = at

LEMMA RowsShape ==
  ASSUME HubInv, NEW t \in Tasks, NEW at \in Stages, NEW rows \in SUBSET AllRows,
         task' = [task EXCEPT ![t].at = at, ![t].rows = rows]
  PROVE  /\ task' = [task EXCEPT ![t] = task'[t]] /\ task'[t] \in TaskRecords
         /\ task'[t].at = at /\ task'[t].op = task[t].op /\ task'[t].by = task[t].by
         /\ task'[t].hooks = task[t].hooks /\ task'[t].to = task[t].to /\ task'[t].rows = rows
<1> DEFINE moved == [task EXCEPT ![t].at = at]
           o == [task[t] EXCEPT !.at = at]
           p == [o EXCEPT !.rows = rows]
<1>1. task \in [Tasks -> TaskRecords]
  BY DEF HubInv, TasksOK
<1>2. o \in TaskRecords /\ o.at = at /\ o.op = task[t].op /\ o.by = task[t].by
      /\ o.hooks = task[t].hooks /\ o.to = task[t].to
  BY GotoShape
<1>3. moved = [task EXCEPT ![t] = o]
  OBVIOUS
<1>4. moved \in [Tasks -> TaskRecords] /\ moved[t] = o
  BY <1>1, <1>2, <1>3
<1>5. task' = [moved EXCEPT ![t].rows = rows]
  OBVIOUS
<1> HIDE DEF o, moved
<1>6. p \in TaskRecords /\ p.at = o.at /\ p.op = o.op /\ p.by = o.by
      /\ p.hooks = o.hooks /\ p.to = o.to /\ p.rows = rows
  BY <1>2 DEF TaskRecords, AllRows
<1>7. task' = [moved EXCEPT ![t] = p]
  BY <1>4, <1>5
<1> HIDE DEF p
<1>8. task' = [task EXCEPT ![t] = p] /\ task'[t] = p
  BY <1>1, <1>3, <1>4, <1>7
<1> QED BY <1>2, <1>6, <1>8
HoldsOn(t, at, hs) == task' = [task EXCEPT ![t].at = at, ![t].hooks = hs]

LEMMA HooksShape ==
  ASSUME HubInv, NEW t \in Tasks, NEW at \in Stages, NEW hs \in SUBSET Hooks,
         HoldsOn(t, at, hs)
  PROVE  /\ task' = [task EXCEPT ![t] = task'[t]] /\ task'[t] \in TaskRecords
         /\ task'[t].at = at /\ task'[t].op = task[t].op /\ task'[t].by = task[t].by
         /\ task'[t].hooks = hs /\ task'[t].to = task[t].to /\ task'[t].rows = task[t].rows
<1> DEFINE moved == [task EXCEPT ![t].at = at]
           o == [task[t] EXCEPT !.at = at]
           p == [o EXCEPT !.hooks = hs]
<1>1. task \in [Tasks -> TaskRecords]
  BY DEF HubInv, TasksOK
<1>2. o \in TaskRecords /\ o.at = at /\ o.op = task[t].op /\ o.by = task[t].by
      /\ o.rows = task[t].rows /\ o.to = task[t].to
  BY GotoShape
<1>3. moved = [task EXCEPT ![t] = o]
  OBVIOUS
<1>4. moved \in [Tasks -> TaskRecords] /\ moved[t] = o
  BY <1>1, <1>2, <1>3
<1>5. task' = [moved EXCEPT ![t].hooks = hs]
  BY DEF HoldsOn
<1> HIDE DEF o, moved
<1>6. p \in TaskRecords /\ p.at = o.at /\ p.op = o.op /\ p.by = o.by
      /\ p.rows = o.rows /\ p.to = o.to /\ p.hooks = hs
  BY <1>2 DEF TaskRecords
<1>7. task' = [moved EXCEPT ![t] = p]
  BY <1>4, <1>5
<1> HIDE DEF p
<1>8. task' = [task EXCEPT ![t] = p] /\ task'[t] = p
  BY <1>1, <1>3, <1>4, <1>7
<1> QED BY <1>2, <1>6, <1>8

MovesOn(t, at, hs, rows) == task' = [task EXCEPT ![t].at = at, ![t].hooks = hs, ![t].rows = rows]

LEMMA HooksRowsShape ==
  ASSUME HubInv, NEW t \in Tasks, NEW at \in Stages, NEW hs \in SUBSET Hooks,
         NEW rows \in SUBSET AllRows, MovesOn(t, at, hs, rows)
  PROVE  /\ task' = [task EXCEPT ![t] = task'[t]] /\ task'[t] \in TaskRecords
         /\ task'[t].at = at /\ task'[t].op = task[t].op /\ task'[t].by = task[t].by
         /\ task'[t].hooks = hs /\ task'[t].to = task[t].to /\ task'[t].rows = rows
<1> DEFINE moved == [task EXCEPT ![t].at = at]
           held == [moved EXCEPT ![t].hooks = hs]
           o == [task[t] EXCEPT !.at = at]
           p == [o EXCEPT !.hooks = hs]
           q == [p EXCEPT !.rows = rows]
<1>1. task \in [Tasks -> TaskRecords]
  BY DEF HubInv, TasksOK
<1>2. o \in TaskRecords /\ o.at = at /\ o.op = task[t].op /\ o.by = task[t].by
      /\ o.to = task[t].to
  BY GotoShape
<1>3. moved = [task EXCEPT ![t] = o]
  OBVIOUS
<1>4. moved \in [Tasks -> TaskRecords] /\ moved[t] = o
  BY <1>1, <1>2, <1>3
<1>5. task' = [held EXCEPT ![t].rows = rows]
  BY DEF MovesOn
<1> HIDE DEF o, moved
<1>6. p \in TaskRecords /\ p.at = o.at /\ p.op = o.op /\ p.by = o.by
      /\ p.to = o.to /\ p.hooks = hs
  BY <1>2 DEF TaskRecords
<1>7. held = [moved EXCEPT ![t] = p]
  BY <1>4
<1>8. held \in [Tasks -> TaskRecords] /\ held[t] = p
  BY <1>4, <1>6, <1>7
<1> HIDE DEF p, held
<1>9. q \in TaskRecords /\ q.at = p.at /\ q.op = p.op /\ q.by = p.by
      /\ q.to = p.to /\ q.hooks = p.hooks /\ q.rows = rows
  BY <1>6 DEF TaskRecords, AllRows
<1>10. task' = [held EXCEPT ![t] = q]
  BY <1>5, <1>8
<1> HIDE DEF q
<1>11. task' = [task EXCEPT ![t] = q] /\ task'[t] = q
  BY <1>1, <1>3, <1>7, <1>8, <1>10
<1> QED BY <1>2, <1>6, <1>9, <1>11

LEMMA ByShape ==
  ASSUME HubInv, NEW t \in Tasks, NEW at \in Stages, NEW by \in SUBSET Sessions,
         \/ task' = [task EXCEPT ![t].at = at, ![t].by = by]
         \/ at = task[t].at /\ task' = [task EXCEPT ![t].by = by]
  PROVE  /\ task' = [task EXCEPT ![t] = task'[t]] /\ task'[t] \in TaskRecords
         /\ task'[t].at = at
<1> DEFINE moved == [task EXCEPT ![t].at = at]
           o == [task[t] EXCEPT !.at = at]
           p == [o EXCEPT !.by = by]
<1>1. task \in [Tasks -> TaskRecords]
  BY DEF HubInv, TasksOK
<1>2. CASE task' = [task EXCEPT ![t].at = at, ![t].by = by]
  <2>1. o \in TaskRecords /\ o.at = at
    BY GotoShape
  <2>2. moved = [task EXCEPT ![t] = o]
    OBVIOUS
  <2>3. moved \in [Tasks -> TaskRecords] /\ moved[t] = o
    BY <1>1, <2>1, <2>2
  <2>4. task' = [moved EXCEPT ![t].by = by]
    BY <1>2
  <2> HIDE DEF o, moved
  <2>5. p \in TaskRecords /\ p.at = o.at
    BY <2>1 DEF TaskRecords
  <2>6. task' = [moved EXCEPT ![t] = p]
    BY <2>3, <2>4
  <2> HIDE DEF p
  <2>7. task' = [task EXCEPT ![t] = p] /\ task'[t] = p
    BY <1>1, <2>2, <2>3, <2>6
  <2> QED BY <2>1, <2>5, <2>7
<1>3. CASE at = task[t].at /\ task' = [task EXCEPT ![t].by = by]
  <2> DEFINE u == [task[t] EXCEPT !.by = by]
  <2>1. u \in TaskRecords /\ u.at = at
    BY <1>1, <1>3 DEF TaskRecords
  <2>2. task' = [task EXCEPT ![t] = u]
    BY <1>3
  <2> HIDE DEF u
  <2> QED BY <1>1, <2>1, <2>2
<1> QED BY <1>2, <1>3
(* A task that neither holds the gate nor deletes a session, nor will.      *)
LEMMA WaitingStep ==
  ASSUME HubInv, NEW t \in Tasks, NEW o, ShapeOK(t, o), task' = [task EXCEPT ![t] = o],
         ~HoldsGate(o), ~Deletes(o), o.at \notin {"closed", "gone"},
         task[t].at \notin {"closed", "gone"}, GateMoves(t),
         UNCHANGED <<sessions, store, hub, told, ended>>, disturbed' \in 0 .. MaxDisturbed
  PROVE  HubInv'
<1>1. Fits(t, o)
  BY TaskIs, RestFits DEF PlaceOK
<1>2. SessionsOK' /\ valid' \subseteq valid
  BY DEF HubInv, SessionsOK, sessions
<1> QED BY <1>1, <1>2, QuietStep DEF Becomes, store

LEMMA LogoutOK ==
  ASSUME HubInv, NEW c \in Callers, NEW s \in Sessions, Logout(c, s) PROVE HubInv'
<1> DEFINE o == Handler("revoking", "logout", None, {s}, {}, None)
<1>1. c \in Tasks /\ c \notin Receivers
  BY HubAssumption DEF Tasks
<1>2. o \in TaskRecords /\ o.at = "revoking" /\ o.op = "logout" /\ o.by = {s}
  BY DEF Handler, TaskRecords, Stages, Ops
<1>3. task' = [task EXCEPT ![c] = o] /\ valid' = valid \ {s} /\ pending' = pending \cup {s}
      /\ UNCHANGED <<active, store, gate, hub, told, ended>>
  BY DEF Logout, Silent
<1> HIDE DEF o
<1>4. ShapeOK(c, o)
  BY <1>2 DEF ShapeOK, Handles, BindOps
<1>5. Fits(c, o)
  BY <1>1, <1>2, <1>3 DEF Fits, OfferFits, HoldsGate
<1>6. SessionsOK' /\ valid' \subseteq valid
  BY <1>3, DisturbOK DEF HubInv, SessionsOK, Logout
<1> QED BY <1>1, <1>3, <1>4, <1>5, <1>6, QuietStep DEF Becomes, GateMoves, store

LEMMA RevokeOK == ASSUME HubInv, NEW c \in Callers, Revoke(c) PROVE HubInv'
<1> DEFINE o == [task[c] EXCEPT !.at = "finishing"]
<1>1. c \in Tasks /\ c \notin Receivers
  BY HubAssumption DEF Tasks
<1>2. o \in TaskRecords /\ o.at = "finishing" /\ o.op = task[c].op /\ o.by = task[c].by
  BY <1>1, GotoShape DEF Stages
<1>3. task' = [task EXCEPT ![c] = o] /\ task[c].at = "revoking"
      /\ UNCHANGED <<valid, store, gate, hub, told, ended>>
  BY DEF Revoke, Goto, Silent
<1> HIDE DEF o
<1>4. task[c].op = "logout" /\ task[c].by # {} /\ task[c].by \cap valid = {}
  BY <1>1, <1>3, TaskIs DEF ShapeOK, Handles, PlaceOK, Deletes
<1>5. ShapeOK(c, o)
  BY <1>2, <1>4 DEF ShapeOK, Handles, BindOps
<1>6. Fits(c, o)
  BY <1>1, <1>2, <1>3, <1>4 DEF Fits, OfferFits, HoldsGate
<1>7. SessionsOK' /\ valid' \subseteq valid
  BY <1>3, DisturbOK DEF HubInv, SessionsOK, Revoke
<1> QED BY <1>1, <1>3, <1>5, <1>6, <1>7, QuietStep DEF Becomes, GateMoves, store

(* What nobody but Accounts and the retries do.                             *)
LEMMA SessionStep ==
  ASSUME HubInv, SessionsOK', valid' \subseteq valid,
         UNCHANGED <<store, hub, gate, task, told, ended>>
  PROVE  HubInv'
<1>1. HubOK' /\ StoreOK'
  BY DEF HubInv, HubOK, StoreOK, store
<1>2. \A t \in Tasks : PlaceOK(t)' /\ OfferOK(t)'
  BY DEF HubInv, TasksOK, PlaceOK, OfferOK, store
<1>3. TasksOK'
  BY <1>2 DEF HubInv, TasksOK
<1> QED BY <1>1, <1>3 DEF HubInv

LEMMA RetryRevocationOK ==
  ASSUME HubInv, NEW s \in Sessions, RetryRevocation(s) PROVE HubInv'
<1>1. SessionsOK' /\ valid' \subseteq valid
  BY DEF HubInv, SessionsOK, RetryRevocation
<1> QED BY <1>1, SessionStep DEF RetryRevocation

LEMMA RevokedOK == ASSUME HubInv, NEW s \in Sessions, Revoked(s) PROVE HubInv'
<1>1. disturbed' \in 0 .. MaxDisturbed
  BY DisturbOK DEF Revoked
<1>2. SessionsOK' /\ valid' \subseteq valid
  BY <1>1 DEF HubInv, SessionsOK, Revoked, Silent
<1> QED BY <1>2, SessionStep DEF Revoked, Silent

LEMMA LostOK == ASSUME HubInv, NEW r \in Receivers, Lost(r) PROVE HubInv'
<1> DEFINE o == [Idle EXCEPT !.at = "broken"]
<1>1. r \in Tasks
  BY DEF Tasks
<1>2. ShapeOK(r, o) /\ o.at = "broken"
  BY ParkedOK
<1>3. task' = [task EXCEPT ![r] = o] /\ GateMoves(r)
      /\ UNCHANGED <<sessions, store, hub, told, ended>>
  BY DEF Lost, LetGo, GateMoves, Silent
<1> HIDE DEF o
<1>4. disturbed' \in 0 .. MaxDisturbed
  BY DisturbOK, Undisturbed DEF Lost
<1>5. task[r].at \notin {"closed", "gone"}
  BY DEF Lost
<1> QED BY <1>1, <1>2, <1>3, <1>4, <1>5, WaitingStep DEF HoldsGate, Deletes

LEMMA OfferStartOK == ASSUME HubInv, NEW r \in Receivers, OfferStart(r)
  PROVE  HubInv' /\ MovesTo(r, "offering")
<1> DEFINE rows == {<<hooks[h].by, h>> : h \in Bound(r)}
<1>1. r \in Tasks
  BY DEF Tasks
<1>2. task[r].at = "idle" /\ gate = None /\ gate' = r
      /\ UNCHANGED <<sessions, store, disturbed, hub, told, ended>>
  BY DEF OfferStart, Take, Silent
<1>3. rows \in SUBSET AllRows
  BY BoundOK DEF AllRows
<1>4. task' = [task EXCEPT ![r] = task'[r]] /\ task'[r] \in TaskRecords
      /\ task'[r].at = "offering" /\ task'[r].rows = rows
  <2>1. task' = [task EXCEPT ![r].at = "offering", ![r].rows = rows]
    BY DEF OfferStart
  <2> HIDE DEF rows
  <2> QED BY <1>1, <1>3, <2>1, RowsShape DEF Stages
<1>5. ShapeOK(r, task'[r])
  BY <1>4 DEF ShapeOK, Handles
<1>6. OfferFits(r, task'[r])
  BY <1>2, <1>4 DEF OfferFits, store
<1>7. Fits(r, task'[r])
  BY <1>1, <1>2, <1>4, <1>6, TaskIs DEF Fits, Deletes, PlaceOK
<1>8. SessionsOK' /\ valid' \subseteq valid
  BY <1>2 DEF HubInv, SessionsOK, sessions
<1> QED BY <1>1, <1>2, <1>4, <1>5, <1>7, <1>8, QuietStep DEF MovesTo, Becomes, GateMoves, store

LEMMA OfferCheckOK == ASSUME HubInv, NEW r \in Receivers, OfferCheck(r)
  PROVE  HubInv' /\ \E at \in {"putting", "dropping"} : MovesTo(r, at)
<1>1. r \in Tasks
  BY DEF Tasks
<1>2. task[r].at = "offering" /\ UNCHANGED <<sessions, store, gate, disturbed, hub, told, ended>>
  BY DEF OfferCheck, Silent
<1>3. PICK row \in task[r].rows :
        task' = [task EXCEPT ![r].at = IF Usable(row[1]) THEN "putting" ELSE "dropping",
                             ![r].hooks = {row[2]}, ![r].rows = task[r].rows \ {row}]
  BY DEF OfferCheck
<1>4. row \in AllRows /\ task[r].rows \in SUBSET AllRows
  BY <1>1, TaskIs DEF TaskRecords, AllRows
<1>5. row = <<row[1], row[2]>> /\ row[1] \in Receivers \cup Sessions /\ row[2] \in Hooks
  BY <1>4 DEF AllRows
<1> DEFINE at == IF Usable(row[1]) THEN "putting" ELSE "dropping"
<1>6. at \in Stages
  BY DEF Stages
<1>7. task' = [task EXCEPT ![r] = task'[r]] /\ task'[r] \in TaskRecords
      /\ task'[r].at = at /\ task'[r].hooks = {row[2]} /\ task'[r].rows = task[r].rows \ {row}
  <2> DEFINE hs == {row[2]}
             rest == task[r].rows \ {row}
  <2>1. rest \in SUBSET AllRows /\ hs \in SUBSET Hooks
    BY <1>4, <1>5
  <2>2. MovesOn(r, at, hs, rest)
    BY <1>3 DEF MovesOn
  <2> HIDE DEF at, hs, rest
  <2>3. task' = [task EXCEPT ![r] = task'[r]] /\ task'[r] \in TaskRecords
        /\ task'[r].at = at /\ task'[r].hooks = hs /\ task'[r].rows = rest
    BY <1>1, <1>6, <2>1, <2>2, HooksRowsShape
  <2> QED BY <2>3 DEF hs, rest
<1>8. OfferFits(r, task'[r])
  <2>1. \A s \in Receivers \cup Sessions, h \in Hooks :
          <<s, h>> \in task[r].rows /\ hooks[h].to = r => hooks[h].by = s
    BY <1>1, <1>2, TaskIs DEF OfferOK
  <2>2. at = "putting" /\ hooks[row[2]].to = r => hooks[row[2]].by \notin ended
    <3> HAVE at = "putting" /\ hooks[row[2]].to = r
    <3>1. row[1] \in valid
      BY DEF Usable
    <3>2. hooks[row[2]].by = row[1]
      BY <1>5, <2>1
    <3> QED BY <3>1, <3>2 DEF HubInv, SessionsOK
  <2> QED BY <1>2, <1>7, <2>1, <2>2 DEF OfferFits, store
<1>9. ShapeOK(r, task'[r])
  BY <1>7 DEF ShapeOK, Handles
<1>10. Fits(r, task'[r])
  BY <1>1, <1>2, <1>7, <1>8, TaskIs DEF Fits, HoldsGate, Deletes, PlaceOK
<1>11. SessionsOK' /\ valid' \subseteq valid
  BY <1>2 DEF HubInv, SessionsOK, sessions
<1>12. MovesTo(r, at) /\ at \in {"putting", "dropping"}
  BY <1>7 DEF MovesTo
<1> QED BY <1>1, <1>2, <1>7, <1>9, <1>10, <1>11, <1>12, QuietStep DEF Becomes, GateMoves, store

LEMMA OfferEndOK == ASSUME HubInv, NEW r \in Receivers, OfferEnd(r) PROVE HubInv'
BY EndStep, Undisturbed DEF OfferEnd, Silent, Tasks

LEMMA ValidateEndOK == ASSUME HubInv, NEW r \in Receivers, ValidateEnd(r) PROVE HubInv'
BY EndStep, Undisturbed DEF ValidateEnd, Silent, Tasks

LEMMA ValidateOK == ASSUME HubInv, NEW r \in Receivers, Validate(r)
  PROVE  HubInv' /\ MovesTo(r, "validating")
<1> DEFINE shown == hub[r].auth \cup ({hub[r].watch} \ {None})
<1>1. r \in Tasks
  BY DEF Tasks
<1>2. shown \in SUBSET Sessions
  BY DEF HubInv, HubOK, HubRecords
<1>3. task[r].at = "idle" /\ task' = [task EXCEPT ![r].at = "validating", ![r].by = shown]
      /\ UNCHANGED <<sessions, store, gate, disturbed, hub, told, ended>>
  BY DEF Validate, Silent
<1> HIDE DEF shown
<1>4. task' = [task EXCEPT ![r] = task'[r]] /\ task'[r] \in TaskRecords
      /\ task'[r].at = "validating"
  BY <1>1, <1>2, <1>3, ByShape DEF Stages
<1>5. ShapeOK(r, task'[r])
  BY <1>4 DEF ShapeOK, Handles
<1> QED BY <1>1, <1>3, <1>4, <1>5, WaitingStep, Undisturbed DEF MovesTo, HoldsGate, Deletes, GateMoves

LEMMA ConfirmOK ==
  ASSUME HubInv, NEW r \in Receivers, NEW s \in Sessions, Confirm(r, s)
  PROVE  HubInv' /\ MovesTo(r, "validating")
<1>1. r \in Tasks
  BY DEF Tasks
<1>2. task[r].by \ {s} \in SUBSET Sessions
  BY <1>1, TaskIs DEF TaskRecords
<1>3. task[r].at = "validating" /\ task' = [task EXCEPT ![r].by = task[r].by \ {s}]
      /\ UNCHANGED <<sessions, store, gate, disturbed, hub, told, ended>>
  BY <1>1, TaskIs DEF Confirm, Silent
<1>4. task' = [task EXCEPT ![r] = task'[r]] /\ task'[r] \in TaskRecords
      /\ task'[r].at = "validating"
  BY <1>1, <1>2, <1>3, ByShape DEF Stages
<1>5. ShapeOK(r, task'[r])
  BY <1>4 DEF ShapeOK, Handles
<1> QED BY <1>1, <1>3, <1>4, <1>5, WaitingStep, Undisturbed DEF MovesTo, HoldsGate, Deletes, GateMoves
------------------------------------------------------------------------------
(* Steps that queue at most.                                                *)

LEMMA QueuedMoves == ASSUME Queued(hub'), NEW t PROVE HubMoves(t)
BY DEF Queued, HubMoves

LEMMA SameHub == ASSUME HubInv, UNCHANGED hub PROVE Queued(hub')
BY SameQueued DEF Queued

LEMMA AcknowledgeOK == ASSUME HubInv, NEW t \in Tasks, Acknowledge(t) PROVE HubInv'
<1>1. Queued(hub')
  BY SameQueued, HintedOK DEF Acknowledge
<1>2. Becomes(t, Idle) /\ GateMoves(t)
  BY <1>1, EndsOK DEF Queued, Acknowledge
<1>3. told' \in [Receivers -> SUBSET Hooks]
  BY DEF HubInv, HubOK, Acknowledge
<1> QED BY <1>1, <1>2, <1>3, QueueingStep DEF Acknowledge, store

LEMMA ConcludeOK == ASSUME HubInv, NEW t \in Tasks, Conclude(t) PROVE HubInv'
<1> DEFINE s == CHOOSE s \in task[t].by : TRUE
           paused == PauseAll(task[t].rows)
<1>1. HubOK /\ ShapeOK(t, task[t]) /\ Handles(task[t])
  BY TaskIs DEF HubInv, Conclude, Handles
<1>2. Queued(paused)
  BY PauseAllOK
<1> HIDE DEF paused
<1>3. task[t].op \in {"subscribe", "watch"} => s \in Sessions /\ t \in Receivers
  BY <1>1 DEF ShapeOK, TaskRecords, BindOps
<1> HIDE DEF s
<1>4. task[t].hooks \subseteq Hooks
  BY <1>1 DEF ShapeOK, TaskRecords
<1>5. Queued(hub') /\ told' \in [Receivers -> SUBSET Hooks]
  <2>1. CASE /\ task[t].op = "subscribe"
             /\ hub' = [hub EXCEPT ![t].auth = {q \in @ : Owner[q] # Owner[s]} \cup {s}]
             /\ told' = [told EXCEPT ![t] = @ \cup task[t].hooks]
    <3> DEFINE auth == {q \in hub[t].auth : Owner[q] # Owner[s]} \cup {s}
               o == [hub[t] EXCEPT !.auth = auth]
    <3>1. t \in Receivers /\ s \in Sessions /\ hub[t] \in HubRecords
      BY <1>1, <1>3, <2>1 DEF HubOK
    <3>2. auth \in SUBSET Sessions
      BY <3>1 DEF HubRecords
    <3>3. hub' = [hub EXCEPT ![t] = o]
      BY <2>1
    <3> HIDE DEF auth
    <3>4. o \in HubRecords /\ o.open = hub[t].open /\ o.queue = hub[t].queue
      BY <3>1, <3>2 DEF HubRecords
    <3> HIDE DEF o
    <3>5. Queued(hub')
      BY <1>1, <3>1, <3>3, <3>4 DEF HubOK, ReceiverOK, Queued
    <3>6. told' \in [Receivers -> SUBSET Hooks]
      BY <1>1, <1>4, <2>1 DEF HubOK
    <3> QED BY <3>5, <3>6
  <2>2. CASE task[t].op = "watch" /\ hub' = [hub EXCEPT ![t].watch = s] /\ UNCHANGED told
    <3> DEFINE o == [hub[t] EXCEPT !.watch = s]
    <3>1. t \in Receivers /\ s \in Sessions /\ hub[t] \in HubRecords
      BY <1>1, <1>3, <2>2 DEF HubOK
    <3>2. hub' = [hub EXCEPT ![t] = o]
      BY <2>2
    <3>3. o \in HubRecords /\ o.open = hub[t].open /\ o.queue = hub[t].queue
      BY <3>1 DEF HubRecords
    <3> HIDE DEF o
    <3> QED BY <1>1, <2>2, <3>1, <3>2, <3>3 DEF HubOK, ReceiverOK, Queued
  <2>3. CASE hub' \in {paused, Hinted(paused, task[t].of), Hinted(hub, task[t].of)}
             /\ UNCHANGED told
    BY <1>1, <1>2, <2>3, SameQueued, HintedOK DEF HubOK
  <2> QED BY <2>1, <2>2, <2>3 DEF Conclude, s, paused
<1>6. Becomes(t, Idle) /\ GateMoves(t)
  BY <1>5, EndsOK DEF Queued, Conclude
<1> QED BY <1>5, <1>6, QueueingStep DEF Conclude, store

LEMMA FlushOK == ASSUME HubInv, NEW r \in Receivers, Flush(r) PROVE HubInv'
<1> DEFINE rest == Tail(hub[r].queue)
           o == [hub[r] EXCEPT !.queue = rest]
<1>1. r \in Tasks /\ HubOK /\ hub[r] \in HubRecords /\ Len(hub[r].queue) <= Capacity
  BY DEF Tasks, HubInv, HubOK, ReceiverOK
<1>2. rest \in Seq(Messages) /\ Len(rest) <= Capacity
  <2>1. hub[r].queue \in Seq(Messages) /\ hub[r].queue # <<>>
    BY <1>1 DEF HubRecords, Flush
  <2>2. rest \in Seq(Messages) /\ Len(rest) = Len(hub[r].queue) - 1
        /\ Len(hub[r].queue) \in Nat
    BY <2>1, HeadTailProperties, LenProperties
  <2> HIDE DEF rest
  <2> QED BY <1>1, <2>2, HubAssumption
<1>3. hub' = [hub EXCEPT ![r] = o]
  BY DEF Flush
<1> HIDE DEF rest
<1>4. o \in HubRecords /\ o.open = hub[r].open /\ o.queue = rest
  BY <1>1, <1>2 DEF HubRecords
<1> HIDE DEF o
<1>5. Queued(hub')
  BY <1>1, <1>2, <1>3, <1>4 DEF HubOK, ReceiverOK, Queued
<1>6. told' \in [Receivers -> SUBSET Hooks]
  BY <1>1 DEF HubOK, Flush
<1>7. task[r].at = "idle" /\ task' = [task EXCEPT ![r] = task[r]] /\ GateMoves(r)
  BY <1>1 DEF Flush, GateMoves, HubInv, TasksOK
<1>8. Fits(r, task[r])
  BY <1>1, <1>5, <1>7, TaskIs, RestFits DEF HoldsGate, Deletes, PlaceOK, Queued
<1> QED BY <1>1, <1>5, <1>6, <1>7, <1>8, TaskIs, QueueingStep DEF Becomes, Flush, store

LEMMA OpenOK == ASSUME HubInv, NEW r \in Receivers, Open(r) PROVE HubInv'
<1> DEFINE q == [hub[r] EXCEPT !.open = TRUE]
           o == [task[r] EXCEPT !.at = "idle"]
<1>1. r \in Tasks /\ hub[r] \in HubRecords /\ Len(hub[r].queue) <= Capacity /\ HubOK /\ StoreOK
  BY DEF Tasks, HubInv, HubOK, ReceiverOK
<1>2. task[r].at = "closed" /\ task' = [task EXCEPT ![r] = o] /\ hub' = [hub EXCEPT ![r] = q]
      /\ UNCHANGED <<sessions, hooks, out, gate, told, ended, disturbed>>
  BY DEF Open, Goto, store
<1>3. o \in TaskRecords /\ o.at = "idle"
  BY <1>1, GotoShape DEF Stages
<1>4. q \in HubRecords /\ q.queue = hub[r].queue
  BY <1>1 DEF HubRecords
<1>5. q.open
  BY <1>1 DEF HubRecords
<1> HIDE DEF o, q
<1>6. ReceiverOK(q)
  BY <1>1, <1>4 DEF ReceiverOK
<1>7. hub' \in [Receivers -> HubRecords] /\ hub'[r] = q
      /\ \A u \in Receivers \ {r} : hub'[u] = hub[u]
  BY <1>1, <1>2, <1>4 DEF HubOK
<1>8. HubMoves(r)
  BY <1>1, <1>5, <1>6, <1>7 DEF HubMoves, HubOK
<1>9. StoreOK'
  <2>1. \A u \in Receivers : hub[u].open => hub'[u].open
    BY <1>5, <1>7
  <2> QED BY <1>1, <1>2, <2>1 DEF StoreOK, HookOK, HookRecords
<1>10. ShapeOK(r, o)
  BY <1>3 DEF ShapeOK, Handles
<1>11. Fits(r, o)
  BY <1>3, <1>5, <1>7, RestFits DEF HoldsGate, Deletes
<1>12. SessionsOK' /\ valid' \subseteq valid /\ told' \in [Receivers -> SUBSET Hooks]
  BY <1>1, <1>2 DEF HubInv, SessionsOK, sessions, HubOK
<1>13. GateMoves(r) /\ BindsUnderGate(r) /\ NoneEnds
  BY <1>2 DEF GateMoves, BindsUnderGate, NoneEnds
<1> QED BY <1>1, <1>2, <1>8, <1>9, <1>10, <1>11, <1>12, <1>13, StepOK DEF Becomes
------------------------------------------------------------------------------
(* Steps that bind and release hooks.                                       *)

(* Releasing under the sessions as they are, queueing at most.              *)
LEMMA ReleaseQueueing ==
  ASSUME HubInv, NEW t \in Tasks, NEW o, Becomes(t, o), GateMoves(t), Queued(hub'),
         told' \in [Receivers -> SUBSET Hooks],
         UNCHANGED <<sessions, ended>>, disturbed' \in 0 .. MaxDisturbed,
         NEW hs, NEW state \in HookStates \ {"connected"}, Hand(hs, state, None, None)
  PROVE  HubInv'
<1>1. HubMoves(t)
  BY QueuedMoves
<1>2. SessionsOK' /\ valid' \subseteq valid
  BY DEF HubInv, SessionsOK, sessions
<1>3. \A h \in Hooks \ hs : hooks[h].to # None =>
        hub'[hooks[h].to].open /\ hooks[h].by \notin ended' \ ended
  BY DEF HubInv, StoreOK, HookRecords, Queued
<1> QED BY <1>1, <1>2, <1>3, ReleaseStep

LEMMA FinishOK ==
  ASSUME HubInv, NEW t \in Tasks, task[t].at = "checked", task[t].op # "logout",
         NEW rows \in SUBSET AllRows, Finish(t, rows), UNCHANGED hub
  PROVE  Becomes(t, task'[t]) /\ gate = t /\ GateMoves(t)
<1>1. task' = [task EXCEPT ![t] = task'[t]] /\ task'[t] \in TaskRecords
      /\ task'[t].at = "finishing" /\ task'[t].op = task[t].op /\ task'[t].by = task[t].by
      /\ task'[t].to = task[t].to
  BY RowsShape DEF Finish, Stages
<1>2. gate = t /\ gate' = t
  BY TaskIs DEF PlaceOK, HoldsGate, Finish
<1>3. ShapeOK(t, task'[t])
  BY <1>1, TaskIs DEF ShapeOK, Handles
<1>4. Fits(t, task'[t])
  BY <1>1, <1>2, TaskIs DEF Fits, OfferFits, Deletes, PlaceOK
<1> QED BY <1>1, <1>2, <1>3, <1>4 DEF Becomes, GateMoves

(* Rows of the hooks a connection has.                                      *)
LEMMA RowsOK ==
  ASSUME HubInv, NEW hs, \A h \in hs : h \in Hooks /\ hooks[h].to # None
  PROVE  {<<hooks[h].to, h>> : h \in hs} \in SUBSET AllRows
BY DEF HubInv, StoreOK, HookRecords, AllRows

LEMMA RefuseOK ==
  ASSUME HubInv, NEW t \in Tasks, task[t].at = "checked", Refuse(t),
         UNCHANGED <<sessions, hub, told, ended, disturbed>>
  PROVE  HubInv'
BY EndStep, Undisturbed DEF Refuse

(* The session a handler that binds acts for, and its receiver.             *)
LEMMA BinderOK ==
  ASSUME HubInv, NEW t \in Tasks, task[t].at = "checked", task[t].op \in BindOps
  PROVE  /\ (CHOOSE s \in task[t].by : TRUE) \in Sessions
         /\ task[t].to \in Receivers /\ hub[task[t].to].open /\ task[t].hooks \subseteq Hooks
BY TaskIs DEF ShapeOK, Handles, PlaceOK, TaskRecords

LEMMA BindOK == ASSUME HubInv, NEW t \in Tasks, Bind(t) PROVE HubInv'
<1> DEFINE hs == task[t].hooks
           r == task[t].to
           s == CHOOSE s \in task[t].by : TRUE
           lost == {h \in hs : hooks[h].to \notin {None, r}}
           rows == {<<hooks[h].to, h>> : h \in lost}
<1>1. task[t].at = "checked" /\ task[t].op \in BindOps /\ task[t].op # "logout"
      /\ UNCHANGED <<sessions, hub, told, ended, disturbed>>
  BY DEF Bind, BindOps, Silent
<1>2. s \in Sessions /\ r \in Receivers /\ hub[r].open /\ hs \subseteq Hooks
  BY <1>1, BinderOK
<1>3. CASE Hand(hs, "connected", r, s) /\ Finish(t, rows)
  <2>1. rows \in SUBSET AllRows
    BY <1>2, RowsOK
  <2> HIDE DEF rows, s
  <2>2. Becomes(t, task'[t]) /\ gate = t /\ GateMoves(t)
    BY <1>1, <1>3, <2>1, FinishOK
  <2> QED BY <1>1, <1>2, <1>3, <2>2, BindStep
<1>4. CASE Refuse(t)
  BY <1>1, <1>4, RefuseOK
<1> QED BY <1>3, <1>4 DEF Bind

LEMMA CreateHookOK == ASSUME HubInv, NEW t \in Tasks, CreateHook(t) PROVE HubInv'
<1> DEFINE hs == task[t].hooks
           r == task[t].to
           s == CHOOSE s \in task[t].by : TRUE
<1>1. task[t].at = "checked" /\ task[t].op \in BindOps /\ task[t].op # "logout"
      /\ UNCHANGED <<sessions, hub, told, ended, disturbed>>
  BY DEF CreateHook, BindOps, Silent
<1>2. s \in Sessions /\ r \in Receivers /\ hub[r].open
  BY <1>1, BinderOK
<1>3. CASE Hand(hs, "connected", r, s) /\ Finish(t, {})
  <2> HIDE DEF s
  <2>1. Becomes(t, task'[t]) /\ gate = t /\ GateMoves(t)
    BY <1>1, <1>3, FinishOK
  <2> QED BY <1>1, <1>2, <1>3, <2>1, BindStep
<1>4. CASE Refuse(t)
  BY <1>1, <1>4, RefuseOK
<1> QED BY <1>3, <1>4 DEF CreateHook

LEMMA UnsubscribeOK == ASSUME HubInv, NEW t \in Tasks, Unsubscribe(t) PROVE HubInv'
<1> DEFINE state == IF task[t].op = "pause" THEN "paused" ELSE "disconnected"
<1>1. task[t].at = "checked" /\ UNCHANGED <<sessions, hub, ended, disturbed>>
  BY DEF Unsubscribe
<1>2. CASE /\ Hand(task[t].hooks, state, None, None) /\ End(t)
           /\ told' = [told EXCEPT ![t] = @ \ task[t].hooks]
  <2>1. state \in HookStates \ {"connected"}
    BY DEF HookStates
  <2> HIDE DEF state
  <2>2. Becomes(t, Idle) /\ GateMoves(t)
    BY <1>1, <1>2, EndsOK
  <2>3. told' \in [Receivers -> SUBSET Hooks]
    BY <1>2 DEF HubInv, HubOK
  <2> QED BY <1>1, <1>2, <2>1, <2>2, <2>3, SameHub, Undisturbed, ReleaseQueueing
<1>3. CASE Refuse(t) /\ UNCHANGED told
  BY <1>1, <1>3, RefuseOK
<1> QED BY <1>2, <1>3 DEF Unsubscribe

LEMMA DetachOK == ASSUME HubInv, NEW t \in Tasks, Detach(t) PROVE HubInv'
<1> DEFINE hs == {h \in task[t].hooks : hooks[h].state # "absent"}
           rows == {<<hooks[h].to, h>> : h \in {h \in hs : hooks[h].to # None}}
<1>1. /\ task[t].at = "checked" /\ task[t].op # "logout"
      /\ Hand(hs, "detached", None, None) /\ Finish(t, rows)
      /\ UNCHANGED <<sessions, hub, told, ended, disturbed>>
  BY DEF Detach, Silent
<1>2. rows \in SUBSET AllRows
  BY TaskIs, RowsOK DEF TaskRecords
<1> HIDE DEF hs, rows
<1>3. Becomes(t, task'[t]) /\ GateMoves(t)
  BY <1>1, <1>2, FinishOK
<1>4. told' \in [Receivers -> SUBSET Hooks]
  BY <1>1 DEF HubInv, HubOK
<1> QED BY <1>1, <1>3, <1>4, SameHub, Undisturbed, ReleaseQueueing DEF HookStates

LEMMA InvalidateOK == ASSUME HubInv, NEW t \in Tasks, Invalidate(t) PROVE HubInv'
<1> DEFINE hs == {h \in HooksOf(task[t].of) : hooks[h].to # None}
           rows == {<<hooks[h].to, h>> : h \in hs}
<1>1. /\ task[t].at = "checked" /\ task[t].op # "logout"
      /\ Hand(hs, "disconnected", None, None) /\ Finish(t, rows)
      /\ UNCHANGED <<sessions, hub, told, ended, disturbed>>
  BY DEF Invalidate, Silent
<1>2. rows \in SUBSET AllRows
  BY RowsOK DEF HooksOf
<1> HIDE DEF hs, rows
<1>3. Becomes(t, task'[t]) /\ GateMoves(t)
  BY <1>1, <1>2, FinishOK
<1>4. told' \in [Receivers -> SUBSET Hooks]
  BY <1>1 DEF HubInv, HubOK
<1> QED BY <1>1, <1>3, <1>4, SameHub, Undisturbed, ReleaseQueueing DEF HookStates

LEMMA InvalidateSessionOK ==
  ASSUME HubInv, NEW c \in Callers, InvalidateSession(c) PROVE HubInv'
<1> DEFINE s == CHOOSE s \in task[c].by : TRUE
           mine == {h \in Hooks : hooks[h].by = s /\ hooks[h].state = "connected"
                                  /\ hub[hooks[h].to].open}
           paused == PauseAll({<<hooks[h].to, h>> : h \in mine})
<1>1. c \in Tasks /\ c \notin Receivers
  BY HubAssumption DEF Tasks
<1>2. task[c].at = "finishing" /\ task[c].op = "logout" /\ End(c)
      /\ Hand(mine, "disconnected", None, None) /\ ended' = ended \cup {s}
      /\ hub' = [r \in Receivers |-> IF hub[r].open THEN Forget(paused[r], s) ELSE hub[r]]
      /\ UNCHANGED <<sessions, told, disturbed>>
  BY DEF InvalidateSession
<1>3. s \in Sessions /\ s \notin valid
  <2>1. task[c].by # {} /\ task[c].by \in SUBSET Sessions /\ task[c].by \cap valid = {}
    BY <1>1, <1>2, TaskIs DEF ShapeOK, Handles, PlaceOK, Deletes, TaskRecords
  <2> QED BY <2>1
<1> HIDE DEF s
<1>4. Queued(paused)
  BY PauseAllOK
<1> HIDE DEF paused
<1>5. Queued(hub')
  <2>1. \A r \in Receivers : ReceiverOK(Forget(paused[r], s))
                             /\ Forget(paused[r], s).open = hub[r].open
    BY <1>3, <1>4, ForgetOK DEF Queued
  <2> QED BY <1>2, <2>1 DEF Queued, HubInv, HubOK, ReceiverOK
<1>6. Becomes(c, Idle) /\ GateMoves(c)
  BY <1>1, <1>2, EndsOK
<1>7. SessionsOK' /\ valid' \subseteq valid
  BY <1>2, <1>3 DEF HubInv, SessionsOK, sessions
<1>8. \A h \in Hooks \ mine : hooks[h].to # None =>
        hub'[hooks[h].to].open /\ hooks[h].by \notin ended' \ ended
  BY <1>2, <1>5 DEF HubInv, StoreOK, HookOK, HookRecords, Queued
<1> HIDE DEF mine
<1>9. told' \in [Receivers -> SUBSET Hooks] /\ HubMoves(c)
  BY <1>2, <1>5, QueuedMoves DEF HubInv, HubOK
<1> QED BY <1>1, <1>2, <1>6, <1>7, <1>8, <1>9, ReleaseStep DEF HookStates
LEMMA OfferPutOK == ASSUME HubInv, NEW r \in Receivers, OfferPut(r)
  PROVE  HubInv' /\ MovesTo(r, "offering")
<1>1. r \in Tasks /\ StoreOK
  BY DEF Tasks, HubInv
<1>2. task[r].at = "putting" /\ UNCHANGED <<sessions, hooks, gate, disturbed, hub, told, ended>>
      /\ out' = [h \in Hooks |-> IF h \in task[r].hooks \cap Bound(r) THEN hooks[h].by ELSE out[h]]
  BY DEF OfferPut, Silent
<1>3. task' = [task EXCEPT ![r] = task'[r]] /\ task'[r] \in TaskRecords
      /\ task'[r].at = "offering" /\ task'[r].rows = task[r].rows
  <2>1. HoldsOn(r, "offering", {})
    BY DEF OfferPut, HoldsOn
  <2>2. "offering" \in Stages
    BY DEF Stages
  <2> QED BY <1>1, <2>1, <2>2, HooksShape
<1>4. ShapeOK(r, task'[r])
  BY <1>3 DEF ShapeOK, Handles
<1>5. Fits(r, task'[r])
  BY <1>1, <1>2, <1>3, TaskIs DEF Fits, OfferFits, OfferOK, HoldsGate, Deletes, PlaceOK
<1>6. StoreOK'
  <2>1. \A h \in task[r].hooks \cap Bound(r) :
          hooks[h].to # None /\ hooks[h].by \in Sessions /\ hooks[h].by \notin ended
    BY <1>1, <1>2, BoundOK, TaskIs DEF OfferOK
  <2>2. out' \in [Hooks -> Sessions \cup {None}]
    BY <1>1, <1>2, <2>1 DEF StoreOK
  <2>3. \A h \in Hooks : out'[h] # None =>
          hooks[h].to # None /\ out'[h] = hooks[h].by /\ out'[h] \notin ended
    BY <1>1, <1>2, <2>1 DEF StoreOK
  <2> QED BY <1>1, <1>2, <2>2, <2>3 DEF StoreOK, HookOK
<1>7. GateMoves(r) /\ BindsUnderGate(r) /\ NoneEnds /\ HubMoves(r)
  BY <1>2, SameHub, QueuedMoves DEF GateMoves, BindsUnderGate, NoneEnds
<1>8. SessionsOK' /\ valid' \subseteq valid /\ told' \in [Receivers -> SUBSET Hooks]
  BY <1>2 DEF HubInv, SessionsOK, sessions, HubOK
<1> QED BY <1>1, <1>3, <1>4, <1>5, <1>6, <1>7, <1>8, StepOK DEF MovesTo, Becomes

LEMMA OfferDropOK == ASSUME HubInv, NEW r \in Receivers, OfferDrop(r) PROVE HubInv'
<1> DEFINE hs == task[r].hooks
<1>1. r \in Tasks
  BY DEF Tasks
<1>2. task[r].at = "dropping" /\ UNCHANGED <<sessions, told, ended, disturbed>>
  BY DEF OfferDrop
<1>3. CASE /\ Hand(hs, "disconnected", None, None) /\ hub' = PauseAll({r} \X hs)
           /\ task' = [task EXCEPT ![r].at = "offering", ![r].hooks = {}] /\ UNCHANGED gate
  <2>1. task' = [task EXCEPT ![r] = task'[r]] /\ task'[r] \in TaskRecords
        /\ task'[r].at = "offering" /\ task'[r].rows = task[r].rows
    <3>1. HoldsOn(r, "offering", {})
      BY <1>3 DEF HoldsOn
    <3>2. "offering" \in Stages
      BY DEF Stages
    <3> QED BY <1>1, <3>1, <3>2, HooksShape
  <2>2. ShapeOK(r, task'[r])
    BY <2>1 DEF ShapeOK, Handles
  <2>3. Queued(hub')
    BY <1>3, PauseAllOK
  <2>4. \A h \in Hooks : hooks'[h].to = r => hooks'[h] = hooks[h]
    BY <1>3, HubAssumption DEF Hand
  <2>5. OfferFits(r, task'[r])
    BY <1>1, <1>2, <2>1, <2>4, TaskIs DEF OfferFits, OfferOK
  <2>6. Fits(r, task'[r])
    BY <1>1, <1>2, <1>3, <2>1, <2>3, <2>5, TaskIs
       DEF Fits, HoldsGate, Deletes, PlaceOK, Queued
  <2>7. told' \in [Receivers -> SUBSET Hooks]
    BY <1>2 DEF HubInv, HubOK
  <2> QED BY <1>1, <1>2, <1>3, <2>1, <2>2, <2>3, <2>6, <2>7, Undisturbed, ReleaseQueueing
       DEF Becomes, GateMoves, HookStates
<1>4. CASE task' = [task EXCEPT ![r] = [Idle EXCEPT !.at = "broken"]] /\ LetGo(r)
           /\ UNCHANGED <<store, hub>>
  <2> DEFINE o == [Idle EXCEPT !.at = "broken"]
  <2>1. ShapeOK(r, o) /\ o.at = "broken"
    BY ParkedOK
  <2> HIDE DEF o
  <2> QED BY <1>1, <1>2, <1>4, <2>1, WaitingStep, Undisturbed
       DEF o, HoldsGate, Deletes, LetGo, GateMoves
<1> QED BY <1>3, <1>4 DEF OfferDrop

LEMMA WithdrawOK ==
  ASSUME HubInv, NEW r \in Receivers, NEW s \in Sessions, Withdraw(r, s) PROVE HubInv'
<1> DEFINE hs == {h \in Bound(r) : hooks[h].by = s}
           paused == PauseAll({r} \X hs)
           rest == task[r].by \ {s}
<1>1. r \in Tasks
  BY DEF Tasks
<1>2. task[r].at = "validating" /\ Hand(hs, "disconnected", None, None)
      /\ hub' = [hub EXCEPT ![r] = Forget(paused[r], s)]
      /\ task' = [task EXCEPT ![r].by = rest]
      /\ UNCHANGED <<sessions, gate, told, ended>>
  BY <1>1, TaskIs DEF Withdraw
<1>3. disturbed' \in 0 .. MaxDisturbed
  BY DisturbOK, Undisturbed DEF Withdraw
<1>4. Queued(paused)
  BY PauseAllOK
<1>5. rest \in SUBSET Sessions
  BY <1>1, TaskIs DEF TaskRecords
<1> HIDE DEF hs, paused, rest
<1>6. Queued(hub')
  <2>1. ReceiverOK(Forget(paused[r], s)) /\ Forget(paused[r], s).open = hub[r].open
    BY <1>4, ForgetOK DEF Queued
  <2> QED BY <1>2, <2>1 DEF Queued, HubInv, HubOK, ReceiverOK
<1>7. task' = [task EXCEPT ![r] = task'[r]] /\ task'[r] \in TaskRecords
      /\ task'[r].at = "validating"
  BY <1>1, <1>2, <1>5, ByShape DEF Stages
<1>8. ShapeOK(r, task'[r])
  BY <1>7 DEF ShapeOK, Handles
<1>9. Fits(r, task'[r])
  BY <1>1, <1>2, <1>6, <1>7, TaskIs, RestFits DEF HoldsGate, Deletes, PlaceOK, Queued
<1>10. told' \in [Receivers -> SUBSET Hooks]
  BY <1>2 DEF HubInv, HubOK
<1> QED BY <1>1, <1>2, <1>3, <1>6, <1>7, <1>8, <1>9, <1>10, ReleaseQueueing
     DEF Becomes, GateMoves, HookStates

LEMMA CleanupOK == ASSUME HubInv, NEW r \in Receivers, Cleanup(r) PROVE HubInv'
<1> DEFINE o == [task[r] EXCEPT !.at = "gone"]
<1>1. r \in Tasks /\ HubOK /\ StoreOK
  BY DEF Tasks, HubInv
<1>2. gate = None /\ task[r].at = "broken" /\ Hand(Bound(r), "disconnected", None, None)
      /\ hub' = [hub EXCEPT ![r] = NoReceiver] /\ told' = [told EXCEPT ![r] = {}]
      /\ task' = [task EXCEPT ![r] = o]
      /\ UNCHANGED <<sessions, gate, ended, disturbed>>
  BY DEF Cleanup, Goto
<1>3. o \in TaskRecords /\ o.at = "gone"
  BY <1>1, GotoShape DEF Stages
<1> HIDE DEF o
<1>4. hub' \in [Receivers -> HubRecords] /\ hub'[r] = NoReceiver
      /\ \A u \in Receivers \ {r} : hub'[u] = hub[u]
  BY <1>1, <1>2, NoReceiverOK DEF HubOK, ReceiverOK
<1>5. HubMoves(r)
  BY <1>1, <1>2, <1>4, NoReceiverOK DEF HubMoves, HubOK
<1>6. ShapeOK(r, o)
  BY <1>3 DEF ShapeOK, Handles
<1>7. Fits(r, o)
  BY <1>3, <1>4, NoReceiverOK, RestFits DEF HoldsGate, Deletes
<1>8. \A h \in Hooks \ Bound(r) : hooks[h].to # None =>
        hub'[hooks[h].to].open /\ hooks[h].by \notin ended' \ ended
  BY <1>1, <1>2, <1>4 DEF StoreOK, HookOK, HookRecords, Bound
<1>9. SessionsOK' /\ valid' \subseteq valid /\ told' \in [Receivers -> SUBSET Hooks]
  BY <1>1, <1>2 DEF HubInv, SessionsOK, sessions, HubOK
<1> QED BY <1>1, <1>2, <1>5, <1>6, <1>7, <1>8, <1>9, ReleaseStep
     DEF Becomes, GateMoves, HookStates

LEMMA CrashOK == ASSUME HubInv, Crash PROVE HubInv'
<1>1. SessionsOK'
  BY DisturbOK DEF HubInv, SessionsOK, sessions, Crash
<1>2. HubOK' /\ \A r \in Receivers : ~hub'[r].open
  BY NoReceiverOK DEF HubOK, ReceiverOK, Crash
<1>3. ASSUME NEW h \in Hooks
      PROVE  hooks'[h] \in HookRecords /\ HookOK(hooks'[h]) /\ hooks'[h].to = None
             /\ out'[h] = None
  <2> DEFINE state == IF hooks[h].state = "connected" THEN "disconnected" ELSE hooks[h].state
  <2>1. state \in HookStates \ {"connected"}
    BY DEF HubInv, StoreOK, HookRecords, HookStates
  <2>2. hooks'[h] = [state |-> state, to |-> None, by |-> None] /\ out'[h] = None
    BY DEF Crash
  <2> HIDE DEF state
  <2> QED BY <2>1, <2>2 DEF HookOK, HookRecords
<1>4. StoreOK'
  <2>1. hooks' = [h \in Hooks |-> hooks'[h]] /\ out' = [h \in Hooks |-> out'[h]]
    BY DEF Crash
  <2>2. hooks' \in [Hooks -> HookRecords] /\ out' \in [Hooks -> Sessions \cup {None}]
    BY <1>3, <2>1
  <2> QED BY <1>3, <2>2 DEF StoreOK
<1>5. ASSUME NEW t \in Tasks
      PROVE  /\ task'[t] \in TaskRecords /\ ShapeOK(t, task'[t])
             /\ task'[t].at \in {"idle", "closed", "gone"}
             /\ t \in Receivers => task'[t].at # "idle"
  <2>1. t \in Callers => task'[t] = Idle /\ t \notin Receivers
    BY HubAssumption DEF Crash
  <2>2. t \notin Callers /\ task[t].at = "closed" => task'[t] = task[t]
    BY DEF Crash
  <2>3. t \notin Callers /\ task[t].at # "closed" => task'[t] = [Idle EXCEPT !.at = "gone"]
    BY DEF Crash
  <2> QED BY <2>1, <2>2, <2>3, IdleOK, ParkedOK, TaskIs
<1>6. \A t \in Tasks : PlaceOK(t)' /\ OfferOK(t)'
  BY <1>2, <1>5 DEF PlaceOK, OfferOK, HoldsGate, Deletes
<1>7. TasksOK'
  <2>1. task' \in [Tasks -> TaskRecords]
    BY <1>5 DEF Crash
  <2>2. gate' \in Tasks \cup {None}
    BY DEF Crash
  <2> QED BY <1>5, <1>6, <2>1, <2>2 DEF TasksOK
<1> QED BY <1>1, <1>2, <1>4, <1>7 DEF HubInv

------------------------------------------------------------------------------
(* Every step.                                                              *)

LEMMA NextOK == HubInv /\ [Next]_vars => HubInv'
<1> SUFFICES ASSUME HubInv, [Next]_vars PROVE HubInv'
  OBVIOUS
<1>1. ASSUME NEW t \in Tasks, Working(t) \/ Enter(t) \/ Cancel(t) PROVE HubInv'
  BY <1>1, AuthenticateOK, EnterOK, CancelOK, BindOK, CreateHookOK, UnsubscribeOK, DetachOK,
     InvalidateOK, AcknowledgeOK, ConcludeOK DEF Working, Store
<1>2. ASSUME NEW c \in Callers, Request(c) \/ Deleting(c) \/ \E s \in Sessions : Logout(c, s)
      PROVE  HubInv'
  BY <1>2, RequestOK, RevokeOK, InvalidateSessionOK, LogoutOK DEF Deleting
<1>3. ASSUME NEW r \in Receivers,
             Open(r) \/ Frame(r) \/ Flush(r) \/ Lost(r) \/ Cleanup(r)
      PROVE  HubInv'
  BY <1>3, OpenOK, FrameOK, FlushOK, LostOK, CleanupOK
<1>4. ASSUME NEW r \in Receivers,
             OfferStart(r) \/ Offering(r) \/ Validate(r) \/ Validating(r) \/ Withdrawing(r)
      PROVE  HubInv'
  BY <1>4, OfferStartOK, OfferCheckOK, OfferPutOK, OfferDropOK, OfferEndOK, ValidateOK,
     ConfirmOK, ValidateEndOK, WithdrawOK DEF Offering, Validating, Withdrawing
<1>5. ASSUME NEW s \in Sessions, RetryRevocation(s) \/ Revoked(s) PROVE HubInv'
  BY <1>5, RetryRevocationOK, RevokedOK
<1>6. CASE Crash
  BY <1>6, CrashOK
<1>7. CASE UNCHANGED vars
  <2>1. SessionsOK' /\ valid' \subseteq valid /\ UNCHANGED <<store, hub, gate, task, told, ended>>
    BY <1>7 DEF HubInv, SessionsOK, vars, sessions
  <2> QED BY <2>1, SessionStep
<1> QED BY <1>1, <1>2, <1>3, <1>4, <1>5, <1>6, <1>7 DEF Next

LEMMA Invariant == Spec => []HubInv
BY InitOK, NextOK, PTL DEF Spec

(* The variables keep their types, and no control queue outgrows its        *)
(* bound: Hub::receivers, App::mutations and the table hooks.               *)
THEOREM TypeCorrect == Spec => []TypeOK
BY Invariant, InvIsTyped, PTL

(* A hook is never left bound to a connection that is over: Hub::cleanup    *)
(* waits for the gate under which handlers have checked that the receiver   *)
(* they bind to is there.                                                   *)
THEOREM BoundToTheLiving == Spec => []BoundIsConnected
<1>1. HubInv => BoundIsConnected
  BY DEF HubInv, StoreOK, BoundIsConnected
<1> QED BY <1>1, Invariant, PTL

(* Nothing is offered under a session after its deletion was answered       *)
(* (DELETE /session and Hub::invalidate_session): what an offer has checked *)
(* under the gate stays so until the copies are out.                        *)
THEOREM SilentAfterLogout == Spec => []NothingOutAfterLogout
<1>1. HubInv => NothingOutAfterLogout
  BY HubAssumption DEF HubInv, SessionsOK, StoreOK, NothingOutAfterLogout
<1> QED BY <1>1, Invariant, PTL
------------------------------------------------------------------------------
(* A pause is never missed, as long as no handler is dropped where it       *)
(* waits.  The invariant also speaks of the hooks a subscription under way  *)
(* is about to announce.                                                    *)

InQueue(q, h) == \E i \in DOMAIN q.queue : h \in q.queue[i].hooks
RowComing(r, h) == \E t \in Tasks : task[t].at = "finishing" /\ <<r, h>> \in task[t].rows
Heard(r) == hub[r].open /\ ~hub[r].cut /\ task[r].at # "broken"
Answering(r) ==
  {h \in task[r].hooks : task[r].at = "finishing" /\ task[r].op = "subscribe"}
Promise(r) ==
  Heard(r) => \A h \in told[r] \cup Answering(r) :
                hooks[h].to = r \/ InQueue(hub[r], h) \/ RowComing(r, h)

(* Subscriptions take hooks from nobody, deletions remember no rows.        *)
RowsClean(o) ==
  o.at = "revoking" \/ (o.at = "finishing" /\ o.op \in {"subscribe", "logout"}) => o.rows = {}

PauseInv ==
  /\ \A r \in Receivers : Promise(r) /\ (task[r].at = "closed" => told[r] = {})
  /\ \A t \in Tasks : RowsClean(task[t])

(* What can still be sent was there before, and nothing queued is lost.     *)
Grew(q, p) ==
  p.open /\ ~p.cut => q.open /\ ~q.cut /\ \A h \in Hooks : InQueue(q, h) => InQueue(p, h)

(* What a step must do with the hooks it releases and the pauses it owes.   *)
Dead(r) == hub'[r].open => hub'[r].cut
Announced(t) ==
  \A r \in Receivers, h \in Hooks : hooks[h].to = r /\ hooks'[h].to # r =>
    \/ Dead(r) \/ InQueue(hub'[r], h)
    \/ task'[t].at = "finishing" /\ <<r, h>> \in task'[t].rows
    \/ r = t /\ h \notin told'[t] \cup Answering(t)'
Paid(t) ==
  \A r \in Receivers, h \in Hooks :
    task[t].at = "finishing" /\ <<r, h>> \in task[t].rows => Dead(r) \/ InQueue(hub'[r], h)
Answers(t) ==
  t \in Receivers =>
    /\ \A h \in told'[t] \cup Answering(t)' : h \in told[t] \cup Answering(t) \/ hooks'[h].to = t
    /\ task[t].at = "broken" => task'[t].at = "broken" \/ Dead(t)
    /\ task'[t].at # "closed"

LEMMA PauseStep ==
  ASSUME HubInv, PauseInv, NEW t \in Tasks, \A u \in Tasks \ {t} : task'[u] = task[u],
         told' \in [Receivers -> SUBSET Hooks], \A r \in Receivers \ {t} : told'[r] = told[r],
         task'[t] \in TaskRecords, \A r \in Receivers : Grew(hub[r], hub'[r]),
         Announced(t), Paid(t), Answers(t), RowsClean(task'[t])
  PROVE  PauseInv'
<1>1. ASSUME NEW r \in Receivers, Heard(r)', NEW h \in told'[r] \cup Answering(r)'
      PROVE  hooks'[h].to = r \/ InQueue(hub'[r], h) \/ RowComing(r, h)'
  <2>1. r \in Tasks /\ ~Dead(r)
    BY <1>1 DEF Tasks, Heard, Dead
  <2>2. task'[r] \in TaskRecords
    BY <2>1, TaskIs
  <2>3. h \in Hooks
    BY <1>1, <2>2 DEF Answering, TaskRecords
  <2>4. task[r].at # "broken"
    BY <1>1, <2>1 DEF Heard, Answers
  <2>5. Heard(r)
    BY <1>1, <2>4 DEF Heard, Grew
  <2>6. h \in told[r] \cup Answering(r) \/ hooks'[h].to = r
    BY <1>1, <2>1 DEF Answers, Answering
  <2>7. CASE h \in told[r] \cup Answering(r) /\ hooks[h].to = r /\ hooks'[h].to # r
    BY <1>1, <2>1, <2>3, <2>7 DEF Announced, RowComing
  <2>8. CASE InQueue(hub[r], h)
    BY <1>1, <2>3, <2>8 DEF Heard, Grew
  <2>9. CASE RowComing(r, h)
    <3>1. PICK u \in Tasks : task[u].at = "finishing" /\ <<r, h>> \in task[u].rows
      BY <2>9 DEF RowComing
    <3>2. CASE u = t
      BY <2>1, <2>3, <3>1, <3>2 DEF Paid
    <3>3. CASE u # t
      BY <3>1, <3>3 DEF RowComing
    <3> QED BY <3>2, <3>3
  <2> QED BY <2>5, <2>6, <2>7, <2>8, <2>9 DEF PauseInv, Promise
<1>2. \A r \in Receivers : Promise(r)'
  BY <1>1 DEF Promise
<1>3. ASSUME NEW r \in Receivers, task'[r].at = "closed" PROVE told'[r] = {}
  BY <1>3 DEF Answers, PauseInv, Tasks
<1>4. \A u \in Tasks : RowsClean(task'[u])
  BY DEF PauseInv
<1> QED BY <1>2, <1>3, <1>4 DEF PauseInv

(* Steps that leave hooks, queues and clients alone.                        *)
LEMMA QuietPause ==
  ASSUME HubInv, PauseInv, NEW t \in Tasks, NEW o \in TaskRecords, task' = [task EXCEPT ![t] = o],
         UNCHANGED <<hooks, hub, told>>, RowsClean(o), o.at # "closed",
         o.at = "finishing" => o.op # "subscribe", task[t].at # "finishing",
         task[t].at = "broken" => o.at = "broken"
  PROVE  PauseInv'
<1>1. task'[t] = o /\ \A u \in Tasks \ {t} : task'[u] = task[u]
  BY DEF HubInv, TasksOK
<1>2. told' \in [Receivers -> SUBSET Hooks] /\ \A r \in Receivers \ {t} : told'[r] = told[r]
  BY DEF HubInv, HubOK
<1>3. \A r \in Receivers : Grew(hub[r], hub'[r])
  BY DEF Grew
<1>4. Announced(t) /\ Paid(t)
  BY DEF Announced, Paid
<1>5. Answers(t)
  BY <1>1 DEF Answers, Answering
<1> QED BY <1>1, <1>2, <1>3, <1>4, <1>5, PauseStep
(* Queueing loses nothing, and what is queued is there.                     *)
LEMMA DeliverGrew ==
  ASSUME NEW q, ReceiverOK(q), NEW msg \in Messages
  PROVE  /\ Grew(q, Deliver(q, msg))
         /\ Deliver(q, msg).open /\ ~Deliver(q, msg).cut =>
              \A h \in msg.hooks : InQueue(Deliver(q, msg), h)
<1>1. q \in HubRecords /\ Len(q.queue) \in Nat
  BY LenProperties DEF ReceiverOK, HubRecords
<1>2. CASE q.open /\ ~q.cut /\ Len(q.queue) < Capacity
  <2> DEFINE longer == Append(q.queue, msg)
             d == [q EXCEPT !.queue = longer]
  <2>1. /\ longer \in Seq(Messages) /\ DOMAIN longer = 1 .. (Len(q.queue) + 1)
        /\ DOMAIN q.queue = 1 .. Len(q.queue)
        /\ \A i \in 1 .. Len(q.queue) : longer[i] = q.queue[i]
        /\ longer[Len(q.queue) + 1] = msg
    BY <1>1, AppendProperties, LenProperties DEF HubRecords
  <2>2. Deliver(q, msg) = d
    BY <1>2 DEF Deliver
  <2> HIDE DEF longer
  <2>3. d \in HubRecords /\ d.queue = longer /\ d.open = q.open
    BY <1>1, <2>1 DEF HubRecords
  <2> HIDE DEF d
  <2>4. ASSUME NEW h, InQueue(q, h) PROVE InQueue(d, h)
    BY <1>1, <2>1, <2>3, <2>4 DEF InQueue
  <2>5. \A h \in msg.hooks : InQueue(d, h)
    BY <1>1, <2>1, <2>3 DEF InQueue
  <2> QED BY <1>2, <2>2, <2>4, <2>5 DEF Grew
<1>3. CASE q.open /\ ~q.cut /\ ~(Len(q.queue) < Capacity)
  <2> DEFINE d == [q EXCEPT !.cut = TRUE]
  <2>1. Deliver(q, msg) = d
    BY <1>3 DEF Deliver
  <2>2. d.cut
    BY <1>1 DEF HubRecords
  <2> HIDE DEF d
  <2> QED BY <2>1, <2>2 DEF Grew
<1>4. CASE ~q.open \/ q.cut
  BY <1>4 DEF Deliver, Grew
<1> QED BY <1>2, <1>3, <1>4

LEMMA GrewTransitive == ASSUME NEW p, NEW q, NEW r, Grew(p, q), Grew(q, r) PROVE Grew(p, r)
BY DEF Grew

LEMMA PauseAllGrew ==
  ASSUME HubInv, NEW rows, NEW r \in Receivers
  PROVE  /\ Grew(hub[r], PauseAll(rows)[r])
         /\ PauseAll(rows)[r].open /\ ~PauseAll(rows)[r].cut =>
              \A h \in Hooks : <<r, h>> \in rows => InQueue(PauseAll(rows)[r], h)
<1> DEFINE hs == {h \in Hooks : <<r, h>> \in rows}
<1>1. ReceiverOK(hub[r])
  BY DEF HubInv, HubOK
<1>2. Pause(hs, FALSE) \in Messages /\ Pause(hs, FALSE).hooks = hs
  BY DEF Pause, Messages
<1>3. PauseAll(rows)[r] = IF hs = {} THEN hub[r] ELSE Deliver(hub[r], Pause(hs, FALSE))
  BY DEF PauseAll
<1>4. \A h \in Hooks : <<r, h>> \in rows => h \in hs
  OBVIOUS
<1> HIDE DEF hs
<1>5. CASE hs = {}
  BY <1>3, <1>4, <1>5 DEF Grew
<1>6. CASE hs # {}
  BY <1>1, <1>2, <1>3, <1>4, <1>6, DeliverGrew
<1> QED BY <1>5, <1>6

LEMMA HintedGrew ==
  ASSUME NEW q, Queued(q), NEW a, NEW r \in Receivers PROVE Grew(q[r], Hinted(q, a)[r])
<1>1. ReceiverOK(q[r]) /\ Hint \in Messages
  BY DEF Queued, Hint, Pause, Messages
<1>2. Grew(q[r], Deliver(q[r], Hint)) /\ Grew(q[r], q[r])
  BY <1>1, DeliverGrew DEF Grew
<1> QED BY <1>2 DEF Hinted

LEMMA ForgetGrew ==
  ASSUME NEW q, ReceiverOK(q), NEW s \in Sessions PROVE Grew(q, Forget(q, s))
<1> DEFINE kept == [q EXCEPT !.auth = @ \ {s}]
           deaf == [kept EXCEPT !.watch = None]
<1>1. kept \in HubRecords /\ kept.queue = q.queue /\ kept.open = q.open
  BY DEF ReceiverOK, HubRecords
<1>2. kept.cut = q.cut
  BY DEF ReceiverOK, HubRecords
<1> HIDE DEF kept
<1>3. deaf \in HubRecords /\ deaf.queue = q.queue /\ deaf.open = q.open
  BY <1>1 DEF HubRecords
<1>4. deaf.cut = q.cut
  BY <1>1, <1>2 DEF HubRecords
<1> HIDE DEF deaf
<1>5. ReceiverOK(deaf) /\ Pause({}, TRUE) \in Messages
  BY <1>1, <1>3 DEF ReceiverOK, Pause, Messages
<1>6. Grew(q, kept) /\ Grew(q, deaf)
  BY <1>1, <1>2, <1>3, <1>4 DEF Grew, InQueue
<1>7. Grew(q, Deliver(deaf, Pause({}, TRUE)))
  BY <1>5, <1>6, DeliverGrew, GrewTransitive
<1> QED BY <1>6, <1>7 DEF Forget, kept, deaf
LEMMA EndPause ==
  ASSUME HubInv, PauseInv, NEW t \in Tasks, End(t), task[t].at \notin {"finishing", "broken"},
         UNCHANGED <<hooks, hub, told>>
  PROVE  PauseInv'
BY IdleOK, QuietPause DEF End, RowsClean

LEMMA BeginPause ==
  ASSUME HubInv, PauseInv, NEW t \in Tasks, NEW op \in Ops, NEW of \in Accounts \cup {None},
         NEW by \in SUBSET Sessions, NEW hs \in SUBSET Hooks, NEW to \in Receivers \cup {None},
         Begin(t, op, of, by, hs, to)
  PROVE  PauseInv'
<1> DEFINE o == Handler("asking", op, of, by, hs, to)
<1>1. o \in TaskRecords /\ o.at = "asking"
  BY DEF Handler, TaskRecords, Stages
<1>2. task' = [task EXCEPT ![t] = o] /\ task[t].at = "idle" /\ UNCHANGED <<hooks, hub, told>>
  BY DEF Begin, Silent, store
<1> HIDE DEF o
<1> QED BY <1>1, <1>2, QuietPause DEF RowsClean

LEMMA FramePause == ASSUME HubInv, PauseInv, NEW r \in Receivers, Frame(r) PROVE PauseInv'
<1>1. r \in Tasks
  BY DEF Tasks
<1>2. ASSUME NEW s \in Sessions, NEW hs \in SUBSET HooksOf(Owner[s]),
             Begin(r, "subscribe", Owner[s], {s}, hs, r)
      PROVE  PauseInv'
  BY <1>1, <1>2, BeginPause DEF Ops, Accounts, HooksOf
<1>3. ASSUME NEW s \in Sessions, Begin(r, "watch", Owner[s], {s}, {}, r) PROVE PauseInv'
  BY <1>1, <1>3, BeginPause DEF Ops, Accounts
<1>4. ASSUME NEW op \in {"unsubscribe", "pause"}, NEW hs \in SUBSET Bound(r) \ {{}},
             Begin(r, op, None, {hooks[h].by : h \in hs}, hs, r)
      PROVE  PauseInv'
  <2>1. {hooks[h].by : h \in hs} \in SUBSET Sessions /\ hs \in SUBSET Hooks
    BY BoundOK
  <2>2. op \in Ops
    BY DEF Ops
  <2> QED BY <1>1, <1>4, <2>1, <2>2, BeginPause
<1>5. ASSUME NEW h \in Bound(r), Begin(r, "ack", Owner[h], {hooks[h].by}, {h}, r) PROVE PauseInv'
  BY <1>1, <1>5, BoundOK, BeginPause DEF Ops, Accounts
<1>6. ASSUME NEW a \in Accounts, Begin(r, "hint", a, {}, {}, None) PROVE PauseInv'
  BY <1>1, <1>6, BeginPause DEF Ops
<1> QED BY <1>2, <1>3, <1>4, <1>5, <1>6 DEF Frame

LEMMA RequestPause == ASSUME HubInv, PauseInv, NEW c \in Callers, Request(c) PROVE PauseInv'
<1>1. c \in Tasks
  BY DEF Tasks
<1>2. ASSUME NEW s \in Sessions, NEW h \in Hooks, Begin(c, "detach", Owner[s], {s}, {h}, None)
      PROVE  PauseInv'
  BY <1>1, <1>2, BeginPause DEF Ops, Accounts
<1>3. ASSUME NEW s \in Sessions, NEW h \in Hooks, NEW r \in Receivers,
             NEW op \in {"attach", "takeover", "create"}, Begin(c, op, Owner[s], {s}, {h}, r)
      PROVE  PauseInv'
  BY <1>1, <1>3, BeginPause DEF Ops, Accounts
<1>4. ASSUME NEW a \in Accounts, NEW op \in {"invalidate", "hint"},
             NEW by \in {{}} \cup {{s} : s \in Sessions}, Begin(c, op, a, by, {}, None)
      PROVE  PauseInv'
  <2>1. by \in SUBSET Sessions
    OBVIOUS
  <2>2. op \in Ops
    BY DEF Ops
  <2> QED BY <1>1, <1>4, <2>1, <2>2, BeginPause
<1> QED BY <1>2, <1>3, <1>4 DEF Request

LEMMA WaitingPause ==
  ASSUME HubInv, PauseInv, NEW t \in Tasks, Authenticate(t) \/ Enter(t) PROVE PauseInv'
<1>1. task[t].at \in {"asking", "waiting"} /\ UNCHANGED <<hooks, hub, told>>
  BY DEF Authenticate, Enter, Silent, store
<1>2. ASSUME NEW at \in {"waiting", "checked"}, Goto(t, at) PROVE PauseInv'
  <2> DEFINE o == [task[t] EXCEPT !.at = at]
  <2>1. at \in Stages
    BY DEF Stages
  <2>2. o \in TaskRecords /\ o.at = at
    BY <2>1, GotoShape
  <2>3. task' = [task EXCEPT ![t] = o]
    BY <1>2 DEF Goto
  <2> HIDE DEF o
  <2> QED BY <1>1, <2>2, <2>3, QuietPause DEF RowsClean
<1>3. CASE End(t)
  BY <1>1, <1>3, EndPause
<1> QED BY <1>2, <1>3 DEF Authenticate, Enter

LEMMA LogoutPause ==
  ASSUME HubInv, PauseInv, NEW c \in Callers, NEW s \in Sessions, Logout(c, s) PROVE PauseInv'
<1> DEFINE o == Handler("revoking", "logout", None, {s}, {}, None)
<1>1. o \in TaskRecords /\ o.at = "revoking" /\ o.rows = {}
  BY DEF Handler, TaskRecords, Stages, Ops
<1>2. task' = [task EXCEPT ![c] = o] /\ task[c].at = "idle" /\ UNCHANGED <<hooks, hub, told>>
  BY DEF Logout, Silent, store
<1> HIDE DEF o
<1> QED BY <1>1, <1>2, QuietPause DEF RowsClean, Tasks

LEMMA RevokePause == ASSUME HubInv, PauseInv, NEW c \in Callers, Revoke(c) PROVE PauseInv'
<1> DEFINE o == [task[c] EXCEPT !.at = "finishing"]
<1>1. c \in Tasks
  BY DEF Tasks
<1>2. o \in TaskRecords /\ o.at = "finishing" /\ o.op = task[c].op /\ o.rows = task[c].rows
  BY <1>1, GotoShape DEF Stages
<1>3. task' = [task EXCEPT ![c] = o] /\ task[c].at = "revoking" /\ UNCHANGED <<hooks, hub, told>>
  BY DEF Revoke, Goto, Silent, store
<1> HIDE DEF o
<1>4. task[c].op = "logout" /\ task[c].rows = {}
  BY <1>1, <1>3, TaskIs DEF ShapeOK, PauseInv, RowsClean
<1> QED BY <1>1, <1>2, <1>3, <1>4, QuietPause DEF RowsClean

LEMMA LostPause == ASSUME HubInv, PauseInv, NEW r \in Receivers, Lost(r) PROVE PauseInv'
<1> DEFINE o == [Idle EXCEPT !.at = "broken"]
<1>1. o \in TaskRecords /\ o.at = "broken"
  BY ParkedOK
<1>2. task' = [task EXCEPT ![r] = o] /\ task[r].at # "finishing" /\ UNCHANGED <<hooks, hub, told>>
  BY DEF Lost, Silent, store
<1> HIDE DEF o
<1> QED BY <1>1, <1>2, QuietPause DEF RowsClean, Tasks

LEMMA TimerPause ==
  ASSUME HubInv, PauseInv, NEW r \in Receivers,
         OfferStart(r) \/ OfferCheck(r) \/ OfferPut(r) \/ Validate(r)
           \/ \E s \in Sessions : Confirm(r, s)
  PROVE  PauseInv'
<1>1. r \in Tasks
  BY DEF Tasks
<1>2. task[r].at \notin {"finishing", "broken"} /\ UNCHANGED <<hooks, hub, told>>
  BY DEF OfferStart, OfferCheck, OfferPut, Validate, Confirm, Silent, store
<1>3. PICK at \in {"offering", "putting", "dropping", "validating"} : MovesTo(r, at)
  BY OfferStartOK, OfferCheckOK, OfferPutOK, ValidateOK, ConfirmOK
<1> QED BY <1>1, <1>2, <1>3, QuietPause DEF MovesTo, RowsClean
(* Who finishes remembers the rows of what it took.                         *)
LEMMA FinishPause ==
  ASSUME HubInv, PauseInv, NEW t \in Tasks, task[t].at = "checked", task[t].op # "logout",
         NEW rows \in SUBSET AllRows, Finish(t, rows), UNCHANGED <<hub, told>>,
         task[t].op = "subscribe" => rows = {} /\ \A h \in task[t].hooks : hooks'[h].to = t,
         \A r \in Receivers, h \in Hooks :
           hooks[h].to = r /\ hooks'[h].to # r => <<r, h>> \in rows
  PROVE  PauseInv'
<1>1. task' = [task EXCEPT ![t] = task'[t]] /\ task'[t] \in TaskRecords
      /\ task'[t].at = "finishing" /\ task'[t].op = task[t].op /\ task'[t].rows = rows
      /\ task'[t].hooks = task[t].hooks
  BY RowsShape DEF Finish, Stages
<1>2. \A u \in Tasks \ {t} : task'[u] = task[u]
  BY <1>1 DEF HubInv, TasksOK
<1>3. told' \in [Receivers -> SUBSET Hooks] /\ \A r \in Receivers \ {t} : told'[r] = told[r]
  BY DEF HubInv, HubOK
<1>4. \A r \in Receivers : Grew(hub[r], hub'[r])
  BY DEF Grew
<1>5. Announced(t) /\ Paid(t)
  BY <1>1 DEF Announced, Paid
<1>6. Answers(t) /\ RowsClean(task'[t])
  BY <1>1 DEF Answers, Answering, RowsClean
<1> QED BY <1>1, <1>2, <1>3, <1>4, <1>5, <1>6, PauseStep

LEMMA RefusePause ==
  ASSUME HubInv, PauseInv, NEW t \in Tasks, task[t].at = "checked", Refuse(t),
         UNCHANGED <<hub, told>>
  PROVE  PauseInv'
BY EndPause DEF Refuse, store

LEMMA BindPause == ASSUME HubInv, PauseInv, NEW t \in Tasks, Bind(t) PROVE PauseInv'
<1> DEFINE hs == task[t].hooks
           r == task[t].to
           s == CHOOSE s \in task[t].by : TRUE
           lost == {h \in hs : hooks[h].to \notin {None, r}}
           rows == {<<hooks[h].to, h>> : h \in lost}
<1>1. task[t].at = "checked" /\ task[t].op \in BindOps /\ task[t].op # "logout"
      /\ UNCHANGED <<hub, told>>
  BY DEF Bind, BindOps, Silent
<1>2. r \in Receivers /\ hs \subseteq Hooks
  BY <1>1, BinderOK
<1>3. CASE (\A h \in hs : Bindable(t, h)) /\ Hand(hs, "connected", r, s) /\ Finish(t, rows)
  <2>1. rows \in SUBSET AllRows
    BY <1>2, RowsOK
  <2>2. \A h \in Hooks : hooks'[h].to = IF h \in hs THEN r ELSE hooks[h].to
    BY <1>3 DEF Hand
  <2>3. task[t].op = "subscribe" => rows = {} /\ \A h \in hs : hooks'[h].to = t
    <3> HAVE task[t].op = "subscribe"
    <3>1. r = t
      BY <1>1, TaskIs DEF ShapeOK, Handles
    <3>2. lost = {}
      BY <1>3 DEF Bindable
    <3> QED BY <1>2, <2>2, <3>1, <3>2
  <2>4. \A q \in Receivers, h \in Hooks :
          hooks[h].to = q /\ hooks'[h].to # q => <<q, h>> \in rows
    BY <2>2, HubAssumption
  <2> HIDE DEF rows
  <2> QED BY <1>1, <1>3, <2>1, <2>3, <2>4, FinishPause
<1>4. CASE Refuse(t)
  BY <1>1, <1>4, RefusePause
<1> QED BY <1>3, <1>4 DEF Bind

LEMMA CreateHookPause == ASSUME HubInv, PauseInv, NEW t \in Tasks, CreateHook(t) PROVE PauseInv'
<1> DEFINE hs == task[t].hooks
           s == CHOOSE s \in task[t].by : TRUE
<1>1. task[t].at = "checked" /\ task[t].op = "create" /\ UNCHANGED <<hub, told>>
  BY DEF CreateHook, Silent
<1>2. CASE /\ \A h \in hs : hooks[h].state = "absent"
           /\ Hand(hs, "connected", task[t].to, s) /\ Finish(t, {})
  <2>1. \A h \in Hooks : h \notin hs => hooks'[h] = hooks[h]
    BY <1>2 DEF Hand
  <2>2. \A h \in Hooks : h \in hs => hooks[h].to = None
    BY <1>2 DEF HubInv, StoreOK, HookOK
  <2>3. \A r \in Receivers, h \in Hooks : ~(hooks[h].to = r /\ hooks'[h].to # r)
    BY <2>1, <2>2, HubAssumption
  <2> QED BY <1>1, <1>2, <2>3, FinishPause
<1>3. CASE Refuse(t)
  BY <1>1, <1>3, RefusePause
<1> QED BY <1>2, <1>3 DEF CreateHook

LEMMA DetachPause == ASSUME HubInv, PauseInv, NEW t \in Tasks, Detach(t) PROVE PauseInv'
<1> DEFINE hs == {h \in task[t].hooks : hooks[h].state # "absent"}
           rows == {<<hooks[h].to, h>> : h \in {h \in hs : hooks[h].to # None}}
<1>1. /\ task[t].at = "checked" /\ task[t].op = "detach"
      /\ Hand(hs, "detached", None, None) /\ Finish(t, rows) /\ UNCHANGED <<hub, told>>
  BY DEF Detach, Silent
<1>2. rows \in SUBSET AllRows
  BY TaskIs, RowsOK DEF TaskRecords
<1>3. \A h \in Hooks : h \notin hs => hooks'[h] = hooks[h]
  BY <1>1 DEF Hand
<1>4. \A r \in Receivers, h \in Hooks : hooks[h].to = r /\ hooks'[h].to # r => <<r, h>> \in rows
  BY <1>3, HubAssumption
<1> HIDE DEF hs, rows
<1> QED BY <1>1, <1>2, <1>4, FinishPause

LEMMA InvalidatePause == ASSUME HubInv, PauseInv, NEW t \in Tasks, Invalidate(t) PROVE PauseInv'
<1> DEFINE hs == {h \in HooksOf(task[t].of) : hooks[h].to # None}
           rows == {<<hooks[h].to, h>> : h \in hs}
<1>1. /\ task[t].at = "checked" /\ task[t].op \in {"invalidate", "ack"}
      /\ Hand(hs, "disconnected", None, None) /\ Finish(t, rows) /\ UNCHANGED <<hub, told>>
  BY DEF Invalidate, Silent
<1>2. rows \in SUBSET AllRows
  BY RowsOK DEF HooksOf
<1>3. \A h \in Hooks : h \notin hs => hooks'[h] = hooks[h]
  BY <1>1 DEF Hand
<1>4. \A r \in Receivers, h \in Hooks : hooks[h].to = r /\ hooks'[h].to # r => <<r, h>> \in rows
  BY <1>3, HubAssumption
<1> HIDE DEF hs, rows
<1> QED BY <1>1, <1>2, <1>4, FinishPause

LEMMA UnsubscribePause == ASSUME HubInv, PauseInv, NEW t \in Tasks, Unsubscribe(t) PROVE PauseInv'
<1>1. task[t].at = "checked" /\ task[t].op \in {"unsubscribe", "pause"} /\ UNCHANGED hub
  BY DEF Unsubscribe
<1>2. CASE /\ \A h \in task[t].hooks : hooks[h].to = t
           /\ \E state : Hand(task[t].hooks, state, None, None)
           /\ End(t) /\ told' = [told EXCEPT ![t] = @ \ task[t].hooks]
  <2>1. t \in Receivers
    BY <1>1, TaskIs DEF ShapeOK, Handles
  <2>2. task'[t] = Idle /\ \A u \in Tasks \ {t} : task'[u] = task[u]
    BY <1>2 DEF End, HubInv, TasksOK
  <2>3. /\ told' \in [Receivers -> SUBSET Hooks] /\ \A r \in Receivers \ {t} : told'[r] = told[r]
        /\ told'[t] = told[t] \ task[t].hooks
    BY <1>2, <2>1 DEF HubInv, HubOK
  <2>4. \A r \in Receivers : Grew(hub[r], hub'[r])
    BY <1>1 DEF Grew
  <2>5. Answering(t)' = {} /\ RowsClean(task'[t])
    BY <2>2, IdleOK DEF Answering, RowsClean
  <2>6. \A h \in Hooks : h \notin task[t].hooks => hooks'[h] = hooks[h]
    BY <1>2 DEF Hand
  <2>7. Announced(t) /\ Paid(t)
    BY <1>1, <1>2, <2>3, <2>5, <2>6 DEF Announced, Paid
  <2>8. Answers(t)
    BY <1>1, <2>2, <2>3, <2>5, IdleOK DEF Answers
  <2> QED BY <2>2, <2>3, <2>4, <2>5, <2>7, <2>8, IdleOK, PauseStep
<1>3. CASE Refuse(t) /\ UNCHANGED told
  BY <1>1, <1>3, RefusePause
<1> QED BY <1>2, <1>3 DEF Unsubscribe
(* A handler that ends, having queued and told.                             *)
LEMMA EndingPause ==
  ASSUME HubInv, PauseInv, NEW t \in Tasks, End(t), task[t].at # "broken",
         told' \in [Receivers -> SUBSET Hooks], \A r \in Receivers \ {t} : told'[r] = told[r],
         \A r \in Receivers : Grew(hub[r], hub'[r]), Paid(t),
         t \in Receivers => told'[t] \subseteq told[t] \cup Answering(t),
         \A r \in Receivers, h \in Hooks :
           hooks[h].to = r /\ hooks'[h].to # r => Dead(r) \/ InQueue(hub'[r], h)
  PROVE  PauseInv'
<1>1. task'[t] = Idle /\ \A u \in Tasks \ {t} : task'[u] = task[u]
  BY DEF End, HubInv, TasksOK
<1>2. Answering(t)' = {} /\ RowsClean(task'[t])
  BY <1>1, IdleOK DEF Answering, RowsClean
<1>3. Announced(t) /\ Answers(t)
  BY <1>1, <1>2, IdleOK DEF Announced, Answers
<1> QED BY <1>1, <1>2, <1>3, IdleOK, PauseStep

LEMMA AcknowledgePause ==
  ASSUME HubInv, PauseInv, NEW t \in Tasks, Acknowledge(t) PROVE PauseInv'
<1>1. \A r \in Receivers : Grew(hub[r], hub'[r])
  BY SameQueued, HintedGrew DEF Acknowledge, Grew
<1>2. task[t].at = "checked" /\ End(t) /\ UNCHANGED <<hooks, told>>
  BY DEF Acknowledge, store
<1>3. told' \in [Receivers -> SUBSET Hooks] /\ Paid(t)
  BY <1>2 DEF HubInv, HubOK, Paid
<1> QED BY <1>1, <1>2, <1>3, EndingPause

LEMMA ConcludePause == ASSUME HubInv, PauseInv, NEW t \in Tasks, Conclude(t) PROVE PauseInv'
<1> DEFINE s == CHOOSE s \in task[t].by : TRUE
           paused == PauseAll(task[t].rows)
<1>1. End(t) /\ UNCHANGED hooks /\ task[t].at # "broken" /\ HubOK
  BY DEF Conclude, store, HubInv
<1>2. ShapeOK(t, task[t]) /\ Handles(task[t]) /\ RowsClean(task[t])
  BY TaskIs DEF Conclude, Handles, PauseInv
<1>3. CASE /\ task[t].at = "finishing" /\ task[t].op = "subscribe"
           /\ hub' = [hub EXCEPT ![t].auth = {q \in @ : Owner[q] # Owner[s]} \cup {s}]
           /\ told' = [told EXCEPT ![t] = @ \cup task[t].hooks]
  <2> DEFINE auth == {q \in hub[t].auth : Owner[q] # Owner[s]} \cup {s}
             o == [hub[t] EXCEPT !.auth = auth]
  <2>1. t \in Receivers /\ task[t].rows = {} /\ hub[t] \in HubRecords
        /\ task[t].hooks \subseteq Hooks
    BY <1>1, <1>2, <1>3 DEF ShapeOK, RowsClean, HubOK, TaskRecords
  <2>2. hub' = [hub EXCEPT ![t] = o]
    BY <1>3
  <2> HIDE DEF auth
  <2>3. o.open = hub[t].open /\ o.queue = hub[t].queue
    BY <2>1 DEF HubRecords
  <2>4. o.cut = hub[t].cut
    BY <2>1 DEF HubRecords
  <2> HIDE DEF o
  <2>5. \A r \in Receivers : Grew(hub[r], hub'[r])
    BY <1>1, <2>2, <2>3, <2>4 DEF HubOK, Grew, InQueue
  <2>6. told' \in [Receivers -> SUBSET Hooks] /\ \A r \in Receivers \ {t} : told'[r] = told[r]
    BY <1>1, <1>3, <2>1 DEF HubOK
  <2>7. told'[t] \subseteq told[t] \cup Answering(t)
    BY <1>1, <1>3, <2>1 DEF HubOK, Answering
  <2>8. Paid(t)
    BY <2>1 DEF Paid
  <2> QED BY <1>1, <2>5, <2>6, <2>7, <2>8, EndingPause
<1>4. CASE task[t].at = "checked" /\ task[t].op = "watch"
           /\ hub' = [hub EXCEPT ![t].watch = s] /\ UNCHANGED told
  <2> DEFINE o == [hub[t] EXCEPT !.watch = s]
  <2>1. t \in Receivers /\ hub[t] \in HubRecords
    BY <1>1, <1>2, <1>4 DEF ShapeOK, HubOK
  <2>2. hub' = [hub EXCEPT ![t] = o]
    BY <1>4
  <2> HIDE DEF s
  <2>3. o.open = hub[t].open /\ o.queue = hub[t].queue
    BY <2>1 DEF HubRecords
  <2>4. o.cut = hub[t].cut
    BY <2>1 DEF HubRecords
  <2> HIDE DEF o
  <2>5. \A r \in Receivers : Grew(hub[r], hub'[r])
    BY <1>1, <2>2, <2>3, <2>4 DEF HubOK, Grew, InQueue
  <2>6. told' \in [Receivers -> SUBSET Hooks] /\ Paid(t)
    BY <1>1, <1>4 DEF HubOK, Paid
  <2> QED BY <1>1, <1>4, <2>5, <2>6, EndingPause
<1>5. CASE task[t].at = "checked" /\ hub' = Hinted(hub, task[t].of) /\ UNCHANGED told
  <2>1. told' \in [Receivers -> SUBSET Hooks] /\ Paid(t)
    BY <1>1, <1>5 DEF HubOK, Paid
  <2> QED BY <1>1, <1>5, <2>1, SameQueued, HintedGrew, EndingPause
<1>6. CASE hub' \in {paused, Hinted(paused, task[t].of)} /\ UNCHANGED told
  <2>1. Queued(paused)
    BY PauseAllOK
  <2>2. ASSUME NEW r \in Receivers
        PROVE  Grew(hub[r], hub'[r]) /\ Grew(paused[r], hub'[r])
    <3>1. Grew(hub[r], paused[r])
      BY PauseAllGrew
    <3> HIDE DEF paused
    <3>2. Grew(paused[r], hub'[r])
      BY <1>6, <2>1, HintedGrew DEF Grew
    <3> QED BY <3>1, <3>2, GrewTransitive
  <2>3. \A r \in Receivers : paused[r].open /\ ~paused[r].cut =>
          \A h \in Hooks : <<r, h>> \in task[t].rows => InQueue(paused[r], h)
    BY PauseAllGrew
  <2> HIDE DEF paused
  <2>4. Paid(t)
    BY <2>2, <2>3 DEF Paid, Dead, Grew
  <2>5. told' \in [Receivers -> SUBSET Hooks]
    BY <1>1, <1>6 DEF HubOK
  <2> QED BY <1>1, <1>6, <2>2, <2>4, <2>5, EndingPause
<1> HIDE DEF s, paused
<1> QED BY <1>3, <1>4, <1>5, <1>6 DEF Conclude, s, paused

LEMMA InvalidateSessionPause ==
  ASSUME HubInv, PauseInv, NEW c \in Callers, InvalidateSession(c) PROVE PauseInv'
<1> DEFINE s == CHOOSE s \in task[c].by : TRUE
           mine == {h \in Hooks : hooks[h].by = s /\ hooks[h].state = "connected"
                                  /\ hub[hooks[h].to].open}
           rows == {<<hooks[h].to, h>> : h \in mine}
           paused == PauseAll(rows)
<1>1. c \in Tasks /\ c \notin Receivers
  BY HubAssumption DEF Tasks
<1>2. task[c].at = "finishing" /\ task[c].op = "logout" /\ End(c)
      /\ Hand(mine, "disconnected", None, None) /\ UNCHANGED told
      /\ hub' = [r \in Receivers |-> IF hub[r].open THEN Forget(paused[r], s) ELSE hub[r]]
  BY DEF InvalidateSession
<1>3. s \in Sessions /\ task[c].rows = {}
  <2>1. task[c].by # {} /\ task[c].by \in SUBSET Sessions
    BY <1>1, <1>2, TaskIs DEF ShapeOK, Handles, TaskRecords
  <2> QED BY <1>1, <1>2, <2>1 DEF PauseInv, RowsClean
<1> HIDE DEF s
<1>4. ASSUME NEW r \in Receivers
      PROVE  Grew(hub[r], hub'[r]) /\ Grew(paused[r], hub'[r])
  <2>1. Grew(hub[r], paused[r]) /\ ReceiverOK(paused[r]) /\ paused[r].open = hub[r].open
    BY PauseAllGrew, PauseAllOK DEF Queued
  <2> HIDE DEF paused
  <2>2. Grew(paused[r], Forget(paused[r], s))
    BY <1>3, <2>1, ForgetGrew
  <2>3. Grew(hub[r], Forget(paused[r], s))
    BY <2>1, <2>2, GrewTransitive
  <2> QED BY <1>2, <2>1, <2>2, <2>3 DEF Grew
<1>5. \A r \in Receivers : paused[r].open /\ ~paused[r].cut =>
        \A h \in Hooks : <<r, h>> \in rows => InQueue(paused[r], h)
  BY PauseAllGrew
<1> HIDE DEF paused
<1>6. \A h \in Hooks : h \notin mine => hooks'[h] = hooks[h]
  BY <1>2 DEF Hand
<1>7. \A r \in Receivers, h \in Hooks :
        hooks[h].to = r /\ hooks'[h].to # r => Dead(r) \/ InQueue(hub'[r], h)
  <2> SUFFICES ASSUME NEW r \in Receivers, NEW h \in Hooks,
                      hooks[h].to = r, hooks'[h].to # r, ~Dead(r)
               PROVE  InQueue(hub'[r], h)
    OBVIOUS
  <2>1. <<r, h>> \in rows
    BY <1>6
  <2> HIDE DEF rows
  <2> QED BY <1>4, <1>5, <2>1 DEF Dead, Grew
<1>8. told' \in [Receivers -> SUBSET Hooks] /\ Paid(c)
  BY <1>2, <1>3 DEF HubInv, HubOK, Paid
<1> QED BY <1>1, <1>2, <1>4, <1>7, <1>8, EndingPause
LEMMA OfferDropPause == ASSUME HubInv, PauseInv, NEW r \in Receivers, OfferDrop(r) PROVE PauseInv'
<1> DEFINE hs == task[r].hooks
           rows == {r} \X hs
           paused == PauseAll(rows)
<1>1. r \in Tasks
  BY DEF Tasks
<1>2. task[r].at = "dropping" /\ UNCHANGED told
  BY DEF OfferDrop
<1>3. CASE /\ \A h \in hs : hooks[h].to = r
           /\ Hand(hs, "disconnected", None, None) /\ hub' = paused
           /\ task' = [task EXCEPT ![r].at = "offering", ![r].hooks = {}]
  <2>1. task' = [task EXCEPT ![r] = task'[r]] /\ task'[r] \in TaskRecords
        /\ task'[r].at = "offering"
    <3>1. HoldsOn(r, "offering", {})
      BY <1>3 DEF HoldsOn
    <3>2. "offering" \in Stages
      BY DEF Stages
    <3> QED BY <1>1, <3>1, <3>2, HooksShape
  <2>2. \A u \in Tasks \ {r} : task'[u] = task[u]
    BY <2>1 DEF HubInv, TasksOK
  <2>3. \A q \in Receivers : Grew(hub[q], hub'[q]) /\ (~Dead(q) =>
          \A h \in Hooks : <<q, h>> \in rows => InQueue(hub'[q], h))
    BY <1>3, PauseAllGrew DEF Dead
  <2>4. Announced(r)
    <3>1. \A h \in Hooks : h \notin hs => hooks'[h] = hooks[h]
      BY <1>3 DEF Hand
    <3> QED BY <1>3, <2>3, <3>1 DEF Announced
  <2>5. Answering(r)' = {} /\ RowsClean(task'[r]) /\ Paid(r)
    BY <1>2, <2>1 DEF Answering, RowsClean, Paid
  <2>6. Answers(r)
    BY <1>2, <2>1, <2>5 DEF Answers
  <2>7. told' \in [Receivers -> SUBSET Hooks]
    BY <1>2 DEF HubInv, HubOK
  <2> QED BY <1>1, <1>2, <2>1, <2>2, <2>3, <2>4, <2>5, <2>6, <2>7, PauseStep
<1>4. CASE task' = [task EXCEPT ![r] = [Idle EXCEPT !.at = "broken"]] /\ UNCHANGED <<store, hub>>
  <2> DEFINE o == [Idle EXCEPT !.at = "broken"]
  <2>1. o \in TaskRecords /\ o.at = "broken"
    BY ParkedOK
  <2>2. task' = [task EXCEPT ![r] = o]
    BY <1>4
  <2> HIDE DEF o
  <2> QED BY <1>1, <1>2, <1>4, <2>1, <2>2, QuietPause DEF RowsClean, store
<1> QED BY <1>3, <1>4 DEF OfferDrop

LEMMA WithdrawPause ==
  ASSUME HubInv, PauseInv, NEW r \in Receivers, NEW s \in Sessions, Withdraw(r, s)
  PROVE  PauseInv'
<1> DEFINE hs == {h \in Bound(r) : hooks[h].by = s}
           rows == {r} \X hs
           paused == PauseAll(rows)
           rest == task[r].by \ {s}
<1>1. r \in Tasks
  BY DEF Tasks
<1>2. task[r].at = "validating" /\ Hand(hs, "disconnected", None, None)
      /\ hub' = [hub EXCEPT ![r] = Forget(paused[r], s)]
      /\ task' = [task EXCEPT ![r].by = rest] /\ UNCHANGED told
  BY <1>1, TaskIs DEF Withdraw
<1>3. rest \in SUBSET Sessions
  BY <1>1, TaskIs DEF TaskRecords
<1> HIDE DEF rest
<1>4. task' = [task EXCEPT ![r] = task'[r]] /\ task'[r] \in TaskRecords
      /\ task'[r].at = "validating"
  BY <1>1, <1>2, <1>3, ByShape DEF Stages
<1>5. \A u \in Tasks \ {r} : task'[u] = task[u]
  BY <1>4 DEF HubInv, TasksOK
<1>6. /\ Grew(hub[r], Forget(paused[r], s)) /\ Grew(paused[r], Forget(paused[r], s))
      /\ paused[r].open /\ ~paused[r].cut =>
           \A h \in Hooks : <<r, h>> \in rows => InQueue(paused[r], h)
  <2>1. /\ Grew(hub[r], paused[r]) /\ ReceiverOK(paused[r])
        /\ paused[r].open /\ ~paused[r].cut =>
             \A h \in Hooks : <<r, h>> \in rows => InQueue(paused[r], h)
    BY PauseAllGrew, PauseAllOK DEF Queued
  <2> HIDE DEF paused, rows
  <2>2. Grew(paused[r], Forget(paused[r], s))
    BY <2>1, ForgetGrew
  <2> QED BY <2>1, <2>2, GrewTransitive
<1> HIDE DEF paused
<1>7. hub'[r] = Forget(paused[r], s) /\ \A q \in Receivers \ {r} : hub'[q] = hub[q]
  BY <1>2 DEF HubInv, HubOK
<1>8. \A q \in Receivers : Grew(hub[q], hub'[q])
  BY <1>6, <1>7 DEF Grew
<1>9. Announced(r)
  <2>1. \A h \in Hooks : h \notin hs => hooks'[h] = hooks[h]
    BY <1>2 DEF Hand
  <2>2. \A h \in hs : hooks[h].to = r /\ <<r, h>> \in rows
    BY BoundOK
  <2>3. ~Dead(r) => \A h \in hs : InQueue(hub'[r], h)
    <3>1. ~Dead(r) => \A h \in Hooks : <<r, h>> \in rows => InQueue(hub'[r], h)
      BY <1>6, <1>7 DEF Dead, Grew
    <3> QED BY <2>2, <3>1, BoundOK
  <2> QED BY <2>1, <2>2, <2>3 DEF Announced
<1>10. Answering(r)' = {} /\ RowsClean(task'[r]) /\ Paid(r)
  BY <1>2, <1>4 DEF Answering, RowsClean, Paid
<1>11. Answers(r)
  BY <1>2, <1>4, <1>10 DEF Answers
<1>12. told' \in [Receivers -> SUBSET Hooks]
  BY <1>2 DEF HubInv, HubOK
<1> QED BY <1>1, <1>2, <1>4, <1>5, <1>8, <1>9, <1>10, <1>11, <1>12, PauseStep

LEMMA CleanupPause == ASSUME HubInv, PauseInv, NEW r \in Receivers, Cleanup(r) PROVE PauseInv'
<1> DEFINE o == [task[r] EXCEPT !.at = "gone"]
<1>1. r \in Tasks /\ HubOK
  BY DEF Tasks, HubInv
<1>2. task[r].at = "broken" /\ Hand(Bound(r), "disconnected", None, None)
      /\ hub' = [hub EXCEPT ![r] = NoReceiver] /\ told' = [told EXCEPT ![r] = {}]
      /\ task' = [task EXCEPT ![r] = o]
  BY DEF Cleanup, Goto
<1>3. o \in TaskRecords /\ o.at = "gone"
  BY <1>1, GotoShape DEF Stages
<1> HIDE DEF o
<1>4. task'[r] = o /\ \A u \in Tasks \ {r} : task'[u] = task[u]
  BY <1>1, <1>2 DEF HubInv, TasksOK
<1>5. hub'[r] = NoReceiver /\ \A q \in Receivers \ {r} : hub'[q] = hub[q]
  BY <1>1, <1>2 DEF HubOK
<1>6. \A q \in Receivers : Grew(hub[q], hub'[q])
  BY <1>5, NoReceiverOK DEF Grew
<1>7. told' \in [Receivers -> SUBSET Hooks] /\ \A q \in Receivers \ {r} : told'[q] = told[q]
  BY <1>1, <1>2 DEF HubOK
<1>8. told'[r] = {} /\ Answering(r)' = {} /\ Dead(r)
  BY <1>1, <1>2, <1>3, <1>4, <1>5, NoReceiverOK DEF HubOK, Answering, Dead
<1>9. Announced(r)
  <2>1. \A h \in Hooks : h \notin Bound(r) => hooks'[h] = hooks[h]
    BY <1>2 DEF Hand
  <2> QED BY <1>8, <2>1, BoundOK DEF Announced
<1>10. Paid(r) /\ Answers(r) /\ RowsClean(task'[r])
  BY <1>2, <1>3, <1>4, <1>8 DEF Paid, Answers, RowsClean
<1> QED BY <1>1, <1>3, <1>4, <1>6, <1>7, <1>9, <1>10, PauseStep

LEMMA EndsPause ==
  ASSUME HubInv, PauseInv, NEW r \in Receivers, OfferEnd(r) \/ ValidateEnd(r) PROVE PauseInv'
BY EndPause DEF OfferEnd, ValidateEnd, Silent, store, Tasks

(* Only what was sent leaves the queue, and the client forgets those hooks. *)
LEMMA FlushPause == ASSUME HubInv, PauseInv, NEW r \in Receivers, Flush(r) PROVE PauseInv'
<1> DEFINE queue == hub[r].queue
           rest == Tail(queue)
           o == [hub[r] EXCEPT !.queue = rest]
<1>1. HubOK /\ hub[r] \in HubRecords /\ UNCHANGED <<hooks, task>>
  BY DEF HubInv, HubOK, Flush, store
<1>2. queue \in Seq(Messages) /\ queue # <<>>
  BY <1>1 DEF HubRecords, Flush
<1>3. /\ rest \in Seq(Messages) /\ Head(queue) = queue[1]
      /\ DOMAIN queue = 1 .. Len(queue) /\ DOMAIN rest = 1 .. (Len(queue) - 1)
      /\ Len(queue) \in Nat \ {0} /\ \A i \in 1 .. (Len(queue) - 1) : rest[i] = queue[i + 1]
  BY <1>2, HeadTailProperties, LenProperties
<1>4. hub' = [hub EXCEPT ![r] = o] /\ told' = [told EXCEPT ![r] = @ \ Head(queue).hooks]
  BY DEF Flush
<1> HIDE DEF rest
<1>5. o \in HubRecords /\ o.open = hub[r].open /\ o.queue = rest
  BY <1>1, <1>3 DEF HubRecords
<1>6. o.cut = hub[r].cut
  BY <1>1, <1>3 DEF HubRecords
<1> HIDE DEF o
<1>7. /\ hub'[r] = o /\ told'[r] = told[r] \ Head(queue).hooks
      /\ \A q \in Receivers \ {r} : hub'[q] = hub[q] /\ told'[q] = told[q]
  BY <1>1, <1>4 DEF HubOK
<1>8. ASSUME NEW h, h \notin Head(queue).hooks, InQueue(hub[r], h) PROVE InQueue(o, h)
  <2>1. PICK i \in 1 .. Len(queue) : h \in queue[i].hooks
    BY <1>3, <1>8 DEF InQueue
  <2>2. i # 1
    BY <1>3, <1>8, <2>1
  <2>3. i - 1 \in DOMAIN rest /\ rest[i - 1] = queue[i]
    BY <1>3, <2>1, <2>2
  <2> QED BY <1>5, <2>1, <2>3 DEF InQueue
<1>9. task[r].at = "idle"
  BY DEF Flush
<1>10. Promise(r)'
  BY <1>1, <1>5, <1>6, <1>7, <1>8, <1>9 DEF PauseInv, Promise, Heard, Answering, RowComing
<1>11. ASSUME NEW q \in Receivers \ {r} PROVE Promise(q)'
  BY <1>1, <1>7 DEF PauseInv, Promise, Heard, Answering, RowComing, InQueue
<1> QED BY <1>1, <1>7, <1>9, <1>10, <1>11 DEF PauseInv

LEMMA OpenPause == ASSUME HubInv, PauseInv, NEW r \in Receivers, Open(r) PROVE PauseInv'
<1> DEFINE o == [task[r] EXCEPT !.at = "idle"]
<1>1. r \in Tasks /\ HubOK /\ TasksOK
  BY DEF Tasks, HubInv
<1>2. task[r].at = "closed" /\ task' = [task EXCEPT ![r] = o]
      /\ hub' = [hub EXCEPT ![r].open = TRUE] /\ UNCHANGED <<hooks, told>>
  BY DEF Open, Goto, store
<1>3. o \in TaskRecords /\ o.at = "idle"
  BY <1>1, GotoShape DEF Stages
<1> HIDE DEF o
<1>4. task'[r] = o /\ \A u \in Tasks \ {r} : task'[u] = task[u]
  BY <1>1, <1>2 DEF TasksOK
<1>5. \A q \in Receivers \ {r} : hub'[q] = hub[q]
  BY <1>1, <1>2 DEF HubOK
<1>6. told[r] = {} /\ Answering(r)' = {}
  BY <1>2, <1>3, <1>4 DEF PauseInv, Answering
<1>7. Promise(r)'
  BY <1>2, <1>6 DEF Promise
<1>8. ASSUME NEW q \in Receivers \ {r} PROVE Promise(q)'
  <2>1. task'[q] = task[q]
    BY <1>4 DEF Tasks
  <2>2. \A h : RowComing(q, h) => RowComing(q, h)'
    BY <1>2, <1>4 DEF RowComing
  <2> QED BY <1>2, <1>5, <2>1, <2>2 DEF PauseInv, Promise, Heard, Answering, InQueue
<1>9. \A q \in Receivers : task'[q].at = "closed" => told'[q] = {}
  BY <1>2, <1>3, <1>4 DEF PauseInv, Tasks
<1>10. \A u \in Tasks : RowsClean(task'[u])
  BY <1>1, <1>3, <1>4 DEF PauseInv, RowsClean
<1> QED BY <1>7, <1>8, <1>9, <1>10 DEF PauseInv

LEMMA CrashPause == ASSUME HubInv, PauseInv, Crash PROVE PauseInv'
<1>1. \A r \in Receivers : told'[r] = {} /\ ~hub'[r].open
  BY NoReceiverOK DEF Crash
<1>2. ASSUME NEW t \in Tasks PROVE task'[t].at \in {"idle", "closed", "gone"}
  BY <1>2, IdleOK, ParkedOK DEF Crash
<1> QED BY <1>1, <1>2 DEF PauseInv, Promise, Heard, RowsClean

LEMMA StillPause == ASSUME PauseInv, UNCHANGED <<hooks, hub, task, told>> PROVE PauseInv'
BY DEF PauseInv, Promise, Heard, Answering, RowComing, InQueue, RowsClean

LEMMA PauseNext ==
  ASSUME "cancel" \notin Disturbances, HubInv, PauseInv, [Next]_vars PROVE PauseInv'
<1>1. ASSUME NEW t \in Tasks, Working(t) \/ Enter(t) \/ Cancel(t) PROVE PauseInv'
  BY <1>1, WaitingPause, BindPause, CreateHookPause, UnsubscribePause, DetachPause,
     InvalidatePause, AcknowledgePause, ConcludePause DEF Working, Store, Cancel, Disturb
<1>2. ASSUME NEW c \in Callers, Request(c) \/ Deleting(c) \/ \E s \in Sessions : Logout(c, s)
      PROVE  PauseInv'
  BY <1>2, RequestPause, RevokePause, InvalidateSessionPause, LogoutPause DEF Deleting
<1>3. ASSUME NEW r \in Receivers,
             Open(r) \/ Frame(r) \/ Flush(r) \/ Lost(r) \/ Cleanup(r)
      PROVE  PauseInv'
  BY <1>3, OpenPause, FramePause, FlushPause, LostPause, CleanupPause
<1>4. ASSUME NEW r \in Receivers,
             OfferStart(r) \/ Offering(r) \/ Validate(r) \/ Validating(r) \/ Withdrawing(r)
      PROVE  PauseInv'
  BY <1>4, TimerPause, OfferDropPause, EndsPause, WithdrawPause
     DEF Offering, Validating, Withdrawing
<1>5. ASSUME NEW s \in Sessions, RetryRevocation(s) \/ Revoked(s) PROVE PauseInv'
  BY <1>5, StillPause DEF RetryRevocation, Revoked, Silent, store
<1>6. CASE Crash
  BY <1>6, CrashPause
<1>7. CASE UNCHANGED vars
  BY <1>7, StillPause DEF vars, store
<1> QED BY <1>1, <1>2, <1>3, <1>4, <1>5, <1>6, <1>7 DEF Next

(* Whoever was told that a hook is subscribed has it or hears of its pause, *)
(* or is cut off: nothing but dropping a handler between its change and the *)
(* announcement (a timeout of 30 seconds, a connection given up) can lose a *)
(* pause of Hub::pause_replaced.                                            *)
THEOREM PausesAreHeard ==
  ASSUME "cancel" \notin Disturbances PROVE Spec => []PauseIsNeverMissed
<1>1. Init => PauseInv
  BY IdleOK, ParkedOK, NoReceiverOK
     DEF Init, PauseInv, Promise, Heard, RowsClean, Tasks
<1>2. HubInv /\ PauseInv /\ [Next]_vars => PauseInv'
  BY PauseNext
<1>3. PauseInv => PauseIsNeverMissed
  BY DEF PauseInv, Promise, Heard, InQueue, RowComing, PauseIsNeverMissed, PauseComing
<1> QED BY <1>1, <1>2, <1>3, Invariant, PTL DEF Spec
=============================================================================
