---------------------------- MODULE Toasts_proofs ----------------------------
(***************************************************************************)
(* Proofs about Toasts: for any ids, durations and limit of the store, and *)
(* any sequence of calls, gestures and ticks, however long.                *)
(***************************************************************************)
EXTENDS Toasts, SequenceTheorems, TLAPS

(***************************************************************************)
(* The inductive invariant.                                                *)
(***************************************************************************)
(* What is left of the time of a toast: `remaining` less what its timer,    *)
(* if any, has run.                                                         *)
Left(o) == IF o.elapsed = Off THEN o.remaining ELSE o.remaining - o.elapsed

(* A timer of a toast that may end never runs past its time, whether the    *)
(* toast is there or leaves: else `remaining` could come to -1, which the   *)
(* code reads as a toast that stays.  And while the toast is there the      *)
(* timer runs unless it is paused, and agrees with the toast's age.         *)
HoldsTime(o, paused) ==
  /\ o \in ItemRecords /\ o.elapsed \in Nat \cup {Off}
  /\ o.duration # Forever => Left(o) >= 0
  /\ o.at = "present" /\ o.duration # Forever =>
       /\ o.elapsed = Off <=> paused
       /\ ~o.revived => Left(o) = o.duration - o.age

StoreOK(ts) ==
  /\ ts \in Seq(ToastRecords) /\ Len(ts) <= Limit
  /\ \A j, k \in DOMAIN ts : ts[j].id = ts[k].id => j = k

Stacks == [hovered : BOOLEAN, focused : BOOLEAN, tapped : BOOLEAN, dragging : BOOLEAN, hidden : BOOLEAN]
Foci == [at : Ids \cup {Nowhere}, keyboard : BOOLEAN]

(* An item is present exactly while the store holds its toast.              *)
ToastInv ==
  /\ StoreOK(toasts)
  /\ item \in [Ids -> ItemRecords]
  /\ stack \in Stacks /\ focus \in Foci /\ called \in 0..MaxCalls
  /\ \A i \in Ids : HoldsTime(item[i], Paused(toasts, stack))
  /\ \A i \in Ids : item[i].at = "present" <=> i \in Shown(toasts)

LEMMA InvIsTyped == ToastInv => ToastsTypeOK
BY DEF ToastInv, ToastsTypeOK, StoreOK, Stacks, Foci

LEMMA InvKeepsTime == ToastInv => ClockKeepsTime
<1> SUFFICES ASSUME ToastInv, NEW i \in Ids, Timed(i)
             PROVE  /\ item[i].elapsed = Off <=> Paused(toasts, stack)
                    /\ ~item[i].revived => Stopped(item[i]).remaining = item[i].duration - item[i].age
  BY DEF ClockKeepsTime
<1>1. HoldsTime(item[i], Paused(toasts, stack)) /\ item[i] \in ItemRecords
  BY DEF ToastInv, HoldsTime
<1>2. Stopped(item[i]).remaining = Left(item[i])
  BY <1>1 DEF Stopped, Left, ItemRecords
<1> QED BY <1>1, <1>2 DEF HoldsTime, Timed

(***************************************************************************)
(* One item.                                                               *)
(***************************************************************************)
LEMMA StoppedIs ==
  ASSUME NEW o \in ItemRecords
  PROVE  /\ Stopped(o) \in ItemRecords /\ Stopped(o).remaining = Left(o) /\ Stopped(o).elapsed = Off
         /\ Stopped(o).at = o.at /\ Stopped(o).version = o.version /\ Stopped(o).duration = o.duration
         /\ Stopped(o).age = o.age /\ Stopped(o).revived = o.revived
<1> DEFINE left == IF o.elapsed = Off THEN o.remaining ELSE o.remaining - o.elapsed
           s == [o EXCEPT !.remaining = left, !.elapsed = Off]
<1>1. Stopped(o) = s /\ Left(o) = left
  BY DEF Stopped, Left
<1>2. left \in Int /\ Off \in Int
  BY DEF ItemRecords, Off
<1> HIDE DEF left
<1>3. s \in ItemRecords /\ s.remaining = left /\ s.elapsed = Off /\ s.at = o.at /\ s.version = o.version
      /\ s.duration = o.duration /\ s.age = o.age /\ s.revived = o.revived
  BY <1>2 DEF ItemRecords
<1> HIDE DEF s
<1> QED BY <1>1, <1>3

LEMMA DurationsOK == \A d \in Durations : d \in Int /\ (d # Forever => d > 0)
BY ToastAssumption DEF Durations, Forever

(* A timer that starts for a toast that may end starts at zero.              *)
LEMMA StartedKeeps ==
  ASSUME NEW o \in ItemRecords, NEW paused \in BOOLEAN, o.elapsed = Off,
         o.duration # Forever => o.remaining >= 0,
         o.duration # Forever /\ ~o.revived => o.remaining = o.duration - o.age
  PROVE  HoldsTime(Started(o, paused), paused) /\ Started(o, paused).at = o.at
<1>1. CASE paused
  BY <1>1 DEF Started, HoldsTime, Left, Off
<1>2. CASE ~paused /\ (o.remaining = Forever \/ o.duration <= 0)
  <2>1. o.duration = Forever
    <3>1. o.duration \in Durations
      BY DEF ItemRecords
    <3>2. o.duration \in Int /\ (o.duration # Forever => o.duration > 0)
      BY <3>1, DurationsOK
    <3>3. o.remaining >= 0 => o.remaining # Forever
      BY DEF ItemRecords, Forever
    <3> QED BY <1>2, <3>2, <3>3
  <2> QED BY <1>2, <2>1 DEF Started, HoldsTime
<1>3. CASE ~(paused \/ o.remaining = Forever \/ o.duration <= 0)
  <2> DEFINE p == [o EXCEPT !.elapsed = 0]
  <2>1. Started(o, paused) = p
    BY <1>3 DEF Started
  <2>2. p \in ItemRecords /\ p.elapsed = 0 /\ p.remaining = o.remaining /\ p.at = o.at
        /\ p.duration = o.duration /\ p.age = o.age /\ p.revived = o.revived
    BY DEF ItemRecords
  <2> HIDE DEF p
  <2>3. Left(p) = p.remaining /\ p.elapsed # Off
    BY <2>2 DEF Left, Off, ItemRecords
  <2>4. HoldsTime(p, paused)
    BY <1>3, <2>2, <2>3 DEF HoldsTime
  <2> QED BY <2>1, <2>2, <2>4
<1> QED BY <1>1, <1>2, <1>3

LEMMA ResetIs ==
  ASSUME NEW o \in ItemRecords, NEW t \in ToastRecords
  PROVE  /\ Reset(o, t) \in ItemRecords /\ Reset(o, t).elapsed = Off /\ Reset(o, t).at = o.at
         /\ Updated(o, t) => /\ Reset(o, t).remaining = t.duration /\ Reset(o, t).duration = t.duration
                             /\ Reset(o, t).age = 0
         /\ ~Updated(o, t) => Reset(o, t) = Stopped(o)
<1> DEFINE s == Stopped(o)
<1>1. s \in ItemRecords /\ s.elapsed = Off /\ s.at = o.at
  BY StoppedIs
<1>2. CASE Updated(o, t)
  <2> DEFINE r == [s EXCEPT !.remaining = t.duration, !.version = t.version, !.duration = t.duration,
                            !.age = 0, !.revived = FALSE]
  <2>1. Reset(o, t) = r
    BY <1>2 DEF Reset
  <2> HIDE DEF s
  <2>2. r \in ItemRecords /\ r.elapsed = s.elapsed /\ r.at = s.at /\ r.remaining = t.duration
        /\ r.duration = t.duration /\ r.age = 0
    BY <1>1, DurationsOK DEF ItemRecords, ToastRecords
  <2> HIDE DEF r
  <2> QED BY <1>1, <1>2, <2>1, <2>2
<1>3. CASE ~Updated(o, t)
  BY <1>1, <1>3 DEF Reset
<1> QED BY <1>2, <1>3

(* A timer that is reset and started again keeps its toast's time.          *)
LEMMA RestartedKeeps ==
  ASSUME NEW o \in ItemRecords, NEW t \in ToastRecords, NEW paused \in BOOLEAN,
         o.duration # Forever => Left(o) >= 0,
         o.duration # Forever /\ ~o.revived => Left(o) = o.duration - o.age
  PROVE  HoldsTime(Started(Reset(o, t), paused), paused) /\ Started(Reset(o, t), paused).at = o.at
<1> DEFINE r == Reset(o, t)
<1>1. r \in ItemRecords /\ r.elapsed = Off /\ r.at = o.at
  BY ResetIs
<1>2. /\ r.duration # Forever => r.remaining >= 0
      /\ r.duration # Forever /\ ~r.revived => r.remaining = r.duration - r.age
  <2>1. CASE Updated(o, t)
    <3>1. r.remaining = t.duration /\ r.duration = t.duration /\ r.age = 0
      BY <2>1, ResetIs
    <3>2. t.duration \in Durations
      BY DEF ToastRecords
    <3> QED BY <3>1, <3>2, DurationsOK
  <2>2. CASE ~Updated(o, t)
    BY <2>2, ResetIs, StoppedIs
  <2> QED BY <2>1, <2>2
<1> HIDE DEF r
<1>3. HoldsTime(Started(r, paused), paused) /\ Started(r, paused).at = r.at
  BY <1>1, <1>2, StartedKeeps
<1> QED BY <1>1, <1>3 DEF r

(* Whatever a toast's item was, once rendered it is present and keeps time. *)
LEMMA RenderedKeeps ==
  ASSUME NEW o, NEW t \in ToastRecords, NEW was \in BOOLEAN, NEW paused \in BOOLEAN, HoldsTime(o, was)
  PROVE  LET p == Rendered(o, t, paused # was, paused) IN HoldsTime(p, paused) /\ p.at = "present"
<1> DEFINE p == Rendered(o, t, paused # was, paused)
<1>0. o \in ItemRecords /\ o.at \in {"absent", "present", "leaving"}
  BY DEF HoldsTime, ItemRecords
<1>1. CASE o.at = "absent"
  <2> DEFINE a == [Absent EXCEPT !.at = "present", !.remaining = t.duration, !.version = t.version,
                                 !.duration = t.duration]
  <2>1. p = Started(a, paused)
    BY <1>1 DEF Rendered
  <2>2. a \in ItemRecords /\ a.elapsed = Off /\ a.at = "present" /\ a.remaining = t.duration
        /\ a.duration = t.duration /\ a.age = 0
    <3>1. t.duration \in Durations /\ t.duration \in Int /\ t.version \in Nat /\ Off \in Int
      BY DurationsOK DEF ToastRecords, Off
    <3> QED BY <3>1 DEF Absent, ItemRecords
  <2> HIDE DEF a
  <2>3. /\ a.duration # Forever => a.remaining >= 0
        /\ a.duration # Forever /\ ~a.revived => a.remaining = a.duration - a.age
    <3>1. t.duration \in Durations
      BY DEF ToastRecords
    <3> QED BY <2>2, <3>1, DurationsOK
  <2>4. HoldsTime(Started(a, paused), paused) /\ Started(a, paused).at = a.at
    BY <2>2, <2>3, StartedKeeps
  <2> QED BY <2>1, <2>2, <2>4
<1>2. CASE o.at = "leaving"
  <2> DEFINE b == [o EXCEPT !.at = "present", !.age = 0, !.revived = TRUE]
  <2>1. p = Started(Reset(b, t), paused)
    BY <1>2 DEF Rendered
  <2>2. b \in ItemRecords /\ b.elapsed = o.elapsed /\ b.at = "present" /\ b.remaining = o.remaining
        /\ b.duration = o.duration /\ b.revived = TRUE
    BY <1>0 DEF ItemRecords
  <2> HIDE DEF b
  <2>3. /\ b.duration # Forever => Left(b) >= 0
        /\ b.duration # Forever /\ ~b.revived => Left(b) = b.duration - b.age
    BY <2>2 DEF HoldsTime, Left
  <2>4. HoldsTime(Started(Reset(b, t), paused), paused) /\ Started(Reset(b, t), paused).at = b.at
    BY <2>2, <2>3, RestartedKeeps
  <2> QED BY <2>1, <2>2, <2>4
<1>3. CASE o.at = "present" /\ (paused # was \/ Updated(o, t))
  <2>1. p = Started(Reset(o, t), paused)
    BY <1>3 DEF Rendered
  <2>2. /\ o.duration # Forever => Left(o) >= 0
        /\ o.duration # Forever /\ ~o.revived => Left(o) = o.duration - o.age
    BY <1>3 DEF HoldsTime
  <2>3. HoldsTime(Started(Reset(o, t), paused), paused) /\ Started(Reset(o, t), paused).at = o.at
    BY <1>0, <2>2, RestartedKeeps
  <2> QED BY <1>3, <2>1, <2>3
<1>4. CASE o.at = "present" /\ ~(paused # was \/ Updated(o, t))
  <2>1. p = o /\ paused = was
    BY <1>4 DEF Rendered
  <2> QED BY <1>4, <2>1
<1> QED BY <1>0, <1>1, <1>2, <1>3, <1>4

LEMMA LeavesKeeps ==
  ASSUME NEW o, NEW was \in BOOLEAN, NEW paused \in BOOLEAN, HoldsTime(o, was)
  PROVE  HoldsTime(Leaves(o), paused) /\ Leaves(o).at # "present"
<1>0. o \in ItemRecords
  BY DEF HoldsTime
<1>1. CASE o.at = "absent"
  BY <1>1 DEF Leaves, HoldsTime
<1>2. CASE o.at # "absent"
  <2> DEFINE s == Stopped(o)
             p == [s EXCEPT !.at = "leaving", !.inert = TRUE]
  <2>1. Leaves(o) = p
    BY <1>2 DEF Leaves
  <2>2. s \in ItemRecords /\ s.remaining = Left(o) /\ s.elapsed = Off /\ s.duration = o.duration
    BY <1>0, StoppedIs
  <2> HIDE DEF s
  <2>3. p \in ItemRecords /\ p.remaining = s.remaining /\ p.elapsed = s.elapsed
        /\ p.duration = s.duration /\ p.at = "leaving"
    BY <2>2 DEF ItemRecords
  <2> HIDE DEF p
  <2>4. Left(p) = Left(o)
    BY <2>2, <2>3 DEF Left
  <2> QED BY <2>1, <2>2, <2>3, <2>4 DEF HoldsTime
<1> QED BY <1>1, <1>2

(***************************************************************************)
(* The store.                                                              *)
(***************************************************************************)
LEMMA FoundIs ==
  ASSUME NEW ts, StoreOK(ts), NEW i \in Shown(ts)
  PROVE  Found(ts, i) \in ToastRecords /\ Found(ts, i).id = i
<1>1. PICK k \in DOMAIN ts : ts[k].id = i
  BY DEF Shown
<1> DEFINE j == CHOOSE q \in DOMAIN ts : ts[q].id = i
<1>2. j \in DOMAIN ts /\ ts[j].id = i
  BY <1>1
<1> HIDE DEF j
<1>3. ts \in Seq(ToastRecords)
  BY DEF StoreOK
<1>4. ts[j] \in ToastRecords
  BY <1>2, <1>3
<1> QED BY <1>2, <1>4 DEF Found, j

LEMMA RecordOK ==
  ASSUME NEW i \in Ids, NEW type \in Types, NEW version \in Nat, NEW action \in BOOLEAN
  PROVE  [id |-> i, type |-> type, duration |-> durationFor(type), version |-> version,
          action |-> action] \in ToastRecords
<1>1. durationFor(type) \in Durations
  BY DEF durationFor, Durations, Types
<1> QED BY <1>1 DEF ToastRecords

LEMMA RevisedOK ==
  ASSUME NEW t \in ToastRecords, NEW type \in Types, NEW action \in BOOLEAN
  PROVE  Revised(t, type, action) \in ToastRecords /\ Revised(t, type, action).id = t.id
<1> DEFINE d == durationFor(type)
           v == t.version + 1
           p == [t EXCEPT !.type = type, !.duration = d]
           r == [p EXCEPT !.version = v, !.action = action]
<1>1. v \in Nat /\ d \in Durations
  BY DEF ToastRecords, durationFor, Durations, Types
<1>2. Revised(t, type, action) = r
  BY DEF Revised
<1> HIDE DEF d, v
<1>3. p \in ToastRecords /\ p.id = t.id
  BY <1>1 DEF ToastRecords
<1> HIDE DEF p
<1>4. r \in ToastRecords /\ r.id = t.id
  BY <1>1, <1>3 DEF ToastRecords
<1> QED BY <1>2, <1>4

LEMMA WithUpdateOK ==
  ASSUME NEW ts, StoreOK(ts), NEW i, NEW type \in Types, NEW action \in BOOLEAN
  PROVE  StoreOK(WithUpdate(ts, i, type, action))
<1> DEFINE us == WithUpdate(ts, i, type, action)
<1>0. ts \in Seq(ToastRecords) /\ Len(ts) \in Nat /\ DOMAIN ts = 1..Len(ts)
  BY DEF StoreOK
<1>1. ASSUME NEW k \in DOMAIN ts PROVE us[k] \in ToastRecords /\ us[k].id = ts[k].id
  <2>1. ts[k] \in ToastRecords
    BY <1>0, <1>1
  <2>2. CASE ts[k].id = i
    <3>1. us[k] = Revised(ts[k], type, action)
      BY <1>1, <2>2 DEF WithUpdate
    <3> QED BY <2>1, <3>1, RevisedOK
  <2>3. CASE ts[k].id # i
    BY <1>1, <2>1, <2>3 DEF WithUpdate
  <2> QED BY <2>2, <2>3
<1>2. us = [k \in 1..Len(ts) |-> us[k]]
  BY <1>0 DEF WithUpdate
<1> HIDE DEF us
<1>3. us \in Seq(ToastRecords) /\ Len(us) = Len(ts) /\ DOMAIN us = DOMAIN ts
  <2>1. us \in [1..Len(ts) -> ToastRecords]
    BY <1>0, <1>1, <1>2
  <2> QED BY <1>0, <2>1
<1> QED BY <1>1, <1>3 DEF StoreOK, us

LEMMA WithoutOK ==
  ASSUME NEW ts, StoreOK(ts), NEW i
  PROVE  /\ StoreOK(Without(ts, i)) /\ i \notin Shown(Without(ts, i))
         /\ i \in Shown(ts) => Len(Without(ts, i)) < Len(ts)
<1>0. ts \in Seq(ToastRecords) /\ Len(ts) \in Nat /\ DOMAIN ts = 1..Len(ts) /\ Len(ts) <= Limit
      /\ \A j, k \in DOMAIN ts : ts[j].id = ts[k].id => j = k
  BY DEF StoreOK
<1>1. CASE i \notin Shown(ts)
  BY <1>1 DEF Without
<1>2. CASE i \in Shown(ts)
  <2> DEFINE j == CHOOSE k \in DOMAIN ts : ts[k].id = i
             us == SubSeq(ts, 1, j - 1) \o SubSeq(ts, j + 1, Len(ts))
  <2>1. j \in 1..Len(ts) /\ ts[j].id = i
    BY <1>0, <1>2 DEF Shown
  <2>2. Without(ts, i) = us
    BY <1>2 DEF Without, RemoveAt
  <2> HIDE DEF j
  <2>3. /\ us \in Seq(ToastRecords) /\ Len(us) = Len(ts) - 1
        /\ \A k \in 1..(Len(ts) - 1) : us[k] = IF k < j THEN ts[k] ELSE ts[k + 1]
    <3>1. SubSeq(ts, 1, j - 1) \in Seq(ToastRecords) /\ Len(SubSeq(ts, 1, j - 1)) = j - 1
          /\ \A k \in 1..(j - 1) : SubSeq(ts, 1, j - 1)[k] = ts[k]
      BY <1>0, <2>1
    <3> DEFINE before == SubSeq(ts, 1, j - 1)
               after == SubSeq(ts, j + 1, Len(ts))
    <3>2. after \in Seq(ToastRecords)
      <4>1. \A k \in (j + 1)..Len(ts) : ts[k] \in ToastRecords
        BY <1>0, <2>1
      <4> QED BY <1>0, <2>1, <4>1, SubSeqProperties
    <3>3. Len(after) = Len(ts) - j
      <4>1. Len(after) = IF j + 1 <= Len(ts) THEN Len(ts) - (j + 1) + 1 ELSE 0
        BY <1>0, <2>1
      <4>2. Len(ts) \in Int /\ j \in Int /\ j <= Len(ts)
        BY <1>0, <2>1
      <4> QED BY ONLY <4>1, <4>2, SMT
    <3>4. \A k \in 1..(Len(ts) - j) : after[k] = ts[j + k]
      BY <1>0, <2>1
    <3> HIDE DEF before, after
    <3>5. us = before \o after
      BY DEF us, before, after
    <3>6. before \in Seq(ToastRecords) /\ Len(before) = j - 1 /\ \A k \in 1..(j - 1) : before[k] = ts[k]
      BY <3>1 DEF before
    <3> HIDE DEF us
    <3>7. us \in Seq(ToastRecords) /\ Len(us) = Len(ts) - 1
      <4>1. us \in Seq(ToastRecords) /\ Len(us) = Len(before) + Len(after)
        BY <3>2, <3>5, <3>6
      <4> QED BY <1>0, <2>1, <3>3, <3>6, <4>1
    <3>8. \A k \in 1..(Len(ts) - 1) : us[k] = IF k <= j - 1 THEN before[k] ELSE after[k - (j - 1)]
      BY <1>0, <2>1, <3>2, <3>3, <3>5, <3>6
    <3>9. ASSUME NEW k \in 1..(Len(ts) - 1) PROVE us[k] = IF k < j THEN ts[k] ELSE ts[k + 1]
      <4>1. CASE k < j
        BY <1>0, <2>1, <3>6, <3>8, <3>9, <4>1
      <4>2. CASE ~(k < j)
        <5>1. k - (j - 1) \in 1..(Len(ts) - j) /\ j + (k - (j - 1)) = k + 1 /\ ~(k <= j - 1)
          BY <1>0, <2>1, <3>9, <4>2
        <5> QED BY <3>4, <3>8, <3>9, <4>2, <5>1
      <4> QED BY <4>1, <4>2
    <3> QED BY <3>7, <3>9
  <2> HIDE DEF us
  <2>4. DOMAIN us = 1..(Len(ts) - 1)
    BY <2>3
  <2>5. ASSUME NEW k \in DOMAIN us
        PROVE  (IF k < j THEN k ELSE k + 1) \in DOMAIN ts /\ us[k] = ts[IF k < j THEN k ELSE k + 1]
    BY <1>0, <2>1, <2>3, <2>4
  <2>6. \A k, l \in DOMAIN us : us[k].id = us[l].id => k = l
    <3> SUFFICES ASSUME NEW k \in DOMAIN us, NEW l \in DOMAIN us, us[k].id = us[l].id PROVE k = l
      OBVIOUS
    <3>1. (IF k < j THEN k ELSE k + 1) = (IF l < j THEN l ELSE l + 1)
      BY <1>0, <2>5
    <3> QED BY <2>1, <2>4, <3>1
  <2>7. i \notin Shown(us)
    <3> SUFFICES ASSUME NEW k \in DOMAIN us, us[k].id = i PROVE FALSE
      BY DEF Shown
    <3>1. (IF k < j THEN k ELSE k + 1) = j
      BY <1>0, <2>1, <2>5
    <3> QED BY <2>1, <2>4, <3>1
  <2>8. Len(us) <= Limit
    BY <1>0, <2>3, ToastAssumption
  <2> QED BY <1>0, <2>2, <2>3, <2>6, <2>7, <2>8 DEF StoreOK
<1> QED BY <1>1, <1>2

LEMMA WithToastOK ==
  ASSUME NEW ts, StoreOK(ts), NEW i \in Ids, i \notin Shown(ts), NEW type \in Types, NEW action \in BOOLEAN
  PROVE  StoreOK(WithToast(ts, i, type, action)) /\ i \in Shown(WithToast(ts, i, type, action))
<1> DEFINE new == [id |-> i, type |-> type, duration |-> durationFor(type), version |-> 0, action |-> action]
           all == <<new>> \o ts
           n == IF Len(all) > Limit THEN Limit ELSE Len(all)
           us == SubSeq(all, 1, n)
<1>0. ts \in Seq(ToastRecords) /\ Len(ts) \in Nat /\ DOMAIN ts = 1..Len(ts) /\ Len(ts) <= Limit
      /\ \A j, k \in DOMAIN ts : ts[j].id = ts[k].id => j = k
  BY DEF StoreOK
<1>1. WithToast(ts, i, type, action) = us
  BY DEF WithToast
<1>2. new \in ToastRecords /\ new.id = i
  BY RecordOK
<1> HIDE DEF new
<1>3. /\ all \in Seq(ToastRecords) /\ Len(all) = Len(ts) + 1 /\ all[1] = new
      /\ \A k \in 2..(Len(ts) + 1) : all[k] = ts[k - 1]
  <2>1. <<new>> \in Seq(ToastRecords) /\ Len(<<new>>) = 1 /\ <<new>>[1] = new
    BY <1>2
  <2> QED BY <1>0, <2>1
<1> HIDE DEF all
<1>4. n \in 1..Len(all) /\ n <= Limit
  BY <1>0, <1>3, ToastAssumption
<1> HIDE DEF n
<1>5. us \in Seq(ToastRecords) /\ Len(us) = n /\ DOMAIN us = 1..n /\ \A k \in 1..n : us[k] = all[k]
  BY <1>3, <1>4
<1> HIDE DEF us
<1>6. ASSUME NEW k \in 1..n, k # 1 PROVE k - 1 \in DOMAIN ts /\ us[k] = ts[k - 1] /\ us[k].id # i
  <2>1. k - 1 \in DOMAIN ts /\ us[k] = ts[k - 1]
    BY <1>0, <1>3, <1>4, <1>5, <1>6
  <2> QED BY <2>1 DEF Shown
<1>7. us[1].id = i /\ 1 \in DOMAIN us
  BY <1>2, <1>3, <1>4, <1>5
<1>8. \A k, l \in DOMAIN us : us[k].id = us[l].id => k = l
  <2> SUFFICES ASSUME NEW k \in 1..n, NEW l \in 1..n, us[k].id = us[l].id PROVE k = l
    BY <1>5
  <2>1. CASE k = 1 \/ l = 1
    BY <1>6, <1>7, <2>1
  <2>2. CASE k # 1 /\ l # 1
    <3>1. k - 1 = l - 1
      BY <1>0, <1>6, <2>2
    <3> QED BY <1>4, <3>1
  <2> QED BY <2>1, <2>2
<1>9. i \in Shown(us)
  BY <1>7 DEF Shown
<1> QED BY <1>1, <1>4, <1>5, <1>8, <1>9 DEF StoreOK
LEMMA ShownAreIds == ASSUME NEW ts, StoreOK(ts) PROVE Shown(ts) \subseteq Ids
<1> SUFFICES ASSUME NEW i \in Shown(ts) PROVE i \in Ids
  OBVIOUS
<1>1. Found(ts, i) \in ToastRecords /\ Found(ts, i).id = i
  BY FoundIs
<1> QED BY <1>1 DEF ToastRecords

LEMMA PausedIs == ASSUME NEW ts, NEW s \in Stacks PROVE Paused(ts, s) \in BOOLEAN
BY DEF Paused, Expanded, Stacks

(***************************************************************************)
(* A change that is rendered, whatever store and stack it leaves.          *)
(***************************************************************************)
LEMMA RendersInv ==
  ASSUME ToastInv, NEW its, \A i \in Ids : HoldsTime(its[i], Paused(toasts, stack)),
         NEW ts, StoreOK(ts), NEW s \in Stacks, RendersFrom(its, ts, s), called' \in 0..MaxCalls
  PROVE  ToastInv'
<1>1. toasts' = ts
  BY DEF RendersFrom
<1>2. focus' \in Foci
  <2>1. focus \in Foci /\ focus' \in HandedOff(ts) /\ Shown(ts) \subseteq Ids
    BY ShownAreIds DEF ToastInv, RendersFrom
  <2>2. ASSUME NEW i \in Ids PROVE [focus EXCEPT !.at = i] \in Foci
    BY <2>1, <2>2 DEF Foci
  <2>3. [at |-> Nowhere, keyboard |-> FALSE] \in Foci
    BY DEF Foci
  <2> QED BY <2>1, <2>2, <2>3 DEF HandedOff
<1> DEFINE lost == focus.at # Nowhere /\ focus'.at = Nowhere
           next == [s EXCEPT !.tapped = @ /\ ts # <<>>, !.focused = @ /\ ~lost]
           was == Paused(toasts, stack)
           paused == Paused(ts, next)
           changed == paused # was
<1>3. /\ stack' = next
      /\ item' = [i \in Ids |-> IF i \in Shown(ts) THEN Rendered(its[i], Found(ts, i), changed, paused)
                                ELSE Leaves(its[i])]
  BY DEF RendersFrom
<1>4. next \in Stacks
  <2> DEFINE first == [s EXCEPT !.tapped = s.tapped /\ ts # <<>>]
             second == [first EXCEPT !.focused = s.focused /\ ~lost]
  <2>1. s.tapped \in BOOLEAN /\ s.focused \in BOOLEAN
    BY DEF Stacks
  <2> HIDE DEF lost
  <2>2. first \in Stacks
    BY <2>1 DEF Stacks
  <2>3. first.focused = s.focused
    BY DEF Stacks
  <2>4. next = second
    BY <2>3
  <2> HIDE DEF first
  <2>5. second \in Stacks
    BY <2>1, <2>2 DEF Stacks
  <2> QED BY <2>4, <2>5
<1> HIDE DEF next
<1>5. was \in BOOLEAN /\ paused \in BOOLEAN
  BY <1>4, PausedIs DEF ToastInv
<1>6. Paused(toasts, stack)' = paused
  BY <1>1, <1>3 DEF Paused, Expanded
<1> HIDE DEF was, paused
<1>7. ASSUME NEW i \in Ids
      PROVE  HoldsTime(item'[i], paused) /\ (item'[i].at = "present" <=> i \in Shown(ts))
  <2>1. HoldsTime(its[i], was)
    BY DEF was
  <2>2. CASE i \in Shown(ts)
    <3>1. item'[i] = Rendered(its[i], Found(ts, i), changed, paused)
      BY <1>3, <2>2
    <3>2. Found(ts, i) \in ToastRecords
      BY <2>2, FoundIs
    <3>3. HoldsTime(Rendered(its[i], Found(ts, i), changed, paused), paused)
          /\ Rendered(its[i], Found(ts, i), changed, paused).at = "present"
      BY <1>5, <2>1, <3>2, RenderedKeeps
    <3> QED BY <2>2, <3>1, <3>3
  <2>3. CASE i \notin Shown(ts)
    <3>1. item'[i] = Leaves(its[i])
      BY <1>3, <2>3
    <3> QED BY <1>5, <2>1, <2>3, <3>1, LeavesKeeps
  <2> QED BY <2>2, <2>3
<1>8. \A i \in Ids : HoldsTime(item[i], Paused(toasts, stack))'
  <2> SUFFICES ASSUME NEW i \in Ids PROVE HoldsTime(item[i], Paused(toasts, stack))'
    OBVIOUS
  <2>1. HoldsTime(item'[i], paused)
    BY <1>7
  <2>2. HoldsTime(item'[i], Paused(toasts, stack)')
    BY <1>6, <2>1
  <2> QED BY <2>2 DEF HoldsTime, Left, Timed
<1>9. item' \in [Ids -> ItemRecords]
  <2>1. \A i \in Ids : item'[i] \in ItemRecords
    BY <1>7 DEF HoldsTime
  <2>2. item' = [i \in Ids |-> item'[i]]
    BY <1>3
  <2> QED BY <2>1, <2>2
<1>10. \A i \in Ids : (item[i].at = "present" <=> i \in Shown(toasts))'
  BY <1>1, <1>7 DEF Shown
<1>11. StoreOK(toasts)'
  BY <1>1 DEF StoreOK
<1> QED BY <1>2, <1>3, <1>4, <1>8, <1>9, <1>10, <1>11 DEF ToastInv, Stacks, Foci
LEMMA CallOK == ASSUME ToastInv, Call PROVE called' \in 0..MaxCalls
BY ToastAssumption DEF ToastInv, Call

(* The case in which the gestures leave the items as they were.             *)
LEMMA CallInv ==
  ASSUME ToastInv, NEW ts, StoreOK(ts), NEW s \in Stacks, Renders(ts, s), called' \in 0..MaxCalls
  PROVE  ToastInv'
<1>1. RendersFrom(item, ts, s) /\ \A i \in Ids : HoldsTime(item[i], Paused(toasts, stack))
  BY DEF Renders, ToastInv
<1> QED BY <1>1, RendersInv

(* Every setter of the stack's state leaves a state of the stack.           *)
LEMMA StackChanges ==
  ASSUME NEW s \in Stacks, NEW flag \in BOOLEAN
  PROVE  /\ [s EXCEPT !.hovered = flag] \in Stacks /\ [s EXCEPT !.focused = flag] \in Stacks
         /\ [s EXCEPT !.tapped = flag] \in Stacks /\ [s EXCEPT !.dragging = flag] \in Stacks
         /\ [s EXCEPT !.hidden = flag] \in Stacks
         /\ {s.hovered, s.focused, s.tapped, s.dragging, s.hidden} \subseteq BOOLEAN
BY DEF Stacks

LEMMA GestureKeeps ==
  ASSUME ToastInv, NEW i \in Ids, NEW g \in {"none", "down", "drag"}
  PROVE  /\ WithGesture(i, g) \in [Ids -> ItemRecords]
         /\ \A j \in Ids : /\ HoldsTime(WithGesture(i, g)[j], Paused(toasts, stack))
                           /\ WithGesture(i, g)[j].at = item[j].at
<1> DEFINE o == [item[i] EXCEPT !.gesture = g]
<1>0. item \in [Ids -> ItemRecords]
  BY DEF ToastInv
<1>1. item[i] \in ItemRecords
  BY <1>0
<1>2. o \in ItemRecords /\ o.at = item[i].at /\ o.elapsed = item[i].elapsed /\ o.age = item[i].age
      /\ o.remaining = item[i].remaining /\ o.duration = item[i].duration /\ o.revived = item[i].revived
  BY <1>1 DEF ItemRecords
<1>3. WithGesture(i, g) = [item EXCEPT ![i] = o]
  BY DEF WithGesture
<1> HIDE DEF o
<1>4. WithGesture(i, g)[i] = o /\ \A j \in Ids : j # i => WithGesture(i, g)[j] = item[j]
  BY <1>0, <1>3
<1>5. Left(o) = Left(item[i])
  BY <1>2 DEF Left
<1>6. HoldsTime(o, Paused(toasts, stack))
  <2>1. HoldsTime(item[i], Paused(toasts, stack))
    BY DEF ToastInv
  <2> QED BY <1>2, <1>5, <2>1 DEF HoldsTime
<1>7. WithGesture(i, g) \in [Ids -> ItemRecords]
  BY <1>0, <1>2, <1>3
<1>8. \A j \in Ids : HoldsTime(item[j], Paused(toasts, stack))
  BY DEF ToastInv
<1> QED BY <1>2, <1>4, <1>6, <1>7, <1>8

(* The focus moves: the toasts stay, and only those shown are rendered.     *)
LEMMA RefocusesInv ==
  ASSUME ToastInv, NEW to \in Ids \cup {Nowhere}, NEW keyboard \in BOOLEAN, NEW s \in Stacks,
         Refocuses(to, keyboard, s)
  PROVE  ToastInv'
<1> DEFINE was == Paused(toasts, stack)
           paused == Paused(toasts, s)
<1>1. /\ toasts' = toasts /\ stack' = s /\ focus' = [at |-> to, keyboard |-> keyboard] /\ Call
      /\ item' = [i \in Ids |-> IF i \in Shown(toasts)
                                THEN Rendered(item[i], Found(toasts, i), paused # was, paused) ELSE item[i]]
  BY DEF Refocuses
<1>2. was \in BOOLEAN /\ paused \in BOOLEAN
  BY PausedIs DEF ToastInv
<1>3. Paused(toasts, stack)' = paused
  BY <1>1 DEF Paused, Expanded
<1>4. StoreOK(toasts) /\ \A i \in Ids : HoldsTime(item[i], was)
  BY DEF ToastInv
<1> HIDE DEF was, paused
<1>5. ASSUME NEW i \in Ids
      PROVE  HoldsTime(item'[i], paused) /\ (item'[i].at = "present" <=> i \in Shown(toasts))
  <2>1. CASE i \in Shown(toasts)
    <3>1. item'[i] = Rendered(item[i], Found(toasts, i), paused # was, paused)
      BY <1>1, <2>1
    <3>2. Found(toasts, i) \in ToastRecords
      BY <1>4, <2>1, FoundIs
    <3>3. HoldsTime(Rendered(item[i], Found(toasts, i), paused # was, paused), paused)
          /\ Rendered(item[i], Found(toasts, i), paused # was, paused).at = "present"
      BY <1>2, <1>4, <3>2, RenderedKeeps
    <3> QED BY <2>1, <3>1, <3>3
  <2>2. CASE i \notin Shown(toasts)
    <3>1. item'[i] = item[i]
      BY <1>1, <2>2
    <3>2. HoldsTime(item[i], was) /\ item[i].at # "present"
      BY <1>4, <2>2 DEF ToastInv
    <3> QED BY <2>2, <3>1, <3>2 DEF HoldsTime
  <2> QED BY <2>1, <2>2
<1>6. \A i \in Ids : HoldsTime(item[i], Paused(toasts, stack))'
  <2> SUFFICES ASSUME NEW i \in Ids PROVE HoldsTime(item[i], Paused(toasts, stack))'
    OBVIOUS
  <2>1. HoldsTime(item'[i], paused)
    BY <1>5
  <2>2. HoldsTime(item'[i], Paused(toasts, stack)')
    BY <1>3, <2>1
  <2> QED BY <2>2 DEF HoldsTime, Left
<1>7. item' \in [Ids -> ItemRecords]
  <2>1. \A i \in Ids : item'[i] \in ItemRecords
    BY <1>5 DEF HoldsTime
  <2>2. item' = [i \in Ids |-> item'[i]]
    BY <1>1
  <2> QED BY <2>1, <2>2
<1>8. \A i \in Ids : (item[i].at = "present" <=> i \in Shown(toasts))'
  BY <1>1, <1>5 DEF Shown
<1>9. StoreOK(toasts)' /\ focus' \in Foci /\ called' \in 0..MaxCalls
  BY <1>1, <1>4, CallOK DEF StoreOK, Foci
<1> QED BY <1>1, <1>6, <1>7, <1>8, <1>9 DEF ToastInv, Stacks, Foci

(***************************************************************************)
(* The steps.                                                              *)
(***************************************************************************)
LEMMA ToastInitInv == ToastsInit => ToastInv
<1> SUFFICES ASSUME ToastsInit PROVE ToastInv
  OBVIOUS
<1>1. StoreOK(toasts) /\ Shown(toasts) = {}
  BY ToastAssumption DEF ToastsInit, StoreOK, Shown
<1>2. Absent \in ItemRecords /\ Absent.at = "absent" /\ Absent.elapsed = Off /\ Absent.duration = Forever
  BY DEF Absent, ItemRecords, Off, Durations
<1>3. stack \in Stacks
  BY DEF ToastsInit, Stacks, Calm
<1>4. focus \in Foci /\ called \in 0..MaxCalls
  BY ToastAssumption DEF ToastsInit, Foci
<1>5. item \in [Ids -> ItemRecords] /\ \A i \in Ids : item[i] = Absent
  BY <1>2 DEF ToastsInit
<1>6. \A i \in Ids : HoldsTime(item[i], Paused(toasts, stack))
  BY <1>2, <1>5 DEF HoldsTime
<1>7. \A i \in Ids : item[i].at = "present" <=> i \in Shown(toasts)
  BY <1>1, <1>2, <1>5
<1> QED BY <1>1, <1>3, <1>4, <1>5, <1>6, <1>7 DEF ToastInv

(* Calls of the store.                                                      *)
LEMMA StoreStepInv ==
  ASSUME ToastInv, NEW i \in Ids, NEW type \in Types, NEW action \in BOOLEAN,
         ShowToast(i, type, action) \/ UpdateToast(i, type, action) \/ Dismiss(i)
           \/ ToastTimerFires(i) \/ RunAction(i)
  PROVE  ToastInv'
<1>0. StoreOK(toasts) /\ stack \in Stacks /\ called \in 0..MaxCalls
  BY DEF ToastInv
<1>1. CASE ShowToast(i, type, action)
  <2>1. StoreOK(WithToast(toasts, i, type, action))
    BY <1>0, <1>1, WithToastOK DEF ShowToast
  <2> QED BY <1>0, <1>1, <2>1, CallOK, CallInv DEF ShowToast
<1>2. CASE UpdateToast(i, type, action)
  <2>1. StoreOK(WithUpdate(toasts, i, type, action))
    BY <1>0, WithUpdateOK
  <2> QED BY <1>0, <1>2, <2>1, CallOK, CallInv DEF UpdateToast
<1>3. CASE Dismiss(i)
  <2>1. StoreOK(Without(toasts, i))
    BY <1>0, WithoutOK
  <2> QED BY <1>0, <1>3, <2>1, CallOK, CallInv DEF Dismiss
<1>4. CASE ToastTimerFires(i)
  <2>1. StoreOK(Without(toasts, i)) /\ called' \in 0..MaxCalls
    BY <1>0, <1>4, WithoutOK DEF ToastTimerFires
  <2> QED BY <1>0, <1>4, <2>1, CallInv DEF ToastTimerFires
<1>5. CASE RunAction(i)
  <2>1. PICK kind \in Types, handled \in {"nothing", "update", "again"} :
          LET after == CASE handled = "nothing" -> toasts
                         [] handled = "update" -> WithUpdate(toasts, i, kind, FALSE)
                         [] OTHER -> WithToast(Without(toasts, i), i, kind, FALSE)
          IN Renders(IF Found(after, i).version = Found(toasts, i).version THEN Without(after, i)
                     ELSE after, stack)
    BY <1>5 DEF RunAction
  <2> DEFINE after == CASE handled = "nothing" -> toasts
                        [] handled = "update" -> WithUpdate(toasts, i, kind, FALSE)
                        [] OTHER -> WithToast(Without(toasts, i), i, kind, FALSE)
             ts == IF Found(after, i).version = Found(toasts, i).version THEN Without(after, i) ELSE after
  <2>2. StoreOK(after)
    <3>1. StoreOK(WithUpdate(toasts, i, kind, FALSE))
      BY <1>0, WithUpdateOK
    <3>2. StoreOK(Without(toasts, i)) /\ i \notin Shown(Without(toasts, i))
      BY <1>0, WithoutOK
    <3>3. StoreOK(WithToast(Without(toasts, i), i, kind, FALSE))
      BY <3>2, WithToastOK
    <3>4. \/ after = toasts \/ after = WithUpdate(toasts, i, kind, FALSE)
          \/ after = WithToast(Without(toasts, i), i, kind, FALSE)
      OBVIOUS
    <3> QED BY <1>0, <3>1, <3>3, <3>4
  <2>3. Renders(ts, stack)
    BY <2>1
  <2> HIDE DEF after
  <2>4. StoreOK(ts)
    BY <2>2, WithoutOK
  <2> HIDE DEF ts
  <2>5. called' \in 0..MaxCalls
    BY <1>5, CallOK DEF RunAction
  <2> QED BY <1>0, <2>3, <2>4, <2>5, CallInv
<1> QED BY <1>1, <1>2, <1>3, <1>4, <1>5
(* Time passes: every timer that runs has time left for one tick more.      *)
LEMMA TickInv == ASSUME ToastInv, Tick PROVE ToastInv'
<1> DEFINE paused == Paused(toasts, stack)
           ticked(o) == [o EXCEPT !.elapsed = IF @ = Off THEN Off ELSE @ + 1,
                                  !.age = IF o.at = "present" /\ o.duration # Forever /\ ~paused
                                          THEN @ + 1 ELSE @]
<1>0. item \in [Ids -> ItemRecords] /\ \A i \in Ids : HoldsTime(item[i], paused)
  BY DEF ToastInv
<1>1. item' = [i \in Ids |-> ticked(item[i])] /\ UNCHANGED <<toasts, stack, focus, called>>
  BY DEF Tick
<1>2. ASSUME NEW i \in Ids PROVE HoldsTime(item'[i], paused) /\ item'[i].at = item[i].at
  <2> DEFINE o == item[i]
             later == IF o.elapsed = Off THEN Off ELSE o.elapsed + 1
             older == IF o.at = "present" /\ o.duration # Forever /\ ~paused THEN o.age + 1 ELSE o.age
             p == [o EXCEPT !.elapsed = later, !.age = older]
  <2>1. item'[i] = p
    BY <1>1
  <2>2. o \in ItemRecords /\ o.elapsed \in Nat \cup {Off} /\ HoldsTime(o, paused)
    BY <1>0 DEF HoldsTime
  <2>3. o.elapsed = Off \/ o.elapsed < o.remaining
    BY DEF Tick
  <2> HIDE DEF o, paused
  <2>4. later \in Nat \cup {Off} /\ later \in Int /\ older \in Nat /\ (later = Off <=> o.elapsed = Off)
    BY <2>2 DEF ItemRecords, Off
  <2>5. later # Off => later = o.elapsed + 1
    BY <2>4
  <2>6. o.at = "present" /\ o.duration # Forever /\ ~paused => older = o.age + 1
    OBVIOUS
  <2>7. ~(o.at = "present" /\ o.duration # Forever /\ ~paused) => older = o.age
    OBVIOUS
  <2> HIDE DEF later, older
  <2>8. p \in ItemRecords /\ p.elapsed = later /\ p.age = older /\ p.at = o.at /\ p.remaining = o.remaining
        /\ p.duration = o.duration /\ p.revived = o.revived
    BY <2>2, <2>4 DEF ItemRecords
  <2> HIDE DEF p
  <2>9. o.remaining \in Int /\ o.age \in Nat /\ o.duration \in Int
    BY <2>2, DurationsOK DEF ItemRecords
  <2>10. /\ Left(p) = IF o.elapsed = Off THEN o.remaining ELSE o.remaining - o.elapsed - 1
         /\ Left(o) = IF o.elapsed = Off THEN o.remaining ELSE o.remaining - o.elapsed
    BY <2>2, <2>4, <2>5, <2>8, <2>9 DEF Left, Off
  <2>11. p.duration # Forever => Left(p) >= 0
    <3>1. CASE o.elapsed = Off
      BY <2>2, <2>8, <2>10, <3>1 DEF HoldsTime
    <3>2. CASE o.elapsed # Off
      BY <2>2, <2>3, <2>9, <2>10, <3>2
    <3> QED BY <3>1, <3>2
  <2>12. ASSUME p.at = "present", p.duration # Forever
         PROVE  /\ p.elapsed = Off <=> paused
                /\ ~p.revived => Left(p) = p.duration - p.age
    <3>1. (o.elapsed = Off <=> paused) /\ (~o.revived => Left(o) = o.duration - o.age)
      BY <2>2, <2>8, <2>12 DEF HoldsTime
    <3>2. CASE o.elapsed = Off
      <4>1. older = o.age /\ Left(p) = Left(o)
        BY <2>7, <2>10, <3>1, <3>2
      <4> QED BY <2>4, <2>8, <3>1, <3>2, <4>1
    <3>3. CASE o.elapsed # Off
      <4>1. older = o.age + 1
        BY <2>6, <2>8, <2>12, <3>1, <3>3
      <4>2. Left(p) = Left(o) - 1
        BY <2>2, <2>9, <2>10, <3>3
      <4>3. ~o.revived => Left(p) = o.duration - older
        BY <2>9, <3>1, <4>1, <4>2
      <4> QED BY <2>4, <2>8, <3>1, <3>3, <4>3
    <3> QED BY <3>2, <3>3
  <2> QED BY <2>1, <2>4, <2>8, <2>11, <2>12 DEF HoldsTime, o
<1>3. \A i \in Ids : HoldsTime(item[i], Paused(toasts, stack))'
  <2> SUFFICES ASSUME NEW i \in Ids PROVE HoldsTime(item[i], Paused(toasts, stack))'
    OBVIOUS
  <2>1. HoldsTime(item'[i], paused) /\ Paused(toasts, stack)' = paused
    BY <1>1, <1>2 DEF Paused, Expanded
  <2>2. HoldsTime(item'[i], Paused(toasts, stack)')
    BY <2>1
  <2> QED BY <2>2 DEF HoldsTime, Left
<1>4. item' \in [Ids -> ItemRecords]
  <2>1. \A i \in Ids : item'[i] \in ItemRecords
    BY <1>2 DEF HoldsTime
  <2>2. item' = [i \in Ids |-> item'[i]]
    BY <1>1
  <2> QED BY <2>1, <2>2
<1>5. \A i \in Ids : (item[i].at = "present" <=> i \in Shown(toasts))'
  BY <1>1, <1>2 DEF ToastInv, Shown
<1> QED BY <1>1, <1>3, <1>4, <1>5 DEF ToastInv, StoreOK, Stacks, Foci

(* Items change and what pauses them does not.                              *)
LEMMA ItemsInv ==
  ASSUME ToastInv, UNCHANGED <<toasts, stack, focus>>, called' \in 0..MaxCalls,
         item' \in [Ids -> ItemRecords],
         \A i \in Ids : /\ HoldsTime(item'[i], Paused(toasts, stack))
                        /\ item'[i].at = "present" <=> item[i].at = "present"
  PROVE  ToastInv'
<1>1. \A i \in Ids : HoldsTime(item[i], Paused(toasts, stack))'
  BY DEF HoldsTime, Left, Paused, Expanded
<1>2. \A i \in Ids : (item[i].at = "present" <=> i \in Shown(toasts))'
  BY DEF ToastInv, Shown
<1> QED BY <1>1, <1>2 DEF ToastInv, StoreOK, Stacks, Foci

LEMMA ExitsInv == ASSUME ToastInv, ExitsComplete PROVE ToastInv'
<1>0. item \in [Ids -> ItemRecords] /\ called \in 0..MaxCalls
  BY DEF ToastInv
<1>1. Absent \in ItemRecords /\ Absent.at = "absent" /\ Absent.elapsed = Off /\ Absent.duration = Forever
  BY DEF Absent, ItemRecords, Off, Durations
<1>2. item' = [i \in Ids |-> IF item[i].at = "leaving" THEN Absent ELSE item[i]]
      /\ UNCHANGED <<toasts, stack, focus, called>>
  BY DEF ExitsComplete
<1>3. item' \in [Ids -> ItemRecords]
  BY <1>0, <1>1, <1>2
<1>4. ASSUME NEW i \in Ids
      PROVE  /\ HoldsTime(item'[i], Paused(toasts, stack))
             /\ item'[i].at = "present" <=> item[i].at = "present"
  <2>1. CASE item[i].at = "leaving"
    BY <1>1, <1>2, <2>1 DEF HoldsTime
  <2>2. CASE item[i].at # "leaving"
    <3>1. item'[i] = item[i] /\ HoldsTime(item[i], Paused(toasts, stack))
      BY <1>2, <2>2 DEF ToastInv
    <3> QED BY <3>1
  <2> QED BY <2>1, <2>2
<1> QED BY <1>0, <1>2, <1>3, <1>4, ItemsInv

(* Pointer and keyboard.                                                    *)
LEMMA GestureInv ==
  ASSUME ToastInv, NEW i \in Ids, NEW flag \in BOOLEAN,
         PointerDown(i) \/ PointerMove(i, flag) \/ PointerEnd(i, flag) \/ Tap(i, flag)
  PROVE  ToastInv'
<1>0. StoreOK(toasts) /\ stack \in Stacks
  BY DEF ToastInv
<1>1. called' \in 0..MaxCalls
  BY CallOK DEF PointerDown, PointerMove, PointerEnd, Tap
<1>2. ASSUME NEW g \in {"none", "down", "drag"}, item' = WithGesture(i, g), UNCHANGED <<toasts, stack, focus>>
      PROVE  ToastInv'
  <2>1. /\ item' \in [Ids -> ItemRecords]
        /\ \A j \in Ids : HoldsTime(item'[j], Paused(toasts, stack)) /\ item'[j].at = item[j].at
    BY <1>2, GestureKeeps
  <2> QED BY <1>1, <1>2, <2>1, ItemsInv
<1>3. ASSUME NEW g \in {"none", "down", "drag"}, NEW ts, StoreOK(ts), NEW s \in Stacks,
             RendersFrom(WithGesture(i, g), ts, s)
      PROVE  ToastInv'
  <2> DEFINE its == WithGesture(i, g)
  <2>1. \A j \in Ids : HoldsTime(its[j], Paused(toasts, stack))
    BY GestureKeeps
  <2>2. RendersFrom(its, ts, s)
    BY <1>3
  <2> HIDE DEF its
  <2> QED BY <1>1, <1>3, <2>1, <2>2, RendersInv
<1>4. CASE PointerDown(i)
  BY <1>2, <1>4 DEF PointerDown
<1>5. CASE PointerMove(i, flag)
  <2>1. CASE flag
    <3>1. [stack EXCEPT !.dragging = TRUE] \in Stacks
      BY <1>0, StackChanges
    <3>2. RendersFrom(WithGesture(i, "drag"), toasts, [stack EXCEPT !.dragging = TRUE])
      BY <1>5, <2>1 DEF PointerMove
    <3> QED BY <1>0, <1>3, <3>1, <3>2
  <2>2. CASE ~flag
    BY <1>2, <1>5, <2>2 DEF PointerMove
  <2> QED BY <2>1, <2>2
<1>6. CASE PointerEnd(i, flag)
  <2> DEFINE ts == IF flag THEN Without(toasts, i) ELSE toasts
  <2>1. StoreOK(ts)
    BY <1>0, WithoutOK
  <2>2. [stack EXCEPT !.dragging = FALSE] \in Stacks
    BY <1>0, StackChanges
  <2>3. RendersFrom(WithGesture(i, "none"), ts, [stack EXCEPT !.dragging = FALSE])
    BY <1>6 DEF PointerEnd
  <2> HIDE DEF ts
  <2> QED BY <1>3, <2>1, <2>2, <2>3
<1>7. CASE Tap(i, flag)
  <2> DEFINE s == [stack EXCEPT !.tapped = @ # flag]
  <2>1. s \in Stacks
    BY <1>0, StackChanges
  <2>2. RendersFrom(WithGesture(i, "none"), toasts, s)
    BY <1>7 DEF Tap
  <2> HIDE DEF s
  <2> QED BY <1>0, <1>3, <2>1, <2>2
<1> QED BY <1>4, <1>5, <1>6, <1>7

LEMMA StackStepInv ==
  ASSUME ToastInv, TapOutside \/ Hover \/ PageHides
  PROVE  ToastInv'
<1>0. StoreOK(toasts) /\ stack \in Stacks /\ called' \in 0..MaxCalls
  BY CallOK DEF ToastInv, TapOutside, Hover, PageHides
<1>1. ASSUME NEW s \in Stacks, Renders(toasts, s) PROVE ToastInv'
  BY <1>0, <1>1, CallInv
<1>2. /\ [stack EXCEPT !.tapped = FALSE] \in Stacks
      /\ [stack EXCEPT !.hovered = ~stack.hovered] \in Stacks
      /\ [stack EXCEPT !.hidden = ~stack.hidden] \in Stacks
  <2>1. stack.hovered \in BOOLEAN /\ stack.hidden \in BOOLEAN
    BY <1>0, StackChanges
  <2> QED BY <1>0, <2>1, StackChanges
<1>3. CASE TapOutside
  BY <1>1, <1>2, <1>3 DEF TapOutside
<1>4. CASE Hover
  BY <1>1, <1>2, <1>4 DEF Hover
<1>5. CASE PageHides
  BY <1>1, <1>2, <1>5 DEF PageHides
<1> QED BY <1>3, <1>4, <1>5

LEMMA FocusInv ==
  ASSUME ToastInv, NEW i \in Ids, NEW keyboard \in BOOLEAN, Focus(i, keyboard) \/ Hotkey \/ Blur
  PROVE  ToastInv'
<1>0. StoreOK(toasts) /\ stack \in Stacks /\ stack.focused \in BOOLEAN
  BY StackChanges DEF ToastInv
<1>1. CASE Focus(i, keyboard)
  <2> DEFINE s == [stack EXCEPT !.focused = @ \/ keyboard]
  <2>1. s \in Stacks
    <3>1. (stack.focused \/ keyboard) \in BOOLEAN
      BY <1>0
    <3> QED BY <1>0, <3>1, StackChanges
  <2>2. Refocuses(i, keyboard, s)
    BY <1>1 DEF Focus
  <2> HIDE DEF s
  <2> QED BY <2>1, <2>2, RefocusesInv
<1>2. CASE Hotkey
  <2>1. PICK k \in DOMAIN toasts : Refocuses(toasts[k].id, TRUE, [stack EXCEPT !.focused = TRUE])
    BY <1>2 DEF Hotkey
  <2>2. toasts[k].id \in Ids
    BY <1>0, ShownAreIds DEF Shown
  <2>3. [stack EXCEPT !.focused = TRUE] \in Stacks
    BY <1>0, StackChanges
  <2> QED BY <2>1, <2>2, <2>3, RefocusesInv
<1>3. CASE Blur
  <2>1. [stack EXCEPT !.focused = FALSE] \in Stacks
    BY <1>0, StackChanges
  <2> QED BY <1>3, <2>1, RefocusesInv DEF Blur
<1> QED BY <1>1, <1>2, <1>3

LEMMA ToastStepInv == ToastInv /\ [ToastsNext]_toastVars => ToastInv'
<1> SUFFICES ASSUME ToastInv, [ToastsNext]_toastVars PROVE ToastInv'
  OBVIOUS
<1>1. ASSUME NEW i \in Ids, NEW type \in Types, NEW action \in BOOLEAN,
             ShowToast(i, type, action) \/ UpdateToast(i, type, action)
      PROVE  ToastInv'
  BY <1>1, StoreStepInv
<1>2. ASSUME NEW i \in Ids, Dismiss(i) \/ RunAction(i) \/ ToastTimerFires(i) PROVE ToastInv'
  <2>1. "info" \in Types /\ TRUE \in BOOLEAN
    BY DEF Types
  <2> QED BY <1>2, <2>1, StoreStepInv
<1>3. ASSUME NEW i \in Ids, PointerDown(i) PROVE ToastInv'
  <2>1. TRUE \in BOOLEAN
    OBVIOUS
  <2> QED BY <1>3, <2>1, GestureInv
<1>4. ASSUME NEW i \in Ids, NEW flag \in BOOLEAN,
             PointerMove(i, flag) \/ PointerEnd(i, flag) \/ Tap(i, flag) \/ Focus(i, flag)
      PROVE  ToastInv'
  BY <1>4, GestureInv, FocusInv
<1>5. CASE DismissAll
  <2>1. StoreOK(<<>>) /\ stack \in Stacks
    BY ToastAssumption DEF ToastInv, StoreOK
  <2> QED BY <1>5, <2>1, CallOK, CallInv DEF DismissAll
<1>6. CASE Tick
  BY <1>6, TickInv
<1>7. CASE ExitsComplete
  BY <1>7, ExitsInv
<1>8. CASE TapOutside \/ Hover \/ PageHides
  BY <1>8, StackStepInv
<1>9. CASE Hotkey
  <2>1. PICK k \in DOMAIN toasts : Refocuses(toasts[k].id, TRUE, [stack EXCEPT !.focused = TRUE])
    BY <1>9 DEF Hotkey
  <2>2. toasts[k].id \in Ids
    BY ShownAreIds DEF Shown, ToastInv
  <2> QED BY <1>9, <2>2, FocusInv
<1>10. CASE Blur
  <2>1. [stack EXCEPT !.focused = FALSE] \in Stacks
    BY StackChanges DEF ToastInv
  <2> QED BY <1>10, <2>1, RefocusesInv DEF Blur
<1>11. CASE UNCHANGED toastVars
  BY <1>11 DEF toastVars, ToastInv, HoldsTime, Left, Paused, Expanded, StoreOK, Shown, Stacks, Foci
<1> QED
  BY <1>1, <1>2, <1>3, <1>4, <1>5, <1>6, <1>7, <1>8, <1>9, <1>10, <1>11 DEF ToastsNext

LEMMA ToastsAlwaysInv == ToastsSpec => []ToastInv
<1>1. ToastsInit => ToastInv
  BY ToastInitInv
<1>2. ToastInv /\ [ToastsNext]_toastVars => ToastInv'
  BY ToastStepInv
<1> QED BY <1>1, <1>2, PTL DEF ToastsSpec

(* The store never holds more toasts than its limit nor two of one id, and  *)
(* every variable keeps its type.                                           *)
THEOREM ToastTypes == ToastsSpec => []ToastsTypeOK
<1>1. ToastInv => ToastsTypeOK
  BY InvIsTyped
<1> QED BY <1>1, ToastsAlwaysInv, PTL

(* A toast that may end runs its timer exactly while nothing pauses the     *)
(* stack, and the timer and `remaining` always make up its duration less    *)
(* its age: hovering, focus, drags, hidden pages and departures of others   *)
(* neither lose nor gain it any time (ToastItem of toast-stack.tsx).        *)
THEOREM ClocksKeepTime == ToastsSpec => []ClockKeepsTime
<1>1. ToastInv => ClockKeepsTime
  BY InvKeepsTime
<1> QED BY <1>1, ToastsAlwaysInv, PTL
==============================================================================
