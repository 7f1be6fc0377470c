------------------------------- MODULE Delivery -------------------------------
(***************************************************************************)
(* What a hook promises its owner, whatever fails on the way (the          *)
(* delivery chapter of docs/api.md, kept by ting-server and ting-daemon    *)
(* together): a message is posted to the destination once or more; only    *)
(* when the destination has taken it is it counted as read; and while the  *)
(* server still stores it, it is not posted again from then on.  Retention *)
(* may remove a message at any time, and with it the memory that it was    *)
(* read: an offer that was still on its way may then be posted once more.  *)
(***************************************************************************)
CONSTANTS
  Hooks,   \* the hooks, each with its destination
  Messages \* the messages they owe

VARIABLES
  stored,   \* the messages the server has
  posting,  \* the batch on its way to each destination
  answered, \* what each destination has answered 204 for
  read      \* what the server counts as read by each hook

vars == <<stored, posting, answered, read>>

Init ==
  /\ stored = Messages
  /\ posting = [h \in Hooks |-> {}]
  /\ answered = [h \in Hooks |-> {}]
  /\ read = [h \in Hooks |-> {}]

Post(h, ms) ==
  /\ posting[h] = {}
  /\ ms # {} /\ ms \cap stored \cap read[h] = {}
  /\ posting' = [posting EXCEPT ![h] = ms]
  /\ UNCHANGED <<stored, answered, read>>

(* The destination takes the batch, perhaps not for the first time.         *)
Answer(h) ==
  /\ posting[h] # {}
  /\ answered' = [answered EXCEPT ![h] = @ \cup posting[h]]
  /\ posting' = [posting EXCEPT ![h] = {}]
  /\ UNCHANGED <<stored, read>>

(* The destination refuses, or the daemon gives up or stops.                *)
Fail(hs) ==
  /\ posting' = [h \in Hooks |-> IF h \in hs THEN {} ELSE posting[h]]
  /\ UNCHANGED <<stored, answered, read>>

(* The server learns that messages were taken.                              *)
Report(h, ms) ==
  /\ ms \subseteq answered[h] \cap stored
  /\ read' = [read EXCEPT ![h] = @ \cup ms]
  /\ UNCHANGED <<stored, posting, answered>>

Remove(m) ==
  /\ m \in stored
  /\ stored' = stored \ {m}
  /\ UNCHANGED <<posting, answered, read>>

Next ==
  \/ \E h \in Hooks, ms \in SUBSET Messages : Post(h, ms) \/ Report(h, ms)
  \/ \E h \in Hooks : Answer(h)
  \/ \E hs \in SUBSET Hooks : Fail(hs)
  \/ \E m \in Messages : Remove(m)

Spec == Init /\ [][Next]_vars
==============================================================================
