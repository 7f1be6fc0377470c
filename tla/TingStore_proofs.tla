-------------------------- MODULE TingStore_proofs --------------------------
(***************************************************************************)
(* Proofs about TingStore that hold for every number of apps, recipients,  *)
(* hooks, receivers, messages and keys.                                    *)
(***************************************************************************)
EXTENDS TingStore, TLAPS

------------------------------------------------------------------------------
(* Tables.                                                                  *)

(* A row of the table's type may be inserted under keys of its type.        *)
LEMMA InsertType ==
  ASSUME NEW K, NEW R, NEW table, NEW keys, NEW row,
         IsTable(table, K, R), keys \subseteq K, row \in R
  PROVE  IsTable(Insert(table, keys, row), K, R)
BY DEF IsTable, Insert

(* A table remains one when rows go.                                        *)
LEMMA RestrictType ==
  ASSUME NEW K, NEW R, NEW table, NEW keys,
         IsTable(table, K, R), keys \subseteq DOMAIN table
  PROVE  IsTable(Restrict(table, keys), K, R)
BY DEF IsTable, Restrict

(* What Restrict does to the rows.                                          *)
LEMMA RestrictRows ==
  ASSUME NEW table, NEW keys
  PROVE  /\ DOMAIN Restrict(table, keys) = keys
         /\ \A k \in keys : Restrict(table, keys)[k] = table[k]
BY DEF Restrict

LEMMA NoRowsType ==
  ASSUME NEW K, NEW R
  PROVE  IsTable(NoRows, K, R)
BY DEF IsTable, NoRows

(* Taking back offers touches delivery and offer_receiver of unread copies  *)
(* only.                                                                    *)
LEMMA ResetCopiesRows ==
  ASSUME NEW copies, IsTable(copies, Hooks \X Messages, Copy), NEW H
  PROVE  /\ IsTable(ResetCopies(copies, H), Hooks \X Messages, Copy)
         /\ DOMAIN ResetCopies(copies, H) = DOMAIN copies
         /\ \A k \in DOMAIN copies :
              /\ ResetCopies(copies, H)[k].read = copies[k].read
              /\ ResetCopies(copies, H)[k].offered = copies[k].offered
              /\ k[1] \in H /\ ~copies[k].read =>
                   /\ ResetCopies(copies, H)[k].offer_receiver = None
                   /\ ResetCopies(copies, H)[k].delivery = FALSE
              /\ k[1] \notin H => ResetCopies(copies, H)[k] = copies[k]
              /\ copies[k].read => ResetCopies(copies, H)[k] = copies[k]
BY DEF IsTable, ResetCopies, Copy

(* Unbinding hooks keeps their owners.                                      *)
LEMMA UnbindRows ==
  ASSUME IsTable(hooks, Hooks, Hook), NEW H, NEW state \in HookStates
  PROVE  /\ IsTable(Unbind(H, state), Hooks, Hook)
         /\ DOMAIN Unbind(H, state) = DOMAIN hooks
         /\ \A h \in DOMAIN hooks :
              /\ Unbind(H, state)[h].recipient = hooks[h].recipient
              /\ h \in H => /\ Unbind(H, state)[h].receiver = None
                            /\ Unbind(H, state)[h].state = state
              /\ h \notin H => Unbind(H, state)[h] = hooks[h]
BY DEF IsTable, Unbind, Hook

(* So does releasing them.                                                  *)
LEMMA ReleaseRows ==
  ASSUME IsTable(hooks, Hooks, Hook), NEW H
  PROVE  /\ IsTable(Release(H), Hooks, Hook)
         /\ DOMAIN Release(H) = DOMAIN hooks
         /\ \A h \in DOMAIN hooks :
              /\ Release(H)[h].recipient = hooks[h].recipient
              /\ h \in H => /\ Release(H)[h].receiver = None
                            /\ Release(H)[h].state # "connected"
              /\ h \notin H => Release(H)[h] = hooks[h]
BY DEF IsTable, Release, Hook, HookStates

(* Reading and unreading changes nothing but the read flag.                 *)
LEMMA MarkReadRows ==
  ASSUME IsTable(tings, Messages, Ting), NEW ids, NEW read \in BOOLEAN
  PROVE  /\ IsTable(MarkRead(ids, read), Messages, Ting)
         /\ DOMAIN MarkRead(ids, read) = DOMAIN tings
         /\ \A m \in DOMAIN tings :
              /\ MarkRead(ids, read)[m].request = tings[m].request
              /\ MarkRead(ids, read)[m].key = tings[m].key
              /\ MarkRead(ids, read)[m].silent = tings[m].silent
              /\ MarkRead(ids, read)[m].created = tings[m].created
BY DEF IsTable, MarkRead, Ting

------------------------------------------------------------------------------
(* The type invariant.                                                      *)

(* The two tables that Hub::invalidate leaves behind.                       *)
LEMMA InvalidateType ==
  ASSUME IsTable(hooks, Hooks, Hook), NEW recipients,
         NEW copies, IsTable(copies, Hooks \X Messages, Copy),
         Invalidate(recipients, copies)
  PROVE  /\ IsTable(hooks', Hooks, Hook)
         /\ IsTable(deliveries', Hooks \X Messages, Copy)
BY UnbindRows, ResetCopiesRows DEF Invalidate, HookStates

(* The tables that store.prune leaves behind.                               *)
LEMMA PruneType ==
  ASSUME TypeOK, NEW copies, IsTable(copies, Hooks \X Messages, Copy), Prune(copies)
  PROVE  /\ IsTable(tings', Messages, Ting)
         /\ IsTable(deliveries', Hooks \X Messages, Copy)
         /\ IsTable(sendKeys', Apps \X SendKeys, SendKey)
         /\ IsTable(readKeys', Apps \X ReadKeys, ReadKey)
         /\ IsTable(hookKeys', Recipients \X HookKeys, HookKey)
<1>1. IsTable(tings', Messages, Ting)
  <2>1. Kept \subseteq DOMAIN tings
    BY DEF Kept
  <2> QED  BY <2>1, RestrictType DEF Prune, TypeOK
<1>2. IsTable(deliveries', Hooks \X Messages, Copy)
  BY RestrictType DEF Prune, CopiesOfKept
<1>3. \A K, R, table : IsTable(table, K, R) => IsTable(LiveKeys(table), K, R)
  BY RestrictType DEF LiveKeys
<1> QED  BY <1>1, <1>2, <1>3 DEF Prune, TypeOK

LEMMA ConsentStepType ==
  ASSUME TypeOK, ConsentStep
  PROVE  TypeOK'
<1>1. ASSUME NEW app \in Apps, NEW recipient \in Recipients, SubscribeApp(app, recipient)
      PROVE  TypeOK'
  BY <1>1 DEF TypeOK, SubscribeApp, keyTables
<1>2. ASSUME NEW app \in Apps, NEW recipient \in Recipients, Revoke(app, recipient)
      PROVE  TypeOK'
  BY <1>2, InvalidateType DEF TypeOK, Revoke, keyTables
<1>3. ASSUME NEW app \in Apps, NEW recipient \in Recipients, NEW enabled \in BOOLEAN,
             RequiredDelivery(app, recipient, enabled)
      PROVE  TypeOK'
  <2>1. optin' \subseteq Apps \X Recipients
    BY <1>3 DEF TypeOK, RequiredDelivery
  <2> QED  BY <1>3, <2>1, InvalidateType DEF TypeOK, RequiredDelivery, keyTables
<1>4. ASSUME NEW recipient \in Recipients, NEW scope \in Scopes,
             NEW choice \in {"unset", "on", "off"}, SetPreference(recipient, scope, choice)
      PROVE  TypeOK'
  BY <1>4, InvalidateType DEF TypeOK, SetPreference, keyTables
<1> QED  BY <1>1, <1>2, <1>3, <1>4 DEF ConsentStep

LEMMA MessageStepType ==
  ASSUME TypeOK, MessageStep
  PROVE  TypeOK'
<1>1. ASSUME NEW q \in Requests, NEW key \in SendKeys, NEW m \in Messages, Send(q, key, m)
      PROVE  TypeOK'
  <2> USE StoreAssumption
  <2>1. now + KeyWindow \in Nat
    BY DEF TypeOK
  <2>2. IsTable(tings', Messages, Ting)
    BY <1>1, InsertType DEF TypeOK, Send, Enabled, Ting
  <2>3. IsTable(deliveries', Hooks \X Messages, Copy)
    <3> DEFINE H == FanOut(q, ~Enabled(q.recipient, q.scopes))
    <3>1. H \X {m} \subseteq Hooks \X Messages
      BY DEF TypeOK, IsTable, FanOut, HooksOf
    <3>2. NewCopy \in Copy
      BY DEF NewCopy, Copy
    <3> QED  BY <1>1, <3>1, <3>2, InsertType DEF TypeOK, Send
  <2>4. IsTable(sendKeys', Apps \X SendKeys, SendKey)
    <3>1. {<<q.app, key>>} \subseteq Apps \X SendKeys
      OBVIOUS
    <3>2. [request |-> q, message |-> m, expires |-> now + KeyWindow] \in SendKey
      BY <2>1 DEF SendKey
    <3> QED  BY <1>1, <3>1, <3>2, InsertType DEF TypeOK, Send
  <2> QED  BY <1>1, <2>2, <2>3, <2>4 DEF TypeOK, Send, consent
<1>2. ASSUME NEW recipient \in Recipients, NEW ids \in SUBSET Messages,
             InboxRead(recipient, ids)
      PROVE  TypeOK'
  BY <1>2, InvalidateType, MarkReadRows DEF TypeOK, InboxRead, consent, keyTables
<1>3. ASSUME NEW app \in Apps, NEW key \in ReadKeys, NEW ids \in SUBSET Messages,
             NEW read \in BOOLEAN, SentRead(app, key, ids, read)
      PROVE  TypeOK'
  <2>1. now + KeyWindow \in Nat
    BY StoreAssumption DEF TypeOK
  <2>2. IsTable(readKeys', Apps \X ReadKeys, ReadKey)
    <3>1. {<<app, key>>} \subseteq Apps \X ReadKeys
      OBVIOUS
    <3>2. [ids |-> ids, read |-> read, expires |-> now + KeyWindow] \in ReadKey
      BY <2>1 DEF ReadKey
    <3> QED  BY <1>3, <3>1, <3>2, InsertType DEF TypeOK, SentRead
  <2> QED  BY <1>3, <2>2, InvalidateType, MarkReadRows DEF TypeOK, SentRead, consent
<1> QED  BY <1>1, <1>2, <1>3 DEF MessageStep

LEMMA HookStepType ==
  ASSUME TypeOK, HookStep
  PROVE  TypeOK'
<1>1. ASSUME NEW r \in Receivers, Connect(r)
      PROVE  TypeOK'
  BY <1>1 DEF TypeOK, Connect, consent, keyTables
<1>2. ASSUME NEW r \in Receivers, Disconnect(r)
      PROVE  TypeOK'
  <2> DEFINE H == {h \in DOMAIN hooks : hooks[h].receiver = r}
  <2>1. /\ IsTable(Release(H), Hooks, Hook)
        /\ IsTable(ResetCopies(deliveries, H), Hooks \X Messages, Copy)
    BY ReleaseRows, ResetCopiesRows DEF TypeOK
  <2>2. /\ hooks' \in {hooks, Release(H)}
        /\ deliveries' \in {deliveries, ResetCopies(deliveries, H)}
    BY <1>2 DEF Disconnect
  <2> HIDE DEF H
  <2> QED  BY <1>2, <2>1, <2>2 DEF TypeOK, Disconnect, consent, keyTables
<1>3. ASSUME NEW recipient \in Recipients, NEW key \in HookKeys, NEW r \in Receivers,
             NEW h \in Hooks, CreateHook(recipient, key, r, h)
      PROVE  TypeOK'
  <2>1. now + KeyWindow \in Nat
    BY StoreAssumption DEF TypeOK
  <2>2. IsTable(hooks', Hooks, Hook)
    BY <1>3, InsertType DEF TypeOK, CreateHook, Hook, HookStates
  <2>3. IsTable(deliveries', Hooks \X Messages, Copy)
    <3>1. {h} \X Backlog(recipient) \subseteq Hooks \X Messages
      BY DEF TypeOK, IsTable, Backlog, UnreadEligible
    <3>2. NewCopy \in Copy
      BY DEF NewCopy, Copy
    <3> QED  BY <1>3, <3>1, <3>2, InsertType DEF TypeOK, CreateHook
  <2>4. IsTable(hookKeys', Recipients \X HookKeys, HookKey)
    <3>1. {<<recipient, key>>} \subseteq Recipients \X HookKeys
      OBVIOUS
    <3>2. [receiver |-> r, hook |-> h, expires |-> now + KeyWindow] \in HookKey
      BY <2>1 DEF HookKey
    <3> QED  BY <1>3, <3>1, <3>2, InsertType DEF TypeOK, CreateHook
  <2> QED  BY <1>3, <2>2, <2>3, <2>4 DEF TypeOK, CreateHook, consent
<1>4. ASSUME NEW r \in Receivers, NEW H \in SUBSET Hooks, NEW explicit \in BOOLEAN,
             NEW takeover \in BOOLEAN, Bind(r, H, explicit, takeover)
      PROVE  TypeOK'
  <2>1. IsTable(hooks', Hooks, Hook)
    <3>1. \A h \in DOMAIN hooks :
            [hooks[h] EXCEPT !.state = "connected", !.receiver = r] \in Hook
      BY DEF TypeOK, IsTable, Hook, HookStates
    <3> QED  BY <1>4, <3>1 DEF TypeOK, Bind, IsTable
  <2> QED  BY <1>4, <2>1, ResetCopiesRows DEF TypeOK, Bind, consent, keyTables
<1>5. ASSUME NEW h \in Hooks, Detach(h)
      PROVE  TypeOK'
  <2>1. IsTable(hooks', Hooks, Hook)
    BY <1>5, UnbindRows DEF TypeOK, Detach, HookStates
  <2>2. IsTable(deliveries', Hooks \X Messages, Copy)
    <3>1. deliveries' = deliveries \/ deliveries' = ResetCopies(deliveries, {h})
      BY <1>5 DEF Detach
    <3>2. IsTable(ResetCopies(deliveries, {h}), Hooks \X Messages, Copy)
      BY ResetCopiesRows DEF TypeOK
    <3> QED  BY <3>1, <3>2 DEF TypeOK
  <2> QED  BY <1>5, <2>1, <2>2 DEF TypeOK, Detach, consent, keyTables
<1>6. ASSUME NEW r \in Receivers, NEW H \in SUBSET Hooks, NEW pause \in BOOLEAN,
             Unsubscribe(r, H, pause)
      PROVE  TypeOK'
  BY <1>6, UnbindRows, ResetCopiesRows
     DEF TypeOK, Unsubscribe, HookStates, consent, keyTables
<1> QED  BY <1>1, <1>2, <1>3, <1>4, <1>5, <1>6 DEF HookStep

LEMMA DeliveryStepType ==
  ASSUME TypeOK, DeliveryStep
  PROVE  TypeOK'
<1> SUFFICES ASSUME NEW r \in Receivers, NEW h \in Hooks, NEW ids \in SUBSET Messages,
                    Offer(r, h, ids) \/ AckDelivery(r, h, ids) \/ AckRead(r, h, ids)
             PROVE  TypeOK'
  BY DEF DeliveryStep
<1>1. CASE Offer(r, h, ids)
  <2>1. IsTable(deliveries', Hooks \X Messages, Copy)
    BY <1>1 DEF TypeOK, Offer, IsTable, Copy
  <2> QED  BY <1>1, <2>1 DEF TypeOK, Offer, consent, keyTables
<1>2. CASE AckDelivery(r, h, ids)
  <2>1. IsTable(deliveries', Hooks \X Messages, Copy)
    BY <1>2 DEF TypeOK, AckDelivery, IsTable, Copy
  <2> QED  BY <1>2, <2>1 DEF TypeOK, AckDelivery, consent, keyTables
<1>3. CASE AckRead(r, h, ids)
  <2> DEFINE completed == Completed(h, ids)
             acked == ReadCopies(h, completed)
  <2>1. IsTable(acked, Hooks \X Messages, Copy)
    BY DEF TypeOK, IsTable, Copy, ReadCopies
  <2>2. /\ tings' = MarkRead(completed, TRUE)
        /\ Invalidate(RecipientsOf(ExpireWhenRead(completed)), acked)
    BY <1>3 DEF AckRead
  <2>3. /\ IsTable(hooks', Hooks, Hook)
        /\ IsTable(deliveries', Hooks \X Messages, Copy)
    <3> HIDE DEF acked, completed
    <3> QED  BY <2>1, <2>2, InvalidateType DEF TypeOK
  <2>4. IsTable(tings', Messages, Ting)
    BY <2>2, MarkReadRows DEF TypeOK
  <2> QED  BY <1>3, <2>3, <2>4 DEF TypeOK, AckRead, consent, keyTables
<1> QED  BY <1>1, <1>2, <1>3

(* Every table holds rows of its type (the tables of store.rs:56-71), for   *)
(* every instance of the store.                                             *)
THEOREM TypeCorrect == Spec => []TypeOK
<1>1. Init => TypeOK
  BY NoRowsType DEF Init, TypeOK
<1>2. TypeOK /\ [Next]_vars => TypeOK'
  <2> SUFFICES ASSUME TypeOK, [Next]_vars
               PROVE  TypeOK'
    OBVIOUS
  <2>1. CASE ConsentStep
    BY <2>1, ConsentStepType
  <2>2. CASE MessageStep
    BY <2>2, MessageStepType
  <2>3. CASE HookStep
    BY <2>3, HookStepType
  <2>4. CASE DeliveryStep
    BY <2>4, DeliveryStepType
  <2>5. CASE Tick
    BY <2>5 DEF TypeOK, Tick, consent, keyTables
  <2>6. CASE Retention
    <3> DEFINE H == HooksOf(ExpiredOwners) \cap BoundHooks
    <3>1. /\ hooks' = Unbind(H, "disconnected")
          /\ Prune(ResetCopies(deliveries, H))
      BY <2>6 DEF Retention
    <3>2. IsTable(ResetCopies(deliveries, H), Hooks \X Messages, Copy)
      BY ResetCopiesRows DEF TypeOK
    <3>3. IsTable(hooks', Hooks, Hook)
      BY <3>1, UnbindRows DEF TypeOK, HookStates
    <3> QED  BY <2>6, <3>1, <3>2, <3>3, PruneType DEF TypeOK, Retention, consent
  <2>7. CASE Restart
    <3> DEFINE H == DOMAIN hooks
    <3>1. hooks' = Release(H) /\ Prune(ResetCopies(deliveries, H))
      BY <2>7 DEF Restart
    <3>2. IsTable(ResetCopies(deliveries, H), Hooks \X Messages, Copy)
      BY ResetCopiesRows DEF TypeOK
    <3>3. IsTable(hooks', Hooks, Hook)
      BY <3>1, ReleaseRows DEF TypeOK
    <3> QED  BY <2>7, <3>1, <3>2, <3>3, PruneType DEF TypeOK, Restart, consent
  <2>8. CASE UNCHANGED vars
    BY <2>8 DEF TypeOK, vars, keyTables
  <2> QED  BY <2>1, <2>2, <2>3, <2>4, <2>5, <2>6, <2>7, <2>8 DEF Next
<1> QED  BY <1>1, <1>2, PTL DEF Spec

------------------------------------------------------------------------------
(* Consent and bindings.                                                    *)

(* An opt-in to required delivery needs the registration it was given       *)
(* under: revoking takes both back in one step (store.rs:395-413).          *)
THEOREM OptInFollowsGrant == Spec => []OptInNeedsGrant
<1>1. Init => OptInNeedsGrant
  BY DEF Init, OptInNeedsGrant
<1>2. TypeOK /\ OptInNeedsGrant /\ [Next]_vars => OptInNeedsGrant'
  <2> SUFFICES ASSUME TypeOK, OptInNeedsGrant, [Next]_vars
               PROVE  OptInNeedsGrant'
    OBVIOUS
  <2>1. ASSUME NEW app \in Apps, NEW recipient \in Recipients, SubscribeApp(app, recipient)
        PROVE  OptInNeedsGrant'
    BY <2>1 DEF TypeOK, OptInNeedsGrant, SubscribeApp
  <2>2. ASSUME NEW app \in Apps, NEW recipient \in Recipients, Revoke(app, recipient)
        PROVE  OptInNeedsGrant'
    BY <2>2 DEF TypeOK, OptInNeedsGrant, Revoke
  <2>3. ASSUME NEW app \in Apps, NEW recipient \in Recipients, NEW enabled \in BOOLEAN,
               RequiredDelivery(app, recipient, enabled)
        PROVE  OptInNeedsGrant'
    <3>1. CASE enabled
      <4>1. grants[app, recipient] = "active" /\ optin' = optin \cup {<<app, recipient>>}
        BY <2>3, <3>1 DEF RequiredDelivery
      <4> QED  BY <2>3, <4>1 DEF OptInNeedsGrant, RequiredDelivery
    <3>2. CASE ~enabled
      BY <2>3, <3>2 DEF OptInNeedsGrant, RequiredDelivery
    <3> QED  BY <3>1, <3>2
  <2>4. CASE UNCHANGED <<grants, optin>>
    BY <2>4 DEF OptInNeedsGrant
  <2>5. ASSUME NEW recipient \in Recipients, NEW scope \in Scopes,
               NEW choice \in {"unset", "on", "off"},
               SetPreference(recipient, scope, choice)
        PROVE  UNCHANGED <<grants, optin>>
    BY <2>5 DEF SetPreference
  <2>6. MessageStep \/ HookStep => UNCHANGED <<grants, optin>>
    BY DEF MessageStep, HookStep, Send, InboxRead, SentRead, Connect, Disconnect,
           CreateHook, Bind, Detach, Unsubscribe, consent
  <2>7. DeliveryStep \/ Tick \/ Retention \/ Restart \/ UNCHANGED vars
          => UNCHANGED <<grants, optin>>
    BY DEF DeliveryStep, Offer, AckDelivery, AckRead, Tick, Retention, Restart,
           consent, vars
  <2> QED
    BY <2>1, <2>2, <2>3, <2>4, <2>5, <2>6, <2>7 DEF Next, ConsentStep
<1> QED  BY <1>1, <1>2, TypeCorrect, PTL DEF Spec

(* What every step may do to the hooks: the rows stay, their owners too,    *)
(* and a binding is either kept, dropped, or made anew as connected.        *)
HooksKept ==
  \A h \in DOMAIN hooks :
    h \in DOMAIN hooks' /\ hooks'[h].recipient = hooks[h].recipient

LEMMA InvalidateHooks ==
  ASSUME IsTable(hooks, Hooks, Hook), BindingCoherent,
         NEW recipients, NEW copies, Invalidate(recipients, copies)
  PROVE  BindingCoherent' /\ HooksKept
<1> DEFINE H == HooksOf(recipients) \cap BoundHooks
<1>1. hooks' = Unbind(H, "disconnected")
  BY DEF Invalidate
<1> HIDE DEF H
<1> QED  BY <1>1, UnbindRows DEF BindingCoherent, HooksKept, HookStates

(* The same of the steps that name the hooks themselves.                    *)
LEMMA UnbindHooks ==
  ASSUME IsTable(hooks, Hooks, Hook), BindingCoherent,
         NEW H, NEW state \in HookStates \ {"connected"}, hooks' = Unbind(H, state)
  PROVE  BindingCoherent' /\ HooksKept
BY UnbindRows DEF BindingCoherent, HooksKept

LEMMA ReleaseHooks ==
  ASSUME IsTable(hooks, Hooks, Hook), BindingCoherent, NEW H, hooks' = Release(H)
  PROVE  BindingCoherent' /\ HooksKept
BY ReleaseRows DEF BindingCoherent, HooksKept

LEMMA SameHooks ==
  ASSUME BindingCoherent, hooks' = hooks
  PROVE  BindingCoherent' /\ HooksKept
BY DEF BindingCoherent, HooksKept

(* Every step keeps the hooks' owners and the coherence of their bindings.  *)
LEMMA StepKeepsHooks ==
  ASSUME TypeOK, BindingCoherent, [Next]_vars
  PROVE  BindingCoherent' /\ HooksKept
<1> USE DEF TypeOK
<1>1. CASE ConsentStep
  <2>1. ASSUME NEW app \in Apps, NEW recipient \in Recipients, SubscribeApp(app, recipient)
        PROVE  BindingCoherent' /\ HooksKept
    BY <2>1, SameHooks DEF SubscribeApp
  <2>2. ASSUME NEW app \in Apps, NEW recipient \in Recipients, Revoke(app, recipient)
        PROVE  BindingCoherent' /\ HooksKept
    BY <2>2, InvalidateHooks DEF Revoke
  <2>3. ASSUME NEW app \in Apps, NEW recipient \in Recipients, NEW enabled \in BOOLEAN,
               RequiredDelivery(app, recipient, enabled)
        PROVE  BindingCoherent' /\ HooksKept
    BY <2>3, InvalidateHooks DEF RequiredDelivery
  <2>4. ASSUME NEW recipient \in Recipients, NEW scope \in Scopes,
               NEW choice \in {"unset", "on", "off"},
               SetPreference(recipient, scope, choice)
        PROVE  BindingCoherent' /\ HooksKept
    BY <2>4, InvalidateHooks DEF SetPreference
  <2> QED  BY <1>1, <2>1, <2>2, <2>3, <2>4 DEF ConsentStep
<1>2. CASE MessageStep
  <2>1. ASSUME NEW q \in Requests, NEW key \in SendKeys, NEW m \in Messages, Send(q, key, m)
        PROVE  BindingCoherent' /\ HooksKept
    BY <2>1, SameHooks DEF Send
  <2>2. ASSUME NEW recipient \in Recipients, NEW ids \in SUBSET Messages,
               InboxRead(recipient, ids)
        PROVE  BindingCoherent' /\ HooksKept
    BY <2>2, InvalidateHooks DEF InboxRead
  <2>3. ASSUME NEW app \in Apps, NEW key \in ReadKeys, NEW ids \in SUBSET Messages,
               NEW read \in BOOLEAN, SentRead(app, key, ids, read)
        PROVE  BindingCoherent' /\ HooksKept
    BY <2>3, InvalidateHooks DEF SentRead
  <2> QED  BY <1>2, <2>1, <2>2, <2>3 DEF MessageStep
<1>3. CASE HookStep
  <2>1. ASSUME NEW r \in Receivers, Connect(r)
        PROVE  BindingCoherent' /\ HooksKept
    BY <2>1, SameHooks DEF Connect
  <2>2. ASSUME NEW r \in Receivers, Disconnect(r)
        PROVE  BindingCoherent' /\ HooksKept
    <3> DEFINE H == {h \in DOMAIN hooks : hooks[h].receiver = r}
    <3>1. hooks' = hooks \/ hooks' = Release(H)
      BY <2>2 DEF Disconnect
    <3> QED  BY <3>1, SameHooks, ReleaseHooks
  <2>3. ASSUME NEW recipient \in Recipients, NEW key \in HookKeys, NEW r \in Receivers,
               NEW h \in Hooks, CreateHook(recipient, key, r, h)
        PROVE  BindingCoherent' /\ HooksKept
    <3> DEFINE row == [recipient |-> recipient, state |-> "connected", receiver |-> r]
    <3>1. hooks' = Insert(hooks, {h}, row) /\ h \notin DOMAIN hooks
      BY <2>3 DEF CreateHook
    <3>2. row.receiver # None /\ row.state = "connected"
      BY StoreAssumption
    <3> HIDE DEF row
    <3> QED  BY <3>1, <3>2 DEF Insert, BindingCoherent, HooksKept
  <2>4. ASSUME NEW r \in Receivers, NEW H \in SUBSET Hooks, NEW explicit \in BOOLEAN,
               NEW takeover \in BOOLEAN, Bind(r, H, explicit, takeover)
        PROVE  BindingCoherent' /\ HooksKept
    <3>1. DOMAIN hooks' = DOMAIN hooks
      BY <2>4 DEF Bind
    <3>2. ASSUME NEW h \in DOMAIN hooks
          PROVE  /\ hooks'[h].recipient = hooks[h].recipient
                 /\ hooks'[h].receiver # None <=> hooks'[h].state = "connected"
      <4>1. hooks[h] \in Hook /\ r # None
        BY StoreAssumption DEF IsTable
      <4>2. CASE h \in H
        <5>1. hooks'[h] = [hooks[h] EXCEPT !.state = "connected", !.receiver = r]
          BY <2>4, <4>2 DEF Bind
        <5> QED  BY <4>1, <5>1 DEF Hook
      <4>3. CASE h \notin H
        BY <2>4, <4>3 DEF Bind, BindingCoherent
      <4> QED  BY <4>2, <4>3
    <3> QED  BY <3>1, <3>2 DEF BindingCoherent, HooksKept
  <2>5. ASSUME NEW h \in Hooks, Detach(h)
        PROVE  BindingCoherent' /\ HooksKept
    BY <2>5, UnbindHooks DEF Detach, HookStates
  <2>6. ASSUME NEW r \in Receivers, NEW H \in SUBSET Hooks, NEW pause \in BOOLEAN,
               Unsubscribe(r, H, pause)
        PROVE  BindingCoherent' /\ HooksKept
    BY <2>6, UnbindHooks DEF Unsubscribe, HookStates
  <2> QED  BY <1>3, <2>1, <2>2, <2>3, <2>4, <2>5, <2>6 DEF HookStep
<1>4. CASE DeliveryStep
  <2> SUFFICES ASSUME NEW r \in Receivers, NEW h \in Hooks, NEW ids \in SUBSET Messages,
                      Offer(r, h, ids) \/ AckDelivery(r, h, ids) \/ AckRead(r, h, ids)
               PROVE  BindingCoherent' /\ HooksKept
    BY <1>4 DEF DeliveryStep
  <2>1. CASE Offer(r, h, ids) \/ AckDelivery(r, h, ids)
    BY <2>1, SameHooks DEF Offer, AckDelivery
  <2>2. CASE AckRead(r, h, ids)
    BY <2>2, InvalidateHooks DEF AckRead
  <2> QED  BY <2>1, <2>2
<1>5. CASE Retention
  BY <1>5, UnbindHooks DEF Retention, HookStates
<1>6. CASE Restart
  BY <1>6, ReleaseHooks DEF Restart
<1>7. CASE Tick \/ UNCHANGED vars
  BY <1>7, SameHooks DEF Tick, vars
<1> QED  BY <1>1, <1>2, <1>3, <1>4, <1>5, <1>6, <1>7 DEF Next

(* A hook has a receiver exactly while it is connected (store.rs:917-1029). *)
THEOREM BindingsCohere == Spec => []BindingCoherent
<1>1. Init => BindingCoherent
  BY DEF Init, BindingCoherent, NoRows
<1>2. TypeOK /\ BindingCoherent /\ [Next]_vars => BindingCoherent'
  BY StepKeepsHooks
<1> QED  BY <1>1, <1>2, TypeCorrect, PTL DEF Spec

------------------------------------------------------------------------------
(* Messages and their copies.                                               *)

(* What every step may do to a message it keeps: read it, unread it.        *)
TingsKept ==
  \A m \in DOMAIN tings \cap DOMAIN tings' :
    /\ tings'[m].request = tings[m].request
    /\ tings'[m].key = tings[m].key
    /\ tings'[m].silent = tings[m].silent
    /\ tings'[m].created = tings[m].created

LEMMA StepKeepsTings ==
  ASSUME TypeOK, [Next]_vars
  PROVE  TingsKept
<1> USE DEF TypeOK
<1>1. CASE MessageStep
  <2>1. ASSUME NEW q \in Requests, NEW key \in SendKeys, NEW m \in Messages, Send(q, key, m)
        PROVE  TingsKept
    BY <2>1 DEF TingsKept, Send, Fresh, Insert
  <2>2. ASSUME NEW recipient \in Recipients, NEW ids \in SUBSET Messages,
               InboxRead(recipient, ids)
        PROVE  TingsKept
    BY <2>2, MarkReadRows DEF TingsKept, InboxRead
  <2>3. ASSUME NEW app \in Apps, NEW key \in ReadKeys, NEW ids \in SUBSET Messages,
               NEW read \in BOOLEAN, SentRead(app, key, ids, read)
        PROVE  TingsKept
    BY <2>3, MarkReadRows DEF TingsKept, SentRead
  <2> QED  BY <1>1, <2>1, <2>2, <2>3 DEF MessageStep
<1>2. CASE DeliveryStep
  <2>1. ASSUME NEW r \in Receivers, NEW h \in Hooks, NEW ids \in SUBSET Messages,
               AckRead(r, h, ids)
        PROVE  TingsKept
    BY <2>1, MarkReadRows DEF TingsKept, AckRead
  <2>2. ASSUME NEW r \in Receivers, NEW h \in Hooks, NEW ids \in SUBSET Messages,
               Offer(r, h, ids) \/ AckDelivery(r, h, ids)
        PROVE  TingsKept
    BY <2>2 DEF TingsKept, Offer, AckDelivery
  <2> QED  BY <1>2, <2>1, <2>2 DEF DeliveryStep
<1>3. CASE Retention \/ Restart
  <2>1. tings' = Restrict(tings, Kept)
    BY <1>3 DEF Retention, Restart, Prune
  <2> QED  BY <2>1, RestrictRows DEF TingsKept
<1>4. CASE tings' = tings
  BY <1>4 DEF TingsKept
<1>5. ConsentStep \/ HookStep \/ Tick \/ UNCHANGED vars => tings' = tings
  BY DEF ConsentStep, SubscribeApp, Revoke, RequiredDelivery, SetPreference,
         HookStep, Connect, Disconnect, CreateHook, Bind, Detach, Unsubscribe, Tick, vars
<1> QED  BY <1>1, <1>2, <1>3, <1>4, <1>5 DEF Next

(* A step that makes no copy and keeps the messages of those it keeps.      *)
LEMMA OwedKept ==
  ASSUME CopiesAreOwed, HooksKept, TingsKept,
         \A k \in DOMAIN deliveries' : k \in DOMAIN deliveries /\ k[2] \in DOMAIN tings'
  PROVE  CopiesAreOwed'
BY DEF CopiesAreOwed, HooksKept, TingsKept

(* Hub::invalidate makes and drops no copies.                               *)
LEMMA InvalidateDomain ==
  ASSUME NEW recipients, NEW copies, Invalidate(recipients, copies)
  PROVE  DOMAIN deliveries' = DOMAIN copies
BY DEF Invalidate, ResetCopies

LEMMA ResetDomain ==
  ASSUME NEW copies, NEW H
  PROVE  DOMAIN ResetCopies(copies, H) = DOMAIN copies
BY DEF ResetCopies

LEMMA StepKeepsOwed ==
  ASSUME TypeOK, BindingCoherent, CopiesAreOwed, [Next]_vars
  PROVE  CopiesAreOwed'
<1> USE DEF TypeOK
<1>1. HooksKept /\ TingsKept
  BY StepKeepsHooks, StepKeepsTings
<1>2. ASSUME DOMAIN deliveries' = DOMAIN deliveries, DOMAIN tings' = DOMAIN tings
      PROVE  CopiesAreOwed'
  BY <1>1, <1>2, OwedKept DEF CopiesAreOwed
<1>3. CASE ConsentStep
  <2>1. DOMAIN deliveries' = DOMAIN deliveries /\ tings' = tings
    BY <1>3, InvalidateDomain
       DEF ConsentStep, SubscribeApp, Revoke, RequiredDelivery, SetPreference
  <2> QED  BY <1>2, <2>1
<1>4. CASE MessageStep
  <2>1. ASSUME NEW q \in Requests, NEW key \in SendKeys, NEW m \in Messages, Send(q, key, m)
        PROVE  CopiesAreOwed'
    <3> DEFINE silent == ~Enabled(q.recipient, q.scopes)
               t == [request |-> q, key |-> key, silent |-> silent,
                     read |-> FALSE, created |-> now]
    <3>1. /\ tings' = Insert(tings, {m}, t) /\ m \notin DOMAIN tings
          /\ deliveries' = Insert(deliveries, FanOut(q, silent) \X {m}, NewCopy)
          /\ hooks' = hooks
      BY <2>1 DEF Send, Fresh
    <3>2. t.request = q /\ t.silent = silent
      OBVIOUS
    <3> HIDE DEF t, silent
    <3>3. \A k \in DOMAIN deliveries : k[2] \in DOMAIN tings /\ k[2] # m
      BY <3>1 DEF CopiesAreOwed
    <3>4. \A k \in DOMAIN deliveries' :
            k \in DOMAIN deliveries \/ k \in FanOut(q, silent) \X {m}
      BY <3>1 DEF Insert
    <3>5. \A n \in DOMAIN tings : n \in DOMAIN tings' /\ (n # m => tings'[n] = tings[n])
      BY <3>1 DEF Insert
    <3>6. m \in DOMAIN tings' /\ tings'[m] = t
      BY <3>1 DEF Insert
    <3>7. \A h \in FanOut(q, silent) :
            h \in DOMAIN hooks /\ hooks[h].recipient = q.recipient /\ (~silent \/ q.required)
      BY DEF FanOut, HooksOf
    <3>8. ASSUME NEW k \in DOMAIN deliveries', k \in DOMAIN deliveries
          PROVE  /\ k[1] \in DOMAIN hooks /\ k[2] \in DOMAIN tings'
                 /\ hooks[k[1]].recipient = tings'[k[2]].request.recipient
                 /\ ~tings'[k[2]].silent \/ tings'[k[2]].request.required
      <4>1. tings'[k[2]] = tings[k[2]]
        BY <3>3, <3>5, <3>8
      <4> QED  BY <3>5, <3>8, <4>1 DEF CopiesAreOwed
    <3>9. ASSUME NEW k \in FanOut(q, silent) \X {m}
          PROVE  /\ k[1] \in DOMAIN hooks /\ k[2] \in DOMAIN tings'
                 /\ hooks[k[1]].recipient = tings'[k[2]].request.recipient
                 /\ ~tings'[k[2]].silent \/ tings'[k[2]].request.required
      <4>1. k[1] \in FanOut(q, silent) /\ k[2] = m
        OBVIOUS
      <4> QED  BY <3>2, <3>6, <3>7, <4>1
    <3> QED  BY <3>1, <3>4, <3>8, <3>9 DEF CopiesAreOwed
  <2>2. ASSUME NEW recipient \in Recipients, NEW ids \in SUBSET Messages,
               InboxRead(recipient, ids)
        PROVE  CopiesAreOwed'
    BY <1>2, <2>2, InvalidateDomain, MarkReadRows DEF InboxRead
  <2>3. ASSUME NEW app \in Apps, NEW key \in ReadKeys, NEW ids \in SUBSET Messages,
               NEW read \in BOOLEAN, SentRead(app, key, ids, read)
        PROVE  CopiesAreOwed'
    BY <1>2, <2>3, InvalidateDomain, MarkReadRows DEF SentRead
  <2> QED  BY <1>4, <2>1, <2>2, <2>3 DEF MessageStep
<1>5. CASE HookStep
  <2>1. ASSUME NEW recipient \in Recipients, NEW key \in HookKeys, NEW r \in Receivers,
               NEW h \in Hooks, CreateHook(recipient, key, r, h)
        PROVE  CopiesAreOwed'
    <3> DEFINE row == [recipient |-> recipient, state |-> "connected", receiver |-> r]
    <3>1. /\ hooks' = Insert(hooks, {h}, row) /\ h \notin DOMAIN hooks
          /\ deliveries' = Insert(deliveries, {h} \X Backlog(recipient), NewCopy)
          /\ tings' = tings
      BY <2>1 DEF CreateHook
    <3>2. row.recipient = recipient
      OBVIOUS
    <3> HIDE DEF row
    <3>3. \A k \in DOMAIN deliveries' :
            k \in DOMAIN deliveries \/ k \in {h} \X Backlog(recipient)
      BY <3>1 DEF Insert
    <3>4. h \in DOMAIN hooks' /\ hooks'[h] = row
      BY <3>1 DEF Insert
    <3>5. \A m \in Backlog(recipient) :
            /\ m \in DOMAIN tings /\ tings[m].request.recipient = recipient
            /\ ~tings[m].silent \/ tings[m].request.required
      BY DEF Backlog, UnreadEligible, Eligible, Permitted
    <3>6. ASSUME NEW k \in DOMAIN deliveries', k \in DOMAIN deliveries
          PROVE  /\ k[1] \in DOMAIN hooks' /\ k[2] \in DOMAIN tings
                 /\ hooks'[k[1]].recipient = tings[k[2]].request.recipient
                 /\ ~tings[k[2]].silent \/ tings[k[2]].request.required
      BY <1>1, <3>6 DEF CopiesAreOwed, HooksKept
    <3>7. ASSUME NEW k \in {h} \X Backlog(recipient)
          PROVE  /\ k[1] \in DOMAIN hooks' /\ k[2] \in DOMAIN tings
                 /\ hooks'[k[1]].recipient = tings[k[2]].request.recipient
                 /\ ~tings[k[2]].silent \/ tings[k[2]].request.required
      <4>1. k[1] = h /\ k[2] \in Backlog(recipient)
        OBVIOUS
      <4> QED  BY <3>2, <3>4, <3>5, <4>1
    <3> QED  BY <3>1, <3>3, <3>6, <3>7 DEF CopiesAreOwed
  <2>2. ASSUME NEW r \in Receivers, Connect(r) \/ Disconnect(r)
        PROVE  CopiesAreOwed'
    <3>1. DOMAIN deliveries' = DOMAIN deliveries /\ tings' = tings
      BY <2>2, ResetDomain DEF Connect, Disconnect
    <3> QED  BY <1>2, <3>1
  <2>3. ASSUME NEW r \in Receivers, NEW H \in SUBSET Hooks, NEW explicit \in BOOLEAN,
               NEW takeover \in BOOLEAN, Bind(r, H, explicit, takeover)
        PROVE  CopiesAreOwed'
    BY <1>2, <2>3, ResetDomain DEF Bind
  <2>4. ASSUME NEW h \in Hooks, Detach(h)
        PROVE  CopiesAreOwed'
    BY <1>2, <2>4, ResetDomain DEF Detach
  <2>5. ASSUME NEW r \in Receivers, NEW H \in SUBSET Hooks, NEW pause \in BOOLEAN,
               Unsubscribe(r, H, pause)
        PROVE  CopiesAreOwed'
    BY <1>2, <2>5, ResetDomain DEF Unsubscribe
  <2> QED  BY <1>5, <2>1, <2>2, <2>3, <2>4, <2>5 DEF HookStep
<1>6. CASE DeliveryStep
  <2> SUFFICES ASSUME NEW r \in Receivers, NEW h \in Hooks, NEW ids \in SUBSET Messages,
                      Offer(r, h, ids) \/ AckDelivery(r, h, ids) \/ AckRead(r, h, ids)
               PROVE  CopiesAreOwed'
    BY <1>6 DEF DeliveryStep
  <2>1. CASE Offer(r, h, ids) \/ AckDelivery(r, h, ids)
    BY <1>2, <2>1 DEF Offer, AckDelivery
  <2>2. CASE AckRead(r, h, ids)
    <3>1. DOMAIN deliveries' = DOMAIN deliveries
      BY <2>2 DEF AckRead, Invalidate, ResetCopies, ReadCopies
    <3>2. DOMAIN tings' = DOMAIN tings
      BY <2>2 DEF AckRead, MarkRead
    <3> QED  BY <1>2, <3>1, <3>2
  <2> QED  BY <2>1, <2>2
<1>7. CASE Retention \/ Restart
  <2>1. PICK H : Prune(ResetCopies(deliveries, H))
    BY <1>7 DEF Retention, Restart
  <2>2. \A k \in DOMAIN deliveries' : k \in DOMAIN deliveries /\ k[2] \in Kept
    BY <2>1, ResetDomain, RestrictRows DEF Prune, CopiesOfKept
  <2>3. DOMAIN tings' = Kept
    BY <2>1, RestrictRows DEF Prune
  <2> QED  BY <1>1, <2>2, <2>3, OwedKept
<1>8. CASE Tick \/ UNCHANGED vars
  BY <1>2, <1>8 DEF Tick, vars
<1> QED  BY <1>3, <1>4, <1>5, <1>6, <1>7, <1>8 DEF Next

(* Every copy is owed: its hook and its message are stored, they have the   *)
(* same recipient, and a silent message has none (store.rs:481, 891, 1194). *)
THEOREM OnlyOwedCopies == Spec => []CopiesAreOwed
<1>1. Init => CopiesAreOwed
  BY DEF Init, CopiesAreOwed, NoRows
<1>2. TypeOK /\ BindingCoherent /\ CopiesAreOwed /\ [Next]_vars => CopiesAreOwed'
  BY StepKeepsOwed
<1> QED  BY <1>1, <1>2, TypeCorrect, BindingsCohere, PTL DEF Spec

------------------------------------------------------------------------------
(* What is out with a receiver.                                             *)

(* Of the copies that matter, those of a bound hook that are not completed, *)
(* every step but an offer and a delivery ack leaves two kinds: copies      *)
(* without an offer, and copies it did not touch, under the same receiver.  *)
Pending == {k \in DOMAIN deliveries : k[1] \in BoundHooks /\ ~deliveries[k].read}
Blank(copy) == copy.offer_receiver = None /\ copy.delivery = FALSE
Untouched(k) ==
  /\ k \in Pending /\ deliveries'[k] = deliveries[k]
  /\ hooks'[k[1]].receiver = hooks[k[1]].receiver

(* A copy that is pending after a reset was so before it.                   *)
LEMMA ResetPending ==
  ASSUME NEW copies, IsTable(copies, Hooks \X Messages, Copy), NEW H,
         NEW k \in DOMAIN ResetCopies(copies, H), ~ResetCopies(copies, H)[k].read
  PROVE  /\ k \in DOMAIN copies /\ ~copies[k].read
         /\ k[1] \in H => Blank(ResetCopies(copies, H)[k])
         /\ k[1] \notin H => ResetCopies(copies, H)[k] = copies[k]
<1>1. k \in DOMAIN copies /\ copies[k] \in Copy
  BY DEF ResetCopies, IsTable
<1>2. CASE k[1] \in H /\ ~copies[k].read
  <2>1. ResetCopies(copies, H)[k]
          = [copies[k] EXCEPT !.delivery = FALSE, !.offer_receiver = None]
    BY <1>1, <1>2 DEF ResetCopies
  <2> QED  BY <1>1, <1>2, <2>1 DEF Blank, Copy
<1>3. CASE ~(k[1] \in H /\ ~copies[k].read)
  <2>1. ResetCopies(copies, H)[k] = copies[k]
    BY <1>1, <1>3 DEF ResetCopies
  <2> QED  BY <1>1, <1>3, <2>1
<1> QED  BY <1>2, <1>3

(* A hook that is bound after Unbind was not among those it unbinds.        *)
LEMMA Withdrawn ==
  ASSUME IsTable(hooks, Hooks, Hook), NEW H, NEW state \in HookStates,
         hooks' = Unbind(H, state), NEW h \in BoundHooks'
  PROVE  h \notin H /\ h \in BoundHooks /\ hooks'[h] = hooks[h]
BY UnbindRows DEF BoundHooks

(* Nor, with its copies reset, was any of its copies changed.               *)
LEMMA WithdrawnCopies ==
  ASSUME IsTable(hooks, Hooks, Hook), NEW H, NEW state \in HookStates,
         hooks' = Unbind(H, state),
         NEW copies, IsTable(copies, Hooks \X Messages, Copy),
         \A k \in DOMAIN copies :
           k \in DOMAIN deliveries /\ (copies[k].read \/ copies[k] = deliveries[k]),
         \A k \in DOMAIN deliveries' :
           k \in DOMAIN copies /\ deliveries'[k] = ResetCopies(copies, H)[k],
         NEW k \in Pending'
  PROVE  Untouched(k) /\ k[1] \notin H
<1>1. k \in DOMAIN deliveries' /\ k[1] \in BoundHooks' /\ ~deliveries'[k].read
  BY DEF Pending
<1>2. k[1] \notin H /\ k[1] \in BoundHooks /\ hooks'[k[1]] = hooks[k[1]]
  BY <1>1, Withdrawn
<1>3. deliveries'[k] = copies[k]
  BY <1>1, <1>2 DEF ResetCopies
<1> QED  BY <1>1, <1>2, <1>3 DEF Untouched, Pending

LEMMA InvalidateCopies ==
  ASSUME IsTable(hooks, Hooks, Hook), NEW recipients,
         NEW copies, IsTable(copies, Hooks \X Messages, Copy),
         \A k \in DOMAIN copies :
           k \in DOMAIN deliveries /\ (copies[k].read \/ copies[k] = deliveries[k]),
         Invalidate(recipients, copies),
         NEW k \in Pending'
  PROVE  Untouched(k) /\ hooks[k[1]].recipient \notin recipients
<1> DEFINE H == HooksOf(recipients) \cap BoundHooks
<1>1. hooks' = Unbind(H, "disconnected") /\ deliveries' = ResetCopies(copies, H)
  BY DEF Invalidate
<1>2. Untouched(k) /\ k[1] \notin H
  <2> HIDE DEF H
  <2>1. \A j \in DOMAIN deliveries' :
          j \in DOMAIN copies /\ deliveries'[j] = ResetCopies(copies, H)[j]
    BY <1>1, ResetDomain
  <2> QED  BY <1>1, <2>1, WithdrawnCopies DEF HookStates
<1> QED  BY <1>2 DEF Untouched, Pending, HooksOf, BoundHooks

(* The two kinds, for every step.                                           *)
LEMMA StepKeepsCopies ==
  ASSUME TypeOK, CopiesAreOwed, [Next]_vars,
         NEW k \in Pending',
         \A r \in Receivers, h \in Hooks, ids \in SUBSET Messages :
           ~Offer(r, h, ids) /\ ~AckDelivery(r, h, ids)
  PROVE  Blank(deliveries'[k]) \/ Untouched(k)
<1> USE DEF TypeOK
<1>1. k \in DOMAIN deliveries' /\ k[1] \in BoundHooks' /\ ~deliveries'[k].read
  BY DEF Pending
<1>2. ASSUME hooks' = hooks, k \in DOMAIN deliveries, deliveries'[k] = deliveries[k]
      PROVE  Untouched(k)
  BY <1>1, <1>2 DEF Untouched, Pending, BoundHooks
<1>3. \A j \in DOMAIN deliveries :
        j \in DOMAIN deliveries /\ (deliveries[j].read \/ deliveries[j] = deliveries[j])
  OBVIOUS
<1>4. CASE ConsentStep
  <2>1. ASSUME NEW recipient, Invalidate({recipient}, deliveries)
        PROVE  Untouched(k)
    BY <1>3, <2>1, InvalidateCopies
  <2>2. ASSUME NEW app \in Apps, NEW recipient \in Recipients, SubscribeApp(app, recipient)
        PROVE  Untouched(k)
    BY <1>1, <1>2, <2>2 DEF SubscribeApp
  <2> QED
    BY <1>4, <2>1, <2>2 DEF ConsentStep, Revoke, RequiredDelivery, SetPreference
<1>5. CASE MessageStep
  <2>1. ASSUME NEW q \in Requests, NEW key \in SendKeys, NEW m \in Messages, Send(q, key, m)
        PROVE  Blank(deliveries'[k]) \/ Untouched(k)
    <3>1. PICK keys : deliveries' = Insert(deliveries, keys, NewCopy)
      BY <2>1 DEF Send
    <3>2. CASE k \in keys
      BY <3>1, <3>2 DEF Insert, NewCopy, Blank
    <3>3. CASE k \notin keys
      BY <1>1, <1>2, <2>1, <3>1, <3>3 DEF Insert, Send
    <3> QED  BY <3>2, <3>3
  <2>2. ASSUME NEW recipients, Invalidate(recipients, deliveries)
        PROVE  Untouched(k)
    BY <1>3, <2>2, InvalidateCopies
  <2> QED  BY <1>5, <2>1, <2>2 DEF MessageStep, InboxRead, SentRead
<1>6. CASE HookStep
  <2>1. ASSUME NEW r \in Receivers, Connect(r)
        PROVE  Untouched(k)
    BY <1>1, <1>2, <2>1 DEF Connect
  <2>2. ASSUME NEW r \in Receivers, Disconnect(r)
        PROVE  Blank(deliveries'[k]) \/ Untouched(k)
    <3> DEFINE H == {h \in DOMAIN hooks : hooks[h].receiver = r}
    <3>1. CASE hooks' = Release(H) /\ deliveries' = ResetCopies(deliveries, H)
      <4> HIDE DEF H
      <4>1. k[1] \notin H /\ k[1] \in BoundHooks /\ hooks'[k[1]] = hooks[k[1]]
        BY <1>1, <3>1, ReleaseRows DEF BoundHooks
      <4>2. k \in DOMAIN deliveries /\ deliveries'[k] = deliveries[k]
        BY <1>1, <3>1, <4>1 DEF ResetCopies
      <4> QED  BY <1>1, <4>1, <4>2 DEF Untouched, Pending
    <3>2. CASE hooks' = hooks /\ deliveries' = deliveries
      BY <1>1, <1>2, <3>2
    <3>3. CASE hooks' = hooks /\ deliveries' = ResetCopies(deliveries, H)
      <4> HIDE DEF H
      <4> QED  BY <1>1, <1>2, <3>3, ResetPending
    <3> QED  BY <2>2, <3>1, <3>2, <3>3 DEF Disconnect
  <2>3. ASSUME NEW recipient \in Recipients, NEW key \in HookKeys, NEW r \in Receivers,
               NEW h \in Hooks, CreateHook(recipient, key, r, h)
        PROVE  Blank(deliveries'[k]) \/ Untouched(k)
    <3> DEFINE row == [recipient |-> recipient, state |-> "connected", receiver |-> r]
    <3>1. PICK keys : deliveries' = Insert(deliveries, keys, NewCopy)
      BY <2>3 DEF CreateHook
    <3>2. hooks' = Insert(hooks, {h}, row) /\ h \notin DOMAIN hooks
      BY <2>3 DEF CreateHook
    <3> HIDE DEF row
    <3>3. CASE k \in keys
      BY <3>1, <3>3 DEF Insert, NewCopy, Blank
    <3>4. CASE k \notin keys
      <4>1. k \in DOMAIN deliveries /\ deliveries'[k] = deliveries[k]
        BY <1>1, <3>1, <3>4 DEF Insert
      <4>2. k[1] \in DOMAIN hooks
        BY <4>1 DEF CopiesAreOwed
      <4>3. hooks'[k[1]] = hooks[k[1]]
        BY <3>2, <4>2 DEF Insert
      <4> QED  BY <1>1, <4>1, <4>2, <4>3 DEF Untouched, Pending, BoundHooks
    <3> QED  BY <3>3, <3>4
  <2>4. ASSUME NEW r \in Receivers, NEW H \in SUBSET Hooks, NEW explicit \in BOOLEAN,
               NEW takeover \in BOOLEAN, Bind(r, H, explicit, takeover)
        PROVE  Blank(deliveries'[k]) \/ Untouched(k)
    <3>1. deliveries' = ResetCopies(deliveries, H)
      BY <2>4 DEF Bind
    <3>2. k \in DOMAIN deliveries
      BY <1>1, <3>1, ResetPending
    <3>3. CASE k[1] \in H
      BY <1>1, <3>1, <3>3, ResetPending
    <3>4. CASE k[1] \notin H
      <4>1. deliveries'[k] = deliveries[k]
        BY <1>1, <3>1, <3>4, ResetPending
      <4>2. k[1] \in DOMAIN hooks /\ hooks'[k[1]] = hooks[k[1]]
        BY <2>4, <3>2, <3>4 DEF Bind, CopiesAreOwed
      <4> QED  BY <1>1, <3>2, <4>1, <4>2 DEF Untouched, Pending, BoundHooks
    <3> QED  BY <3>3, <3>4
  <2>5. ASSUME NEW h \in Hooks, Detach(h)
        PROVE  Untouched(k)
    <3>1. k[1] # h /\ k[1] \in BoundHooks /\ hooks'[k[1]] = hooks[k[1]]
      BY <1>1, <2>5, Withdrawn DEF Detach, HookStates
    <3>2. k \in DOMAIN deliveries /\ deliveries'[k] = deliveries[k]
      BY <1>1, <2>5, <3>1 DEF Detach, ResetCopies
    <3> QED  BY <1>1, <3>1, <3>2 DEF Untouched, Pending
  <2>6. ASSUME NEW r \in Receivers, NEW H \in SUBSET Hooks, NEW pause \in BOOLEAN,
               Unsubscribe(r, H, pause)
        PROVE  Untouched(k)
    <3>1. k[1] \notin H /\ k[1] \in BoundHooks /\ hooks'[k[1]] = hooks[k[1]]
      BY <1>1, <2>6, Withdrawn DEF Unsubscribe, HookStates
    <3>2. k \in DOMAIN deliveries /\ deliveries'[k] = deliveries[k]
      BY <1>1, <2>6, <3>1 DEF Unsubscribe, ResetCopies
    <3> QED  BY <1>1, <3>1, <3>2 DEF Untouched, Pending
  <2> QED  BY <1>6, <2>1, <2>2, <2>3, <2>4, <2>5, <2>6 DEF HookStep
<1>7. CASE DeliveryStep
  <2>1. PICK r \in Receivers, h \in Hooks, ids \in SUBSET Messages : AckRead(r, h, ids)
    BY <1>7 DEF DeliveryStep
  <2> DEFINE acked == ReadCopies(h, Completed(h, ids))
  <2>2. PICK recipients : Invalidate(recipients, acked)
    BY <2>1 DEF AckRead
  <2>3. IsTable(acked, Hooks \X Messages, Copy)
    BY DEF IsTable, Copy, ReadCopies
  <2>4. \A j \in DOMAIN acked :
          j \in DOMAIN deliveries /\ (acked[j].read \/ acked[j] = deliveries[j])
    BY DEF ReadCopies, IsTable, Copy
  <2> HIDE DEF acked
  <2> QED  BY <2>2, <2>3, <2>4, InvalidateCopies
<1>8. CASE Retention
  <2> DEFINE H == HooksOf(ExpiredOwners) \cap BoundHooks
  <2>1. hooks' = Unbind(H, "disconnected")
    BY <1>8 DEF Retention
  <2>2. deliveries' = CopiesOfKept(ResetCopies(deliveries, H))
    BY <1>8 DEF Retention, Prune
  <2> HIDE DEF H
  <2>3. \A j \in DOMAIN deliveries' :
          j \in DOMAIN deliveries /\ deliveries'[j] = ResetCopies(deliveries, H)[j]
    BY <2>2, ResetDomain DEF CopiesOfKept, Restrict
  <2> QED  BY <1>3, <2>1, <2>3, WithdrawnCopies DEF HookStates
<1>9. CASE Restart
  <2>1. hooks' = Release(DOMAIN hooks)
    BY <1>9 DEF Restart
  <2> QED  BY <1>1, <2>1, ReleaseRows DEF BoundHooks
<1>10. CASE Tick \/ UNCHANGED vars
  BY <1>1, <1>2, <1>10 DEF Tick, vars
<1> QED  BY <1>4, <1>5, <1>6, <1>7, <1>8, <1>9, <1>10 DEF Next

(* An offer and a delivery ack change copies of the one hook they name.     *)
LEMMA OfferCopies ==
  ASSUME TypeOK, NEW r \in Receivers, NEW h \in Hooks, NEW ids \in SUBSET Messages,
         Offer(r, h, ids), NEW k \in Pending'
  PROVE  \/ Untouched(k)
         \/ /\ k[1] = h /\ k[2] \in ids
            /\ hooks' = hooks /\ hooks[h].receiver = r
            /\ deliveries'[k].offered /\ deliveries'[k].offer_receiver = r
<1>1. /\ k \in DOMAIN deliveries /\ deliveries[k] \in Copy
      /\ k[1] \in BoundHooks' /\ ~deliveries'[k].read /\ hooks' = hooks
  BY DEF Pending, Offer, TypeOK, IsTable
<1>2. CASE k \in {h} \X ids
  <2>1. deliveries'[k] = [deliveries[k] EXCEPT !.offered = TRUE, !.offer_receiver = r]
    BY <1>1, <1>2 DEF Offer
  <2>2. k[1] = h /\ k[2] \in ids
    BY <1>2
  <2> QED  BY <1>1, <2>1, <2>2 DEF Copy, Offer, Bound
<1>3. CASE k \notin {h} \X ids
  BY <1>1, <1>3 DEF Offer, Untouched, Pending, BoundHooks
<1> QED  BY <1>2, <1>3

LEMMA AckDeliveryCopies ==
  ASSUME TypeOK, NEW r \in Receivers, NEW h \in Hooks, NEW ids \in SUBSET Messages,
         AckDelivery(r, h, ids), NEW k \in Pending'
  PROVE  \/ Untouched(k)
         \/ /\ k[1] = h /\ k \in Pending
            /\ hooks' = hooks /\ hooks[h].receiver = r
            /\ deliveries[k].offer_receiver = r
            /\ deliveries'[k].offer_receiver = r
            /\ deliveries'[k].offered = deliveries[k].offered
<1>1. /\ k \in DOMAIN deliveries /\ deliveries[k] \in Copy
      /\ k[1] \in BoundHooks' /\ ~deliveries'[k].read /\ hooks' = hooks
  BY DEF Pending, AckDelivery, TypeOK, IsTable
<1>2. CASE k \in {h} \X ids
  <2>1. deliveries'[k] = [deliveries[k] EXCEPT !.delivery = TRUE]
    BY <1>1, <1>2 DEF AckDelivery
  <2>2. k = <<h, k[2]>> /\ k[1] = h /\ k[2] \in ids
    BY <1>2
  <2>3. ~deliveries[k].read
    BY <1>1, <2>1 DEF Copy
  <2>4. deliveries[k].offer_receiver = r
    BY <2>2, <2>3 DEF AckDelivery, Acknowledgeable
  <2> QED
    BY <1>1, <2>1, <2>2, <2>3, <2>4 DEF Copy, AckDelivery, Bound, Pending, BoundHooks
<1>3. CASE k \notin {h} \X ids
  BY <1>1, <1>3 DEF AckDelivery, Untouched, Pending, BoundHooks
<1> QED  BY <1>2, <1>3

(* Whatever a bound hook has out is out with the receiver it is bound to    *)
(* now, and nothing else counts as queued there: a rebinding, a pause, a    *)
(* lost connection or a restart takes every offer back (store.rs:962).      *)
THEOREM OffersFollow == Spec => []OffersFollowTheBinding
<1>1. Init => OffersFollowTheBinding
  BY DEF Init, OffersFollowTheBinding, NoRows
<1>2. TypeOK /\ CopiesAreOwed /\ OffersFollowTheBinding /\ [Next]_vars
        => OffersFollowTheBinding'
  <2> SUFFICES ASSUME TypeOK, CopiesAreOwed, OffersFollowTheBinding, [Next]_vars,
                      NEW k \in Pending'
               PROVE  /\ deliveries'[k].offer_receiver \in {None, hooks'[k[1]].receiver}
                      /\ deliveries'[k].delivery => deliveries'[k].offer_receiver # None
                      /\ deliveries'[k].offer_receiver # None => deliveries'[k].offered
    BY DEF OffersFollowTheBinding, Pending
  <2>1. ASSUME NEW j \in Pending
        PROVE  /\ deliveries[j].offer_receiver \in {None, hooks[j[1]].receiver}
               /\ deliveries[j].delivery => deliveries[j].offer_receiver # None
               /\ deliveries[j].offer_receiver # None => deliveries[j].offered
    BY DEF OffersFollowTheBinding, Pending
  <2>2. CASE Blank(deliveries'[k])
    BY <2>2 DEF Blank
  <2>3. CASE Untouched(k)
    BY <2>1, <2>3 DEF Untouched
  <2>4. ASSUME NEW r \in Receivers, NEW h \in Hooks, NEW ids \in SUBSET Messages,
               Offer(r, h, ids), ~Untouched(k)
        PROVE  /\ deliveries'[k].offer_receiver = hooks'[k[1]].receiver
               /\ deliveries'[k].offer_receiver # None
               /\ deliveries'[k].offered
    BY <2>4, OfferCopies, StoreAssumption
  <2>5. ASSUME NEW r \in Receivers, NEW h \in Hooks, NEW ids \in SUBSET Messages,
               AckDelivery(r, h, ids), ~Untouched(k)
        PROVE  /\ deliveries'[k].offer_receiver = hooks'[k[1]].receiver
               /\ deliveries'[k].offer_receiver # None
               /\ deliveries'[k].offered
    <3>1. /\ k[1] = h /\ k \in Pending /\ hooks' = hooks /\ hooks[h].receiver = r
          /\ deliveries[k].offer_receiver = r /\ deliveries'[k].offer_receiver = r
          /\ deliveries'[k].offered = deliveries[k].offered
      BY <2>5, AckDeliveryCopies
    <3>2. r # None
      BY StoreAssumption
    <3> QED  BY <2>1, <3>1, <3>2
  <2> QED  BY <2>2, <2>3, <2>4, <2>5, StepKeepsCopies
<1> QED  BY <1>1, <1>2, TypeCorrect, OnlyOwedCopies, PTL DEF Spec

(* A message remains permitted while nobody touches its recipient's choices *)
(* or an app is registered.                                                 *)
LEMMA PermittedKept ==
  ASSUME TypeOK, TingsKept,
         NEW m \in DOMAIN tings \cap DOMAIN tings', Permitted(tings[m]),
         optin' = optin, preferences' = preferences,
         \A route \in Apps \X Recipients :
           grants[route] = "active" => grants'[route] = "active"
  PROVE  Permitted(tings[m])'
<1>1. /\ tings'[m].request = tings[m].request /\ tings'[m].silent = tings[m].silent
      /\ Route(tings[m].request) \in Apps \X Recipients
  BY StoreAssumption DEF TypeOK, TingsKept, IsTable, Ting, Route
<1> QED  BY <1>1 DEF Permitted, Enabled, Route

(* Nor does the choice of another recipient matter.                         *)
LEMMA OthersPermittedKept ==
  ASSUME TypeOK, TingsKept, NEW recipient \in Recipients,
         NEW m \in DOMAIN tings \cap DOMAIN tings', Permitted(tings[m]),
         tings[m].request.recipient # recipient,
         \A route \in Apps \X (Recipients \ {recipient}) :
           grants'[route] = grants[route] /\ (route \in optin' <=> route \in optin),
         \A p \in (Recipients \ {recipient}) \X Scopes : preferences'[p] = preferences[p]
  PROVE  Permitted(tings[m])'
<1>1. PICK q \in Requests : q = tings[m].request
  BY DEF TypeOK, IsTable, Ting
<1>2. tings'[m].request = q /\ tings'[m].silent = tings[m].silent
  BY <1>1 DEF TingsKept
<1>3. /\ q.app \in Apps /\ q.recipient \in Recipients \ {recipient}
      /\ q.scopes \in Seq(Scopes)
  BY <1>1, StoreAssumption
<1>4. \A i \in DOMAIN q.scopes :
        preferences'[<<q.recipient, q.scopes[i]>>] = preferences[<<q.recipient, q.scopes[i]>>]
  <2>1. \A i \in DOMAIN q.scopes : q.scopes[i] \in Scopes
    BY <1>3
  <2> QED  BY <1>3, <2>1
<1>5. Enabled(q.recipient, q.scopes) => Enabled(q.recipient, q.scopes)'
  <2>1. \A i \in DOMAIN q.scopes : \A j \in 1 .. i - 1 : j \in DOMAIN q.scopes
    BY <1>3
  <2>2. CASE \A i \in DOMAIN q.scopes : preferences[<<q.recipient, q.scopes[i]>>] = "unset"
    BY <1>4, <2>2 DEF Enabled
  <2>3. ASSUME NEW i \in DOMAIN q.scopes,
               preferences[<<q.recipient, q.scopes[i]>>] = "on",
               \A j \in 1 .. i - 1 : preferences[<<q.recipient, q.scopes[j]>>] = "unset"
        PROVE  Enabled(q.recipient, q.scopes)'
    <3>1. \A j \in 1 .. i - 1 : preferences'[<<q.recipient, q.scopes[j]>>] = "unset"
      BY <1>4, <2>1, <2>3
    <3>2. preferences'[<<q.recipient, q.scopes[i]>>] = "on"
      BY <1>4, <2>3
    <3> QED  BY <3>1, <3>2 DEF Enabled
  <2> QED  BY <2>2, <2>3 DEF Enabled
<1>6. Route(q) \in Apps \X (Recipients \ {recipient})
  BY <1>3 DEF Route
<1>7. /\ grants[Route(q)] = "active"
      /\ IF q.required THEN Route(q) \in optin
                       ELSE ~tings[m].silent /\ Enabled(q.recipient, q.scopes)
  BY <1>1 DEF Permitted
<1>8. /\ grants'[Route(q)] = "active"
      /\ IF q.required THEN Route(q) \in optin'
                       ELSE ~tings[m].silent /\ Enabled(q.recipient, q.scopes)'
  BY <1>5, <1>6, <1>7
<1> QED  BY <1>2, <1>8 DEF Permitted, Route, Enabled

(* Whatever an untouched copy is of remains permitted.                      *)
LEMMA StepKeepsPermitted ==
  ASSUME TypeOK, CopiesAreOwed, [Next]_vars,
         NEW k \in Pending', Untouched(k), k[2] \in DOMAIN tings',
         Permitted(tings[k[2]])
  PROVE  Permitted(tings[k[2]])'
<1> USE DEF TypeOK
<1>1. TingsKept /\ k[2] \in DOMAIN tings \cap DOMAIN tings'
  BY StepKeepsTings DEF Untouched, Pending, CopiesAreOwed
<1>2. tings[k[2]].request.recipient = hooks[k[1]].recipient
  BY DEF Untouched, Pending, CopiesAreOwed
<1>3. ASSUME NEW recipient, Invalidate({recipient}, deliveries)
      PROVE  tings[k[2]].request.recipient # recipient
  BY <1>2, <1>3, InvalidateCopies
<1>4. CASE ConsentStep
  <2>1. ASSUME NEW app \in Apps, NEW recipient \in Recipients, SubscribeApp(app, recipient)
        PROVE  Permitted(tings[k[2]])'
    BY <1>1, <2>1, PermittedKept DEF SubscribeApp
  <2>2. ASSUME NEW app \in Apps, NEW recipient \in Recipients, Revoke(app, recipient)
        PROVE  Permitted(tings[k[2]])'
    <3>1. \A route \in Apps \X (Recipients \ {recipient}) :
            grants'[route] = grants[route] /\ (route \in optin' <=> route \in optin)
      <4> TAKE route \in Apps \X (Recipients \ {recipient})
      <4>1. route # <<app, recipient>>
        OBVIOUS
      <4> QED  BY <2>2, <4>1 DEF Revoke
    <3> QED  BY <1>1, <1>3, <2>2, <3>1, OthersPermittedKept DEF Revoke
  <2>3. ASSUME NEW app \in Apps, NEW recipient \in Recipients, NEW enabled \in BOOLEAN,
               RequiredDelivery(app, recipient, enabled)
        PROVE  Permitted(tings[k[2]])'
    <3>1. \A route \in Apps \X (Recipients \ {recipient}) :
            grants'[route] = grants[route] /\ (route \in optin' <=> route \in optin)
      <4> TAKE route \in Apps \X (Recipients \ {recipient})
      <4>1. route # <<app, recipient>>
        OBVIOUS
      <4> QED  BY <2>3, <4>1 DEF RequiredDelivery
    <3> QED  BY <1>1, <1>3, <2>3, <3>1, OthersPermittedKept DEF RequiredDelivery
  <2>4. ASSUME NEW recipient \in Recipients, NEW scope \in Scopes,
               NEW choice \in {"unset", "on", "off"},
               SetPreference(recipient, scope, choice)
        PROVE  Permitted(tings[k[2]])'
    <3>1. \A p \in (Recipients \ {recipient}) \X Scopes : preferences'[p] = preferences[p]
      BY <2>4 DEF SetPreference
    <3> QED  BY <1>1, <1>3, <2>4, <3>1, OthersPermittedKept DEF SetPreference
  <2> QED  BY <1>4, <2>1, <2>2, <2>3, <2>4 DEF ConsentStep
<1>5. CASE UNCHANGED consent
  BY <1>1, <1>5, PermittedKept DEF consent
<1>6. MessageStep \/ HookStep => UNCHANGED consent
  BY DEF MessageStep, HookStep, Send, InboxRead, SentRead, Connect, Disconnect,
         CreateHook, Bind, Detach, Unsubscribe
<1>7. DeliveryStep \/ Tick \/ Retention \/ Restart \/ UNCHANGED vars => UNCHANGED consent
  BY DEF DeliveryStep, Offer, AckDelivery, AckRead, Tick, Retention, Restart, consent, vars
<1> QED  BY <1>4, <1>5, <1>6, <1>7 DEF Next

(* No message its recipient forbids is ever out: store.offer puts nothing   *)
(* else out until a window is complete and repeats only permitted copies,   *)
(* so one would block its hook for ever (store.rs:1053-1066).               *)
THEOREM NothingForbiddenIsOut == Spec => []WindowIsPermitted
<1>1. Init => WindowIsPermitted
  BY DEF Init, WindowIsPermitted, BoundHooks, NoRows
<1>2. TypeOK /\ CopiesAreOwed /\ CopiesAreOwed' /\ WindowIsPermitted /\ [Next]_vars
        => WindowIsPermitted'
  <2> SUFFICES ASSUME TypeOK, CopiesAreOwed, CopiesAreOwed', WindowIsPermitted,
                      [Next]_vars, NEW g \in BoundHooks', NEW k \in Window(g)'
               PROVE  Permitted(tings[k[2]])'
    BY DEF WindowIsPermitted
  <2>1. /\ k \in Pending' /\ k[1] = g /\ k[2] \in DOMAIN tings'
        /\ deliveries'[k].offer_receiver # None
        /\ deliveries'[k].offer_receiver = hooks'[k[1]].receiver
    BY DEF Window, Pending, CopiesAreOwed
  <2>2. ASSUME NEW j \in Pending, deliveries[j].offer_receiver # None,
               deliveries[j].offer_receiver = hooks[j[1]].receiver
        PROVE  Permitted(tings[j[2]])
    BY <2>2 DEF WindowIsPermitted, Window, Pending
  <2>3. CASE Untouched(k)
    <3>1. Permitted(tings[k[2]])
      BY <2>1, <2>2, <2>3 DEF Untouched
    <3> QED  BY <2>1, <2>3, <3>1, StepKeepsPermitted
  <2>4. ASSUME NEW r \in Receivers, NEW h \in Hooks, NEW ids \in SUBSET Messages,
               Offer(r, h, ids), ~Untouched(k)
        PROVE  Permitted(tings[k[2]])'
    <3>1. k[2] \in ids
      BY <2>1, <2>4, OfferCopies
    <3>2. Permitted(tings[k[2]]) /\ tings' = tings /\ UNCHANGED consent
      BY <2>4, <3>1 DEF Offer, Offerable, Eligible
    <3> QED
      BY <2>1, <3>2, PermittedKept DEF TingsKept, consent
  <2>5. ASSUME NEW r \in Receivers, NEW h \in Hooks, NEW ids \in SUBSET Messages,
               AckDelivery(r, h, ids), ~Untouched(k)
        PROVE  Permitted(tings[k[2]])'
    <3>1. /\ k \in Pending /\ deliveries[k].offer_receiver # None
          /\ deliveries[k].offer_receiver = hooks[k[1]].receiver
      BY <2>1, <2>5, AckDeliveryCopies
    <3>2. Permitted(tings[k[2]]) /\ tings' = tings /\ UNCHANGED consent
      BY <2>2, <2>5, <3>1 DEF AckDelivery
    <3> QED
      BY <2>1, <3>2, PermittedKept DEF TingsKept, consent
  <2> QED  BY <2>1, <2>3, <2>4, <2>5, StepKeepsCopies DEF Blank
<1>3. TypeOK /\ BindingCoherent /\ CopiesAreOwed /\ [Next]_vars => CopiesAreOwed'
  BY StepKeepsOwed
<1> QED  BY <1>1, <1>2, <1>3, TypeCorrect, BindingsCohere, OnlyOwedCopies, PTL DEF Spec

------------------------------------------------------------------------------
(* Proofs about time: what idempotency keys and retention promise.          *)

SendKeyOf(t) == <<t.request.app, t.key>>

(* The steps as the messages and their keys see them: sending, pruning, and *)
(* everything else.                                                         *)
Pruning == now' = now /\ \E copies : Prune(copies)
MessagesStay == /\ DOMAIN tings' = DOMAIN tings
                /\ sendKeys' = sendKeys
                /\ now' \in Nat /\ now =< now'

LEMMA MessageSteps ==
  ASSUME TypeOK, [Next]_vars
  PROVE  \/ \E q \in Requests, key \in SendKeys, m \in Messages : Send(q, key, m)
         \/ Pruning
         \/ MessagesStay
<1>1. now \in Nat /\ now + 1 \in Nat /\ now =< now + 1
  BY DEF TypeOK
<1>2. ASSUME now' \in {now, now + 1}, tings' = tings, sendKeys' = sendKeys
      PROVE  MessagesStay
  BY <1>1, <1>2 DEF MessagesStay
<1>3. ASSUME NEW ids, NEW read, now' = now, tings' = MarkRead(ids, read),
             sendKeys' = sendKeys
      PROVE  MessagesStay
  BY <1>1, <1>3 DEF MessagesStay, MarkRead
<1>4. ConsentStep \/ HookStep => now' = now /\ tings' = tings /\ sendKeys' = sendKeys
  BY DEF ConsentStep, SubscribeApp, Revoke, RequiredDelivery, SetPreference, HookStep,
         Connect, Disconnect, CreateHook, Bind, Detach, Unsubscribe, keyTables
<1>5. ASSUME NEW recipient \in Recipients, NEW ids \in SUBSET Messages,
             InboxRead(recipient, ids)
      PROVE  MessagesStay
  BY <1>3, <1>5 DEF InboxRead, keyTables
<1>6. ASSUME NEW app \in Apps, NEW key \in ReadKeys, NEW ids \in SUBSET Messages,
             NEW read \in BOOLEAN, SentRead(app, key, ids, read)
      PROVE  MessagesStay
  BY <1>3, <1>6 DEF SentRead
<1>7. ASSUME NEW r \in Receivers, NEW h \in Hooks, NEW ids \in SUBSET Messages,
             Offer(r, h, ids) \/ AckDelivery(r, h, ids)
      PROVE  MessagesStay
  BY <1>2, <1>7 DEF Offer, AckDelivery, keyTables
<1>8. ASSUME NEW r \in Receivers, NEW h \in Hooks, NEW ids \in SUBSET Messages,
             AckRead(r, h, ids)
      PROVE  MessagesStay
  BY <1>3, <1>8 DEF AckRead, keyTables
<1>9. Tick \/ UNCHANGED vars => MessagesStay
  BY <1>2 DEF Tick, vars, keyTables
<1>10. Retention \/ Restart => Pruning
  BY DEF Pruning, Retention, Restart
<1> QED
  BY <1>2, <1>4, <1>5, <1>6, <1>7, <1>8, <1>9, <1>10 DEF Next, MessageStep, DeliveryStep

(* What a send adds.                                                        *)
Sent(q, key, m) ==
  /\ now' = now
  /\ DOMAIN tings' = DOMAIN tings \cup {m}
  /\ \A n \in DOMAIN tings : n # m /\ tings'[n] = tings[n]
  /\ tings'[m].request = q /\ tings'[m].key = key /\ tings'[m].created = now
  /\ ~Live(sendKeys, <<q.app, key>>)
  /\ DOMAIN sendKeys' = DOMAIN sendKeys \cup {<<q.app, key>>}
  /\ \A k \in DOMAIN sendKeys :
       sendKeys[k].message # m /\ (k # <<q.app, key>> => sendKeys'[k] = sendKeys[k])
  /\ sendKeys'[<<q.app, key>>].request = q
  /\ sendKeys'[<<q.app, key>>].message = m
  /\ sendKeys'[<<q.app, key>>].expires = now + KeyWindow

LEMMA SendEffect ==
  ASSUME TypeOK, NEW q \in Requests, NEW key \in SendKeys, NEW m \in Messages,
         Send(q, key, m)
  PROVE  Sent(q, key, m)
<1>1. m \notin DOMAIN tings /\ \A k \in DOMAIN sendKeys : sendKeys[k].message # m
  BY DEF Send, Fresh
<1>2. /\ DOMAIN tings' = DOMAIN tings \cup {m}
      /\ \A n \in DOMAIN tings : n # m /\ tings'[n] = tings[n]
      /\ tings'[m].request = q /\ tings'[m].key = key /\ tings'[m].created = now
  BY <1>1 DEF Send, Insert
<1>3. /\ DOMAIN sendKeys' = DOMAIN sendKeys \cup {<<q.app, key>>}
      /\ \A k \in DOMAIN sendKeys : k # <<q.app, key>> => sendKeys'[k] = sendKeys[k]
      /\ sendKeys'[<<q.app, key>>].request = q
      /\ sendKeys'[<<q.app, key>>].message = m
      /\ sendKeys'[<<q.app, key>>].expires = now + KeyWindow
  BY DEF Send, Insert
<1> QED  BY <1>1, <1>2, <1>3 DEF Send, Sent

(* What pruning takes: a message within its month stays.                    *)
LEMMA PruneEffect ==
  ASSUME TypeOK, Pruning
  PROVE  /\ now' = now
         /\ DOMAIN tings' \subseteq DOMAIN tings
         /\ \A m \in DOMAIN tings' : tings'[m] = tings[m]
         /\ \A m \in DOMAIN tings : tings[m].created >= now - Month => m \in DOMAIN tings'
         /\ DOMAIN sendKeys' = {k \in DOMAIN sendKeys : sendKeys[k].expires > now}
         /\ \A k \in DOMAIN sendKeys' : sendKeys'[k] = sendKeys[k]
<1>1. tings' = Restrict(tings, Kept) /\ sendKeys' = LiveKeys(sendKeys) /\ now' = now
  BY DEF Pruning, Prune
<1>2. \A m \in DOMAIN tings : tings[m].created >= now - Month => m \in Kept
  BY StoreAssumption DEF Kept, Expired, PastMonth, TypeOK, IsTable, Ting
<1>3. Kept \subseteq DOMAIN tings
  BY DEF Kept
<1> QED  BY <1>1, <1>2, <1>3 DEF Restrict, LiveKeys

------------------------------------------------------------------------------
(* A message that is younger than KeyWindow has its key, so no other can be *)
(* sent under it.                                                           *)
KeysProtect ==
  \A m \in DOMAIN tings :
    LET t == tings[m]  k == SendKeyOf(t) IN
    /\ t.created =< now
    /\ now < t.created + KeyWindow =>
         k \in DOMAIN sendKeys /\ sendKeys[k].expires >= t.created + KeyWindow

LEMMA StepKeepsKeysProtect ==
  ASSUME TypeOK, KeysProtect, [Next]_vars
  PROVE  KeysProtect'
<1> USE StoreAssumption DEF TypeOK, IsTable, Ting, SendKey
<1>1. TingsKept
  BY StepKeepsTings
<1>2. CASE MessagesStay
  BY <1>1, <1>2 DEF MessagesStay, TingsKept, KeysProtect, SendKeyOf
<1>3. CASE Pruning
  <2> SUFFICES ASSUME NEW m \in DOMAIN tings'
               PROVE  LET t == tings'[m]  k == SendKeyOf(t) IN
                      /\ t.created =< now'
                      /\ now' < t.created + KeyWindow =>
                           k \in DOMAIN sendKeys' /\ sendKeys'[k].expires >= t.created + KeyWindow
    BY DEF KeysProtect, SendKeyOf
  <2>1. m \in DOMAIN tings /\ tings'[m] = tings[m] /\ now' = now
    BY <1>3, PruneEffect
  <2>2. \A k \in DOMAIN sendKeys :
          sendKeys[k].expires > now => k \in DOMAIN sendKeys' /\ sendKeys'[k] = sendKeys[k]
    BY <1>3, PruneEffect
  <2> QED  BY <2>1, <2>2 DEF KeysProtect, SendKeyOf
<1>4. ASSUME NEW q \in Requests, NEW key \in SendKeys, NEW m \in Messages, Send(q, key, m)
      PROVE  KeysProtect'
  <2>1. Sent(q, key, m)
    BY <1>4, SendEffect
  <2> USE DEF Sent
  <2>2. ASSUME NEW n \in DOMAIN tings
        PROVE  LET t == tings'[n]  k == SendKeyOf(t) IN
               /\ t.created =< now'
               /\ now' < t.created + KeyWindow =>
                    k \in DOMAIN sendKeys' /\ sendKeys'[k].expires >= t.created + KeyWindow
    <3> DEFINE k == SendKeyOf(tings[n])
    <3>1. tings'[n] = tings[n] /\ tings[n].created \in Nat /\ tings[n].created =< now
      BY <2>1 DEF KeysProtect
    <3>2. CASE k = <<q.app, key>>
      BY <2>1, <3>1, <3>2
    <3>3. CASE k # <<q.app, key>>
      BY <2>1, <3>1, <3>3 DEF KeysProtect
    <3> QED  BY <3>2, <3>3
  <2>3. /\ tings'[m].created =< now'
        /\ SendKeyOf(tings'[m]) = <<q.app, key>>
        /\ sendKeys'[<<q.app, key>>].expires >= tings'[m].created + KeyWindow
    BY <2>1 DEF SendKeyOf
  <2> QED  BY <2>1, <2>2, <2>3 DEF KeysProtect, SendKeyOf
<1> QED  BY <1>2, <1>3, <1>4, MessageSteps

(* A retry that comes within the key's window stores no second message      *)
(* (store.rs:447): two messages under one key are a window apart.           *)
THEOREM SentOnce == Spec => []SendOnce
<1>1. Init => KeysProtect /\ SendOnce
  BY DEF Init, KeysProtect, SendOnce, NoRows
<1>2. TypeOK /\ KeysProtect /\ [Next]_vars => KeysProtect'
  BY StepKeepsKeysProtect
<1>3. TypeOK /\ KeysProtect /\ SendOnce /\ [Next]_vars => SendOnce'
  <2> SUFFICES ASSUME TypeOK, KeysProtect, SendOnce, [Next]_vars
               PROVE  SendOnce'
    OBVIOUS
  <2>1. TingsKept
    BY StepKeepsTings
  <2>2. CASE MessagesStay
    BY <2>1, <2>2 DEF MessagesStay, TingsKept, SendOnce
  <2>3. CASE Pruning
    BY <2>3, PruneEffect DEF SendOnce
  <2>4. ASSUME NEW q \in Requests, NEW key \in SendKeys, NEW m \in Messages, Send(q, key, m)
        PROVE  SendOnce'
    <3>1. Sent(q, key, m)
      BY <2>4, SendEffect
    <3> USE DEF Sent
    <3>2. ASSUME NEW n \in DOMAIN tings, SendKeyOf(tings[n]) = <<q.app, key>>
          PROVE  now >= tings[n].created + KeyWindow
      <4>1. tings[n].created \in Nat /\ now \in Nat /\ KeyWindow \in Nat
        BY StoreAssumption DEF TypeOK, IsTable, Ting
      <4>2. SUFFICES ASSUME now < tings[n].created + KeyWindow
                     PROVE  FALSE
        BY <4>1
      <4>3. /\ <<q.app, key>> \in DOMAIN sendKeys
            /\ sendKeys[<<q.app, key>>].expires >= tings[n].created + KeyWindow
        BY <3>2, <4>2 DEF KeysProtect
      <4>4. sendKeys[<<q.app, key>>].expires \in Nat
        BY <4>3 DEF TypeOK, IsTable, SendKey
      <4> QED  BY <3>1, <4>1, <4>2, <4>3, <4>4 DEF Live
    <3>3. ASSUME NEW n \in DOMAIN tings, tings[n].request.app = q.app, tings[n].key = key
          PROVE  now >= tings[n].created + KeyWindow
      BY <3>2, <3>3 DEF SendKeyOf
    <3> QED  BY <3>1, <3>3 DEF SendOnce
  <2> QED  BY <2>2, <2>3, <2>4, MessageSteps
<1> QED  BY <1>1, <1>2, <1>3, TypeCorrect, PTL DEF Spec

------------------------------------------------------------------------------
(* A key that is honoured names the message that was sent under it, and     *)
(* expires no later than a month after it.                                  *)
KeyHonest(k) ==
  LET m == sendKeys[k].message IN
  /\ m \in DOMAIN tings
  /\ tings[m].request = sendKeys[k].request
  /\ tings[m].key = k[2]
  /\ tings[m].created + KeyWindow = sendKeys[k].expires
KeysHonest == \A k \in DOMAIN sendKeys : Live(sendKeys, k) => KeyHonest(k)

LEMMA StepKeepsKeysHonest ==
  ASSUME TypeOK, KeysHonest, [Next]_vars
  PROVE  KeysHonest'
<1>1. TingsKept
  BY StepKeepsTings
<1>2. now \in Nat /\ \A k \in DOMAIN sendKeys : sendKeys[k].expires \in Nat
  BY DEF TypeOK, IsTable, SendKey
<1>3. \A k \in DOMAIN sendKeys : sendKeys[k].expires > now => KeyHonest(k)
  BY DEF KeysHonest, Live
<1>4. CASE MessagesStay
  <2> SUFFICES ASSUME NEW k \in DOMAIN sendKeys', sendKeys'[k].expires > now'
               PROVE  KeyHonest(k)'
    BY DEF KeysHonest, Live
  <2>1. k \in DOMAIN sendKeys /\ sendKeys' = sendKeys /\ sendKeys[k].expires > now
    BY <1>2, <1>4 DEF MessagesStay
  <2>2. KeyHonest(k)
    BY <1>3, <2>1
  <2> QED  BY <1>1, <1>4, <2>1, <2>2 DEF KeyHonest, TingsKept, MessagesStay
<1>5. CASE Pruning
  <2> SUFFICES ASSUME NEW k \in DOMAIN sendKeys'
               PROVE  KeyHonest(k)'
    BY DEF KeysHonest
  <2>1. k \in DOMAIN sendKeys /\ sendKeys[k].expires > now /\ sendKeys'[k] = sendKeys[k]
    BY <1>5, PruneEffect
  <2>2. KeyHonest(k)
    BY <1>3, <2>1
  <2>3. sendKeys[k].message \in DOMAIN tings'
    <3> DEFINE t == tings[sendKeys[k].message]
    <3>1. sendKeys[k].message \in DOMAIN tings /\ t.created + KeyWindow = sendKeys[k].expires
      BY <2>2 DEF KeyHonest
    <3>2. t.created \in Nat
      BY <3>1 DEF TypeOK, IsTable, Ting
    <3> HIDE DEF t
    <3>3. t.created >= now - Month
      BY <1>2, <2>1, <3>1, <3>2, StoreAssumption
    <3> QED  BY <1>5, <3>1, <3>3, PruneEffect DEF t
  <2>4. tings'[sendKeys[k].message] = tings[sendKeys[k].message]
    BY <1>5, <2>3, PruneEffect
  <2> QED  BY <2>1, <2>2, <2>3, <2>4 DEF KeyHonest
<1>6. ASSUME NEW q \in Requests, NEW key \in SendKeys, NEW m \in Messages, Send(q, key, m)
      PROVE  KeysHonest'
  <2>1. Sent(q, key, m)
    BY <1>6, SendEffect
  <2> SUFFICES ASSUME NEW k \in DOMAIN sendKeys', sendKeys'[k].expires > now'
               PROVE  KeyHonest(k)'
    BY DEF KeysHonest, Live
  <2>2. CASE k = <<q.app, key>>
    BY <2>1, <2>2 DEF Sent, KeyHonest
  <2>3. CASE k # <<q.app, key>>
    <3>1. k \in DOMAIN sendKeys /\ sendKeys'[k] = sendKeys[k] /\ now' = now
      BY <2>1, <2>3 DEF Sent
    <3>2. KeyHonest(k)
      BY <1>3, <3>1
    <3> QED  BY <2>1, <3>1, <3>2 DEF Sent, KeyHonest
  <2> QED  BY <2>2, <2>3
<1> QED  BY <1>4, <1>5, <1>6, MessageSteps

(* The message that a retry under a live key is told of is still stored, as *)
(* it was sent (store.rs:447): keys never outlive messages.                 *)
THEOREM RetriesFind == Spec => []RetryFindsMessage
<1>1. Init => KeysHonest
  BY DEF Init, KeysHonest, NoRows
<1>2. TypeOK /\ KeysHonest /\ [Next]_vars => KeysHonest'
  BY StepKeepsKeysHonest
<1>3. KeysHonest => RetryFindsMessage
  BY DEF KeysHonest, KeyHonest, RetryFindsMessage
<1> QED  BY <1>1, <1>2, <1>3, TypeCorrect, PTL DEF Spec

------------------------------------------------------------------------------
(* Nothing leaves the store before its retention ends, a restart included   *)
(* (store.rs:1189-1207).                                                    *)
THEOREM RetentionKept == Spec => RetentionIsKept
<1>1. TypeOK /\ [Next]_vars
        => [\A m \in DOMAIN tings \ DOMAIN tings' : Expired(tings[m])]_vars
  <2> SUFFICES ASSUME TypeOK, [Next]_vars, NEW m \in DOMAIN tings, m \notin DOMAIN tings'
               PROVE  Expired(tings[m])
    OBVIOUS
  <2>1. CASE MessagesStay
    BY <2>1 DEF MessagesStay
  <2>2. CASE Pruning
    BY <2>2 DEF Pruning, Prune, Kept, Restrict
  <2>3. ASSUME NEW q \in Requests, NEW key \in SendKeys, NEW n \in Messages, Send(q, key, n)
        PROVE  FALSE
    BY <2>3, SendEffect DEF Sent
  <2> QED  BY <2>1, <2>2, <2>3, MessageSteps
<1> QED  BY <1>1, TypeCorrect, PTL DEF Spec, RetentionIsKept

(* What a step may do to a table of keys.                                   *)
LEMMA FinalInsert ==
  ASSUME NEW table, NEW k, NEW row, ~Live(table, k)
  PROVE  Final(table, Insert(table, {k}, row))
BY DEF Final, Insert

LEMMA FinalLiveKeys ==
  ASSUME NEW table
  PROVE  Final(table, LiveKeys(table)) /\ Final(table, table)
BY DEF Final, LiveKeys, Restrict, Live

(* What was decided under a key stays decided while it is honoured          *)
(* (store.rs:447, 622, 861).                                                *)
THEOREM KeysFinal == Spec => LiveKeysAreFinal
<1> DEFINE AllFinal == /\ Final(sendKeys, sendKeys') /\ Final(readKeys, readKeys')
                       /\ Final(hookKeys, hookKeys')
<1>1. [Next]_vars => [AllFinal]_vars
  <2> SUFFICES ASSUME [Next]_vars
               PROVE  AllFinal
    OBVIOUS
  <2>1. ASSUME NEW q \in Requests, NEW key \in SendKeys, NEW m \in Messages, Send(q, key, m)
        PROVE  AllFinal
    <3>1. PICK row : sendKeys' = Insert(sendKeys, {<<q.app, key>>}, row)
      BY <2>1 DEF Send
    <3>2. ~Live(sendKeys, <<q.app, key>>) /\ readKeys' = readKeys /\ hookKeys' = hookKeys
      BY <2>1 DEF Send
    <3> QED  BY <3>1, <3>2, FinalInsert, FinalLiveKeys
  <2>2. ASSUME NEW app \in Apps, NEW key \in ReadKeys, NEW ids \in SUBSET Messages,
               NEW read \in BOOLEAN, SentRead(app, key, ids, read)
        PROVE  AllFinal
    <3>1. PICK row : readKeys' = Insert(readKeys, {<<app, key>>}, row)
      BY <2>2 DEF SentRead
    <3>2. ~Live(readKeys, <<app, key>>) /\ sendKeys' = sendKeys /\ hookKeys' = hookKeys
      BY <2>2 DEF SentRead
    <3> QED  BY <3>1, <3>2, FinalInsert, FinalLiveKeys
  <2>3. ASSUME NEW recipient \in Recipients, NEW key \in HookKeys, NEW r \in Receivers,
               NEW h \in Hooks, CreateHook(recipient, key, r, h)
        PROVE  AllFinal
    <3>1. PICK row : hookKeys' = Insert(hookKeys, {<<recipient, key>>}, row)
      BY <2>3 DEF CreateHook
    <3>2. ~Live(hookKeys, <<recipient, key>>) /\ sendKeys' = sendKeys /\ readKeys' = readKeys
      BY <2>3 DEF CreateHook
    <3> QED  BY <3>1, <3>2, FinalInsert, FinalLiveKeys
  <2>4. CASE Retention \/ Restart
    BY <2>4, FinalLiveKeys DEF Retention, Restart, Prune
  <2>5. CASE UNCHANGED keyTables
    BY <2>5, FinalLiveKeys DEF keyTables
  <2>6. ConsentStep \/ DeliveryStep \/ Tick \/ UNCHANGED vars => UNCHANGED keyTables
    BY DEF ConsentStep, SubscribeApp, Revoke, RequiredDelivery, SetPreference,
           DeliveryStep, Offer, AckDelivery, AckRead, Tick, keyTables, vars
  <2>7. ASSUME NEW recipient \in Recipients, NEW ids \in SUBSET Messages,
               InboxRead(recipient, ids)
        PROVE  UNCHANGED keyTables
    BY <2>7 DEF InboxRead
  <2>8. ASSUME NEW r \in Receivers, Connect(r) \/ Disconnect(r)
        PROVE  UNCHANGED keyTables
    BY <2>8 DEF Connect, Disconnect
  <2>9. ASSUME NEW r \in Receivers, NEW H \in SUBSET Hooks, NEW explicit \in BOOLEAN,
               NEW takeover \in BOOLEAN,
               Bind(r, H, explicit, takeover) \/ Unsubscribe(r, H, explicit)
        PROVE  UNCHANGED keyTables
    BY <2>9 DEF Bind, Unsubscribe
  <2>10. ASSUME NEW h \in Hooks, Detach(h)
         PROVE  UNCHANGED keyTables
    BY <2>10 DEF Detach
  <2> QED
    BY <2>1, <2>2, <2>3, <2>4, <2>5, <2>6, <2>7, <2>8, <2>9, <2>10
       DEF Next, MessageStep, HookStep
<1> QED  BY <1>1, PTL DEF Spec, LiveKeysAreFinal

------------------------------------------------------------------------------
(* What becomes of a copy: nothing but time blocks it, nothing but the end  *)
(* of its message removes it, and completing it again changes nothing.      *)

(* A message is not made to expire under a copy that stays out: reading one *)
(* that is past its month takes back every window of its recipient.         *)
LEMMA StepKeepsUnexpired ==
  ASSUME TypeOK, CopiesAreOwed, [Next]_vars, now' = now,
         NEW k \in Pending', Untouched(k), k[2] \in DOMAIN tings',
         ~Expired(tings[k[2]])
  PROVE  ~Expired(tings[k[2]])'
<1> DEFINE m == k[2]
<1>1. /\ m \in DOMAIN tings /\ m \in DOMAIN tings' /\ k \in DOMAIN deliveries
      /\ tings[m] \in Ting /\ tings[m].request.recipient = hooks[k[1]].recipient
  BY DEF Untouched, Pending, CopiesAreOwed, TypeOK, IsTable
<1>2. ASSUME tings'[m] = tings[m]
      PROVE  ~Expired(tings[k[2]])'
  BY <1>2 DEF Expired, PastMonth
<1>3. ASSUME NEW copies, IsTable(copies, Hooks \X Messages, Copy),
             \A j \in DOMAIN copies :
               j \in DOMAIN deliveries /\ (copies[j].read \/ copies[j] = deliveries[j]),
             NEW ids, NEW recipients, Invalidate(recipients, copies),
             tings' = MarkRead(ids, TRUE), RecipientsOf(ExpireWhenRead(ids)) \subseteq recipients
      PROVE  ~Expired(tings[k[2]])'
  <2>1. hooks[k[1]].recipient \notin recipients
    BY <1>3, InvalidateCopies DEF TypeOK
  <2>2. m \notin ExpireWhenRead(ids)
    BY <1>1, <1>3, <2>1 DEF RecipientsOf
  <2>3. CASE m \in ids /\ ~tings[m].read
    <3>1. tings'[m] = [tings[m] EXCEPT !.read = TRUE]
      BY <1>1, <1>3, <2>3 DEF MarkRead
    <3>2. ~PastMonth(tings[m])
      BY <2>2, <2>3 DEF ExpireWhenRead
    <3>3. tings'[m].created = tings[m].created
      BY <1>1, <3>1 DEF Ting
    <3> QED  BY <3>2, <3>3 DEF Expired, PastMonth
  <2>4. CASE ~(m \in ids /\ ~tings[m].read)
    <3>1. tings'[m] = tings[m]
      BY <1>1, <1>3, <2>4 DEF MarkRead, Ting
    <3> QED  BY <1>2, <3>1
  <2> QED  BY <2>3, <2>4
<1>4. \A j \in DOMAIN deliveries :
        j \in DOMAIN deliveries /\ (deliveries[j].read \/ deliveries[j] = deliveries[j])
  OBVIOUS
<1>5. IsTable(deliveries, Hooks \X Messages, Copy)
  BY DEF TypeOK
<1>6. ASSUME tings' = tings
      PROVE  ~Expired(tings[k[2]])'
  BY <1>2, <1>6
<1>7. CASE MessageStep
  <2>1. ASSUME NEW q \in Requests, NEW key \in SendKeys, NEW n \in Messages, Send(q, key, n)
        PROVE  tings'[m] = tings[m]
    BY <1>1, <2>1, SendEffect DEF Sent
  <2>2. ASSUME NEW recipient \in Recipients, NEW ids \in SUBSET Messages,
               InboxRead(recipient, ids)
        PROVE  ~Expired(tings[k[2]])'
    BY <1>3, <1>4, <1>5, <2>2 DEF InboxRead
  <2>3. ASSUME NEW app \in Apps, NEW key \in ReadKeys, NEW ids \in SUBSET Messages,
               NEW read \in BOOLEAN, SentRead(app, key, ids, read)
        PROVE  ~Expired(tings[k[2]])'
    <3>1. CASE read
      <4>1. /\ tings' = MarkRead(ids, TRUE)
            /\ Invalidate(RecipientsOf(ExpireWhenRead(ids)), deliveries)
        BY <2>3, <3>1 DEF SentRead
      <4> QED  BY <1>3, <1>4, <1>5, <4>1
    <3>2. CASE ~read
      <4>1. tings' = MarkRead(ids, FALSE)
        BY <2>3, <3>2 DEF SentRead
      <4>2. tings'[m] \in {tings[m], [tings[m] EXCEPT !.read = FALSE]}
        BY <1>1, <4>1 DEF MarkRead
      <4> QED  BY <1>1, <4>2 DEF Expired, PastMonth, Ting
    <3> QED  BY <3>1, <3>2
  <2> QED  BY <1>2, <1>7, <2>1, <2>2, <2>3 DEF MessageStep
<1>8. ASSUME NEW r \in Receivers, NEW h \in Hooks, NEW ids \in SUBSET Messages,
             AckRead(r, h, ids)
      PROVE  ~Expired(tings[k[2]])'
  <2> DEFINE acked == ReadCopies(h, Completed(h, ids))
  <2>1. /\ tings' = MarkRead(Completed(h, ids), TRUE)
        /\ Invalidate(RecipientsOf(ExpireWhenRead(Completed(h, ids))), acked)
    BY <1>8 DEF AckRead
  <2>2. IsTable(acked, Hooks \X Messages, Copy)
    BY <1>5 DEF IsTable, Copy, ReadCopies
  <2>3. \A j \in DOMAIN acked :
          j \in DOMAIN deliveries /\ (acked[j].read \/ acked[j] = deliveries[j])
    BY <1>5 DEF ReadCopies, IsTable, Copy
  <2> HIDE DEF acked
  <2> QED  BY <1>3, <2>1, <2>2, <2>3
<1>9. CASE Retention \/ Restart
  <2>1. tings' = Restrict(tings, Kept)
    BY <1>9 DEF Retention, Restart, Prune
  <2> QED  BY <1>1, <1>2, <2>1 DEF Restrict
<1>10. CASE ConsentStep
  BY <1>6, <1>10 DEF ConsentStep, SubscribeApp, Revoke, RequiredDelivery, SetPreference
<1>11. CASE HookStep
  BY <1>6, <1>11 DEF HookStep, Connect, Disconnect, CreateHook, Bind, Detach, Unsubscribe
<1>12. CASE DeliveryStep
  BY <1>6, <1>8, <1>12 DEF DeliveryStep, Offer, AckDelivery
<1>13. CASE Tick \/ UNCHANGED vars
  BY <1>6, <1>13 DEF Tick, vars
<1> QED  BY <1>7, <1>9, <1>10, <1>11, <1>12, <1>13 DEF Next

(* Only the passing of time makes a message that is out ineligible: what a  *)
(* recipient forbids, and what reading lets expire, is taken back in the    *)
(* same step (the callers of Hub::invalidate, main.rs and ws.rs:243).       *)
THEOREM TimeAloneBlocks == Spec => OnlyTimeBlocks
<1>1. TypeOK /\ CopiesAreOwed /\ CopiesAreOwed' /\ [Next]_vars
        => [now' = now => BlockedCopies' \subseteq BlockedCopies]_vars
  <2> SUFFICES ASSUME TypeOK, CopiesAreOwed, CopiesAreOwed', [Next]_vars, now' = now,
                      NEW k \in BlockedCopies'
               PROVE  k \in BlockedCopies
    OBVIOUS
  <2>1. /\ k \in Pending' /\ k[2] \in DOMAIN tings' /\ ~Eligible(tings[k[2]])'
        /\ deliveries'[k].offer_receiver # None
        /\ deliveries'[k].offer_receiver = hooks'[k[1]].receiver
    BY DEF BlockedCopies, Window, Pending, CopiesAreOwed
  <2>2. ASSUME NEW j \in Pending, deliveries[j].offer_receiver # None,
               deliveries[j].offer_receiver = hooks[j[1]].receiver,
               ~Eligible(tings[j[2]])
        PROVE  j \in BlockedCopies
    BY <2>2 DEF BlockedCopies, Window, Pending
  <2>3. CASE Untouched(k)
    <3>1. Eligible(tings[k[2]]) => Eligible(tings[k[2]])'
      BY <2>1, <2>3, StepKeepsPermitted, StepKeepsUnexpired DEF Eligible
    <3> QED  BY <2>1, <2>2, <2>3, <3>1 DEF Untouched
  <2>4. ASSUME tings' = tings, UNCHANGED consent
        PROVE  ~Eligible(tings[k[2]])
    BY <2>1, <2>4 DEF Eligible, Permitted, Enabled, Route, Expired, PastMonth, consent
  <2>5. ASSUME NEW r \in Receivers, NEW h \in Hooks, NEW ids \in SUBSET Messages,
               Offer(r, h, ids), ~Untouched(k)
        PROVE  FALSE
    <3>1. k[2] \in ids
      BY <2>1, <2>5, OfferCopies
    <3> QED  BY <2>4, <2>5, <3>1 DEF Offer, Offerable
  <2>6. ASSUME NEW r \in Receivers, NEW h \in Hooks, NEW ids \in SUBSET Messages,
               AckDelivery(r, h, ids), ~Untouched(k)
        PROVE  k \in BlockedCopies
    <3>1. /\ k \in Pending /\ deliveries[k].offer_receiver # None
          /\ deliveries[k].offer_receiver = hooks[k[1]].receiver
      BY <2>1, <2>6, AckDeliveryCopies
    <3> QED  BY <2>2, <2>4, <2>6, <3>1 DEF AckDelivery
  <2> QED  BY <2>1, <2>3, <2>5, <2>6, StepKeepsCopies DEF Blank
<1>2. TypeOK /\ BindingCoherent /\ CopiesAreOwed /\ [Next]_vars => CopiesAreOwed'
  BY StepKeepsOwed
<1> QED
  BY <1>1, <1>2, TypeCorrect, BindingsCohere, OnlyOwedCopies, PTL DEF Spec, OnlyTimeBlocks

(* A copy stays as long as its message.                                     *)
LEMMA StepKeepsCopyRows ==
  ASSUME TypeOK, [Next]_vars, NEW k \in DOMAIN deliveries, k[2] \in DOMAIN tings'
  PROVE  k \in DOMAIN deliveries'
<1>1. ASSUME NEW recipients, NEW copies, DOMAIN copies = DOMAIN deliveries,
             Invalidate(recipients, copies)
      PROVE  k \in DOMAIN deliveries'
  BY <1>1, InvalidateDomain
<1>2. ASSUME NEW H, deliveries' \in {deliveries, ResetCopies(deliveries, H)}
      PROVE  k \in DOMAIN deliveries'
  BY <1>2, ResetDomain
<1>3. ASSUME NEW keys, NEW row, deliveries' = Insert(deliveries, keys, row)
      PROVE  k \in DOMAIN deliveries'
  BY <1>3 DEF Insert
<1>4. ASSUME NEW H, Prune(ResetCopies(deliveries, H))
      PROVE  k \in DOMAIN deliveries'
  <2>1. k[2] \in Kept
    BY <1>4 DEF Prune, Restrict, Kept
  <2> QED  BY <1>4, <2>1, ResetDomain DEF Prune, CopiesOfKept, Restrict
<1>5. CASE ConsentStep
  BY <1>1, <1>5 DEF ConsentStep, SubscribeApp, Revoke, RequiredDelivery, SetPreference
<1>6. CASE MessageStep
  BY <1>1, <1>3, <1>6 DEF MessageStep, Send, InboxRead, SentRead
<1>7. CASE HookStep
  <2>1. ASSUME NEW r \in Receivers, Connect(r) \/ Disconnect(r)
        PROVE  k \in DOMAIN deliveries'
    BY <1>2, <2>1 DEF Connect, Disconnect
  <2>2. ASSUME NEW recipient \in Recipients, NEW key \in HookKeys, NEW r \in Receivers,
               NEW h \in Hooks, CreateHook(recipient, key, r, h)
        PROVE  k \in DOMAIN deliveries'
    BY <1>3, <2>2 DEF CreateHook
  <2>3. ASSUME NEW r \in Receivers, NEW H \in SUBSET Hooks, NEW explicit \in BOOLEAN,
               NEW takeover \in BOOLEAN, Bind(r, H, explicit, takeover)
        PROVE  k \in DOMAIN deliveries'
    <3>1. deliveries' = ResetCopies(deliveries, H)
      BY <2>3 DEF Bind
    <3> QED  BY <1>2, <3>1
  <2>5. ASSUME NEW r \in Receivers, NEW H \in SUBSET Hooks, NEW pause \in BOOLEAN,
               Unsubscribe(r, H, pause)
        PROVE  k \in DOMAIN deliveries'
    <3>1. deliveries' = ResetCopies(deliveries, H)
      BY <2>5 DEF Unsubscribe
    <3> QED  BY <1>2, <3>1
  <2>4. ASSUME NEW h \in Hooks, Detach(h)
        PROVE  k \in DOMAIN deliveries'
    BY <1>2, <2>4 DEF Detach
  <2> QED  BY <1>7, <2>1, <2>2, <2>3, <2>4, <2>5 DEF HookStep
<1>8. CASE DeliveryStep
  <2>1. PICK r \in Receivers, h \in Hooks, ids \in SUBSET Messages :
          Offer(r, h, ids) \/ AckDelivery(r, h, ids) \/ AckRead(r, h, ids)
    BY <1>8 DEF DeliveryStep
  <2>2. CASE Offer(r, h, ids) \/ AckDelivery(r, h, ids)
    BY <2>2 DEF Offer, AckDelivery
  <2>3. DOMAIN ReadCopies(h, Completed(h, ids)) = DOMAIN deliveries
    BY DEF ReadCopies
  <2>4. CASE AckRead(r, h, ids)
    BY <1>1, <2>3, <2>4 DEF AckRead
  <2> QED  BY <2>1, <2>2, <2>4
<1>9. CASE Retention \/ Restart
  BY <1>4, <1>9 DEF Retention, Restart
<1>10. CASE Tick \/ UNCHANGED vars
  BY <1>10 DEF Tick, vars
<1> QED  BY <1>5, <1>6, <1>7, <1>8, <1>9, <1>10 DEF Next

(* Only sending makes messages and only CreateHook makes hooks.             *)
LEMMA WhoMakesRows ==
  ASSUME TypeOK, [Next]_vars,
         \A q \in Requests, key \in SendKeys, m \in Messages : ~Send(q, key, m),
         \A recipient \in Recipients, key \in HookKeys, r \in Receivers, h \in Hooks :
           ~CreateHook(recipient, key, r, h)
  PROVE  DOMAIN tings' \subseteq DOMAIN tings /\ DOMAIN hooks' = DOMAIN hooks
<1>1. DOMAIN tings' \subseteq DOMAIN tings
  BY MessageSteps, PruneEffect DEF MessagesStay
<1> SUFFICES DOMAIN hooks' = DOMAIN hooks
  BY <1>1
<1>2. ASSUME NEW recipients, NEW copies, Invalidate(recipients, copies)
      PROVE  DOMAIN hooks' = DOMAIN hooks
  BY <1>2 DEF Invalidate, Unbind
<1>3. CASE ConsentStep
  BY <1>2, <1>3 DEF ConsentStep, SubscribeApp, Revoke, RequiredDelivery, SetPreference
<1>4. CASE MessageStep
  <2>1. ASSUME NEW recipient \in Recipients, NEW ids \in SUBSET Messages,
               InboxRead(recipient, ids)
        PROVE  DOMAIN hooks' = DOMAIN hooks
    BY <1>2, <2>1 DEF InboxRead
  <2>2. ASSUME NEW app \in Apps, NEW key \in ReadKeys, NEW ids \in SUBSET Messages,
               NEW read \in BOOLEAN, SentRead(app, key, ids, read)
        PROVE  DOMAIN hooks' = DOMAIN hooks
    BY <1>2, <2>2 DEF SentRead
  <2> QED  BY <1>4, <2>1, <2>2 DEF MessageStep
<1>5. CASE HookStep
  <2>1. ASSUME NEW r \in Receivers, NEW H \in SUBSET Hooks, NEW explicit \in BOOLEAN,
               NEW takeover \in BOOLEAN, Bind(r, H, explicit, takeover)
        PROVE  DOMAIN hooks' = DOMAIN hooks
    BY <2>1 DEF Bind
  <2>2. ASSUME NEW r \in Receivers, Connect(r)
        PROVE  DOMAIN hooks' = DOMAIN hooks
    BY <2>2 DEF Connect
  <2>3. ASSUME NEW r \in Receivers, Disconnect(r)
        PROVE  DOMAIN hooks' = DOMAIN hooks
    BY <2>3 DEF Disconnect, Release
  <2>4. ASSUME NEW r \in Receivers, NEW H \in SUBSET Hooks, NEW pause \in BOOLEAN,
               Unsubscribe(r, H, pause)
        PROVE  DOMAIN hooks' = DOMAIN hooks
    BY <2>4 DEF Unsubscribe, Unbind
  <2>5. ASSUME NEW h \in Hooks, Detach(h)
        PROVE  DOMAIN hooks' = DOMAIN hooks
    BY <2>5 DEF Detach, Unbind
  <2> QED  BY <1>5, <2>1, <2>2, <2>3, <2>4, <2>5 DEF HookStep
<1>6. CASE DeliveryStep
  <2>1. PICK r \in Receivers, h \in Hooks, ids \in SUBSET Messages :
          Offer(r, h, ids) \/ AckDelivery(r, h, ids) \/ AckRead(r, h, ids)
    BY <1>6 DEF DeliveryStep
  <2>2. CASE Offer(r, h, ids) \/ AckDelivery(r, h, ids)
    BY <2>2 DEF Offer, AckDelivery
  <2>3. CASE AckRead(r, h, ids)
    BY <1>2, <2>3 DEF AckRead
  <2> QED  BY <2>1, <2>2, <2>3
<1>7. CASE Retention \/ Restart
  BY <1>7 DEF Retention, Restart, Unbind, Release
<1>8. CASE Tick \/ UNCHANGED vars
  BY <1>8 DEF Tick, vars
<1> QED  BY <1>3, <1>4, <1>5, <1>6, <1>7, <1>8 DEF Next

(* What must have a copy: it had one, or it is made now.                    *)
Owed(h, m) ==
  \/ <<h, m>> \in DOMAIN deliveries
  \/ m \notin DOMAIN tings /\ (~tings'[m].silent \/ tings'[m].request.required)
  \/ h \notin DOMAIN hooks /\ m \in UnreadEligible'

LEMMA StepMakesOwed ==
  ASSUME TypeOK, [Next]_vars, NEW h \in DOMAIN hooks', NEW m \in DOMAIN tings',
         hooks'[h].recipient = tings'[m].request.recipient, Owed(h, m)
  PROVE  <<h, m>> \in DOMAIN deliveries'
<1>1. CASE <<h, m>> \in DOMAIN deliveries
  BY <1>1, StepKeepsCopyRows
<1>2. ASSUME NEW q \in Requests, NEW key \in SendKeys, NEW n \in Messages, Send(q, key, n),
             <<h, m>> \notin DOMAIN deliveries
      PROVE  <<h, m>> \in DOMAIN deliveries'
  <2> DEFINE silent == ~Enabled(q.recipient, q.scopes)
  <2>1. /\ hooks' = hooks /\ DOMAIN tings' = DOMAIN tings \cup {n}
        /\ tings' = Insert(tings, {n}, [request |-> q, key |-> key, silent |-> silent,
                                        read |-> FALSE, created |-> now])
        /\ deliveries' = Insert(deliveries, FanOut(q, silent) \X {n}, NewCopy)
    BY <1>2 DEF Send, Insert
  <2> HIDE DEF silent
  <2>2. m = n /\ tings'[m].silent = silent /\ tings'[m].request = q
    BY <1>2, <2>1 DEF Owed, Insert
  <2>3. ~silent \/ q.required
    BY <1>2, <2>1, <2>2 DEF Owed
  <2>4. h \in FanOut(q, silent)
    BY <2>1, <2>2, <2>3 DEF FanOut, HooksOf
  <2> QED  BY <2>1, <2>2, <2>4 DEF Insert
<1>3. ASSUME NEW recipient \in Recipients, NEW key \in HookKeys, NEW r \in Receivers,
             NEW g \in Hooks, CreateHook(recipient, key, r, g),
             <<h, m>> \notin DOMAIN deliveries
      PROVE  <<h, m>> \in DOMAIN deliveries'
  <2>1. /\ hooks' = Insert(hooks, {g}, [recipient |-> recipient, state |-> "connected",
                                        receiver |-> r])
        /\ deliveries' = Insert(deliveries, {g} \X Backlog(recipient), NewCopy)
        /\ tings' = tings /\ now' = now /\ UNCHANGED consent
    BY <1>3 DEF CreateHook
  <2>2. UnreadEligible' = UnreadEligible
    BY <2>1 DEF UnreadEligible, Eligible, Permitted, Enabled, Route, Expired, PastMonth, consent
  <2>3. h = g /\ m \in UnreadEligible
    BY <1>3, <2>1, <2>2 DEF Owed, Insert
  <2>4. hooks'[h].recipient = recipient
    BY <2>1, <2>3 DEF Insert
  <2>5. m \in Backlog(recipient)
    BY <2>1, <2>3, <2>4 DEF Backlog
  <2> QED  BY <2>1, <2>3, <2>5 DEF Insert
<1>4. CASE /\ \A q \in Requests, key \in SendKeys, n \in Messages : ~Send(q, key, n)
           /\ \A recipient \in Recipients, key \in HookKeys, r \in Receivers, g \in Hooks :
                ~CreateHook(recipient, key, r, g)
  BY <1>1, <1>4, WhoMakesRows DEF Owed
<1> QED  BY <1>1, <1>2, <1>3, <1>4

(* No gap between a hook's backlog and its live messages, and no copy goes  *)
(* before its message does (store.rs:482, 891, 1194).                       *)
THEOREM CopiesAlwaysDurable == Spec => CopiesAreDurable
<1>1. TypeOK /\ [Next]_vars
        => [\A h \in DOMAIN hooks', m \in DOMAIN tings' :
              LET t == tings'[m] IN
              /\ hooks'[h].recipient = t.request.recipient
              /\ \/ <<h, m>> \in DOMAIN deliveries
                 \/ m \notin DOMAIN tings /\ (~t.silent \/ t.request.required)
                 \/ h \notin DOMAIN hooks /\ m \in UnreadEligible'
              => <<h, m>> \in DOMAIN deliveries']_vars
  BY StepMakesOwed DEF Owed
<1> QED  BY <1>1, TypeCorrect, PTL DEF Spec, CopiesAreDurable

(* A read ack that names a copy completed before leaves its message as the  *)
(* app may have marked it meanwhile (store.rs:1161).                        *)
THEOREM RepeatedAcksAreInert == Spec => RepeatedReadAckIsInert
<1> DEFINE Inert == \A r \in Receivers, h \in DOMAIN hooks, ids \in SUBSET DOMAIN tings :
                      AckRead(r, h, ids) =>
                        \A m \in ids : deliveries[h, m].read => tings'[m].read = tings[m].read
<1>1. [Next]_vars => [Inert]_vars
  <2> SUFFICES ASSUME NEW r \in Receivers, NEW h \in DOMAIN hooks,
                      NEW ids \in SUBSET DOMAIN tings, AckRead(r, h, ids),
                      NEW m \in ids, deliveries[h, m].read
               PROVE  tings'[m].read = tings[m].read
    OBVIOUS
  <2>1. m \notin Completed(h, ids) /\ tings' = MarkRead(Completed(h, ids), TRUE)
    BY DEF Completed, AckRead
  <2> QED  BY <2>1 DEF MarkRead
<1> QED  BY <1>1, PTL DEF Spec, RepeatedReadAckIsInert
==============================================================================
