------------------------------ MODULE Web_proofs ------------------------------
(***************************************************************************)
(* Proofs about the workspace with its sessions, the inbox list and the    *)
(* drawer of a ting, and then about the page as a whole: for every set of  *)
(* accounts, tokens, requests, pages, filters and tings, whatever users,   *)
(* other tabs and the service do, and however late answers arrive.         *)
(***************************************************************************)
EXTENDS MCWeb, Toasts_proofs, Widgets_proofs, JsonTree_proofs

(***************************************************************************)
(* Sessions.                                                               *)
(***************************************************************************)
AllFlows == [Flows -> FlowRecords]

ScreenOK ==
  /\ booting \in BOOLEAN /\ bootError \in BOOLEAN /\ busy \in BOOLEAN
  /\ visible \in BOOLEAN /\ happened \in Nat
  /\ actionError \in {"none", "expired", "failed"}
  /\ login \in {"closed", "carbon", "silicon"}
  /\ attempt \in Tokens \cup {None}
  /\ exchanged \in [Tokens -> {"no", "kept", "other"}]

WhoOK ==
  identity \in WebAccounts /\ cookie \in WebAccounts /\ over \in BOOLEAN /\ settling \in BOOLEAN

(* The history is right: a page that shows nobody, or not the account of    *)
(* the cookie, shows no session that is alive.                              *)
EndedIsOver == identity = None \/ cookie # identity => over

(* A request of a list whose 401 still counts was answered after the        *)
(* session shown had ended, or the effect of a new identity is still to     *)
(* come.  A sign-in posts a token.                                          *)
Excused == over \/ settling

LoadIsHonest(r, ended) ==
  /\ r.kind = "load" => r.at = "get" /\ (r.answer = "gone" /\ r.fresh => ended)
  /\ r.at = "post" => r.token \in Tokens
LoadsAreHonest(flows, ended) == \A f \in Flows : LoadIsHonest(flows[f], ended)

FlowsOK(flows, ended) == flows \in AllFlows /\ LoadsAreHonest(flows, ended)

SessionInv == ScreenOK /\ WhoOK /\ EndedIsOver /\ FlowsOK(flow, Excused)

LEMMA SessionIsTyped == SessionInv => SessionTypeOK
BY DEF SessionInv, ScreenOK, WhoOK, FlowsOK, AllFlows, SessionTypeOK, WebVarsOK

------------------------------------------------------------------------------
(* What happens to the flows.                                               *)

LEMMA IdleOK == Idle \in FlowRecords /\ \A ended \in BOOLEAN : LoadIsHonest(Idle, ended)
BY DEF Idle, FlowRecords, LoadIsHonest, Asking, Mutating

LEMMA OneChanges ==
  ASSUME NEW flows, NEW ended, FlowsOK(flows, ended), NEW f \in Flows,
         NEW r \in FlowRecords, LoadIsHonest(r, ended)
  PROVE  FlowsOK([flows EXCEPT ![f] = r], ended)
BY DEF FlowsOK, AllFlows, LoadsAreHonest

LEMMA EndOK ==
  ASSUME SessionInv, NEW f \in Flows
  PROVE  FlowsOK(End(f), Excused)
BY IdleOK, OneChanges DEF End, SessionInv, WhoOK, Excused

LEMMA RequestOK ==
  ASSUME SessionInv, NEW f \in Flows, flow[f].kind # "load", NEW step \in {"verify", "me"}
  PROVE  FlowsOK(Request(f, step), Excused)
<1> DEFINE r == [flow[f] EXCEPT !.at = step, !.fresh = TRUE, !.answer = "none"]
<1>1. r \in FlowRecords
  BY DEF SessionInv, FlowsOK, AllFlows, FlowRecords, Asking
<1>2. LoadIsHonest(r, Excused)
  <2>1. r.kind = flow[f].kind /\ r.at = step /\ r.answer = "none"
    BY DEF SessionInv, FlowsOK, AllFlows, FlowRecords
  <2> QED BY <2>1 DEF LoadIsHonest
<1>3. FlowsOK([flow EXCEPT ![f] = r], Excused)
  BY <1>1, <1>2, OneChanges DEF SessionInv
<1> QED BY <1>3 DEF Request

(* A new flow.                                                              *)
LEMMA BeginOK ==
  ASSUME SessionInv, NEW f \in Flows,
         NEW kind \in {"boot", "carbon", "silicon"} \cup Mutating, NEW step \in Asking \cup {"popup"},
         NEW token \in Tokens \cup {None}, step = "post" => token \in Tokens, Begin(f, kind, step, token)
  PROVE  FlowsOK(flow', Excused)
<1> DEFINE r == [kind |-> kind, at |-> step, fresh |-> step # "popup", kept |-> kind \in {"silicon", "menu"},
                token |-> token, answer |-> "none"]
<1>1. r \in FlowRecords
  <2>1. (step # "popup") \in BOOLEAN /\ (kind \in {"silicon", "menu"}) \in BOOLEAN
    OBVIOUS
  <2> QED BY <2>1 DEF FlowRecords
<1>2. LoadIsHonest(r, Excused)
  <2>1. r.kind = kind /\ r.at = step /\ r.token = token /\ kind # "load"
    BY DEF Mutating
  <2> QED BY <2>1 DEF LoadIsHonest
<1>3. FlowsOK([flow EXCEPT ![f] = r], Excused)
  BY <1>1, <1>2, OneChanges DEF SessionInv
<1> QED BY <1>3 DEF Begin

(* Withdrawing freshness, keys or menus.                                    *)
LEMMA ForgetOK ==
  ASSUME NEW flows, FlowsOK(flows, Excused)
  PROVE  FlowsOK(Forget(flows), Excused)
<1>1. ASSUME NEW g \in Flows PROVE Forget(flows)[g] \in FlowRecords /\ LoadIsHonest(Forget(flows)[g], Excused)
  <2>1. Forget(flows)[g] = [flows[g] EXCEPT !.kept = @ /\ flows[g].kind # "silicon"]
    BY DEF Forget
  <2> QED BY <2>1 DEF FlowsOK, AllFlows, LoadsAreHonest, LoadIsHonest, FlowRecords
<1>2. Forget(flows) = [g \in Flows |-> Forget(flows)[g]]
  BY DEF Forget
<1> QED BY <1>1, <1>2 DEF FlowsOK, AllFlows, LoadsAreHonest

LEMMA ShowsAccountOK ==
  ASSUME SessionInv, NEW a \in WebAccounts, NEW flows, FlowsOK(flows, Excused),
         Shows(a, flows), cookie' = cookie
  PROVE  WhoOK' /\ EndedIsOver' /\ FlowsOK(flow', Excused')
<1>1. WhoOK' /\ EndedIsOver'
  BY DEF Shows, WhoOK, EndedIsOver, SessionInv
<1>2. Excused' = TRUE
  BY DEF Shows, Excused
<1>3. flow' = [g \in Flows |-> [flows[g] EXCEPT !.kept = @ /\ ~(flows[g].kind = "menu" /\ a = None)]]
  BY DEF Shows
<1>4. ASSUME NEW g \in Flows PROVE flow'[g] \in FlowRecords /\ LoadIsHonest(flow'[g], TRUE)
  BY <1>3 DEF FlowsOK, AllFlows, LoadsAreHonest, LoadIsHonest, FlowRecords
<1>5. flow' = [g \in Flows |-> flow'[g]]
  BY <1>3
<1>6. FlowsOK(flow', TRUE)
  BY <1>4, <1>5 DEF FlowsOK, AllFlows, LoadsAreHonest
<1> QED BY <1>1, <1>2, <1>6

(* The effect withdraws what the requests made before it could do.          *)
LEMMA SessionChangedInv ==
  ASSUME SessionInv, SessionChanged, visible' = visible
  PROVE  SessionInv'
<1>1. ScreenOK' /\ WhoOK' /\ EndedIsOver'
  BY DEF SessionChanged, SessionInv, ScreenOK, WhoOK, EndedIsOver, spinners, dialog, service
<1>2. flow' = [g \in Flows |-> [flow[g] EXCEPT !.fresh = FALSE]]
  BY DEF SessionChanged
<1>3. ASSUME NEW g \in Flows PROVE flow'[g] \in FlowRecords /\ LoadIsHonest(flow'[g], Excused')
  BY <1>2 DEF SessionInv, FlowsOK, AllFlows, LoadsAreHonest, LoadIsHonest, FlowRecords
<1>4. flow' = [g \in Flows |-> flow'[g]]
  BY <1>2
<1>5. FlowsOK(flow', Excused')
  BY <1>3, <1>4 DEF FlowsOK, AllFlows, LoadsAreHonest
<1> QED BY <1>1, <1>5 DEF SessionInv

LEMMA KeepsOK ==
  ASSUME SessionInv, NEW flows, FlowsOK(flows, Excused), Keeps(flows), cookie' = cookie
  PROVE  WhoOK' /\ EndedIsOver' /\ FlowsOK(flow', Excused')
BY DEF Keeps, WhoOK, EndedIsOver, Excused, SessionInv

(* The first flow of a page.                                                *)
LEMMA FirstFlowOK ==
  ASSUME NEW f
  PROVE  FlowsOK(FirstFlow(f), TRUE)
<1>1. [Idle EXCEPT !.kind = "boot", !.at = "me"] \in FlowRecords
  BY DEF Idle, FlowRecords, Asking
<1>2. ASSUME NEW g \in Flows PROVE FirstFlow(f)[g] \in FlowRecords /\ LoadIsHonest(FirstFlow(f)[g], TRUE)
  <2>1. FirstFlow(f)[g] = IF g = f THEN [Idle EXCEPT !.kind = "boot", !.at = "me"] ELSE Idle
    BY DEF FirstFlow
  <2> QED BY <1>1, <2>1, IdleOK DEF LoadIsHonest, Idle
<1>3. FirstFlow(f) = [g \in Flows |-> FirstFlow(f)[g]]
  BY DEF FirstFlow
<1> QED BY <1>2, <1>3 DEF FlowsOK, AllFlows, LoadsAreHonest

LEMMA ForgottenOK == ScreenOK => Forgotten \in [Tokens -> {"no", "kept", "other"}]
BY DEF ScreenOK, Forgotten

LEMMA DisturbOK == ScreenOK /\ Disturb => happened' \in Nat
BY DEF ScreenOK, Disturb, Happens

------------------------------------------------------------------------------
(* The invariant.                                                           *)

LEMMA SessionInitInv == WebVarsInit /\ SessionInit => SessionInv
<1> SUFFICES ASSUME WebVarsInit, SessionInit PROVE SessionInv
  OBVIOUS
<1>1. FlowsOK(flow, Excused)
  <2>1. Excused = TRUE /\ FlowsOK(flow, TRUE)
    BY FirstFlowOK DEF SessionInit, Excused
  <2> QED BY <2>1
<1>2. ScreenOK
  BY DEF ScreenOK, SessionInit, WebVarsInit
<1>3. WhoOK /\ EndedIsOver
  BY DEF WhoOK, EndedIsOver, Excused, SessionInit, WebVarsInit, WebAccounts
<1> QED BY <1>1, <1>2, <1>3 DEF SessionInv

(* Actions of the page that start something.                                *)
LEMMA StartsInv ==
  ASSUME SessionInv, NEW f \in Flows, visible' = visible,
         \/ RetryBoot(f) \/ LoginCarbon(f)
         \/ \E t \in Tokens : LoginSilicon(f, t)
         \/ \E kind \in Mutating : Act(f, kind)
         \/ LoadList(f)
  PROVE  SessionInv'
<1>0. ScreenOK
  BY DEF SessionInv
<1>1. CASE RetryBoot(f)
  <2>1. ScreenOK'
    BY <1>0, <1>1, DisturbOK DEF RetryBoot, ScreenOK, dialog
  <2>2. FlowsOK(flow', Excused)
    BY <1>1, BeginOK DEF RetryBoot, Asking
  <2> QED BY <1>1, <2>1, <2>2 DEF RetryBoot, SessionInv, WhoOK, EndedIsOver, Excused
<1>2. CASE LoginCarbon(f)
  <2>1. ScreenOK'
    BY <1>0, <1>2, DisturbOK DEF LoginCarbon, ScreenOK, dialog, service
  <2>2. FlowsOK(flow', Excused)
    BY <1>2, BeginOK DEF LoginCarbon
  <2> QED BY <1>2, <2>1, <2>2 DEF LoginCarbon, SessionInv, WhoOK, EndedIsOver, Excused, service
<1>3. ASSUME NEW t \in Tokens, LoginSilicon(f, t) PROVE SessionInv'
  <2>1. ScreenOK'
    BY <1>0, <1>3, DisturbOK, ForgottenOK DEF LoginSilicon, ScreenOK
  <2>2. FlowsOK(flow', Excused)
    BY <1>3, BeginOK DEF LoginSilicon, Asking
  <2> QED BY <1>3, <2>1, <2>2 DEF LoginSilicon, SessionInv, WhoOK, EndedIsOver, Excused
<1>4. ASSUME NEW kind \in Mutating, Act(f, kind) PROVE SessionInv'
  <2>1. ScreenOK'
    BY <1>0, <1>4, DisturbOK DEF Act, ScreenOK, dialog, service
  <2>2. FlowsOK(flow', Excused)
    BY <1>4, BeginOK DEF Act, Asking
  <2> QED BY <1>4, <2>1, <2>2 DEF Act, SessionInv, WhoOK, EndedIsOver, Excused, service
<1>5. CASE LoadList(f)
  <2>1. ScreenOK'
    BY <1>0, <1>5, DisturbOK DEF LoadList, ScreenOK, spinners, dialog, service
  <2>2. [Idle EXCEPT !.kind = "load", !.at = "get", !.fresh = TRUE] \in FlowRecords
    BY DEF Idle, FlowRecords, Asking
  <2>3. LoadIsHonest([Idle EXCEPT !.kind = "load", !.at = "get", !.fresh = TRUE], Excused)
    BY DEF Idle, LoadIsHonest
  <2>4. FlowsOK(flow', Excused)
    BY <1>5, <2>2, <2>3, OneChanges DEF LoadList, SessionInv
  <2> QED BY <1>5, <2>1, <2>4 DEF LoadList, SessionInv, WhoOK, EndedIsOver, Excused, service
<1> QED BY <1>1, <1>2, <1>3, <1>4, <1>5

(* Continuations of the flows.                                              *)
LEMMA ContinuesInv ==
  ASSUME SessionInv, NEW f \in Flows, visible' = visible,
         \/ CarbonAnswered(f) \/ SiliconAnswered(f) \/ BootAnswered(f)
         \/ ActionAnswered(f) \/ LoadAnswered(f)
  PROVE  SessionInv'
<1>0. ScreenOK /\ FlowsOK(End(f), Excused) /\ flow[f] \in FlowRecords /\ None \in WebAccounts
  BY EndOK DEF SessionInv, FlowsOK, AllFlows, WebAccounts
<1>1. CASE CarbonAnswered(f)
  <2>1. ScreenOK'
    BY <1>0, <1>1 DEF CarbonAnswered, ScreenOK, spinners, dialog, service
  <2>2. cookie' = cookie /\ flow[f].kind # "load"
    BY <1>1 DEF CarbonAnswered, service
  <2>3. FlowsOK(Request(f, "verify"), Excused) /\ FlowsOK(Request(f, "me"), Excused)
    BY <2>2, RequestOK
  <2>4. \/ Keeps(Request(f, "verify")) \/ Keeps(Request(f, "me"))
        \/ Shows(None, End(f)) \/ Keeps(End(f))
    BY <1>1 DEF CarbonAnswered
  <2>5. WhoOK' /\ EndedIsOver' /\ FlowsOK(flow', Excused')
    BY <1>0, <2>2, <2>3, <2>4, ShowsAccountOK, KeepsOK
  <2> QED BY <2>1, <2>5 DEF SessionInv
<1>2. CASE SiliconAnswered(f)
  <2>1. ScreenOK'
    BY <1>0, <1>2, ForgottenOK DEF SiliconAnswered, ScreenOK
  <2>2. cookie' = cookie /\ flow[f].kind # "load"
    BY <1>2 DEF SiliconAnswered
  <2>3. FlowsOK(Forget(Request(f, "me")), Excused)
    BY <2>2, RequestOK, ForgetOK DEF SessionInv, WhoOK
  <2>4. Keeps(Forget(Request(f, "me"))) \/ Keeps(End(f))
    BY <1>2 DEF SiliconAnswered
  <2>5. WhoOK' /\ EndedIsOver' /\ FlowsOK(flow', Excused')
    BY <1>0, <2>2, <2>3, <2>4, KeepsOK
  <2> QED BY <2>1, <2>5 DEF SessionInv
<1>3. CASE BootAnswered(f)
  <2>1. ScreenOK'
    BY <1>0, <1>3 DEF BootAnswered, ScreenOK, service
  <2>2. cookie' = cookie
    BY <1>3 DEF BootAnswered, service
  <2>3. (\E a \in WebAccounts : Shows(a, End(f))) \/ Keeps(End(f))
    BY <1>0, <1>3 DEF BootAnswered, WebAccounts
  <2>4. WhoOK' /\ EndedIsOver' /\ FlowsOK(flow', Excused')
    BY <1>0, <2>2, <2>3, ShowsAccountOK, KeepsOK
  <2> QED BY <2>1, <2>4 DEF SessionInv
<1>4. CASE ActionAnswered(f)
  <2>1. ScreenOK'
    BY <1>0, <1>4 DEF ActionAnswered, ScreenOK, dialog, service
  <2>2. cookie' = cookie /\ (Shows(None, End(f)) \/ Keeps(End(f)))
    BY <1>4 DEF ActionAnswered, service
  <2>3. WhoOK' /\ EndedIsOver' /\ FlowsOK(flow', Excused')
    BY <1>0, <2>2, ShowsAccountOK, KeepsOK
  <2> QED BY <2>1, <2>3 DEF SessionInv
<1>5. CASE LoadAnswered(f)
  <2>1. ScreenOK'
    BY <1>0, <1>5 DEF LoadAnswered, ScreenOK, spinners, dialog, service
  <2>2. cookie' = cookie /\ (Shows(None, End(f)) \/ Keeps(End(f)))
    BY <1>5 DEF LoadAnswered, service
  <2>3. WhoOK' /\ EndedIsOver' /\ FlowsOK(flow', Excused')
    BY <1>0, <2>2, ShowsAccountOK, KeepsOK
  <2> QED BY <2>1, <2>3 DEF SessionInv
<1> QED BY <1>1, <1>2, <1>3, <1>4, <1>5

(* The service sets the cookie: a session may be over, and none begins that *)
(* the page would show.                                                     *)
LEMMA SetsOK ==
  ASSUME SessionInv, NEW a \in WebAccounts, Sets(a), UNCHANGED <<identity, settling>>,
         NEW flows, FlowsOK(flows, Excused), flow' = flows
  PROVE  WhoOK' /\ EndedIsOver' /\ FlowsOK(flow', Excused')
<1>1. over' = (over \/ a # identity) /\ cookie' = a
  BY DEF Sets
<1>2. Excused => Excused'
  BY <1>1 DEF Excused
<1>3. FlowsOK(flow', Excused')
  BY <1>2 DEF FlowsOK, LoadsAreHonest, LoadIsHonest
<1> QED BY <1>1, <1>3 DEF SessionInv, WhoOK, EndedIsOver, Excused

(* An answer to a request that is not a list's, or that finds a session.    *)
LEMMA AnswersOK ==
  ASSUME SessionInv, NEW f \in Flows,
         NEW answer \in {"ok", "gone", "failed"} \cup Accounts,
         flow[f].kind = "load" /\ answer = "gone" => Excused
  PROVE  FlowsOK([flow EXCEPT ![f].answer = answer], Excused)
<1> DEFINE r == [flow[f] EXCEPT !.answer = answer]
<1>1. r \in FlowRecords
  BY DEF SessionInv, FlowsOK, AllFlows, FlowRecords
<1>2. LoadIsHonest(flow[f], Excused) /\ flow[f] \in FlowRecords
  BY DEF SessionInv, FlowsOK, AllFlows, LoadsAreHonest
<1>3. r.kind = flow[f].kind /\ r.at = flow[f].at /\ r.answer = answer
  BY <1>2 DEF FlowRecords
<1>4. LoadIsHonest(r, Excused)
  BY <1>2, <1>3 DEF LoadIsHonest
<1>5. FlowsOK([flow EXCEPT ![f] = r], Excused)
  BY <1>1, <1>4, OneChanges DEF SessionInv
<1> QED BY <1>5

LEMMA EndsSomeOK ==
  ASSUME ScreenOK, NEW tokens, EndsSome(tokens)
  PROVE  exchanged' \in [Tokens -> {"no", "kept", "other"}]
BY DEF ScreenOK, EndsSome

LEMMA ServeInv ==
  ASSUME SessionInv, NEW f \in Flows, visible' = visible, Serve(f)
  PROVE  SessionInv'
<1>0. ScreenOK /\ WhoOK /\ flow[f] \in FlowRecords /\ LoadIsHonest(flow[f], Excused)
  BY DEF SessionInv, FlowsOK, AllFlows, LoadsAreHonest
<1>1. /\ UNCHANGED <<identity, settling, booting, bootError, busy, actionError, login, attempt, happened>>
  BY DEF Serve, spinners, dialog
<1>2. CASE flow[f].at = "post"
  <2> DEFINE t == flow[f].token
             taken == exchanged[t] = "no" \/ (exchanged[t] = "kept" /\ flow[f].kept)
  <2>0. flow[f].kind # "load"
    BY <1>0, <1>2 DEF LoadIsHonest
  <2>1. \/ taken /\ Answers(f, "ok") /\ Sets(Holder[t])
           /\ exchanged' = [exchanged EXCEPT ![t] = IF flow[f].kept THEN "kept" ELSE "other"]
        \/ Answers(f, "gone") /\ UNCHANGED <<service, over>>
    BY <1>2 DEF Serve
  <2>2. exchanged' \in [Tokens -> {"no", "kept", "other"}]
    BY <1>0, <2>1 DEF ScreenOK, service
  <2>3. ScreenOK'
    BY <1>0, <1>1, <2>2 DEF ScreenOK
  <2>4. FlowsOK([flow EXCEPT ![f].answer = "ok"], Excused) /\ FlowsOK([flow EXCEPT ![f].answer = "gone"], Excused)
    BY <2>0, AnswersOK
  <2>5. CASE Answers(f, "gone") /\ UNCHANGED <<service, over>>
    BY <1>1, <2>3, <2>4, <2>5 DEF Answers, service, SessionInv, WhoOK, EndedIsOver, Excused
  <2>6. CASE Answers(f, "ok") /\ Sets(Holder[t]) /\ t \in Tokens
    <3>1. Holder[t] \in WebAccounts
      BY <2>6, SessionAssumption DEF WebAccounts
    <3>2. WhoOK' /\ EndedIsOver' /\ FlowsOK(flow', Excused')
      BY <1>1, <2>4, <2>6, <3>1, SetsOK DEF Answers
    <3> QED BY <2>3, <3>2 DEF SessionInv
  <2>7. t \in Tokens
    BY <1>0, <1>2 DEF LoadIsHonest
  <2> QED BY <2>1, <2>5, <2>6, <2>7
<1>3. CASE flow[f].at # "post"
  <2>1. cookie = None => Excused
    BY <1>0 DEF SessionInv, EndedIsOver, Excused
  <2>2. \/ Answers(f, "gone") /\ cookie = None /\ UNCHANGED <<service, over>>
        \/ Answers(f, "ok") /\ Sets(None) /\ EndsSome({t \in Tokens : Holder[t] = cookie})
        \/ Answers(f, "ok") /\ UNCHANGED <<service, over>>
        \/ /\ flow[f].at # "get" /\ cookie # None
           /\ Answers(f, cookie) /\ UNCHANGED <<service, over>>
    BY <1>3 DEF Serve
  <2>3. ScreenOK'
    BY <1>0, <1>1, <2>2, EndsSomeOK DEF ScreenOK, service
  <2>4. CASE Answers(f, "gone") /\ cookie = None /\ UNCHANGED <<service, over>>
    <3>1. FlowsOK([flow EXCEPT ![f].answer = "gone"], Excused)
      BY <2>1, <2>4, AnswersOK
    <3> QED BY <1>1, <2>3, <2>4, <3>1 DEF Answers, service, SessionInv, WhoOK, EndedIsOver, Excused
  <2>5. CASE Answers(f, "ok") /\ Sets(None)
    <3>1. FlowsOK([flow EXCEPT ![f].answer = "ok"], Excused)
      BY AnswersOK
    <3>2. WhoOK' /\ EndedIsOver' /\ FlowsOK(flow', Excused')
      BY <1>1, <2>5, <3>1, SetsOK DEF Answers, WebAccounts
    <3> QED BY <2>3, <3>2 DEF SessionInv
  <2>6. CASE Answers(f, "ok") /\ UNCHANGED <<service, over>>
    <3>1. FlowsOK([flow EXCEPT ![f].answer = "ok"], Excused)
      BY AnswersOK
    <3> QED BY <1>1, <2>3, <2>6, <3>1 DEF Answers, service, SessionInv, WhoOK, EndedIsOver, Excused
  <2>7. CASE /\ flow[f].at # "get" /\ cookie # None
             /\ Answers(f, cookie) /\ UNCHANGED <<service, over>>
    <3>1. cookie \in Accounts /\ flow[f].kind # "load"
      BY <1>0, <2>7 DEF WhoOK, WebAccounts, LoadIsHonest
    <3>2. FlowsOK([flow EXCEPT ![f].answer = cookie], Excused)
      BY <3>1, AnswersOK
    <3> QED BY <1>1, <2>3, <2>7, <3>2 DEF Answers, service, SessionInv, WhoOK, EndedIsOver, Excused
  <2> QED BY <2>2, <2>4, <2>5, <2>6, <2>7
<1> QED BY <1>2, <1>3

(* The rest of the service and the network.                                 *)
LEMMA NetworkInv ==
  ASSUME SessionInv, NEW f \in Flows, visible' = visible,
         PopupSignsIn(f) \/ RequestLost(f) \/ WindowEnds(f)
  PROVE  SessionInv'
<1>0. ScreenOK
  BY DEF SessionInv
<1>1. CASE PopupSignsIn(f)
  <2>1. ScreenOK'
    BY <1>0, <1>1 DEF PopupSignsIn, ScreenOK, spinners, dialog
  <2>2. flow[f].kind = "load" /\ "ok" = "gone" => Excused
    OBVIOUS
  <2>3. FlowsOK([flow EXCEPT ![f].answer = "ok"], Excused)
    BY AnswersOK
  <2>4. PICK a \in Accounts \ Silicons : Sets(a)
    BY <1>1 DEF PopupSignsIn
  <2>5. WhoOK' /\ EndedIsOver' /\ FlowsOK(flow', Excused')
    BY <1>1, <2>3, <2>4, SetsOK DEF PopupSignsIn, Answers, WebAccounts
  <2> QED BY <2>1, <2>5 DEF SessionInv
<1>2. CASE RequestLost(f) \/ WindowEnds(f)
  <2>1. ScreenOK' /\ UNCHANGED <<identity, cookie, over, settling>>
    BY <1>0, <1>2 DEF RequestLost, WindowEnds, ScreenOK, spinners, dialog, service
  <2>2. FlowsOK([flow EXCEPT ![f].answer = "failed"], Excused)
    BY AnswersOK
  <2>3. flow' = [flow EXCEPT ![f].answer = "failed"]
    BY <1>2 DEF RequestLost, WindowEnds, Answers
  <2> QED BY <2>1, <2>2, <2>3 DEF SessionInv, WhoOK, EndedIsOver, Excused
<1> QED BY <1>1, <1>2

LEMMA PopupBlockedInv ==
  ASSUME SessionInv, NEW f \in Flows, visible' = visible, PopupBlocked(f)
  PROVE  SessionInv'
<1>1. ScreenOK'
  BY DisturbOK, ForgottenOK DEF PopupBlocked, ScreenOK, SessionInv
<1>2. WhoOK' /\ EndedIsOver'
  BY DEF PopupBlocked, SessionInv, WhoOK, EndedIsOver, Excused, WebAccounts
<1>3. FlowsOK(flow', Excused')
  <2>1. Excused' = TRUE /\ FlowsOK(flow', TRUE)
    BY FirstFlowOK DEF PopupBlocked, Excused
  <2> QED BY <2>1
<1> QED BY <1>1, <1>2, <1>3 DEF SessionInv

(* What users and other tabs do besides.                                    *)
LEMMA OthersInv ==
  ASSUME SessionInv, visible' = visible,
         \/ \E asSilicon \in BOOLEAN : OpenLogin(asSilicon)
         \/ CloseLogin \/ IdentityExpires \/ SessionChanged \/ DismissError \/ CookieChanges
  PROVE  SessionInv'
<1>0. ScreenOK /\ FlowsOK(flow, Excused) /\ None \in WebAccounts
  BY DEF SessionInv, WebAccounts
<1>1. ASSUME NEW asSilicon \in BOOLEAN, OpenLogin(asSilicon) PROVE SessionInv'
  <2>1. ScreenOK'
    BY <1>0, <1>1, DisturbOK DEF OpenLogin, ScreenOK, spinners, service
  <2> QED BY <1>1, <2>1 DEF OpenLogin, service, SessionInv, WhoOK, EndedIsOver, Excused
<1>2. CASE CloseLogin
  <2>1. ScreenOK'
    BY <1>0, <1>2, DisturbOK, ForgottenOK DEF CloseLogin, ScreenOK, spinners
  <2>2. FlowsOK(flow', Excused)
    BY <1>0, <1>2, ForgetOK DEF CloseLogin, SessionInv, WhoOK
  <2> QED BY <1>2, <2>1, <2>2 DEF CloseLogin, SessionInv, WhoOK, EndedIsOver, Excused
<1>3. CASE IdentityExpires
  <2>1. ScreenOK'
    BY <1>0, <1>3, DisturbOK DEF IdentityExpires, ScreenOK, spinners, dialog, service
  <2>2. WhoOK' /\ EndedIsOver' /\ FlowsOK(flow', Excused')
    BY <1>0, <1>3, ShowsAccountOK DEF IdentityExpires, service
  <2> QED BY <2>1, <2>2 DEF SessionInv
<1>4. CASE DismissError
  <2>1. ScreenOK'
    BY <1>0, <1>4, DisturbOK DEF DismissError, ScreenOK, spinners, dialog, service
  <2> QED BY <1>4, <2>1 DEF DismissError, service, SessionInv, WhoOK, EndedIsOver, Excused
<1>5. CASE CookieChanges
  <2>1. ScreenOK'
    BY <1>0, <1>5, DisturbOK, EndsSomeOK DEF CookieChanges, ScreenOK, spinners, dialog
  <2>2. WhoOK' /\ EndedIsOver' /\ FlowsOK(flow', Excused')
    BY <1>0, <1>5, SetsOK DEF CookieChanges
  <2> QED BY <2>1, <2>2 DEF SessionInv
<1>6. CASE SessionChanged
  BY <1>6, SessionChangedInv
<1> QED BY <1>1, <1>2, <1>3, <1>4, <1>5, <1>6

LEMMA SessionStepInv == SessionInv /\ [SessionNext]_<<sessionVars, visible>> => SessionInv'
<1> SUFFICES ASSUME SessionInv, [SessionNext]_<<sessionVars, visible>> PROVE SessionInv'
  OBVIOUS
<1>1. CASE SessionNext
  <2>1. visible' = visible
    BY <1>1 DEF SessionNext
  <2> QED
    BY <1>1, <2>1, StartsInv, ContinuesInv, ServeInv, NetworkInv, PopupBlockedInv, OthersInv
    DEF SessionNext, SessionStep
<1>2. CASE UNCHANGED <<sessionVars, visible>>
  BY <1>2 DEF sessionVars, spinners, dialog, service, SessionInv, ScreenOK, WhoOK, EndedIsOver, Excused
<1> QED BY <1>1, <1>2

LEMMA SessionAlwaysInv == SessionSpec => []SessionInv
<1>1. WebVarsInit /\ SessionInit => SessionInv
  BY SessionInitInv
<1>2. SessionInv /\ [SessionNext]_<<sessionVars, visible>> => SessionInv'
  BY SessionStepInv
<1> QED BY <1>1, <1>2, PTL DEF SessionSpec

(* The state of the screens and of the requests under way has its types:    *)
(* every answer and every change of identity in workspace.tsx keeps them.   *)
THEOREM SessionTypes == SessionSpec => []SessionTypeOK
<1>1. SessionInv => SessionTypeOK
  BY SessionIsTyped
<1> QED BY <1>1, SessionAlwaysInv, PTL

(* A 401 to a list that was asked for under an earlier identity ends        *)
(* nothing: sessionGeneration in api.ts lets only one pass that follows the *)
(* end of the session shown, but for the moment in which a new identity is  *)
(* shown and the effect that counts it has not run.                         *)
THEOREM LateListAnswers == SessionSpec => LateListAnswersEndNothing
<1>1. SessionInv /\ [SessionNext]_<<sessionVars, visible>>
        => [(\E f \in Flows : LoadAnswered(f)) /\ identity' # identity => over \/ settling]_sessionVars
  <2> SUFFICES ASSUME SessionInv, NEW f \in Flows, LoadAnswered(f), identity' # identity
      PROVE  over \/ settling
    OBVIOUS
  <2>1. flow[f].kind = "load" /\ Expires(f)
    BY DEF LoadAnswered, Keeps
  <2> QED BY <2>1 DEF Expires, SessionInv, FlowsOK, LoadsAreHonest, LoadIsHonest, Excused
<1> QED BY <1>1, SessionAlwaysInv, PTL DEF SessionSpec, LateListAnswersEndNothing

(***************************************************************************)
(* The inbox list.                                                         *)
(***************************************************************************)
ListRequests ==
  [of : Wanted \cup {None}, more : BOOLEAN, fresh : BOOLEAN,
   answer : Pages \cup {None, Gone, Refused}]
ListStates ==
  [items : Seq(Pages), cursor : (2..LastPage) \cup {None}, loading : BOOLEAN, error : BOOLEAN,
   asked : ListRequests, missed : BOOLEAN]

(* What is on screen is a beginning of one account's list for the path p.   *)
Begins(l, p) ==
  /\ l \in ListStates
  /\ \A i \in DOMAIN l.items :
       l.items[i].page = i /\ l.items[i].path = p /\ l.items[i].of = l.items[1].of
  /\ l.cursor # None => l.cursor = Len(l.items) + 1

(* The request under way is for its first page or for the next one, with    *)
(* the account of those before it, and so is the answer.                    *)
Continuing(l) ==
  {got \in Pages : /\ got.page = l.asked.of.page /\ got.path = l.asked.of.path
                   /\ l.asked.more => got.of = l.asked.of.holder}
AsksRight(l, p) ==
  /\ l.asked.of # None =>
       /\ l.asked.of.path = p
       /\ l.asked.of.page = IF l.asked.more THEN Len(l.items) + 1 ELSE 1
       /\ l.asked.more => Len(l.items) >= 1 /\ l.asked.of.holder = l.items[1].of
  /\ l.asked.answer # None => l.asked.of # None
  /\ l.asked.answer \in Pages \ {None} =>
       l.asked.answer \in Continuing(l)

PagesOK(l, p) == Begins(l, p) /\ AsksRight(l, p)

Versions == [Accounts -> 0..MaxVersion]

ListInv ==
  /\ cookie \in WebAccounts /\ version \in Versions /\ path \in Paths /\ shown \in BOOLEAN
  /\ PagesOK(list, path)
  /\ ~shown => list = NoList

LEMMA DefaultIsPath == DefaultPath \in Paths
BY InboxListAssumption DEF DefaultPath

LEMMA GoneIsNoPage == Gone \notin Pages /\ Refused \notin Pages
BY InboxListAssumption DEF Gone, Refused, Status, Pages

LEMMA NoRequestOK == NoRequest \in ListRequests
BY DEF NoRequest, ListRequests

LEMMA NoListOK == ASSUME NEW p PROVE PagesOK(NoList, p)
<1>1. <<>> \in Seq(Pages) /\ Len(<<>>) = 0 /\ DOMAIN <<>> = {}
  OBVIOUS
<1>2. NoList \in ListStates /\ NoList.items = <<>> /\ NoList.cursor = None /\ NoList.asked = NoRequest
  BY <1>1, NoRequestOK DEF NoList, ListStates
<1>3. NoRequest.of = None /\ NoRequest.answer = None
  BY DEF NoRequest
<1>4. Begins(NoList, p)
  BY <1>1, <1>2 DEF Begins
<1> QED BY <1>2, <1>3, <1>4 DEF PagesOK, AsksRight

------------------------------------------------------------------------------
(* What the operations do to a list.                                        *)

LEMMA LoadingOK ==
  ASSUME NEW l, NEW p \in Paths, NEW more \in BOOLEAN, Begins(l, p), more => l.cursor # None
  PROVE  PagesOK(Loading(l, p, more), p)
<1> DEFINE on == more /\ l.cursor # None
           of == [path |-> p, page |-> IF on THEN l.cursor ELSE 1,
                  holder |-> IF on THEN l.items[Len(l.items)].of ELSE None]
           r == [of |-> of, more |-> more, fresh |-> TRUE, answer |-> None]
           n == [l EXCEPT !.loading = TRUE, !.error = FALSE, !.asked = r]
<1>0. l \in ListStates /\ l.items \in Seq(Pages) /\ Len(l.items) \in Nat
  BY DEF Begins, ListStates
<1>1. on => /\ l.cursor \in 2..LastPage /\ l.cursor = Len(l.items) + 1 /\ Len(l.items) >= 1
            /\ l.items[Len(l.items)] \in Pages /\ l.items[Len(l.items)].of = l.items[1].of
  BY <1>0 DEF Begins, ListStates
<1>2. r \in ListRequests
  <2>1. of \in Wanted
    BY <1>1, InboxListAssumption DEF Wanted, Pages, WebAccounts
  <2> QED BY <2>1 DEF ListRequests
<1>3. /\ n \in ListStates /\ n.items = l.items /\ n.cursor = l.cursor /\ n.asked = r
  BY <1>0, <1>2 DEF ListStates
<1>4. Begins(n, p)
  BY <1>3 DEF Begins
<1>5. AsksRight(n, p)
  BY <1>1, <1>3 DEF AsksRight
<1> QED BY <1>4, <1>5 DEF Loading, PagesOK

LEMMA RestartedOK ==
  ASSUME NEW l, NEW q, NEW p \in Paths, NEW keep \in BOOLEAN, Begins(l, q), keep => p = q
  PROVE  PagesOK(Restarted(l, p, keep), p)
<1> DEFINE n == [l EXCEPT !.items = IF keep THEN @ ELSE <<>>, !.cursor = None, !.missed = keep /\ @]
<1>0. <<>> \in Seq(Pages) /\ DOMAIN <<>> = {}
  OBVIOUS
<1>1. n \in ListStates /\ n.items = (IF keep THEN l.items ELSE <<>>) /\ n.cursor = None
  BY <1>0 DEF Begins, ListStates
<1>2. Begins(n, p)
  BY <1>0, <1>1 DEF Begins
<1> HIDE DEF n
<1>3. PagesOK(Loading(n, p, FALSE), p)
  BY <1>2, LoadingOK
<1> QED BY <1>3 DEF Restarted, n

LEMMA WithIdentityOK ==
  ASSUME NEW l, NEW p, PagesOK(l, p)
  PROVE  PagesOK(WithIdentity(l), p)
<1> DEFINE r == [l.asked EXCEPT !.fresh = FALSE]
           n == [l EXCEPT !.asked = r]
<1>1. r \in ListRequests /\ r.of = l.asked.of /\ r.more = l.asked.more /\ r.answer = l.asked.answer
  BY DEF PagesOK, Begins, ListStates, ListRequests
<1>2. n \in ListStates /\ n.items = l.items /\ n.cursor = l.cursor /\ n.asked = r
  BY <1>1 DEF PagesOK, Begins, ListStates
<1>3. WithIdentity(l) = n
  BY DEF WithIdentity
<1> HIDE DEF n, r
<1>4. Begins(n, p)
  BY <1>2 DEF PagesOK, Begins
<1>5. AsksRight(n, p)
  BY <1>1, <1>2 DEF PagesOK, AsksRight, Continuing
<1> QED BY <1>3, <1>4, <1>5 DEF PagesOK

LEMMA FailedOK ==
  ASSUME NEW l, NEW p, PagesOK(l, p)
  PROVE  PagesOK(Failed(l), p)
<1>1. /\ Failed(l) \in ListStates /\ Failed(l).items = l.items /\ Failed(l).cursor = l.cursor
      /\ Failed(l).asked = NoRequest
  <2>1. NoRequest \in ListRequests
    BY NoRequestOK
  <2> QED BY <2>1 DEF Failed, PagesOK, Begins, ListStates
<1>2. Begins(Failed(l), p)
  BY <1>1 DEF PagesOK, Begins
<1>3. NoRequest.of = None /\ NoRequest.answer = None
  BY DEF NoRequest
<1> QED BY <1>1, <1>2, <1>3 DEF PagesOK, AsksRight

LEMMA ReceivedOK ==
  ASSUME NEW l, NEW p, PagesOK(l, p), l.asked.answer \notin {None, Gone, Refused}
  PROVE  PagesOK(Received(l), p)
<1> DEFINE got == l.asked.answer
           items == IF l.asked.more THEN Append(l.items, got) ELSE <<got>>
           cursor == IF got.page < LastPage THEN got.page + 1 ELSE None
<1>0. l \in ListStates /\ l.asked \in ListRequests /\ l.items \in Seq(Pages) /\ Len(l.items) \in Nat
  BY DEF PagesOK, Begins, ListStates
<1>1. got \in Pages
  BY <1>0 DEF ListRequests
<1>2. got.page \in 1..LastPage
  BY <1>1 DEF Pages
<1>3. /\ got.path = p /\ got.page = IF l.asked.more THEN Len(l.items) + 1 ELSE 1
      /\ l.asked.more => Len(l.items) >= 1 /\ got.of = l.items[1].of
  BY <1>1 DEF PagesOK, AsksRight, Continuing
<1>4. items \in Seq(Pages) /\ Len(items) = got.page
  BY <1>0, <1>1, <1>3
<1>5. ASSUME NEW i \in DOMAIN items
      PROVE  items[i].page = i /\ items[i].path = p /\ items[i].of = items[1].of
  <2>1. CASE l.asked.more
    <3>1. i \in 1..Len(l.items) \/ i = Len(l.items) + 1
      BY <1>0, <1>1, <2>1
    <3>2. CASE i \in 1..Len(l.items)
      BY <1>0, <1>1, <2>1, <3>2 DEF PagesOK, Begins
    <3>3. CASE i = Len(l.items) + 1
      BY <1>0, <1>1, <1>3, <2>1, <3>3
    <3> QED BY <3>1, <3>2, <3>3
  <2>2. CASE ~l.asked.more
    BY <1>3, <2>2
  <2> QED BY <2>1, <2>2
<1>6. cursor \in (2..LastPage) \cup {None} /\ (cursor # None => cursor = Len(items) + 1)
  BY <1>2, <1>4, InboxListAssumption
<1>7. /\ Received(l) \in ListStates /\ Received(l).items = items /\ Received(l).cursor = cursor
      /\ Received(l).asked = NoRequest
  <2>1. /\ Received(l) = [l EXCEPT !.items = items, !.cursor = cursor, !.loading = FALSE,
                                   !.missed = @ /\ l.asked.more, !.asked = NoRequest]
    BY DEF Received
  <2> HIDE DEF items, cursor
  <2> QED BY <1>0, <1>4, <1>6, <2>1, NoRequestOK DEF ListStates
<1> HIDE DEF items, cursor
<1>8. Begins(Received(l), p)
  BY <1>5, <1>6, <1>7 DEF Begins
<1>9. NoRequest.of = None /\ NoRequest.answer = None
  BY DEF NoRequest
<1> QED BY <1>7, <1>8, <1>9 DEF PagesOK, AsksRight

(* The service's answer is a page of what was asked for.                    *)
LEMMA AnswerOK ==
  ASSUME NEW l, NEW p, PagesOK(l, p), l.asked.of # None,
         NEW answer \in Continuing(l) \cup {Gone, Refused}
  PROVE  PagesOK([l EXCEPT !.asked.answer = answer], p)
<1> DEFINE r == [l.asked EXCEPT !.answer = answer]
           n == [l EXCEPT !.asked = r]
<1>1. r \in ListRequests /\ r.of = l.asked.of /\ r.more = l.asked.more /\ r.answer = answer
  BY DEF PagesOK, Begins, ListStates, ListRequests, Continuing
<1>2. n \in ListStates /\ n.items = l.items /\ n.cursor = l.cursor /\ n.asked = r
  BY <1>1 DEF PagesOK, Begins, ListStates
<1>3. [l EXCEPT !.asked.answer = answer] = n
  OBVIOUS
<1> HIDE DEF n, r
<1>4. Begins(n, p)
  BY <1>2 DEF PagesOK, Begins
<1>5. AsksRight(n, p)
  BY <1>1, <1>2, GoneIsNoPage DEF PagesOK, AsksRight, Continuing
<1> QED BY <1>3, <1>4, <1>5 DEF PagesOK

------------------------------------------------------------------------------
(* The invariant.                                                           *)

LEMMA ListInitInv == WebVarsInit /\ InboxListInit => ListInv
<1> SUFFICES ASSUME WebVarsInit, InboxListInit PROVE ListInv
  OBVIOUS
<1>1. path \in Paths
  BY DefaultIsPath DEF InboxListInit, DefaultPath
<1>2. version \in Versions
  BY InboxListAssumption DEF InboxListInit, Versions
<1> QED BY <1>1, <1>2, NoListOK DEF ListInv, InboxListInit, WebVarsInit

(* Steps that leave the inbox page as it is.                                *)
LEMMA SameListInv ==
  ASSUME ListInv, UNCHANGED <<shown, path, list>>, cookie' \in WebAccounts, version' \in Versions
  PROVE  ListInv'
BY DEF ListInv, PagesOK, Begins, AsksRight

(* Steps that change a list on screen into one that is right.               *)
LEMMA NewListInv ==
  ASSUME ListInv, cookie' \in WebAccounts, version' \in Versions, path' \in Paths,
         shown' = TRUE, NEW l, PagesOK(l, path'), list' = l
  PROVE  ListInv'
BY DEF ListInv, PagesOK, Begins, AsksRight

(* Steps after which there is no inbox page.                                *)
LEMMA NoListInv ==
  ASSUME ListInv, cookie' \in WebAccounts, version' \in Versions, path' \in Paths,
         shown' = FALSE, list' = NoList
  PROVE  ListInv'
BY NoListOK DEF ListInv

LEMMA MountedOK == PagesOK(Mounted, DefaultPath) /\ PagesOK(WithIdentity(Mounted), DefaultPath)
<1>1. PagesOK(Mounted, DefaultPath)
  BY NoListOK, DefaultIsPath, RestartedOK DEF Mounted, PagesOK
<1> QED BY <1>1, WithIdentityOK

(* A hint, a retry or a returning tab loads the list from its beginning.    *)
LEMMA PulseInv ==
  ASSUME ListInv, UNCHANGED <<shown, path>>, cookie' \in WebAccounts, version' \in Versions, Pulse
  PROVE  ListInv'
<1>1. CASE shown
  <2>1. PagesOK(Loading(list, path, FALSE), path)
    BY LoadingOK DEF ListInv, PagesOK
  <2> QED BY <1>1, <2>1, NewListInv DEF Pulse, ListInv
<1>2. CASE ~shown
  BY <1>2, SameListInv DEF Pulse
<1> QED BY <1>1, <1>2

LEMMA SignedOutInv ==
  ASSUME ListInv, SignedOut, UNCHANGED <<path, version>>, cookie' \in WebAccounts
  PROVE  ListInv'
BY NoListInv DEF SignedOut, ListInv

LEMMA ListUserInv ==
  ASSUME ListInv,
         \/ UserReloads \/ LoadMore \/ Revise \/ ServeList \/ ListFails \/ ListAnswered
         \/ \E p \in Paths : SetFilter(p)
  PROVE  ListInv'
<1>0. /\ PagesOK(list, path) /\ Begins(list, path) /\ path \in Paths
      /\ cookie \in WebAccounts /\ version \in Versions /\ (list.asked.of # None => shown)
  BY DEF ListInv, PagesOK, NoList, NoRequest
<1>1. CASE UserReloads
  BY <1>0, <1>1, PulseInv DEF UserReloads, ReloadList, Pulse
<1>2. CASE LoadMore
  <2>1. PagesOK(Loading(list, path, TRUE), path)
    BY <1>0, <1>2, LoadingOK DEF LoadMore
  <2> QED BY <1>0, <1>2, <2>1, NewListInv DEF LoadMore, ListInv
<1>3. CASE Revise
  <2>1. PagesOK(Restarted(list, path, TRUE), path)
    BY <1>0, RestartedOK
  <2> QED BY <1>0, <1>3, <2>1, NewListInv DEF Revise
<1>4. CASE ServeList
  <2> DEFINE want == list.asked.of
             answer == CASE cookie = None -> Gone
                         [] cookie # None /\ want.holder \notin {None, cookie} -> Refused
                         [] OTHER -> [page |-> want.page, path |-> want.path, of |-> cookie,
                                      version |-> version[cookie]]
  <2>1. list.asked.of # None /\ shown
    BY <1>0, <1>4 DEF ServeList
  <2>2. want \in Wanted /\ list.asked.more \in BOOLEAN
    BY <1>0, <2>1 DEF Begins, ListStates, ListRequests
  <2>3. list.asked.more => want.holder # None
    <3>1. list.asked.more => Len(list.items) >= 1 /\ want.holder = list.items[1].of
      BY <1>0, <2>1 DEF PagesOK, AsksRight
    <3>2. list.items \in Seq(Pages) /\ Len(list.items) \in Nat
      BY <1>0 DEF Begins, ListStates
    <3>3. Len(list.items) >= 1 => list.items[1] \in Pages
      BY <3>2
    <3>4. \A got \in Pages : got.of # None
      BY WebAssumption DEF Pages
    <3> QED BY <3>1, <3>3, <3>4
  <2>4. answer \in Continuing(list) \cup {Gone, Refused}
    <3>1. CASE cookie # None /\ want.holder \in {None, cookie}
      <4> DEFINE got == [page |-> want.page, path |-> want.path, of |-> cookie, version |-> version[cookie]]
      <4>1. got \in Pages
        BY <1>0, <2>2, <3>1 DEF Pages, Wanted, WebAccounts, Versions
      <4>2. got \in Continuing(list)
        BY <2>3, <3>1, <4>1 DEF Continuing
      <4> QED BY <3>1, <4>2
    <3>2. CASE cookie = None \/ want.holder \notin {None, cookie}
      BY <3>2
    <3> QED BY <3>1, <3>2
  <2>5. list' = [list EXCEPT !.asked.answer = answer]
    BY <1>4 DEF ServeList
  <2> HIDE DEF answer
  <2>6. PagesOK([list EXCEPT !.asked.answer = answer], path)
    BY <1>0, <2>1, <2>4, AnswerOK
  <2> QED BY <1>0, <1>4, <2>1, <2>5, <2>6, NewListInv DEF ServeList
<1>5. CASE ListFails
  <2>1. shown /\ PagesOK(Failed(list), path)
    BY <1>0, <1>5, FailedOK DEF ListFails
  <2> QED BY <1>0, <1>5, <2>1, NewListInv DEF ListFails
<1>6. CASE ListAnswered
  <2>1. shown
    BY <1>0, <1>6 DEF ListAnswered, PagesOK, AsksRight
  <2>2. CASE SignedOut
    BY <1>0, <1>6, <2>2, SignedOutInv DEF ListAnswered
  <2>3. CASE list.asked.answer \in {Gone, Refused} /\ list' = Failed(list) /\ UNCHANGED shown
    <3>1. PagesOK(Failed(list), path)
      BY <1>0, FailedOK
    <3> QED BY <1>0, <1>6, <2>1, <2>3, <3>1, NewListInv DEF ListAnswered
  <2>4. CASE list.asked.answer \notin {Gone, Refused} /\ list' = Received(list) /\ UNCHANGED shown
    <3>1. PagesOK(Received(list), path)
      BY <1>0, <1>6, <2>4, ReceivedOK DEF ListAnswered
    <3> QED BY <1>0, <1>6, <2>1, <2>4, <3>1, NewListInv DEF ListAnswered
  <2> QED BY <1>6, <2>2, <2>3, <2>4 DEF ListAnswered
<1>7. ASSUME NEW p \in Paths, SetFilter(p) PROVE ListInv'
  <2>1. PagesOK(Restarted(list, p, FALSE), p)
    BY <1>0, RestartedOK
  <2> QED BY <1>0, <1>7, <2>1, NewListInv DEF SetFilter, ListInv
<1> QED BY <1>1, <1>2, <1>3, <1>4, <1>5, <1>6, <1>7

LEMMA IdentityInv ==
  ASSUME ListInv,
         (\E a \in Accounts : SignIn(a)) \/ ReplaceIdentity \/ SignOut \/ Navigate
  PROVE  ListInv'
<1>0. /\ PagesOK(list, path) /\ Begins(list, path) /\ path \in Paths /\ shown \in BOOLEAN
      /\ cookie \in WebAccounts /\ version \in Versions /\ (~shown => list = NoList)
  BY DEF ListInv, PagesOK
<1>1. ASSUME NEW a \in Accounts, SignIn(a) PROVE ListInv'
  BY <1>0, <1>1, MountedOK, DefaultIsPath, NewListInv DEF SignIn, WebAccounts
<1>2. CASE ReplaceIdentity
  <2>1. CASE shown
    <3>1. PagesOK(WithIdentity(Restarted(list, path, FALSE)), path)
      BY <1>0, RestartedOK, WithIdentityOK
    <3>2. list' = WithIdentity(Restarted(list, path, FALSE)) /\ shown' = TRUE /\ path' = path
      BY <1>0, <1>2, <2>1 DEF ReplaceIdentity
    <3> QED BY <1>0, <1>2, <3>1, <3>2, NewListInv DEF ReplaceIdentity
  <2>2. CASE ~shown /\ shown'
    <3>1. list' = WithIdentity(Mounted) /\ path' = DefaultPath /\ shown' = TRUE
      BY <1>0, <1>2, <2>2 DEF ReplaceIdentity
    <3> QED BY <1>0, <1>2, <3>1, MountedOK, DefaultIsPath, NewListInv DEF ReplaceIdentity
  <2>3. CASE ~shown /\ ~shown'
    <3>1. list' = list /\ path' = DefaultPath /\ shown' = FALSE
      BY <1>0, <1>2, <2>3 DEF ReplaceIdentity
    <3> QED BY <1>0, <1>2, <2>3, <3>1, DefaultIsPath, NoListInv DEF ReplaceIdentity
  <2> QED BY <2>1, <2>2, <2>3
<1>3. CASE SignOut
  BY <1>3, SignedOutInv DEF SignOut, WebAccounts
<1>4. CASE Navigate
  <2>1. CASE shown
    BY <1>0, <1>4, <2>1, DefaultIsPath, NoListInv DEF Navigate
  <2>2. CASE ~shown
    BY <1>0, <1>4, <2>2, MountedOK, DefaultIsPath, NewListInv DEF Navigate
  <2> QED BY <2>1, <2>2
<1> QED BY <1>1, <1>2, <1>3, <1>4

LEMMA WatchInv ==
  ASSUME ListInv,
         \/ Handshake \/ SocketCloses \/ ReconnectFires \/ ReceiveFrame \/ ServeWatch
         \/ PauseWatch \/ (\E a \in Accounts : InboxChanges(a)) \/ OtherTab \/ Visibility
  PROVE  ListInv'
<1>0. cookie \in WebAccounts /\ version \in Versions
  BY DEF ListInv
<1>1. CASE Handshake \/ SocketCloses \/ ReconnectFires \/ ServeWatch \/ PauseWatch
  BY <1>0, <1>1, SameListInv DEF Handshake, SocketCloses, ReconnectFires, ServeWatch, PauseWatch
<1>2. CASE ReceiveFrame
  <2>1. UNCHANGED <<cookie, path, version>>
    BY <1>2 DEF ReceiveFrame
  <2>2. \/ UNCHANGED <<shown, list>> \/ (Pulse /\ UNCHANGED shown) \/ SignedOut
    BY <1>2 DEF ReceiveFrame
  <2> QED BY <1>0, <2>1, <2>2, SameListInv, PulseInv, SignedOutInv
<1>3. ASSUME NEW a \in Accounts, InboxChanges(a) PROVE ListInv'
  <2>1. version' \in Versions /\ UNCHANGED <<cookie, shown, path, list>>
    BY <1>0, <1>3, InboxListAssumption DEF InboxChanges, Versions
  <2> QED BY <1>0, <2>1, SameListInv
<1>4. CASE OtherTab
  BY <1>0, <1>4, SameListInv DEF OtherTab
<1>5. CASE Visibility
  <2>1. Pulse \/ UNCHANGED list
    BY <1>5 DEF Visibility, Pulse
  <2> QED BY <1>0, <1>5, <2>1, SameListInv, PulseInv DEF Visibility
<1> QED BY <1>1, <1>2, <1>3, <1>4, <1>5

LEMMA ListStepInv == ListInv /\ [InboxListNext]_inboxListVars => ListInv'
<1> SUFFICES ASSUME ListInv, [InboxListNext]_inboxListVars PROVE ListInv'
  OBVIOUS
<1>1. CASE InboxListNext
  BY <1>1, ListUserInv, IdentityInv, WatchInv DEF InboxListNext
<1>2. CASE UNCHANGED inboxListVars
  BY <1>2, SameListInv DEF inboxListVars, ListInv
<1> QED BY <1>1, <1>2

(* However reloads, filters, hints, retries and late answers overlap, the   *)
(* list of inbox.tsx is a beginning of one account's list and "Load more"   *)
(* goes on with the page after it.                                          *)
THEOREM PagesAlwaysContinue == InboxListSpec => []PagesContinue
<1>1. WebVarsInit /\ InboxListInit => ListInv
  BY ListInitInv
<1>2. ListInv /\ [InboxListNext]_inboxListVars => ListInv'
  BY ListStepInv
<1>3. ListInv => PagesContinue
  BY DEF ListInv, PagesOK, Begins, PagesContinue
<1> QED BY <1>1, <1>2, <1>3, PTL DEF InboxListSpec

(* The watch: who is shown, the socket at both ends and the word for it.    *)
Watches ==
  [socket : {"none", "connecting", "open", "closed"}, timer : {"none", "connect", "watch"}]
Servers ==
  [of : WebAccounts, ended : BOOLEAN, watching : BOOLEAN, asked : BOOLEAN, frames : Seq(Frames)]
Words == {"offline", "connecting", "live", "reconnecting", "paused"}

WatchOK ==
  /\ identity \in WebAccounts /\ visible \in BOOLEAN /\ happened \in Nat
  /\ watch \in Watches /\ connection \in Words /\ server \in Servers

LEMMA ListIsTyped == ListInv /\ WatchOK => InboxListTypeOK
<1> SUFFICES ASSUME ListInv, WatchOK PROVE InboxListTypeOK
  OBVIOUS
<1>1. list \in ListStates /\ path \in Paths /\ shown \in BOOLEAN
  BY DEF ListInv, PagesOK, Begins
<1>2. /\ \A i \in DOMAIN list.items : list.items[i] \in Pages
      /\ list.cursor \in (2..LastPage) \cup {None}
      /\ list.loading \in BOOLEAN /\ list.error \in BOOLEAN /\ list.missed \in BOOLEAN
      /\ list.asked \in ListRequests
  BY <1>1 DEF ListStates
<1>3. /\ server.of \in WebAccounts /\ server.ended \in BOOLEAN
      /\ server.watching \in BOOLEAN /\ server.asked \in BOOLEAN /\ server.frames \in Seq(Frames)
  BY DEF WatchOK, Servers
<1>4. \A i \in DOMAIN server.frames : server.frames[i] \in Frames
  BY <1>3
<1>5. WebVarsOK /\ version \in Versions /\ watch \in Watches /\ connection \in Words
  BY DEF WatchOK, ListInv, WebVarsOK
<1> QED BY <1>1, <1>2, <1>3, <1>4, <1>5 DEF InboxListTypeOK, ListRequests, Watches, Words, Versions

LEMMA NoWatchOK == NoWatch \in Watches /\ NoServer \in Servers
BY DEF NoWatch, NoServer, Watches, Servers, WebAccounts

LEMMA WatchInitOK == WebVarsInit /\ InboxListInit => WatchOK
BY NoWatchOK DEF WebVarsInit, InboxListInit, WatchOK, Words, WebAccounts

LEMMA SendOK == ASSUME NEW s \in Servers, NEW word \in Frames PROVE Send(s, word) \in Servers
<1>1. Append(s.frames, word) \in Seq(Frames)
  BY DEF Servers
<1> QED BY <1>1 DEF Send, Servers

LEMMA HappensCounts == ASSUME happened \in Nat, Happens(MaxHappened) PROVE happened' \in Nat
BY DEF Happens

(* Steps of the page that leave the watch alone.                            *)
LEMMA WatchStays ==
  ASSUME WatchOK, UNCHANGED <<watch, connection, server>>, identity' \in WebAccounts,
         visible' \in BOOLEAN, happened' = happened \/ Happens(MaxHappened)
  PROVE  WatchOK'
BY HappensCounts DEF WatchOK

LEMMA WatchChanges ==
  ASSUME WatchOK, identity' \in WebAccounts, visible' = visible,
         happened' = happened \/ Happens(MaxHappened),
         watch' \in Watches, connection' \in Words, server' \in Servers
  PROVE  WatchOK'
BY HappensCounts DEF WatchOK

LEMMA SignedOutWatch ==
  ASSUME SignedOut
  PROVE  identity' \in WebAccounts /\ watch' \in Watches /\ connection' \in Words /\ server' \in Servers
BY NoWatchOK DEF SignedOut, Words, WebAccounts

LEMMA ConnectOK == Connect => watch' \in Watches /\ connection' \in Words
BY DEF Connect, Watches, Words

LEMMA ReceiveFrameWatch == ASSUME WatchOK, ReceiveFrame PROVE WatchOK'
<1> DEFINE rest == [server EXCEPT !.frames = Tail(@)]
           word == Head(server.frames)
<1>1. /\ server \in Servers /\ server.frames # <<>> /\ UNCHANGED <<visible, happened>>
      /\ watch \in Watches /\ connection \in Words /\ identity \in WebAccounts
  BY DEF ReceiveFrame, WatchOK
<1>2. rest \in Servers
  <2>1. Tail(server.frames) \in Seq(Frames)
    BY <1>1 DEF Servers
  <2> QED BY <1>1, <2>1 DEF Servers
<1>3. \/ SignedOut
      \/ /\ server' \in {rest, [rest EXCEPT !.asked = TRUE]} /\ UNCHANGED identity
         /\ watch' \in {watch, [watch EXCEPT !.timer = "watch"]} /\ connection' \in {connection} \cup Words
  BY DEF ReceiveFrame, Retrying, Words
<1>4. [rest EXCEPT !.asked = TRUE] \in Servers /\ [watch EXCEPT !.timer = "watch"] \in Watches
  <2> HIDE DEF rest
  <2> QED BY <1>1, <1>2 DEF Servers, Watches
<1> HIDE DEF rest
<1> QED BY <1>1, <1>2, <1>3, <1>4, SignedOutWatch, WatchChanges

LEMMA SocketWatch ==
  ASSUME WatchOK, cookie \in WebAccounts, Handshake \/ SocketCloses \/ ReconnectFires
  PROVE  WatchOK'
<1>0. /\ server \in Servers /\ watch \in Watches /\ connection \in Words /\ identity \in WebAccounts
      /\ NoServer \in Servers
  BY NoWatchOK DEF WatchOK
<1>1. CASE Handshake
  <2>1. [watch EXCEPT !.socket = "open"] \in Watches
        /\ [socket |-> "closed", timer |-> "connect"] \in Watches /\ "reconnecting" \in Words
    BY <1>0 DEF Watches, Words
  <2>2. [NoServer EXCEPT !.of = cookie, !.frames = <<"ready">>] \in Servers
    <3>1. <<"ready">> \in Seq(Frames)
      BY DEF Frames
    <3> QED BY <1>0, <3>1 DEF Servers
  <2> QED BY <1>0, <1>1, <2>1, <2>2, WatchChanges DEF Handshake
<1>2. CASE SocketCloses
  <2>1. [socket |-> "closed", timer |-> "connect"] \in Watches /\ "reconnecting" \in Words
    BY DEF Watches, Words
  <2> QED BY <1>0, <1>2, <2>1, WatchChanges DEF SocketCloses
<1>3. CASE ReconnectFires
  <2>1. [watch EXCEPT !.timer = "none"] \in Watches /\ "connecting" \in Words
        /\ [server EXCEPT !.asked = TRUE] \in Servers
    BY <1>0 DEF Watches, Words, Servers
  <2> QED BY <1>0, <1>3, <2>1, ConnectOK, WatchChanges DEF ReconnectFires
<1> QED BY <1>1, <1>2, <1>3

LEMMA ServerWatch ==
  ASSUME WatchOK,
         ServeWatch \/ PauseWatch \/ (\E a \in Accounts : InboxChanges(a)) \/ OtherTab
  PROVE  WatchOK'
<1>0. /\ server \in Servers /\ watch \in Watches /\ connection \in Words /\ identity \in WebAccounts
      /\ {"watching_inbox", "expired", "denied", "unavailable", "inbox_changed"} \subseteq Frames
  BY DEF WatchOK, Frames
<1>1. CASE ServeWatch
  <2>1. /\ [server EXCEPT !.asked = FALSE, !.watching = TRUE] \in Servers
        /\ [server EXCEPT !.asked = FALSE] \in Servers
    BY <1>0 DEF Servers
  <2>2. server' \in Servers
    BY <1>0, <1>1, <2>1, SendOK DEF ServeWatch
  <2> QED BY <1>0, <1>1, <2>2, WatchChanges DEF ServeWatch
<1>2. CASE PauseWatch
  <2>1. [server EXCEPT !.watching = FALSE] \in Servers
    BY <1>0 DEF Servers
  <2>2. server' \in Servers
    BY <1>0, <1>2, <2>1, SendOK DEF PauseWatch
  <2> QED BY <1>0, <1>2, <2>2, WatchChanges DEF PauseWatch
<1>3. ASSUME NEW a \in Accounts, InboxChanges(a) PROVE WatchOK'
  <2>1. server' \in Servers
    BY <1>0, <1>3, SendOK DEF InboxChanges
  <2> QED BY <1>0, <1>3, <2>1, WatchChanges DEF InboxChanges
<1>4. CASE OtherTab
  <2>1. [server EXCEPT !.ended = server.of # None] \in Servers
    BY <1>0 DEF Servers
  <2> QED BY <1>0, <1>4, <2>1, WatchChanges DEF OtherTab
<1> QED BY <1>1, <1>2, <1>3, <1>4

LEMMA WatchStepOK == ListInv /\ WatchOK /\ [InboxListNext]_inboxListVars => WatchOK'
<1> SUFFICES ASSUME ListInv, WatchOK, [InboxListNext]_inboxListVars PROVE WatchOK'
  OBVIOUS
<1>0. /\ cookie \in WebAccounts /\ identity \in WebAccounts /\ visible \in BOOLEAN
      /\ watch \in Watches /\ connection \in Words /\ server \in Servers /\ NoServer \in Servers
  BY NoWatchOK DEF ListInv, WatchOK
<1>1. CASE UserReloads \/ LoadMore \/ Revise \/ ServeList \/ ListFails \/ Visibility \/ Navigate
  BY <1>0, <1>1, WatchStays
     DEF UserReloads, LoadMore, Revise, ServeList, ListFails, Visibility, Navigate
<1>2. ASSUME NEW p \in Paths, SetFilter(p) PROVE WatchOK'
  BY <1>0, <1>2, WatchStays DEF SetFilter
<1>3. CASE ListAnswered
  BY <1>0, <1>3, SignedOutWatch, WatchChanges DEF ListAnswered
<1>4. ASSUME NEW a \in Accounts, SignIn(a) PROVE WatchOK'
  BY <1>0, <1>4, ConnectOK, WatchChanges DEF SignIn, WebAccounts
<1>5. CASE ReplaceIdentity
  BY <1>0, <1>5, ConnectOK, WatchChanges DEF ReplaceIdentity
<1>6. CASE SignOut
  BY <1>0, <1>6, SignedOutWatch, WatchChanges DEF SignOut
<1>7. CASE UNCHANGED inboxListVars
  BY <1>0, <1>7, WatchStays DEF inboxListVars
<1> QED BY <1>0, <1>1, <1>2, <1>3, <1>4, <1>5, <1>6, <1>7, ReceiveFrameWatch, SocketWatch, ServerWatch
        DEF InboxListNext

(* The inbox page, its list and its watch keep their types.                 *)
THEOREM InboxListTypes == InboxListSpec => []InboxListTypeOK
<1>1. WebVarsInit /\ InboxListInit => ListInv /\ WatchOK
  BY ListInitInv, WatchInitOK
<1>2. (ListInv /\ WatchOK) /\ [InboxListNext]_inboxListVars => (ListInv /\ WatchOK)'
  BY ListStepInv, WatchStepOK
<1>3. ListInv /\ WatchOK => InboxListTypeOK
  BY ListIsTyped
<1> QED BY <1>1, <1>2, <1>3, PTL DEF InboxListSpec

(***************************************************************************)
(* The drawer of a ting.                                                   *)
(***************************************************************************)
Details ==
  [drawer : {"open", "closing", "closed"}, id : Tings \cup {None},
   ting : [id : Tings \cup {None}, read : BOOLEAN], loading : BOOLEAN,
   error : BOOLEAN, pending : Tings \cup {None}]
AnswerRecords == [kind : {"none", "ok", "gone", "missing"}, read : BOOLEAN]
Fetches == [id : Tings \cup {None}, answer : AnswerRecords]
AckRecords ==
  [id : Tings, current : BOOLEAN, mine : BOOLEAN, answer : {"none", "ok", "gone", "failed"}]

(* The drawer shows the ting it was opened for; and a ting beside an error  *)
(* was painted, because only a failed acknowledgement leaves both.          *)
DetailOK(d, painted) ==
  /\ d \in Details
  /\ d.drawer = "open" => d.id \in Tings
  /\ d.ting # NoTing => d.ting.id \in Tings
  /\ d.ting # NoTing /\ d.id # None => d.ting.id = d.id
  /\ d.error /\ d.ting # NoTing => d.ting.id \in painted

(* What is being acknowledged was painted.                                  *)
AcksOK(as, painted) == as \subseteq AckRecords /\ \A ack \in as : ack.id \in painted

PageOK == identity \in WebAccounts /\ cookie \in WebAccounts /\ visible \in BOOLEAN /\ happened \in Nat
RequestsOK == fetch \in Fetches /\ frames \subseteq [id : Tings, left : 1..2]
HistoryOK ==
  read \subseteq Tings /\ seen \subseteq Tings /\ elsewhere \subseteq Tings /\ missed \in BOOLEAN

TingInv == PageOK /\ RequestsOK /\ HistoryOK /\ DetailOK(detail, seen) /\ AcksOK(acks, seen)

LEMMA TingIsTyped == TingInv => TingDetailTypeOK
BY DEF TingInv, PageOK, RequestsOK, HistoryOK, DetailOK, AcksOK, Details, AnswerRecords, Fetches,
       AckRecords, TingDetailTypeOK, WebVarsOK

LEMMA ConstantsOK ==
  /\ NoAnswer \in AnswerRecords /\ NoFetch \in Fetches
  /\ \A painted : DetailOK(Closed, painted)
  /\ Closed.ting = NoTing
<1>1. NoAnswer \in AnswerRecords
  BY DEF NoAnswer, AnswerRecords
<1>2. NoFetch \in Fetches
  BY <1>1 DEF NoFetch, Fetches
<1>3. Closed \in Details /\ Closed.ting = NoTing /\ Closed.drawer = "closed"
  BY DEF Closed, Details, NoTing
<1> QED BY <1>1, <1>2, <1>3 DEF DetailOK

------------------------------------------------------------------------------
(* What the handlers share.                                                 *)

LEMMA RefreshesOK ==
  ASSUME RequestsOK, NEW d, DetailOK(d, seen), NEW viewed, NEW sees, Refreshes(d, viewed, sees)
  PROVE  DetailOK(detail', seen) /\ fetch' \in Fetches
<1>1. CASE d.drawer = "open" /\ identity # None /\ sees
  <2>1. d.id \in Tings /\ d \in Details
    BY <1>1 DEF DetailOK
  <2>2. fetch' = [NoFetch EXCEPT !.id = d.id]
    BY <1>1 DEF Refreshes
  <2>3. fetch' \in Fetches
    BY <2>1, <2>2, ConstantsOK DEF Fetches
  <2>4. detail' = [d EXCEPT !.pending = d.id] \/ detail' = d
    BY <1>1 DEF Refreshes
  <2>5. detail' \in Details /\ detail'.drawer = d.drawer /\ detail'.id = d.id
        /\ detail'.ting = d.ting /\ detail'.error = d.error
    BY <2>1, <2>4 DEF Details
  <2> QED BY <2>3, <2>5 DEF DetailOK
<1>2. CASE ~(d.drawer = "open" /\ identity # None /\ sees)
  BY <1>2 DEF Refreshes, RequestsOK
<1> QED BY <1>1, <1>2

LEMMA MarkViewedOK ==
  ASSUME TingInv, MarkViewed, NEW painted, seen \subseteq painted,
         Viewable => detail.ting.id \in painted
  PROVE  AcksOK(acks', painted)
<1>1. CASE Viewable
  <2> DEFINE ack == [id |-> detail.ting.id, current |-> TRUE, mine |-> TRUE, answer |-> "none"]
  <2>1. detail.ting.id \in Tings
    BY <1>1 DEF Viewable, TingInv, DetailOK
  <2>2. ack \in AckRecords /\ ack.id \in painted
    BY <1>1, <2>1 DEF AckRecords
  <2>3. acks' = acks \cup {ack}
    BY <1>1 DEF MarkViewed
  <2> HIDE DEF ack
  <2> QED BY <2>2, <2>3 DEF TingInv, AcksOK
<1>2. CASE ~Viewable
  BY <1>2 DEF MarkViewed, TingInv, AcksOK
<1> QED BY <1>1, <1>2

LEMMA ClosesOK ==
  ASSUME DetailOK(detail, seen)
  PROVE  DetailOK(Closes(detail), seen) /\ DetailOK([Closes(detail) EXCEPT !.pending = None], seen)
<1> DEFINE d == Closes(detail)
           e == [Closes(detail) EXCEPT !.pending = None]
<1>1. d \in Details /\ d.drawer # "open" /\ d.id = None /\ d.ting = detail.ting /\ d.error = detail.error
  BY DEF Closes, DetailOK, Details
<1>2. e \in Details /\ e.drawer = d.drawer /\ e.id = d.id /\ e.ting = d.ting /\ e.error = d.error
  BY <1>1 DEF Details
<1> HIDE DEF d, e
<1>3. DetailOK(d, seen) /\ DetailOK(e, seen)
  BY <1>1, <1>2 DEF DetailOK
<1> QED BY <1>3 DEF d, e

(* Acknowledgements of which only what they are for changes.                *)
LEMMA AcksChange ==
  ASSUME TingInv, NEW as, \A ack \in as : ack \in AckRecords /\ \E old \in acks : ack.id = old.id
  PROVE  AcksOK(as, seen)
BY DEF TingInv, AcksOK

LEMMA NewInstanceOK ==
  ASSUME TingInv, NewInstance
  PROVE  DetailOK(detail', seen) /\ RequestsOK' /\ AcksOK(acks', seen) /\ missed' \in BOOLEAN
<1>1. DetailOK(detail', seen) /\ RequestsOK' /\ missed' \in BOOLEAN
  BY ConstantsOK DEF NewInstance, RequestsOK
<1>2. ASSUME NEW ack \in acks'
      PROVE  ack \in AckRecords /\ \E old \in acks : ack.id = old.id
  <2>1. PICK old \in acks : ack = [old EXCEPT !.current = FALSE, !.mine = FALSE]
    BY DEF NewInstance
  <2> QED BY <2>1 DEF TingInv, AcksOK, AckRecords
<1> QED BY <1>1, <1>2, AcksChange

------------------------------------------------------------------------------
(* The invariant.                                                           *)

LEMMA TingInitInv == WebVarsInit /\ TingDetailInit => TingInv
<1> SUFFICES ASSUME WebVarsInit, TingDetailInit PROVE TingInv
  OBVIOUS
<1>1. PageOK
  BY DEF WebVarsInit, PageOK, WebAccounts
<1>2. RequestsOK /\ DetailOK(detail, seen)
  BY ConstantsOK DEF TingDetailInit, RequestsOK
<1>3. HistoryOK /\ AcksOK(acks, seen)
  BY DEF TingDetailInit, HistoryOK, AcksOK
<1> QED BY <1>1, <1>2, <1>3 DEF TingInv

LEMMA HappensOK == ASSUME TingInv, Happens(MaxViewed) PROVE happened' \in Nat
BY DEF TingInv, PageOK, Happens

(* What the user does.                                                      *)
LEMMA TingUserInv ==
  ASSUME TingInv, (\E t \in Tings : OpenTing(t)) \/ CloseTing \/ RetryTing \/ Pulsed \/ TabToggles
  PROVE  TingInv'
<1>0. /\ PageOK /\ RequestsOK /\ HistoryOK /\ DetailOK(detail, seen) /\ AcksOK(acks, seen)
  BY DEF TingInv
<1>1. ASSUME NEW t \in Tings, OpenTing(t) PROVE TingInv'
  <2> DEFINE d == [Closed EXCEPT !.drawer = "open", !.id = t, !.loading = TRUE]
  <2>1. d \in Details /\ d.ting = NoTing /\ d.id = t
    BY DEF Closed, Details, NoTing
  <2>2. DetailOK(d, seen)
    BY <2>1 DEF DetailOK
  <2>3. Refreshes(d, TRUE, visible)
    BY <1>1 DEF OpenTing
  <2> HIDE DEF d
  <2>4. DetailOK(detail', seen) /\ fetch' \in Fetches
    BY <1>0, <2>2, <2>3, RefreshesOK
  <2>5. happened' \in Nat
    BY <1>1, HappensOK DEF OpenTing
  <2> QED BY <1>0, <1>1, <2>4, <2>5 DEF OpenTing, TingInv, PageOK, RequestsOK, HistoryOK, account
<1>2. CASE CloseTing
  <2>1. happened' \in Nat /\ DetailOK(detail', seen)
    BY <1>0, <1>2, HappensOK, ClosesOK DEF CloseTing
  <2> QED BY <1>0, <1>2, <2>1 DEF CloseTing, TingInv, PageOK, RequestsOK, HistoryOK, account
<1>3. CASE RetryTing
  <2>0. happened' \in Nat
    BY <1>3, HappensOK DEF RetryTing
  <2>1. CASE detail.ting # NoTing
    <3>1. detail.ting.id \in seen
      BY <1>0, <1>3, <2>1 DEF RetryTing, DetailOK
    <3>2. AcksOK(acks', seen) /\ UNCHANGED <<detail, fetch>>
      BY <1>3, <2>1, <3>1, MarkViewedOK DEF RetryTing
    <3> QED BY <1>0, <1>3, <2>0, <3>2 DEF RetryTing, TingInv, PageOK, RequestsOK, HistoryOK, account
  <2>2. CASE detail.ting = NoTing
    <3>1. DetailOK(detail', seen) /\ fetch' \in Fetches /\ UNCHANGED acks
      BY <1>0, <1>3, <2>2, RefreshesOK DEF RetryTing
    <3> QED BY <1>0, <1>3, <2>0, <3>1 DEF RetryTing, TingInv, PageOK, RequestsOK, HistoryOK, account
  <2> QED BY <2>1, <2>2
<1>4. CASE Pulsed
  <2>1. DetailOK(detail', seen) /\ fetch' \in Fetches /\ happened' \in Nat
    BY <1>0, <1>4, RefreshesOK, HappensOK DEF Pulsed
  <2> QED BY <1>0, <1>4, <2>1 DEF Pulsed, TingInv, PageOK, RequestsOK, HistoryOK, account, history
<1>5. CASE TabToggles
  <2>1. DetailOK(detail', seen) /\ fetch' \in Fetches
    <3>1. CASE visible'
      BY <1>0, <1>5, <3>1, RefreshesOK DEF TabToggles
    <3>2. CASE ~visible'
      BY <1>0, <1>5, <3>2 DEF TabToggles, RequestsOK
    <3> QED BY <3>1, <3>2
  <2>2. visible' \in BOOLEAN /\ missed' \in BOOLEAN /\ happened' \in Nat
    BY <1>0, <1>5, HappensOK DEF TabToggles, HistoryOK, PageOK
  <2> QED BY <1>0, <1>5, <2>1, <2>2 DEF TabToggles, TingInv, PageOK, RequestsOK, HistoryOK, account
<1> QED BY <1>1, <1>2, <1>3, <1>4, <1>5

(* Answers.                                                                 *)
LEMMA TingAnsweredInv == ASSUME TingInv, TingAnswered PROVE TingInv'
<1>0. /\ PageOK /\ RequestsOK /\ HistoryOK /\ DetailOK(detail, seen) /\ AcksOK(acks, seen)
      /\ UNCHANGED <<cookie, visible, happened, read, seen, elsewhere>>
  BY DEF TingInv, TingAnswered
<1>1. CASE identity' = None /\ NewInstance
  BY <1>0, <1>1, NewInstanceOK DEF TingInv, PageOK, HistoryOK, WebAccounts
<1>2. CASE /\ Open /\ detail.id = fetch.id /\ fetch.answer.kind = "ok"
           /\ detail' = [detail EXCEPT !.ting = [id |-> fetch.id, read |-> fetch.answer.read],
                                       !.error = FALSE, !.loading = FALSE,
                                       !.pending = IF @ = fetch.id THEN None ELSE @]
           /\ frames' = IF detail.pending = fetch.id THEN frames \cup {[id |-> fetch.id, left |-> 2]}
                        ELSE frames
           /\ fetch' = NoFetch /\ UNCHANGED <<identity, acks, missed>>
  <2>1. fetch.id \in Tings /\ fetch.answer.read \in BOOLEAN /\ detail \in Details
    BY <1>0, <1>2 DEF Open, DetailOK, RequestsOK, Fetches, AnswerRecords
  <2> DEFINE ting == [id |-> fetch.id, read |-> fetch.answer.read]
             left == IF detail.pending = fetch.id THEN None ELSE detail.pending
  <2>2. ting \in [id : Tings \cup {None}, read : BOOLEAN] /\ left \in Tings \cup {None}
    BY <2>1 DEF Details
  <2>3. ting.id = fetch.id
    OBVIOUS
  <2>4. detail' = [detail EXCEPT !.ting = ting, !.error = FALSE, !.loading = FALSE, !.pending = left]
    BY <1>2
  <2> HIDE DEF ting, left
  <2>5. /\ detail' \in Details /\ detail'.ting = ting /\ detail'.id = detail.id
        /\ detail'.error = FALSE
    BY <2>1, <2>2, <2>4 DEF Details
  <2>6. DetailOK(detail', seen)
    BY <1>2, <2>1, <2>3, <2>5 DEF DetailOK
  <2>7. RequestsOK'
    BY <1>0, <1>2, <2>1, ConstantsOK DEF RequestsOK
  <2> QED BY <1>0, <1>2, <2>6, <2>7 DEF TingInv, PageOK, HistoryOK
<1>3. CASE /\ detail' = [detail EXCEPT !.ting = NoTing, !.error = TRUE, !.loading = FALSE]
           /\ missed' = TRUE
           /\ fetch' = NoFetch /\ UNCHANGED <<identity, frames, acks>>
  <2>1. NoTing \in [id : Tings \cup {None}, read : BOOLEAN]
    BY DEF NoTing
  <2>2. detail' \in Details /\ detail'.ting = NoTing /\ detail'.id = detail.id /\ detail'.drawer = detail.drawer
    BY <1>0, <1>3, <2>1 DEF DetailOK, Details
  <2>3. DetailOK(detail', seen)
    BY <1>0, <2>2 DEF DetailOK
  <2> QED BY <1>0, <1>3, <2>3, ConstantsOK DEF TingInv, PageOK, RequestsOK, HistoryOK
<1>4. CASE fetch' = NoFetch /\ UNCHANGED <<identity, detail, frames, acks, missed>>
  BY <1>0, <1>4, ConstantsOK DEF TingInv, PageOK, RequestsOK, HistoryOK
<1> QED BY <1>1, <1>2, <1>3, <1>4 DEF TingAnswered

LEMMA PaintFrameInv ==
  ASSUME TingInv, PaintFrame
  PROVE  TingInv' /\ AcksOK(acks', seen')
<1>0. /\ PageOK /\ RequestsOK /\ HistoryOK /\ DetailOK(detail, seen) /\ AcksOK(acks, seen)
  BY DEF TingInv
<1>1. seen \subseteq seen' /\ seen' \subseteq Tings
  BY <1>0 DEF PaintFrame, HistoryOK, DetailOK
<1>2. Viewable => detail.ting.id \in seen'
  BY DEF Viewable, PaintFrame
<1>3. AcksOK(acks', seen')
  <2>1. CASE Due
    BY <1>1, <1>2, <2>1, MarkViewedOK DEF PaintFrame
  <2>2. CASE ~Due
    BY <1>0, <1>1, <2>2 DEF PaintFrame, AcksOK
  <2> QED BY <2>1, <2>2
<1>4. DetailOK(detail, seen')
  BY <1>0, <1>1 DEF DetailOK
<1>5. DetailOK(detail', seen')
  BY <1>4, ConstantsOK DEF PaintFrame
<1>6. frames' \subseteq [id : Tings, left : 1..2]
  <2>1. ASSUME NEW g \in frames' PROVE g \in [id : Tings, left : 1..2]
    <3>1. PICK old \in frames : g = [old EXCEPT !.left = 1]
      BY DEF PaintFrame
    <3> QED BY <1>0, <3>1 DEF RequestsOK
  <2> QED BY <2>1
<1> QED BY <1>0, <1>1, <1>3, <1>5, <1>6 DEF PaintFrame, TingInv, PageOK, RequestsOK, HistoryOK, account

LEMMA AckAnsweredInv ==
  ASSUME TingInv, NEW ack \in acks, AckAnswered(ack)
  PROVE  TingInv'
<1>0. /\ PageOK /\ RequestsOK /\ HistoryOK /\ DetailOK(detail, seen) /\ AcksOK(acks, seen)
      /\ UNCHANGED <<cookie, visible, happened, read, seen, elsewhere>>
      /\ ack \in AckRecords /\ ack.id \in seen /\ ack.id \in Tings
  BY DEF TingInv, AckAnswered, AcksOK, AckRecords
<1>1. AcksOK(acks \ {ack}, seen)
  BY <1>0 DEF AcksOK
<1>2. CASE identity' = None /\ NewInstance
  BY <1>0, <1>2, NewInstanceOK DEF TingInv, PageOK, HistoryOK, WebAccounts
<1>3. CASE acks' = acks \ {ack} /\ Refreshes(detail, FALSE, visible) /\ UNCHANGED <<identity, frames, missed>>
  <2>1. DetailOK(detail', seen) /\ fetch' \in Fetches
    BY <1>0, <1>3, RefreshesOK
  <2> QED BY <1>0, <1>1, <1>3, <2>1 DEF TingInv, PageOK, RequestsOK, HistoryOK
<1>4. CASE /\ acks' = acks \ {ack}
           /\ detail' = [detail EXCEPT !.error = @ \/ (ack.current /\ detail.id = ack.id)]
           /\ missed' = (missed \/ (ack.mine /\ detail.id = ack.id))
           /\ UNCHANGED <<identity, fetch, frames>>
  <2> DEFINE error == detail.error \/ (ack.current /\ detail.id = ack.id)
  <2>1. error \in BOOLEAN /\ detail' = [detail EXCEPT !.error = error] /\ missed' \in BOOLEAN
    BY <1>0, <1>4 DEF DetailOK, Details, AckRecords, HistoryOK
  <2>2. error /\ detail.ting # NoTing => detail.ting.id \in seen
    BY <1>0, TingDetailAssumption DEF DetailOK
  <2> HIDE DEF error
  <2>3. /\ detail' \in Details /\ detail'.error = error /\ detail'.ting = detail.ting
        /\ detail'.id = detail.id /\ detail'.drawer = detail.drawer
    BY <1>0, <2>1 DEF DetailOK, Details
  <2>4. DetailOK(detail', seen)
    BY <1>0, <2>2, <2>3 DEF DetailOK
  <2> QED BY <1>0, <1>1, <1>4, <2>1, <2>4 DEF TingInv, PageOK, RequestsOK, HistoryOK
<1>5. CASE acks' = acks \ {ack} /\ UNCHANGED <<identity, detail, fetch, frames, missed>>
  BY <1>0, <1>1, <1>5 DEF TingInv, PageOK, RequestsOK, HistoryOK
<1> QED BY <1>2, <1>3, <1>4, <1>5 DEF AckAnswered

(* The account, the service and other devices.                              *)
LEMMA ServiceInv ==
  ASSUME TingInv,
         \/ \E t \in Tings : ReadElsewhere(t)
         \/ \E a \in WebAccounts : Departs(a)
         \/ \E ack \in acks : ServeAck(ack)
         \/ Replaced \/ CookieMoves \/ ServeTing \/ RequestFails
  PROVE  TingInv'
<1>0. /\ PageOK /\ RequestsOK /\ HistoryOK /\ DetailOK(detail, seen) /\ AcksOK(acks, seen)
  BY DEF TingInv
<1>1. ASSUME NEW t \in Tings, ReadElsewhere(t) PROVE TingInv'
  BY <1>0, <1>1, HappensOK DEF ReadElsewhere, TingInv, PageOK, RequestsOK, HistoryOK, account
<1>2. ASSUME NEW a \in WebAccounts, Departs(a) PROVE TingInv'
  <2>1. cookie' \in WebAccounts /\ identity' \in WebAccounts
    BY <1>0, <1>2 DEF Departs, PageOK, WebAccounts
  <2>2. DetailOK(detail', seen) /\ RequestsOK' /\ AcksOK(acks', seen) /\ missed' \in BOOLEAN
    BY <1>2, NewInstanceOK DEF Departs
  <2> QED BY <1>0, <1>2, <2>1, <2>2, HappensOK DEF Departs, TingInv, PageOK, HistoryOK
<1>3. ASSUME NEW ack \in acks, ServeAck(ack) PROVE TingInv'
  <2> DEFINE answer == IF cookie = None THEN "gone"
                       ELSE IF cookie = Recipient[ack.id] THEN "ok" ELSE "failed"
             served == [ack EXCEPT !.answer = answer]
  <2>1. ack \in AckRecords /\ ack.id \in Tings
    BY <1>0 DEF AcksOK, AckRecords
  <2>2. served \in AckRecords /\ served.id = ack.id
    BY <2>1 DEF AckRecords
  <2>3. acks' = (acks \ {ack}) \cup {served} /\ read' \subseteq Tings
    BY <1>0, <1>3, <2>1 DEF ServeAck, HistoryOK
  <2> HIDE DEF served
  <2>4. AcksOK(acks', seen)
    BY <1>0, <2>2, <2>3, AcksChange DEF AcksOK
  <2> QED BY <1>0, <1>3, <2>3, <2>4
          DEF ServeAck, TingInv, PageOK, RequestsOK, HistoryOK, account, history
<1>4. CASE Replaced
  <2>1. DetailOK(detail', seen)
    BY <1>0, <1>4, ClosesOK DEF Replaced
  <2>2. ASSUME NEW ack \in acks'
        PROVE  ack \in AckRecords /\ \E old \in acks : ack.id = old.id
    <3>1. PICK old \in acks : ack = [old EXCEPT !.current = FALSE]
      BY <1>4 DEF Replaced
    <3> QED BY <1>0, <3>1 DEF AcksOK, AckRecords
  <2>3. AcksOK(acks', seen)
    BY <2>2, AcksChange
  <2>4. RequestsOK' /\ missed' \in BOOLEAN /\ identity' \in WebAccounts
    BY <1>0, <1>4, ConstantsOK DEF Replaced, RequestsOK, PageOK
  <2> QED BY <1>0, <1>4, <2>1, <2>3, <2>4, HappensOK DEF Replaced, TingInv, PageOK, HistoryOK
<1>5. CASE CookieMoves
  BY <1>0, <1>5, HappensOK DEF CookieMoves, TingInv, PageOK, RequestsOK, HistoryOK, history
<1>6. CASE ServeTing
  <2> DEFINE answer == IF cookie = None THEN [NoAnswer EXCEPT !.kind = "gone"]
                       ELSE IF cookie = Recipient[fetch.id] THEN [kind |-> "ok", read |-> fetch.id \in read]
                       ELSE [NoAnswer EXCEPT !.kind = "missing"]
  <2>1. answer \in AnswerRecords
    <3>1. [NoAnswer EXCEPT !.kind = "gone"] \in AnswerRecords /\ [NoAnswer EXCEPT !.kind = "missing"] \in AnswerRecords
      BY DEF NoAnswer, AnswerRecords
    <3>2. \A b \in BOOLEAN : [kind |-> "ok", read |-> b] \in AnswerRecords
      BY DEF AnswerRecords
    <3>3. (fetch.id \in read) \in BOOLEAN
      OBVIOUS
    <3>4. [kind |-> "ok", read |-> fetch.id \in read] \in AnswerRecords
      BY <3>2, <3>3, Zenon
    <3> QED BY <3>1, <3>4
  <2>2. fetch' = [fetch EXCEPT !.answer = answer]
    BY <1>6 DEF ServeTing
  <2> HIDE DEF answer
  <2>3. fetch' \in Fetches
    BY <1>0, <2>1, <2>2 DEF RequestsOK, Fetches
  <2> QED BY <1>0, <1>6, <2>3 DEF ServeTing, TingInv, PageOK, RequestsOK, HistoryOK, account, history
<1>7. CASE RequestFails
  <2>1. fetch' \in Fetches /\ AcksOK(acks', seen)
    <3>1. CASE fetch' = [fetch EXCEPT !.answer = [NoAnswer EXCEPT !.kind = "missing"]] /\ UNCHANGED acks
      <4>1. [NoAnswer EXCEPT !.kind = "missing"] \in AnswerRecords
        BY DEF NoAnswer, AnswerRecords
      <4> QED BY <1>0, <3>1, <4>1 DEF RequestsOK, Fetches
    <3>2. ASSUME NEW ack \in acks, acks' = (acks \ {ack}) \cup {[ack EXCEPT !.answer = "failed"]},
                 UNCHANGED fetch
          PROVE  fetch' \in Fetches /\ AcksOK(acks', seen)
      <4>1. [ack EXCEPT !.answer = "failed"] \in AckRecords /\ [ack EXCEPT !.answer = "failed"].id = ack.id
        BY <1>0 DEF AcksOK, AckRecords
      <4> QED BY <1>0, <3>2, <4>1 DEF AcksOK, RequestsOK
    <3> QED BY <1>7, <3>1, <3>2 DEF RequestFails
  <2> QED BY <1>0, <1>7, <2>1, HappensOK
          DEF RequestFails, TingInv, PageOK, RequestsOK, HistoryOK, account, history
<1> QED BY <1>1, <1>2, <1>3, <1>4, <1>5, <1>6, <1>7

LEMMA TingStepInv == TingInv /\ [TingDetailNext]_tingDetailVars => TingInv'
<1> SUFFICES ASSUME TingInv, [TingDetailNext]_tingDetailVars PROVE TingInv'
  OBVIOUS
<1>1. CASE TingDetailNext
  BY <1>1, TingUserInv, TingAnsweredInv, PaintFrameInv, AckAnsweredInv, ServiceInv DEF TingDetailNext
<1>2. CASE UNCHANGED tingDetailVars
  BY <1>2 DEF tingDetailVars, TingInv, PageOK, RequestsOK, HistoryOK
<1> QED BY <1>1, <1>2

LEMMA TingAlwaysInv == TingDetailSpec => []TingInv
<1>1. WebVarsInit /\ TingDetailInit => TingInv
  BY TingInitInv
<1>2. TingInv /\ [TingDetailNext]_tingDetailVars => TingInv'
  BY TingStepInv
<1> QED BY <1>1, <1>2, PTL DEF TingDetailSpec

(* The drawer, its requests, frames and acknowledgements have their types.  *)
THEOREM TingDetailTypes == TingDetailSpec => []TingDetailTypeOK
<1>1. TingInv => TingDetailTypeOK
  BY TingIsTyped
<1> QED BY <1>1, TingAlwaysInv, PTL

(* One step: only the service reads a ting, because of an acknowledgement   *)
(* of one that was painted or because another device did.                   *)
OnlySeen ==
  /\ Acknowledged' \subseteq Acknowledged \cup seen'
  /\ read' \subseteq read \cup seen \cup elsewhere'

LEMMA OnlySeenStep == TingInv /\ [TingDetailNext]_tingDetailVars => [OnlySeen]_tingDetailVars
<1> SUFFICES ASSUME TingInv, TingDetailNext PROVE OnlySeen
  OBVIOUS
<1>1. TingInv'
  BY TingStepInv
<1>2. Acknowledged' \subseteq seen'
  BY <1>1 DEF Acknowledged, TingInv, AcksOK
<1>3. read' = read \/ (\E t \in Tings : ReadElsewhere(t)) \/ (\E ack \in acks : ServeAck(ack))
  BY DEF TingDetailNext, OpenTing, CloseTing, RetryTing, Pulsed, TabToggles, TingAnswered, PaintFrame,
         AckAnswered, Departs, Replaced, CookieMoves, ServeTing, RequestFails
<1>4. read' \subseteq read \cup seen \cup elsewhere'
  <2>1. ASSUME NEW ack \in acks, ServeAck(ack) PROVE read' \subseteq read \cup seen
    BY <2>1 DEF ServeAck, TingInv, AcksOK
  <2>2. ASSUME NEW t \in Tings, ReadElsewhere(t) PROVE read' \subseteq read \cup elsewhere'
    BY <2>2 DEF ReadElsewhere
  <2> QED BY <1>3, <2>1, <2>2
<1> QED BY <1>2, <1>4 DEF OnlySeen

(* A ting is acknowledged and read only once it was painted for its         *)
(* recipient: what inbox.tsx does after requestAnimationFrame, retries,     *)
(* identities that change and answers that come late.                       *)
THEOREM OnlySeenIsEverRead == TingDetailSpec => OnlySeenIsRead
<1>1. TingInv /\ [TingDetailNext]_tingDetailVars => [OnlySeen]_tingDetailVars
  BY OnlySeenStep
<1> QED BY <1>1, TingAlwaysInv, PTL DEF TingDetailSpec, OnlySeenIsRead, OnlySeen

(***************************************************************************)
(* The page as a whole.                                                    *)
(***************************************************************************)
(* Each part keeps its own invariant while it moves, and stays what it is   *)
(* while another one does.                                                  *)
PartOK ==
  /\ part \in Parts
  /\ part = "session" => SessionInv
  /\ part = "list" => ListInv /\ WatchOK
  /\ part = "ting" => TingInv
  /\ part = "toasts" => ToastInv
  /\ part = "tree" => JsonTreeTypeOK
  /\ part = "menu" => MenuInv
  /\ part = "overlay" => OverlayInv
  /\ part = "copy" => CopyInv
  /\ part = "combo" => ListOK
  /\ part = "pages" => PagesInv
  /\ part = "appearance" => ThemeInv
  /\ part = "tooltips" => TipInv
  /\ part = "look" => LookInv

LEMMA WebInitOK == WebInit => PartOK
<1> SUFFICES ASSUME WebInit PROVE PartOK
  OBVIOUS
<1>1. part = "session" => SessionInv
  BY SessionInitInv DEF WebInit
<1>2. part = "list" => ListInv /\ WatchOK
  BY ListInitInv, WatchInitOK DEF WebInit
<1>3. part = "ting" => TingInv
  BY TingInitInv DEF WebInit
<1>4. ToastInv /\ JsonTreeTypeOK /\ MenuInv /\ OverlayInv /\ CopyInv
  BY ToastInitInv, TreeInitOK, MenuInitInv, OverlayInitInv, CopyInitInv DEF WebInit
<1>5. ListOK /\ PagesInv /\ ThemeInv /\ TipInv /\ LookInv
  BY ComboInitInv, PagesInitInv, ThemeInitInv, TipInitInv, LookInitInv DEF WebInit
<1> QED BY <1>1, <1>2, <1>3, <1>4, <1>5 DEF PartOK, WebInit

(* A part moves, or all stand still: what was promised of it still holds.   *)
LEMMA WebStepOK == PartOK /\ [WebNext]_webVars => PartOK'
<1> SUFFICES ASSUME PartOK, [WebNext]_webVars PROVE PartOK'
  OBVIOUS
<1>1. CASE part = "session" /\ SessionNext /\ UNCHANGED visible /\ Others("session")
  <2>1. SessionInv'
    BY <1>1, SessionStepInv DEF PartOK
  <2> QED BY <1>1, <2>1 DEF PartOK, Others
<1>2. CASE part = "list" /\ InboxListNext /\ Others("list")
  <2>1. ListInv' /\ WatchOK'
    BY <1>2, ListStepInv, WatchStepOK DEF PartOK
  <2> QED BY <1>2, <2>1 DEF PartOK, Others
<1>3. CASE part = "ting" /\ TingDetailNext /\ Others("ting")
  <2>1. TingInv'
    BY <1>3, TingStepInv DEF PartOK
  <2> QED BY <1>3, <2>1 DEF PartOK, Others
<1>4. CASE part = "toasts" /\ ToastsNext /\ Others("toasts")
  <2>1. ToastInv'
    BY <1>4, ToastStepInv DEF PartOK
  <2> QED BY <1>4, <2>1 DEF PartOK, Others
<1>5. CASE part = "tree" /\ JsonTreeNext /\ Others("tree")
  <2>1. JsonTreeTypeOK'
    BY <1>5, TreeStepOK DEF PartOK
  <2> QED BY <1>5, <2>1 DEF PartOK, Others
<1>6. CASE part = "menu" /\ MenuStep /\ Others("menu")
  <2>1. MenuInv'
    BY <1>6, MenuStepInv DEF PartOK
  <2> QED BY <1>6, <2>1 DEF PartOK, Others
<1>7. CASE part = "overlay" /\ OverlayStep /\ Others("overlay")
  <2>1. OverlayInv'
    BY <1>7, OverlayStepInv DEF PartOK
  <2> QED BY <1>7, <2>1 DEF PartOK, Others
<1>8. CASE part = "copy" /\ CopyStep /\ Others("copy")
  <2>1. CopyInv'
    BY <1>8, CopyStepInv DEF PartOK
  <2> QED BY <1>8, <2>1 DEF PartOK, Others
<1>9. CASE part = "combo" /\ ComboStep /\ Others("combo")
  <2>1. ListOK'
    BY <1>9, ComboStepInv DEF PartOK
  <2> QED BY <1>9, <2>1 DEF PartOK, Others
<1>10. CASE part = "pages" /\ PagesStep /\ Others("pages")
  <2>1. PagesInv'
    BY <1>10, PagesStepInv DEF PartOK
  <2> QED BY <1>10, <2>1 DEF PartOK, Others
<1>11. CASE part = "appearance" /\ AppearanceStep /\ Others("appearance")
  <2>1. ThemeInv'
    BY <1>11, ThemeStepInv DEF PartOK
  <2> QED BY <1>11, <2>1 DEF PartOK, Others
<1>12. CASE part = "tooltips" /\ TooltipStep /\ Others("tooltips")
  <2>1. TipInv'
    BY <1>12, TipStepInv DEF PartOK
  <2> QED BY <1>12, <2>1 DEF PartOK, Others
<1>13. CASE part = "look" /\ QuickStep /\ Others("look")
  <2>1. LookInv'
    BY <1>13, LookStepInv DEF PartOK
  <2> QED BY <1>13, <2>1 DEF PartOK, Others
<1>14. CASE UNCHANGED webVars
  <2>1. UNCHANGED <<part, sharedVars, sessionOwn, listOwn, tingOwn>>
    BY <1>14 DEF webVars
  <2>2. UNCHANGED <<sessionVars, visible>> /\ UNCHANGED inboxListVars /\ UNCHANGED tingDetailVars
    BY <2>1 DEF sharedVars, sessionOwn, listOwn, tingOwn, sessionVars, spinners, dialog, service,
                inboxListVars, tingDetailVars
  <2>3. part = "session" => SessionInv'
    BY <2>2, SessionStepInv DEF PartOK
  <2>4. part = "list" => ListInv' /\ WatchOK'
    BY <2>2, ListStepInv, WatchStepOK DEF PartOK
  <2>5. part = "ting" => TingInv'
    BY <2>2, TingStepInv DEF PartOK
  <2>6. UNCHANGED <<toastVars, treeVars, menuVars, overlayVars, copyVars>>
    BY <1>14 DEF webVars
  <2>7. UNCHANGED <<comboVars, pagesVars, appearanceVars, tooltipVars, quickVars>>
    BY <1>14 DEF webVars
  <2>8. part = "toasts" => ToastInv'
    BY <2>6, ToastStepInv DEF PartOK
  <2>9. part = "tree" => JsonTreeTypeOK'
    BY <2>6, TreeStepOK DEF PartOK
  <2>10. part = "menu" => MenuInv'
    BY <2>6, MenuStepInv DEF PartOK
  <2>11. part = "overlay" => OverlayInv'
    BY <2>6, OverlayStepInv DEF PartOK
  <2>12. part = "copy" => CopyInv'
    BY <2>6, CopyStepInv DEF PartOK
  <2>13. part = "combo" => ListOK'
    BY <2>7, ComboStepInv DEF PartOK
  <2>14. part = "pages" => PagesInv'
    BY <2>7, PagesStepInv DEF PartOK
  <2>15. part = "appearance" => ThemeInv'
    BY <2>7, ThemeStepInv DEF PartOK
  <2>16. part = "tooltips" => TipInv'
    BY <2>7, TipStepInv DEF PartOK
  <2>17. part = "look" => LookInv'
    BY <2>7, LookStepInv DEF PartOK
  <2> QED BY <2>1, <2>3, <2>4, <2>5, <2>8, <2>9, <2>10, <2>11, <2>12, <2>13, <2>14, <2>15, <2>16, <2>17
          DEF PartOK
<1> QED BY <1>1, <1>2, <1>3, <1>4, <1>5, <1>6, <1>7, <1>8, <1>9, <1>10, <1>11, <1>12, <1>13, <1>14
        DEF WebNext

LEMMA PartPromises == PartOK => WebInv
<1> SUFFICES ASSUME PartOK PROVE WebInv
  OBVIOUS
<1>1. SessionInv => SessionTypeOK
  BY SessionIsTyped
<1>2. ListInv /\ WatchOK => InboxListTypeOK
  BY ListIsTyped
<1>3. TingInv => TingDetailTypeOK
  BY TingIsTyped
<1>4. ToastInv => ToastsTypeOK
  BY InvIsTyped
<1>5. MenuInv => MenuTypeOK /\ SignOutIsShown
  BY DEF MenuInv
<1>6. OverlayInv => OverlayTypeOK
  BY DEF OverlayInv
<1>7. CopyInv => CopyTypeOK /\ FeedbackEnds /\ GlyphsSpell
  <2> SUFFICES ASSUME CopyInv PROVE CopyTypeOK /\ FeedbackEnds /\ GlyphsSpell
    OBVIOUS
  <2>1. \A i \in DOMAIN glyphs.letters : glyphs.letters[i] \in [id : Nat \X Nat, char : Chars]
    <3> DEFINE R == [id : Nat \X Nat, char : Chars]
    <3>1. glyphs.letters \in Seq(R)
      BY DEF CopyInv, GlyphsOK, Glyphs
    <3>2. DOMAIN glyphs.letters = 1..Len(glyphs.letters)
      BY <3>1, LenProperties
    <3> HIDE DEF R
    <3>3. \A i \in 1..Len(glyphs.letters) : glyphs.letters[i] \in R
      BY <3>1, ElementOfSeq
    <3> QED BY <3>2, <3>3 DEF R
  <2> QED BY <2>1, GlyphsOKSpell DEF CopyInv, CopyTypeOK
<1>8. ListOK => ComboTypeOK /\ FieldIsCoherent
  BY ComboParts DEF ComboInv
<1>9. PagesInv => PagesTypeOK /\ OneChangeAtATime
  BY DEF PagesInv
<1>10. ThemeInv => AppearanceTypeOK /\ ShowsTheTheme
  BY DEF ThemeInv, ShowsTheTheme
<1>11. TipInv => TooltipTypeOK /\ WarmthIsTimed
  BY DEF TipInv
<1>12. LookInv => QuickTypeOK /\ ReturnsEnd
  BY LookReturns DEF LookInv
<1>13. CASE part = "session"
  BY <1>13, <1>1 DEF WebInv, PartOK
<1>14. CASE part = "list"
  BY <1>14, <1>2 DEF WebInv, PartOK
<1>15. CASE part = "ting"
  BY <1>15, <1>3 DEF WebInv, PartOK
<1>16. CASE part = "toasts"
  BY <1>16, <1>4 DEF WebInv, PartOK
<1>17. CASE part = "tree"
  BY <1>17 DEF WebInv, PartOK
<1>18. CASE part = "menu"
  BY <1>18, <1>5 DEF WebInv, PartOK
<1>19. CASE part = "overlay"
  BY <1>19, <1>6 DEF WebInv, PartOK
<1>20. CASE part = "copy"
  BY <1>20, <1>7 DEF WebInv, PartOK
<1>21. CASE part = "combo"
  BY <1>21, <1>8 DEF WebInv, PartOK
<1>22. CASE part = "pages"
  BY <1>22, <1>9 DEF WebInv, PartOK
<1>23. CASE part = "appearance"
  BY <1>23, <1>10 DEF WebInv, PartOK
<1>24. CASE part = "tooltips"
  BY <1>24, <1>11 DEF WebInv, PartOK
<1>25. CASE part = "look"
  BY <1>25, <1>12 DEF WebInv, PartOK
<1> QED BY <1>13, <1>14, <1>15, <1>16, <1>17, <1>18, <1>19, <1>20, <1>21, <1>22, <1>23, <1>24, <1>25
        DEF PartOK, Parts

(* Whichever part of the page is at work, and for all time: its types, and  *)
(* what the smaller parts promise: the row "Sign out" is shown while it     *)
(* works, feedback ends, letters spell the label, the field of a select and *)
(* its list agree, one change is made at a time, the document shows the     *)
(* theme, tooltips stay warm only while timed, and a closing preview ends.  *)
THEOREM WebAlwaysInv == WebSpec => []WebInv
<1>1. WebInit => PartOK
  BY WebInitOK
<1>2. PartOK /\ [WebNext]_webVars => PartOK'
  BY WebStepOK
<1>3. PartOK => WebInv
  BY PartPromises
<1> QED BY <1>1, <1>2, <1>3, PTL DEF WebSpec
================================================================================
