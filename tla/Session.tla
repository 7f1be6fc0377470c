------------------------------- MODULE Session -------------------------------
(***************************************************************************)
(* Signing in and out (web/components/ting/workspace.tsx, shell.tsx and    *)
(* web/lib): the requests and sign-in windows of the page are flows, each  *)
(* an async function suspended at an await; the browser runs one           *)
(* continuation at a time.  An answer is fixed by the service when it      *)
(* handles the request and read by the page some time later.               *)
(*                                                                         *)
(* `api` dispatches ting:session-expired for a 401 only if no other        *)
(* identity was set since the request was made: sessionGeneration.  The    *)
(* counter itself is only ever compared with its value at the request, so  *)
(* it is modelled by `fresh`, which sessionChanged() withdraws from all    *)
(* requests under way.  It is called by an effect: after setIdentity there *)
(* is a moment in which the new identity is shown under the old counter    *)
(* (`settling`), and continuations may run in it.                          *)
(***************************************************************************)
EXTENDS Web

CONSTANTS
  Flows,    \* async functions that may be under way at once
  Tokens,   \* login tokens for silicons
  Silicons, \* the accounts of kind silicon
  Holder,   \* the account a token is for
  MaxDisturbed \* bound on what users, other tabs and the service start

ASSUME SessionAssumption == Holder \in [Tokens -> Accounts] /\ MaxDisturbed \in Nat

VARIABLES
  booting, bootError, busy, \* of WorkspaceProvider
  actionError,              \* of WorkspaceProvider: none, expired or failed
  login,                    \* the dialog: closed, carbon or silicon
  attempt,                  \* loginAttempt: the token whose key is kept, or None
  flow,                     \* the flows under way
  settling,                 \* setIdentity was called, the effect on [identity] has not run
  exchanged,                \* tokens exchanged: its session can be had with the key kept, or not
  over                      \* history: the service ended the session of `identity`

spinners == <<booting, bootError, busy>>
dialog == <<login, attempt>>
service == <<cookie, exchanged>>
sessionVars == <<identity, settling, spinners, actionError, dialog, flow, service, over, happened>>

Asking == {"verify", "post", "me", "work", "delete", "get"}
Mutating == {"action", "signout", "menu"}
Idle == [kind |-> "none", at |-> "idle", fresh |-> FALSE, kept |-> FALSE,
         token |-> None, answer |-> "none"]
FlowRecords ==
  [kind : {"none", "boot", "carbon", "silicon", "load"} \cup Mutating,
   at : Asking \cup {"idle", "popup"}, fresh : BOOLEAN, kept : BOOLEAN, token : Tokens \cup {None},
   answer : {"none", "ok", "gone", "failed"} \cup Accounts]

SessionTypeOK ==
  /\ WebVarsOK
  /\ {booting, bootError, busy, settling, over} \subseteq BOOLEAN
  /\ actionError \in {"none", "expired", "failed"}
  /\ login \in {"closed", "carbon", "silicon"}
  /\ attempt \in Tokens \cup {None}
  /\ flow \in [Flows -> FlowRecords]
  /\ exchanged \in [Tokens -> {"no", "kept", "other"}]

Disturb == Happens(MaxDisturbed)

(* The page loads: boot() runs before the effect on [identity] calls        *)
(* sessionChanged(), so its request is never fresh.  What a full-page       *)
(* sign-in reports through setActionError does not survive the mount: the   *)
(* effect on [pathname] clears it.                                          *)
FirstFlow(f) == [g \in Flows |-> IF g = f THEN [Idle EXCEPT !.kind = "boot", !.at = "me"] ELSE Idle]
SessionInit ==
  /\ booting = TRUE /\ bootError = FALSE /\ busy = FALSE
  /\ actionError = "none" /\ login = "closed" /\ attempt = None /\ settling = FALSE
  /\ flow = FirstFlow(CHOOSE f \in Flows : TRUE)
  /\ exchanged = [t \in Tokens |-> "no"]
  /\ over = TRUE

(***************************************************************************)
(* Steps of a flow.                                                        *)
(***************************************************************************)
(* The next request of a flow, made now.                                    *)
Request(f, at) == [flow EXCEPT ![f] = [@ EXCEPT !.at = at, !.fresh = TRUE, !.answer = "none"]]
Begin(f, kind, at, token) ==
  /\ flow[f] = Idle
  /\ flow' = [flow EXCEPT ![f] = [kind |-> kind, at |-> at, fresh |-> at # "popup",
                                  kept |-> kind \in {"silicon", "menu"}, token |-> token,
                                  answer |-> "none"]]
End(f) == [flow EXCEPT ![f] = Idle]

(* setIdentity: a new object for the same account is a new identity, and    *)
(* so is none after one.  The account menu goes with its identity.          *)
Shows(a, flows) ==
  /\ identity' = a
  /\ settling' = (settling \/ a # None \/ identity # None)
  /\ flow' = [g \in Flows |-> [flows[g] EXCEPT !.kept = @ /\ ~(flows[g].kind = "menu" /\ a = None)]]
  /\ over' = (a = None \/ cookie # a)
Keeps(flows) == flow' = flows /\ UNCHANGED <<identity, settling, over>>

(* The effect on [identity], once for all changes since it ran last: no     *)
(* request made before it can end a session any more, those included that   *)
(* the pages under the new identity made first.                             *)
SessionChanged ==
  /\ settling /\ settling' = FALSE
  /\ flow' = [g \in Flows |-> [flow[g] EXCEPT !.fresh = FALSE]]
  /\ UNCHANGED <<identity, spinners, actionError, dialog, service, over, happened>>

ExpiresStale(f) == flow[f].answer = "gone" /\ identity # None

(* The listener of ting:session-expired does nothing without an identity.   *)
Expires(f) == flow[f].answer = "gone" /\ flow[f].fresh /\ identity # None

(***************************************************************************)
(* Signing in.                                                             *)
(***************************************************************************)
RetryBoot(f) ==
  /\ Disturb
  /\ bootError /\ login = "closed"
  /\ Begin(f, "boot", "me", None)
  /\ booting' = TRUE /\ bootError' = FALSE
  /\ UNCHANGED <<identity, settling, cookie, busy, actionError, dialog, exchanged, over>>

(* The gates and the welcome page show LoginButtons without an account.     *)
FormShown == login = "silicon"
ButtonsShown == login = "carbon" \/ (login = "closed" /\ ~booting /\ identity = None)

OpenLogin(silicon) ==
  /\ Disturb
  /\ IF silicon THEN ButtonsShown /\ ~busy ELSE login = "closed" /\ identity = None
  /\ login' = IF silicon THEN "silicon" ELSE "carbon"
  /\ UNCHANGED <<identity, settling, spinners, actionError, attempt, flow, service, over>>

(* A key that is forgotten can no longer be presented again.                *)
Forget(flows) == [g \in Flows |-> [flows[g] EXCEPT !.kept = @ /\ flows[g].kind # "silicon"]]
Forgotten == [t \in Tokens |-> IF exchanged[t] = "kept" THEN "other" ELSE exchanged[t]]

CloseLogin ==
  /\ Disturb
  /\ login # "closed"
  /\ login' = "closed" /\ attempt' = None
  /\ flow' = Forget(flow) /\ exchanged' = Forgotten
  /\ UNCHANGED <<identity, settling, spinners, actionError, cookie, over>>

LoginCarbon(f) ==
  /\ Disturb
  /\ ButtonsShown /\ ~busy
  /\ Begin(f, "carbon", "popup", None)
  /\ busy' = TRUE /\ actionError' = "none"
  /\ UNCHANGED <<identity, settling, booting, bootError, dialog, service, over>>

(* The same token is retried under its key, another token gets a new one.   *)
LoginSilicon(f, t) ==
  /\ Disturb
  /\ FormShown /\ ~busy
  /\ Begin(f, "silicon", "post", t)
  /\ attempt' = t
  /\ exchanged' = IF attempt = t THEN exchanged ELSE Forgotten
  /\ busy' = TRUE /\ actionError' = "none"
  /\ UNCHANGED <<identity, settling, booting, bootError, login, cookie, over>>

(* The window was blocked: this page goes to Silicon Accounts and comes     *)
(* back as a new one, with whatever session the sign-in made.               *)
PopupBlocked(f) ==
  /\ flow[f].at = "popup" /\ flow[f].answer = "none"
  /\ Disturb
  /\ cookie' \in {cookie} \cup (Accounts \ Silicons)
  /\ identity' = None /\ booting' = TRUE /\ bootError' = FALSE /\ busy' = FALSE
  /\ actionError' = "none" /\ login' = "closed" /\ attempt' = None /\ settling' = FALSE
  /\ flow' = FirstFlow(f) /\ over' = TRUE
  /\ exchanged' = Forgotten

CarbonAnsweredStuck(f) ==
  /\ flow[f].kind = "carbon" /\ flow[f].at \in {"popup", "verify"} /\ flow[f].answer # "none"
  /\ CASE flow[f].at = "popup" /\ flow[f].answer = "ok" ->
            Keeps(Request(f, "verify")) /\ UNCHANGED <<spinners, actionError>>
       [] flow[f].at = "verify" /\ flow[f].answer \in Accounts \ Silicons ->
            /\ Keeps(Request(f, "me"))
            /\ booting' = TRUE /\ bootError' = FALSE /\ UNCHANGED <<busy, actionError>>
       [] OTHER ->
            /\ IF Expires(f) THEN Shows(None, End(f)) ELSE Keeps(End(f))
            /\ actionError' = "failed" /\ UNCHANGED <<busy, booting, bootError>>
  /\ UNCHANGED <<dialog, service, happened>>

(* loginCarbon goes on once the window has reported, closed or expired, and *)
(* asks who signed in before it believes it.                                *)
CarbonAnswered(f) ==
  /\ flow[f].kind = "carbon" /\ flow[f].at \in {"popup", "verify"} /\ flow[f].answer # "none"
  /\ CASE flow[f].at = "popup" /\ flow[f].answer = "ok" ->
            Keeps(Request(f, "verify")) /\ UNCHANGED <<spinners, actionError>>
       [] flow[f].at = "verify" /\ flow[f].answer \in Accounts \ Silicons ->
            /\ Keeps(Request(f, "me"))
            /\ booting' = TRUE /\ bootError' = FALSE /\ UNCHANGED <<busy, actionError>>
       [] OTHER ->
            /\ IF Expires(f) THEN Shows(None, End(f)) ELSE Keeps(End(f))
            /\ busy' = FALSE /\ actionError' = "failed" /\ UNCHANGED <<booting, bootError>>
  /\ UNCHANGED <<dialog, service, happened>>

SiliconAnswered(f) ==
  /\ flow[f].kind = "silicon" /\ flow[f].at = "post" /\ flow[f].answer # "none"
  /\ IF flow[f].answer = "ok"
     THEN /\ Keeps(Forget(Request(f, "me")))
          /\ attempt' = None /\ exchanged' = Forgotten
          /\ booting' = TRUE /\ bootError' = FALSE /\ UNCHANGED <<busy, actionError>>
     ELSE /\ Keeps(End(f))
          /\ busy' = FALSE /\ actionError' = "failed"
          /\ UNCHANGED <<booting, bootError, attempt, exchanged>>
  /\ UNCHANGED <<login, cookie, happened>>

(* boot() handles its own errors; the sign-in around it then closes the     *)
(* dialog whatever the answer was.                                          *)
BootAnswered(f) ==
  /\ flow[f].at = "me" /\ flow[f].answer # "none"
  /\ booting' = FALSE
  /\ CASE flow[f].answer \in Accounts -> Shows(flow[f].answer, End(f)) /\ UNCHANGED bootError
       [] flow[f].answer = "gone" -> Shows(None, End(f)) /\ UNCHANGED bootError
       [] OTHER -> Keeps(End(f)) /\ bootError' = TRUE
  /\ actionError' = IF Expires(f) THEN "expired" ELSE actionError
  /\ IF flow[f].kind = "boot" THEN UNCHANGED <<busy, login>> ELSE busy' = FALSE /\ login' = "closed"
  /\ UNCHANGED <<attempt, service, happened>>

(***************************************************************************)
(* Working and signing out.                                                *)
(***************************************************************************)
(* action() of a page: its buttons are disabled while busy, and the dialog  *)
(* covers them.  The account menu only waits for its own sign-out.          *)
Act(f, kind) ==
  /\ Disturb
  /\ identity # None /\ login = "closed"
  /\ CASE kind = "action" -> ~busy /\ ~booting
       [] kind = "signout" -> ~busy
       [] kind = "menu" -> \A g \in Flows : ~(flow[g].kind = "menu" /\ flow[g].kept)
  /\ Begin(f, kind, IF kind = "action" THEN "work" ELSE "delete", None)
  /\ busy' = TRUE /\ actionError' = "none"
  /\ UNCHANGED <<identity, settling, booting, bootError, dialog, service, over>>

ActionAnswered(f) ==
  /\ flow[f].kind \in Mutating /\ flow[f].answer # "none"
  /\ IF flow[f].answer = "gone" \/ (flow[f].answer = "ok" /\ flow[f].kind # "action")
     THEN Shows(None, End(f)) ELSE Keeps(End(f))
  /\ actionError' = IF flow[f].answer = "ok" THEN actionError ELSE "failed"
  /\ busy' = FALSE
  /\ UNCHANGED <<booting, bootError, dialog, service, happened>>

(* A request of a list or a ting, whatever it is for: here only what its    *)
(* answer does to the session matters.                                      *)
LoadList(f) ==
  /\ Disturb
  /\ identity # None
  /\ flow[f] = Idle
  /\ flow' = [flow EXCEPT ![f] = [Idle EXCEPT !.kind = "load", !.at = "get", !.fresh = TRUE]]
  /\ UNCHANGED <<identity, settling, spinners, actionError, dialog, service, over>>

LoadAnswered(f) ==
  /\ flow[f].kind = "load" /\ flow[f].answer # "none"
  /\ IF Expires(f) THEN Shows(None, End(f)) /\ actionError' = "expired"
                   ELSE Keeps(End(f)) /\ UNCHANGED actionError
  /\ UNCHANGED <<spinners, dialog, service, happened>>

(* The timer of expires_at.                                                 *)
IdentityExpires ==
  /\ Disturb
  /\ identity # None
  /\ Shows(None, flow) /\ actionError' = "expired"
  /\ UNCHANGED <<spinners, dialog, service>>

DismissError ==
  /\ Disturb
  /\ actionError # "none" /\ actionError' = "none"
  /\ UNCHANGED <<identity, settling, spinners, dialog, flow, service, over>>

(***************************************************************************)
(* The service and the network.                                            *)
(***************************************************************************)
Answers(f, answer) == flow' = [flow EXCEPT ![f].answer = answer]
Sets(a) == cookie' = a /\ over' = (over \/ a # identity)

(* Sessions of some of these tokens are over: their keys find them no more. *)
EndsSome(tokens) ==
  \E ended \in SUBSET {t \in tokens : exchanged[t] = "kept"} :
    exchanged' = [t \in Tokens |-> IF t \in ended THEN "other" ELSE exchanged[t]]

Serve(f) ==
  /\ flow[f].at \in Asking /\ flow[f].answer = "none"
  /\ CASE flow[f].at = "post" ->
            LET t == flow[f].token IN
              IF exchanged[t] = "no" \/ (exchanged[t] = "kept" /\ flow[f].kept)
              THEN /\ Answers(f, "ok") /\ Sets(Holder[t])
                   /\ exchanged' = [exchanged EXCEPT ![t] = IF flow[f].kept THEN "kept" ELSE "other"]
              ELSE Answers(f, "gone") /\ UNCHANGED <<service, over>>
       [] flow[f].at = "delete" /\ cookie # None ->
            /\ Answers(f, "ok") /\ Sets(None)
            /\ EndsSome({t \in Tokens : Holder[t] = cookie})
       [] flow[f].at = "delete" /\ cookie = None -> \* none, or the cookie of a session that is over
            /\ \E answer \in {"ok", "gone"} : Answers(f, answer)
            /\ UNCHANGED <<service, over>>
       [] flow[f].at \notin {"post", "delete"} /\ cookie = None ->
            Answers(f, "gone") /\ UNCHANGED <<service, over>>
       [] OTHER -> /\ Answers(f, IF flow[f].at \in {"me", "verify"} THEN cookie ELSE "ok")
                   /\ UNCHANGED <<service, over>>
  /\ UNCHANGED <<identity, settling, spinners, actionError, dialog, happened>>

(* A Carbon signs in through the window, which then reports to its opener.  *)
PopupSignsIn(f) ==
  /\ flow[f].at = "popup" /\ flow[f].answer = "none"
  /\ \E a \in Accounts \ Silicons : Sets(a)
  /\ Answers(f, "ok")
  /\ UNCHANGED <<identity, settling, spinners, actionError, dialog, exchanged, happened>>

(* The request or its answer is lost, refused, unreadable or timed out.     *)
RequestLost(f) ==
  /\ flow[f].at \in Asking /\ flow[f].answer # "failed"
  /\ Answers(f, "failed")
  /\ UNCHANGED <<identity, settling, spinners, actionError, dialog, service, over, happened>>

(* The window reports an error, is closed or expires, once: a result that   *)
(* has come first stands.                                                   *)
WindowEnds(f) ==
  /\ flow[f].at = "popup" /\ flow[f].answer = "none"
  /\ Answers(f, "failed")
  /\ UNCHANGED <<identity, settling, spinners, actionError, dialog, service, over, happened>>

(* A session expires or is revoked, the cookie's or one that a key kept     *)
(* still names, or another tab signs in or out.                             *)
CookieChanges ==
  /\ Disturb
  /\ \E a \in WebAccounts : Sets(a)
  /\ EndsSome(Tokens)
  /\ cookie' # cookie \/ exchanged' # exchanged
  /\ UNCHANGED <<identity, settling, spinners, actionError, dialog, flow>>

SessionStep ==
  \/ \E f \in Flows :
       \/ RetryBoot(f) \/ LoginCarbon(f) \/ PopupBlocked(f) \/ CarbonAnswered(f)
       \/ SiliconAnswered(f) \/ BootAnswered(f) \/ ActionAnswered(f)
       \/ LoadAnswered(f) \/ Serve(f) \/ PopupSignsIn(f) \/ RequestLost(f) \/ WindowEnds(f)
       \/ \E t \in Tokens : LoginSilicon(f, t)
       \/ \E kind \in Mutating : Act(f, kind)
       \/ LoadList(f)
  \/ \E silicon \in BOOLEAN : OpenLogin(silicon)
  \/ CloseLogin \/ IdentityExpires \/ SessionChanged \/ DismissError \/ CookieChanges

SessionNext == SessionStep /\ UNCHANGED visible

(* fetch gives up after 25 seconds and the sign-in window after ten         *)
(* minutes, and the browser runs every continuation.                        *)
FlowEnds(f) ==
  \/ Serve(f) \/ PopupSignsIn(f) \/ RequestLost(f) \/ WindowEnds(f)
FlowContinues(f) ==
  \/ CarbonAnswered(f) \/ SiliconAnswered(f) \/ BootAnswered(f) \/ ActionAnswered(f)
  \/ LoadAnswered(f)

SessionSpec ==
  /\ WebVarsInit /\ SessionInit /\ [][SessionNext]_<<sessionVars, visible>>
  /\ \A f \in Flows : WF_sessionVars(FlowEnds(f)) /\ WF_sessionVars(FlowContinues(f))

(***************************************************************************)
(* Properties.                                                             *)
(***************************************************************************)
(* A list that was asked for under an earlier identity and is answered 401  *)
(* late never signs out the identity shown by then: a list only ends a      *)
(* session that the service has ended.  The one moment in which it can do   *)
(* otherwise is before the effect of a new identity has run.                *)
LateListAnswersEndNothing ==
  [][(\E f \in Flows : LoadAnswered(f)) /\ identity' # identity => over \/ settling]_sessionVars

(* Whatever fails, is closed or is lost, no button keeps spinning: a flow   *)
(* that made the page busy or loading releases it in the end.               *)
SpinnersStop == (busy ~> ~busy) /\ (booting ~> ~booting)
==============================================================================
