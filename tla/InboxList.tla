------------------------------ MODULE InboxList ------------------------------
(***************************************************************************)
(* The inbox on screen and the watch that keeps it current: useList        *)
(* (web/lib/use-list.ts), the list of web/components/ting/inbox.tsx and    *)
(* the WebSocket effect of workspace.tsx, against the service that answers *)
(* pages and sends hints.                                                  *)
(*                                                                         *)
(* An inbox at the service is only a `version` that grows; a page carries  *)
(* the number of the page, its filters, its account and the version of its *)
(* inbox.  A socket belongs to the session of its handshake: whoever the   *)
(* cookie names later, it watches the inbox of that account.  Of the       *)
(* requests of a list only the latest can have an effect (`generation`),   *)
(* so an older one is forgotten; that its 401 ends nothing is checked in   *)
(* Session.  Likewise a socket that the page has closed delivers nothing.  *)
(***************************************************************************)
EXTENDS Web, Sequences

CONSTANTS
  Paths,       \* settings of the filters, each with its request path
  LastPage,    \* the number of pages the service has for any path
  MaxVersion,  \* bound on changes of each inbox
  MaxHappened  \* bound on everything users and the network do

ASSUME InboxListAssumption == Paths # {} /\ LastPage \in Nat \ {0} /\ MaxVersion \in Nat

VARIABLES
  shown,    \* the inbox page is mounted
  path,     \* the filters
  list,     \* ListState and the latest request
  watch,    \* the socket at the page: its state and the timer running
  connection, \* Workspace.connection
  server,   \* the socket at the service: its account, and frames on their way
  version   \* of each account's inbox

inboxListVars ==
  <<identity, cookie, visible, happened, shown, path, list, watch, connection, server, version>>

NoRequest == [of |-> None, more |-> FALSE, fresh |-> FALSE, answer |-> None]
NoList == [items |-> <<>>, cursor |-> None, loading |-> FALSE, error |-> FALSE, asked |-> NoRequest,
           missed |-> FALSE] \* history: a reload failed and none succeeded since
Status(code) == [page |-> 0, path |-> None, of |-> None, version |-> code]
Gone == Status(401)
Refused == Status(400)
NoServer == [of |-> None, ended |-> FALSE, watching |-> FALSE, asked |-> FALSE, frames |-> <<>>]
NoWatch == [socket |-> "none", timer |-> "none"]

Pages == [page : 1..LastPage, path : Paths, of : Accounts, version : 0..MaxVersion]
Wanted == [path : Paths, page : 1..LastPage, holder : WebAccounts]
Frames == {"ready", "watching_inbox", "inbox_changed", "expired", "denied", "unavailable"}

InboxListTypeOK ==
  /\ WebVarsOK
  /\ shown \in BOOLEAN /\ path \in Paths
  /\ \A i \in DOMAIN list.items : list.items[i] \in Pages
  /\ list.cursor \in (2..LastPage) \cup {None}
  /\ list.loading \in BOOLEAN /\ list.error \in BOOLEAN /\ list.missed \in BOOLEAN
  /\ list.asked \in [of : Wanted \cup {None}, more : BOOLEAN, fresh : BOOLEAN,
                     answer : Pages \cup {None, Gone, Refused}]
  /\ watch \in [socket : {"none", "connecting", "open", "closed"},
                timer : {"none", "connect", "watch"}]
  /\ connection \in {"offline", "connecting", "live", "reconnecting", "paused"}
  /\ server.of \in WebAccounts
  /\ {server.ended, server.watching, server.asked} \subseteq BOOLEAN
  /\ \A i \in DOMAIN server.frames : server.frames[i] \in Frames
  /\ version \in [Accounts -> 0..MaxVersion]

InboxListInit ==
  /\ shown = FALSE /\ path = CHOOSE p \in Paths : TRUE
  /\ list = NoList /\ watch = NoWatch /\ connection = "offline" /\ server = NoServer
  /\ version = [a \in Accounts |-> 0]

(***************************************************************************)
(* The list.                                                               *)
(***************************************************************************)
(* load(): the request is for the path of the effect that ran last; more    *)
(* asks with the cursor, if there is one; the cursor is good for the        *)
(* account that the page it came with was served to.                        *)
Loading(l, p, more) ==
  LET on == more /\ l.cursor # None IN
  [l EXCEPT !.loading = TRUE, !.error = FALSE,
            !.asked = [of |-> [path |-> p, page |-> IF on THEN l.cursor ELSE 1,
                               holder |-> IF on THEN l.items[Len(l.items)].of ELSE None],
                       more |-> more, fresh |-> TRUE, answer |-> None]]

RestartedAnywhere(l, p, keep) ==
  Loading([l EXCEPT !.items = IF keep THEN @ ELSE <<>>, !.missed = keep /\ @], p, FALSE)

(* The effect on [path, revision, identity]: items stay on screen only when *)
(* neither the path nor the account changed.                                *)
Restarted(l, p, keep) ==
  Loading([l EXCEPT !.items = IF keep THEN @ ELSE <<>>, !.cursor = None,
                    !.missed = keep /\ @], p, FALSE)

(* The inbox page appears, with the filters it starts with.  Together with  *)
(* its identity it asks before WorkspaceProvider calls sessionChanged().    *)
DefaultPath == CHOOSE p \in Paths : TRUE
Mounted == Restarted(NoList, DefaultPath, FALSE)
WithIdentity(l) == [l EXCEPT !.asked.fresh = FALSE]

ReloadList == shown /\ list' = Loading(list, path, FALSE)

(* Refresh, which is disabled while the list loads, and the retry of an     *)
(* error.                                                                   *)
UserReloads ==
  /\ Happens(MaxHappened) /\ visible /\ (~list.loading \/ list.error)
  /\ ReloadList
  /\ UNCHANGED <<identity, cookie, shown, visible, path, watch, connection, server, version>>

LoadMore ==
  /\ shown /\ visible /\ list.cursor # None /\ ~list.loading
  /\ Happens(MaxHappened)
  /\ list' = Loading(list, path, TRUE)
  /\ UNCHANGED <<identity, cookie, shown, visible, path, watch, connection, server, version>>

SetFilter(p) ==
  /\ shown /\ p # path
  /\ Happens(MaxHappened)
  /\ path' = p /\ list' = Restarted(list, p, FALSE)
  /\ UNCHANGED <<identity, cookie, shown, visible, watch, connection, server, version>>

(* A mutation that another part of the page finishes: a new revision.       *)
Revise ==
  /\ shown /\ Happens(MaxHappened)
  /\ list' = Restarted(list, path, TRUE)
  /\ UNCHANGED <<identity, cookie, shown, visible, path, watch, connection, server, version>>

(* The service answers for the account of the cookie, whoever is shown, and *)
(* refuses a cursor that it gave to another one.                            *)
ServeList ==
  /\ list.asked.of # None /\ list.asked.answer = None
  /\ LET want == list.asked.of IN list' = [list EXCEPT !.asked.answer =
       CASE cookie = None -> Gone
         [] cookie # None /\ want.holder \notin {None, cookie} -> Refused
         [] OTHER -> [page |-> want.page, path |-> want.path, of |-> cookie,
                      version |-> version[cookie]]]
  /\ UNCHANGED <<identity, cookie, shown, visible, path, watch, connection, server, version, happened>>

Failed(l) ==
  [l EXCEPT !.loading = FALSE, !.error = TRUE, !.missed = @ \/ ~l.asked.more, !.asked = NoRequest]
ListFails ==
  /\ list.asked.of # None
  /\ Happens(MaxHappened)
  /\ list' = Failed(list)
  /\ UNCHANGED <<identity, cookie, shown, visible, path, watch, connection, server, version>>

Received(l) ==
  LET page == l.asked.answer IN
  [l EXCEPT !.items = IF l.asked.more THEN Append(l.items, page) ELSE <<page>>,
            !.cursor = IF page.page < LastPage THEN page.page + 1 ELSE None,
            !.loading = FALSE, !.missed = @ /\ l.asked.more, !.asked = NoRequest]

(***************************************************************************)
(* The watch.                                                              *)
(***************************************************************************)
Connect == watch' = [socket |-> "connecting", timer |-> "none"] /\ connection' = "connecting"
Retrying(timer) == watch' = [watch EXCEPT !.timer = timer] /\ connection' = "reconnecting"

(* The identity ends: its watch and, behind the gate, its page go.          *)
SignedOut ==
  /\ identity' = None /\ connection' = "offline" /\ watch' = NoWatch /\ server' = NoServer
  /\ shown' = FALSE /\ list' = NoList

(* A 401 signs out, unless the identity changed since it was asked for.     *)
ListAnswered ==
  /\ list.asked.answer # None
  /\ IF list.asked.answer = Gone /\ list.asked.fresh THEN SignedOut
     ELSE /\ list' = IF list.asked.answer \in {Gone, Refused} THEN Failed(list) ELSE Received(list)
          /\ UNCHANGED <<identity, shown, connection, watch, server>>
  /\ UNCHANGED <<cookie, visible, path, version, happened>>

(* A sign-in, or a later answer of boot() that replaces the identity by a   *)
(* new object: the effects on [identity] run again.                         *)
SignIn(a) ==
  /\ Happens(MaxHappened)
  /\ identity = None /\ cookie' = a /\ identity' = a
  /\ Connect /\ server' = NoServer
  /\ shown' = TRUE /\ path' = DefaultPath /\ list' = WithIdentity(Mounted)
  /\ UNCHANGED <<visible, version>>

ReplaceIdentity ==
  /\ identity # None /\ cookie # None
  /\ Happens(MaxHappened)
  /\ identity' = cookie
  /\ Connect /\ server' = NoServer
  /\ shown' \in {shown, TRUE}
  /\ path' = IF shown THEN path ELSE DefaultPath
  /\ list' = CASE shown -> WithIdentity(Restarted(list, path, FALSE))
               [] shown' /\ ~shown -> WithIdentity(Mounted)
               [] OTHER -> list
  /\ UNCHANGED <<cookie, visible, version>>

SignOut ==
  /\ identity # None /\ Happens(MaxHappened)
  /\ SignedOut /\ cookie' = None
  /\ UNCHANGED <<visible, path, version>>

(* The handshake of a browser is refused without a session, and the socket  *)
(* keeps the one it was opened with.                                        *)
Handshake ==
  /\ watch.socket = "connecting"
  /\ IF cookie = None
     THEN /\ watch' = [socket |-> "closed", timer |-> "connect"] /\ connection' = "reconnecting"
          /\ UNCHANGED server
     ELSE /\ watch' = [watch EXCEPT !.socket = "open"]
          /\ server' = [NoServer EXCEPT !.of = cookie, !.frames = <<"ready">>]
          /\ UNCHANGED connection
  /\ UNCHANGED <<identity, cookie, shown, visible, path, list, version, happened>>

(* onclose: with it every frame still on its way is lost.                   *)
SocketCloses ==
  /\ watch.socket \in {"connecting", "open"}
  /\ Happens(MaxHappened)
  /\ watch' = [socket |-> "closed", timer |-> "connect"] /\ connection' = "reconnecting"
  /\ server' = NoServer
  /\ UNCHANGED <<identity, cookie, shown, visible, path, list, version>>

(* One timer: schedule() and a refused watch each replace what it was for.  *)
ReconnectFires ==
  /\ watch.timer # "none"
  /\ IF watch.timer = "connect" THEN Connect /\ UNCHANGED server
     ELSE /\ watch' = [watch EXCEPT !.timer = "none"]
          /\ IF watch.socket = "open"
             THEN connection' = "connecting" /\ server' = [server EXCEPT !.asked = TRUE]
             ELSE UNCHANGED <<connection, server>>
  /\ UNCHANGED <<identity, cookie, shown, visible, path, list, version, happened>>

(* onmessage.  A pulse reloads the list of the inbox page.                  *)
Pulse == list' = IF shown THEN Loading(list, path, FALSE) ELSE list
ReceiveFrame ==
  /\ watch.socket = "open" /\ server.frames # <<>>
  /\ LET frame == Head(server.frames)
         rest == [server EXCEPT !.frames = Tail(@)]
     IN CASE frame = "ready" ->
               /\ server' = [rest EXCEPT !.asked = TRUE] /\ connection' = "connecting"
               /\ UNCHANGED <<identity, shown, list, watch>>
          [] frame = "watching_inbox" ->
               /\ server' = rest /\ connection' = "live" /\ Pulse
               /\ UNCHANGED <<identity, shown, watch>>
          [] frame = "inbox_changed" ->
               /\ server' = rest /\ IF visible THEN Pulse ELSE UNCHANGED list
               /\ UNCHANGED <<identity, shown, watch, connection>>
          [] frame = "expired" -> SignedOut
          [] frame = "denied" ->
               /\ server' = rest /\ connection' = "paused"
               /\ UNCHANGED <<identity, shown, list, watch>>
          [] OTHER ->
               /\ server' = rest /\ Retrying("watch")
               /\ UNCHANGED <<identity, shown, list>>
  /\ UNCHANGED <<cookie, visible, path, version, happened>>

(***************************************************************************)
(* The service, other devices and the window.                              *)
(***************************************************************************)
Send(s, frame) == [s EXCEPT !.frames = Append(@, frame)]

(* The watch is accepted while the session of the socket lives, or refused  *)
(* for a while.                                                             *)
ServeWatch ==
  /\ server.asked
  /\ \/ /\ server' = IF server.ended THEN Send([server EXCEPT !.asked = FALSE], "expired")
                     ELSE Send([server EXCEPT !.asked = FALSE, !.watching = TRUE], "watching_inbox")
        /\ UNCHANGED happened
     \/ /\ Happens(MaxHappened)
        /\ \E frame \in {"denied", "unavailable"} :
             server' = Send([server EXCEPT !.asked = FALSE], frame)
  /\ UNCHANGED <<identity, cookie, shown, visible, path, list, watch, connection, version>>

(* The authority of a watch is taken back, with its reason.                 *)
PauseWatch ==
  /\ server.watching /\ Happens(MaxHappened)
  /\ \E frame \in {"denied", "unavailable"} \cup (IF server.ended THEN {"expired"} ELSE {}) :
       server' = Send([server EXCEPT !.watching = FALSE], frame)
  /\ UNCHANGED <<identity, cookie, shown, visible, path, list, watch, connection, version>>

(* Only a watch for the account whose inbox changes is told.                *)
InboxChanges(a) ==
  /\ version[a] < MaxVersion /\ version' = [version EXCEPT ![a] = @ + 1]
  /\ server' = IF server.watching /\ server.of = a THEN Send(server, "inbox_changed") ELSE server
  /\ UNCHANGED <<identity, cookie, shown, visible, path, list, watch, connection, happened>>

(* Another tab signs in or out, or a session ends: the one the socket was   *)
(* opened with, which need not be the cookie's any more, with it or alone.  *)
OtherTab ==
  /\ Happens(MaxHappened)
  /\ cookie' \in WebAccounts
  /\ server' \in {server, [server EXCEPT !.ended = server.of # None]}
  /\ cookie' # cookie \/ server' # server
  /\ UNCHANGED <<identity, shown, visible, path, list, watch, connection, version>>


(* A returning tab catches up.                                              *)
Visibility ==
  /\ Happens(MaxHappened)
  /\ visible' = ~visible
  /\ list' = IF visible' /\ shown THEN Loading(list, path, FALSE) ELSE list
  /\ UNCHANGED <<identity, cookie, shown, path, watch, connection, server, version>>

(* Another page, or a boot() that hides all pages; and back.                *)
Navigate ==
  /\ identity # None /\ Happens(MaxHappened)
  /\ shown' = ~shown
  /\ path' = DefaultPath /\ list' = IF shown THEN NoList ELSE Mounted
  /\ UNCHANGED <<identity, cookie, visible, watch, connection, server, version>>

InboxListNext ==
  \/ UserReloads \/ LoadMore \/ Revise \/ ServeList \/ ListFails \/ ListAnswered
  \/ \E p \in Paths : SetFilter(p)
  \/ \E a \in Accounts : SignIn(a)
  \/ ReplaceIdentity \/ SignOut
  \/ Handshake \/ SocketCloses \/ ReconnectFires \/ ReceiveFrame
  \/ ServeWatch \/ PauseWatch \/ OtherTab \/ Visibility \/ Navigate
  \/ \E a \in Accounts : InboxChanges(a)

(* The service answers what it gets, timers fire and the browser runs its   *)
(* callbacks.                                                               *)
InboxListSpec ==
  /\ WebVarsInit /\ InboxListInit /\ [][InboxListNext]_inboxListVars
  /\ WF_inboxListVars(ServeList) /\ WF_inboxListVars(ListAnswered)
  /\ WF_inboxListVars(Handshake) /\ WF_inboxListVars(ReconnectFires)
  /\ WF_inboxListVars(ReceiveFrame) /\ WF_inboxListVars(ServeWatch)

(***************************************************************************)
(* Properties.                                                             *)
(***************************************************************************)
(* The list is a beginning of one list: pages 1 to k of the filters on      *)
(* screen and of one account, each once and in order, and "Load more" goes  *)
(* on with page k + 1, however reloads, filters, hints, late answers and    *)
(* sign-ins of other tabs overlap.                                          *)
PagesContinue ==
  /\ \A i \in DOMAIN list.items :
       /\ list.items[i].page = i /\ list.items[i].path = path
       /\ list.items[i].of = list.items[1].of
  /\ list.cursor # None => list.cursor = Len(list.items) + 1

(* The list on screen is behind the inbox of the account shown, under a     *)
(* live watch of that inbox.  Left out are a watch whose socket was opened  *)
(* while the cookie was another account's, which is told of that account's  *)
(* inbox only (the page never compares the two and shows "live"), a page    *)
(* whose cookie is still another account's, a list that was reloaded while  *)
(* it was and holds that account's tings until it is reloaded again, and a  *)
(* list whose reload failed, which then showed an error to retry ("Load     *)
(* more" takes it off the screen).                                          *)
Behind ==
  /\ shown /\ visible /\ connection = "live" /\ ~list.missed
  /\ identity = cookie /\ server.of = identity
  /\ \/ list.items = <<>>
     \/ list.items[1].of = identity /\ list.items[1].version # version[identity]

==============================================================================
