--------------------------------- MODULE MCWeb ---------------------------------
(***************************************************************************)
(* The parts of the web inbox, checked in one run.  A part is chosen at    *)
(* first and takes all steps; the others stay as they were.  Only Session, *)
(* InboxList and TingDetail share variables, those of Web.                 *)
(***************************************************************************)
EXTENDS TLC, Session, InboxList, TingDetail, Toasts, JsonTree, AccountMenu, Overlays,
        CopyFeedback, Combobox, Pages, Appearance, Tooltips, QuickLook

CONSTANTS carbon, silicon, ting1, ting2, needle1, needle2

VARIABLE part

Parts == {"session", "list", "ting", "toasts", "tree", "menu", "overlay", "copy", "combo",
          "pages", "appearance", "tooltips", "look"}

TheHolder == [t \in Tokens |-> silicon]
TheRecipients == ting1 :> carbon @@ ting2 :> silicon

(* A wide document, with more matches than a search stops at, and a deep one *)
(* that takes its place.                                                    *)
Wide == [nodes |-> {<<>>, <<1>>, <<2>>, <<2, 1>>}, branches |-> {<<>>, <<2>>},
         hits |-> needle1 :> {<<1>>, <<2>>, <<2, 1>>} @@ needle2 :> {<<2, 1>>}]
Deep == [nodes |-> {<<>>, <<1>>, <<1, 1>>, <<1, 2>>}, branches |-> {<<>>, <<1>>},
         hits |-> needle1 :> {<<1, 2>>} @@ needle2 :> {}]
TheDocuments == {Wide, Deep}

TheStops == <<"settings", "theme", "signout">>
TheLabels == [settings |-> <<"s", "e">>, theme |-> <<"t", "h">>, signout |-> <<"s", "i">>]
TheThemes == <<"light", "dark">>
TheText == [idle |-> <<"C", "o", "p", "y">>, copied |-> <<"C", "o", "p", "i", "e", "d">>,
            error |-> <<"F", "a", "i", "l", "e", "d">>]
TheOptions == <<"a", "b", "c", "d">>
TheFinds == [q |-> {"b", "c", "d"}, r |-> {"c"}, none |-> {}]

sharedVars == <<identity, cookie, visible, happened>>
sessionOwn == <<settling, spinners, actionError, dialog, flow, exchanged, over>>
listOwn == <<shown, path, list, watch, connection, server, version>>
tingOwn == <<detail, fetch, frames, acks, read, seen, elsewhere, missed>>

Others(p) ==
  /\ part' = part
  /\ IF p \in {"session", "list", "ting"} THEN TRUE ELSE UNCHANGED sharedVars
  /\ IF p = "session" THEN TRUE ELSE UNCHANGED sessionOwn
  /\ IF p = "list" THEN TRUE ELSE UNCHANGED listOwn
  /\ IF p = "ting" THEN TRUE ELSE UNCHANGED tingOwn
  /\ IF p = "toasts" THEN TRUE ELSE UNCHANGED toastVars
  /\ IF p = "tree" THEN TRUE ELSE UNCHANGED treeVars
  /\ IF p = "menu" THEN TRUE ELSE UNCHANGED menuVars
  /\ IF p = "overlay" THEN TRUE ELSE UNCHANGED overlayVars
  /\ IF p = "copy" THEN TRUE ELSE UNCHANGED copyVars
  /\ IF p = "combo" THEN TRUE ELSE UNCHANGED comboVars
  /\ IF p = "pages" THEN TRUE ELSE UNCHANGED pagesVars
  /\ IF p = "appearance" THEN TRUE ELSE UNCHANGED appearanceVars
  /\ IF p = "tooltips" THEN TRUE ELSE UNCHANGED tooltipVars
  /\ IF p = "look" THEN TRUE ELSE UNCHANGED quickVars

webVars ==
  <<part, sharedVars, sessionOwn, listOwn, tingOwn, toastVars, treeVars, menuVars, overlayVars,
    copyVars, comboVars, pagesVars, appearanceVars, tooltipVars, quickVars>>

(* A page whose session part stands still: nothing is under way.            *)
SessionQuiet ==
  /\ booting = FALSE /\ bootError = FALSE /\ busy = FALSE
  /\ actionError = "none" /\ login = "closed" /\ attempt = None /\ settling = FALSE
  /\ flow = [f \in Flows |-> Idle]
  /\ exchanged = [t \in Tokens |-> "no"]
  /\ over = TRUE

(* A part that is not chosen has one state.                                 *)
WebInit ==
  /\ part \in Parts
  /\ WebVarsInit /\ (part \in {"session", "list", "ting"} \/ cookie = None)
  /\ (IF part = "session" THEN SessionInit ELSE SessionQuiet)
  /\ InboxListInit /\ TingDetailInit /\ ToastsInit
  /\ JsonTreeInit /\ (part = "tree" \/ doc = Wide)
  /\ MenuInit /\ (part = "menu" \/ (~sheet /\ theme = "light"))
  /\ OverlayInit /\ (part = "overlay" \/ (overlay = [kind |-> "dialog", owned |-> TRUE] /\ ~opened))
  /\ CopyInit /\ (part = "copy" \/ ~viewer)
  /\ ComboInit /\ (part = "combo" \/ value = NoOption)
  /\ PagesInit /\ (part = "pages" \/ page = "apps")
  /\ AppearanceInit /\ TooltipInit
  /\ QuickInit /\ (part = "look" \/ (~wanted /\ ~reduced))

WebNext ==
  \/ part = "session" /\ SessionNext /\ UNCHANGED visible /\ Others("session")
  \/ part = "list" /\ InboxListNext /\ Others("list")
  \/ part = "ting" /\ TingDetailNext /\ Others("ting")
  \/ part = "toasts" /\ ToastsNext /\ Others("toasts")
  \/ part = "tree" /\ JsonTreeNext /\ Others("tree")
  \/ part = "menu" /\ MenuStep /\ Others("menu")
  \/ part = "overlay" /\ OverlayStep /\ Others("overlay")
  \/ part = "copy" /\ CopyStep /\ Others("copy")
  \/ part = "combo" /\ ComboStep /\ Others("combo")
  \/ part = "pages" /\ PagesStep /\ Others("pages")
  \/ part = "appearance" /\ AppearanceStep /\ Others("appearance")
  \/ part = "tooltips" /\ TooltipStep /\ Others("tooltips")
  \/ part = "look" /\ QuickStep /\ Others("look")

(* The fairness of the parts, each while it is the one chosen.              *)
WebFair ==
  /\ \A f \in Flows : /\ WF_sessionVars(part = "session" /\ FlowEnds(f))
                      /\ WF_sessionVars(part = "session" /\ FlowContinues(f))
  /\ WF_inboxListVars(part = "list" /\ ServeList) /\ WF_inboxListVars(part = "list" /\ ListAnswered)
  /\ WF_inboxListVars(part = "list" /\ Handshake) /\ WF_inboxListVars(part = "list" /\ ReconnectFires)
  /\ WF_inboxListVars(part = "list" /\ ReceiveFrame) /\ WF_inboxListVars(part = "list" /\ ServeWatch)
  /\ WF_tingDetailVars(part = "ting" /\ ServeTing) /\ WF_tingDetailVars(part = "ting" /\ TingAnswered)
  /\ WF_tingDetailVars(part = "ting" /\ PaintFrame)
  /\ WF_tingDetailVars(part = "ting" /\ \E ack \in acks : ServeAck(ack))
  /\ WF_tingDetailVars(part = "ting" /\ \E ack \in acks : AckAnswered(ack))

WebSpec == WebInit /\ [][WebNext]_webVars /\ WebFair

(* The type of every part, and what the smaller parts promise in every      *)
(* state, each said of the part that moves: the others stay as they were.   *)
WebInv ==
  CASE part = "session" -> SessionTypeOK
    [] part = "list" -> InboxListTypeOK
    [] part = "ting" -> TingDetailTypeOK
    [] part = "toasts" -> ToastsTypeOK
    [] part = "tree" -> JsonTreeTypeOK
    [] part = "menu" -> MenuTypeOK /\ SignOutIsShown
    [] part = "overlay" -> OverlayTypeOK
    [] part = "copy" -> CopyTypeOK /\ FeedbackEnds /\ GlyphsSpell
    [] part = "combo" -> ComboTypeOK /\ FieldIsCoherent
    [] part = "pages" -> PagesTypeOK /\ OneChangeAtATime
    [] part = "appearance" -> AppearanceTypeOK /\ ShowsTheTheme
    [] part = "tooltips" -> TooltipTypeOK /\ WarmthIsTimed
    [] part = "look" -> QuickTypeOK /\ ReturnsEnd
================================================================================
