--------------------------------- MODULE Web ---------------------------------
(***************************************************************************)
(* What the screens of the web inbox (web/components/ting) share: the      *)
(* account that the page shows as signed in, the session that the          *)
(* browser's cookie names at the service, and whether the tab is visible.  *)
(* The page never reads the cookie; another tab, the service or its expiry *)
(* may change it at any time.                                              *)
(***************************************************************************)
EXTENDS Naturals

CONSTANTS
  Accounts, \* accounts that may sign in
  None      \* nothing

ASSUME WebAssumption == None \notin Accounts

VARIABLES
  identity, \* Workspace.identity: the account shown, or None
  cookie,   \* the account of the live session the cookie names; None: no cookie, or one
            \* whose session is over
  visible,  \* document.visibilityState
  happened  \* how much users, other tabs, the service and the network started

WebAccounts == Accounts \cup {None}

WebVarsOK ==
  /\ identity \in WebAccounts /\ cookie \in WebAccounts
  /\ visible \in BOOLEAN /\ happened \in Nat

WebVarsInit == identity = None /\ cookie \in WebAccounts /\ visible = TRUE /\ happened = 0

(* One more thing that nothing in the page makes happen: each part of the   *)
(* page bounds them with a constant of its own.                             *)
Happens(max) == happened < max /\ happened' = happened + 1
==============================================================================
