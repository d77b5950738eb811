------------------------------ MODULE Console -------------------------------
(***************************************************************************)
(* The web console in one browser tab: the administrator's session         *)
(* (login/page.tsx, lib/auth.ts, lib/api/client.ts, app-shell.tsx, nav.tsx *)
(* with AuthService and AuthGuard of the API) and the page that is shown.  *)
(*                                                                         *)
(* A page is mounted afresh each time it is shown, and what it shows may   *)
(* have changed meanwhile, so its variables start anew.  Requests of a     *)
(* page that was left go on; of their answers only a 401 has an effect.    *)
(* Loading a location (not following a link) aborts them.  The browser's   *)
(* other tabs share the token.                                             *)
(***************************************************************************)
EXTENDS LiveList, SearchPage, ManagePage

CONSTANTS
  Tokens,   \* the tokens that sign() may issue
  NoToken

ASSUME ConsoleAssumption == NoToken \notin Tokens

VARIABLES
  page,     \* pathname
  token,    \* localStorage
  issued,   \* the tokens signed so far
  expired,  \* those whose exp has passed
  carried,  \* the tokens that requests of the page shown may carry: what
            \* localStorage has held since it was mounted
  late      \* those of requests of pages that were left

sessionVars == <<page, token, issued, expired, carried, late>>
pageVars == <<liveVars, searchVars, manageVars>>
consoleVars == <<sessionVars, pageVars>>

----------------------------------------------------------------------------
Pages == {"dashboard", "messages", "notifications", "monitors", "settings"}

Searches == {"messages", "notifications"}
Managed == {"monitors", "settings"}

\* The variables of the pages that are not shown are left as they are at first.
LiveReset == LiveMount({})
ManageReset == ManageMount(FALSE, NoTable)

ConsoleInit ==
  /\ page = "login"
  /\ token = NoToken
  /\ issued = {} /\ expired = {} /\ carried = {} /\ late = {}
  /\ LiveInit /\ SearchInit /\ ManageInit

ToLogin ==
  /\ page' = "login" /\ carried' = {}
  /\ LiveReset /\ SearchMount /\ ManageReset

\* Page p is mounted while k is in localStorage.
Mount(p, k) ==
  /\ page' = p /\ carried' = {k}
  /\ \/ /\ p = "dashboard"
        /\ \E messages \in SUBSET Messages : LiveMount(messages)
        /\ SearchMount /\ ManageReset
     \/ /\ p \in Searches
        /\ LiveReset /\ SearchMount /\ ManageReset
     \/ /\ p \in Managed
        /\ \E stored \in Tables : ManageMount(p = "settings", stored)
        /\ LiveReset /\ SearchMount

\* AuthGuard and AuthService.verify
Verified(k) == k # NoToken /\ k \notin expired

Expire ==
  /\ \E k \in issued \ expired : expired' = expired \cup {k}
  /\ UNCHANGED <<page, token, issued, carried, late, pageVars>>

----------------------------------------------------------------------------
\* AuthService.login signs a token, if the credentials are right.
Issue(k) == k \notin issued /\ issued' = issued \cup {k}

\* handleSubmit of the login page, which may be shown while there is a token.
Login ==
  /\ page = "login"
  /\ \E k \in Tokens :
       /\ Issue(k)
       /\ token' = k
       /\ Mount("dashboard", k)
  /\ UNCHANGED <<expired, late>>

\* The 401 of wrong credentials: request() removes the token there was.
LoginRefused ==
  /\ page = "login"
  /\ token' = NoToken
  /\ UNCHANGED <<page, issued, expired, carried, late, pageVars>>

\* A link of the NavBar.  AppShell stays mounted and looks at no token.
Visit(p) ==
  /\ page # "login" /\ p # page
  /\ late' = late \cup carried
  /\ Mount(p, token)
  /\ UNCHANGED <<token, issued, expired>>

\* A location is loaded: AppShell sends a visitor without a token to /login, but
\* shows /login to a visitor with one.
Load(p) ==
  /\ late' = {}
  /\ IF token = NoToken \/ p = "login" THEN ToLogin ELSE Mount(p, token)
  /\ UNCHANGED <<token, issued, expired>>

Logout ==
  /\ page # "login"
  /\ token' = NoToken
  /\ late' = late \cup carried
  /\ ToLogin
  /\ UNCHANGED <<issued, expired>>

\* A plausible bug: any error of a request ends the session.
AnyErrorEndsSession(k) ==
  /\ token' = NoToken
  /\ late' = IF page = "login" THEN late \ {k} ELSE {}
  /\ ToLogin
  /\ UNCHANGED <<issued, expired>>

\* request() hears a 401: whatever token there is now is removed.
Unauthorized(k) ==
  /\ ~Verified(k)
  /\ token' = NoToken
  /\ late' = IF page = "login" THEN late \ {k} ELSE {}
  /\ ToLogin
  /\ UNCHANGED <<issued, expired>>

\* Of a request of the page that is shown, or of one that was left.
Asking == CASE page = "dashboard" -> LiveAsking
            [] page \in Searches -> SearchAsking
            [] page \in Managed -> ManageAsking
            [] OTHER -> FALSE

Hear401 ==
  \/ Asking /\ \E k \in carried : Unauthorized(k)
  \/ \E k \in late : Unauthorized(k)

\* What the next requests of the page shown carry.
TokenChanges(k) ==
  /\ token' = k
  /\ carried' = IF page = "login" THEN {} ELSE carried \cup {k}
  /\ UNCHANGED <<page, expired, late, pageVars>>

\* Another tab with the same localStorage logs out, fails to log in or hears a
\* 401, ...
ClearedElsewhere ==
  /\ token # NoToken
  /\ TokenChanges(NoToken)
  /\ UNCHANGED issued

\* ... or logs in.
LoginElsewhere == \E k \in Tokens : Issue(k) /\ TokenChanges(k)

\* The last request of a page that was left has ended.
LateEnds ==
  /\ \E k \in late : late' = late \ {k}
  /\ UNCHANGED <<page, token, issued, expired, carried, pageVars>>

\* The API serves a request whose token it has verified.
Served == \E k \in carried : Verified(k)

PageStep ==
  \/ /\ page = "dashboard"
     /\ LiveStep \/ (Served /\ LiveServed)
     /\ UNCHANGED <<sessionVars, searchVars, manageVars>>
  \/ /\ page \in Searches
     /\ SearchStep \/ (Served /\ SearchServed)
     /\ UNCHANGED <<sessionVars, liveVars, manageVars>>
  \/ /\ page \in Managed
     /\ ManageStep \/ (Served /\ ManageServed)
     /\ UNCHANGED <<sessionVars, liveVars, searchVars>>

ConsoleNext ==
  \/ Login \/ LoginRefused \/ Logout \/ ClearedElsewhere \/ LoginElsewhere
  \/ Expire \/ Hear401 \/ LateEnds
  \/ \E p \in Pages : Visit(p)
  \/ \E p \in Pages \cup {"login"} : Load(p)
  \/ PageStep

ConsoleSpec == ConsoleInit /\ [][ConsoleNext]_consoleVars

----------------------------------------------------------------------------
(***************************************************************************)
(* Properties.                                                             *)
(***************************************************************************)
\* Every variable stays within its type.
ConsoleTypeOK ==
  /\ page \in Pages \cup {"login"}
  /\ token \in issued \cup {NoToken}
  /\ issued \subseteq Tokens /\ expired \subseteq issued
  /\ carried \cup late \subseteq issued \cup {NoToken}
  /\ LiveTypeOK /\ SearchTypeOK /\ ManageTypeOK

\* A session that has not expired ends only by logging out, by a login with
\* wrong credentials, in another tab, or by the 401 of a request under way that
\* carries an older token or none: a 401 removes whatever token there is by then.
SessionEnds ==
  [][Verified(token) /\ token' = NoToken
       => \/ Logout \/ LoginRefused \/ ClearedElsewhere
          \/ \E k \in (carried \cup late) \ {token} : ~Verified(k)]_consoleVars
============================================================================
