------------------------------- MODULE Session -------------------------------
(*****************************************************************************)
(* Who is signed in: the tabs of one browser (app/src/lib/api.ts,            *)
(* lib/hubSso.ts, app/sessionRenewal.ts, store/auth.ts), the refresh cookie  *)
(* they share, the session rows and accounts of the server (routers/auth.py, *)
(* auth_service.py, deps_auth.py) and EmeHub, which may be the authority.    *)
(*                                                                           *)
(* A refresh token is a row and a generation of it: every refresh moves the  *)
(* row to its next generation and puts it in the cookie.  The CSRF cookie    *)
(* travels with the refresh cookie and is not kept apart.  An access token   *)
(* is "fresh" until it ages; a revoked row does not end it.                  *)
(*****************************************************************************)
EXTENDS Naturals, Sequences, FiniteSets

CONSTANTS Users, Tabs, NoUser, NoCookie,
          Sso,             \* QAGENT_HUB_SSO_ENABLED
          MaxSessions,     \* session rows ever created
          MaxRotations,    \* generations of one row's token
          MaxChanges,      \* times the person signed in at the hub changes
          MaxOutages,      \* requests the server or the hub never answers
          MaxAccountEdits  \* sessions ended and accounts edited by somebody

ASSUME SignAssumption == NoUser \notin Users
ASSUME SignBounds == IsFiniteSet(Tabs) /\ MaxSessions \in Nat /\ MaxRotations \in Nat \ {0}

VARIABLES rows,      \* auth_sessions, in the order they were created
          jar,       \* the refresh cookie of the browser
          accounts,  \* users
          tabs,      \* the auth store of each tab
          ladder,    \* refreshInFlight of each tab
          asking,    \* renew()'s inFlight of each tab
          hub, changes, outages, edits

signVars == <<rows, jar, accounts, tabs, ladder, asking, hub, changes, outages, edits>>

Sids == 1..MaxSessions
NoLadder == [at |-> "none", cookie |-> NoCookie, sid |-> 0, for |-> {}]
NoAsking == [at |-> "none", user |-> NoUser, sid |-> 0, for |-> {}]
NewTab == [status |-> "idle", user |-> NoUser, sid |-> 0, fresh |-> FALSE]

SignInit ==
  /\ rows = <<>>
  /\ jar = NoCookie
  /\ accounts = [u \in Users |-> [role |-> "admin", state |-> "active"]]
  /\ tabs = [t \in Tabs |-> NewTab]
  /\ ladder = [t \in Tabs |-> NoLadder]
  /\ asking = [t \in Tabs |-> NoAsking]
  /\ hub \in IF Sso THEN Users ELSE {NoUser}
  /\ changes = 0 /\ outages = 0 /\ edits = 0

(*************************************************************************)
(* The server.                                                           *)
(*************************************************************************)
Active(u) == u # NoUser /\ accounts[u].state = "active"

\* get_valid_session: neither revoked nor expired (nor deleted with its user)
Valid(s) == s \in DOMAIN rows /\ rows[s].state = "live"

\* The row a refresh token belongs to, when its hash still matches
Matches(c) == c # NoCookie /\ Valid(c.sid) /\ rows[c.sid].generation = c.generation

\* create_session
CreateSession(u, local) ==
  /\ Len(rows) < MaxSessions
  /\ rows' = Append(rows, [user |-> u, state |-> "live", generation |-> 1, local |-> local])

\* setSession
Installed(t, u, s) == [tabs[t] EXCEPT !.status = "authed", !.user = u, !.sid = s, !.fresh = TRUE]

\* logout() of the store
Cleared(t) == [tabs[t] EXCEPT !.status = "anon", !.user = NoUser, !.sid = 0, !.fresh = FALSE]

\* revoke
Revoked(sids) == [s \in DOMAIN rows |-> IF s \in sids /\ Valid(s) THEN [rows[s] EXCEPT !.state = "revoked"] ELSE rows[s]]

ActiveAdmins(except) == {u \in Users \ {except} : Active(u) /\ accounts[u].role = "admin"}

\* require_user, on a request that never sees the 401 path
By(t) == tabs[t].status = "authed" /\ tabs[t].fresh /\ Active(tabs[t].user)

(*************************************************************************)
(* Signing in at /login (login, login_mfa): the password form of an      *)
(* anonymous tab.                                                        *)
(*************************************************************************)
SignIn(t, u) ==
  /\ tabs[t].status = "anon" /\ asking[t].at = "none" /\ Active(u)
  /\ CreateSession(u, TRUE)
  /\ jar' = [sid |-> Len(rows'), generation |-> 1]
  /\ tabs' = [tabs EXCEPT ![t] = Installed(t, u, Len(rows'))]
  /\ UNCHANGED <<accounts, ladder, asking, hub, changes, outages, edits>>

\* useLogout (loggingOut only decides which page a later 401 shows): /signed-out clears the store whatever the server says; a stale
\* access token makes logout a 401 that nothing repeats
LogOut(t) ==
  /\ tabs[t].status = "authed"
  /\ tabs' = [tabs EXCEPT ![t] = Cleared(t)]
  /\ IF By(t)
     THEN /\ jar' = NoCookie
          /\ rows' = Revoked({tabs[t].sid})
     ELSE UNCHANGED <<rows, jar>>
  /\ UNCHANGED <<accounts, ladder, asking, hub, changes, outages, edits>>

(*************************************************************************)
(* tryRefresh: one ladder per tab, shared by every caller of that tab.   *)
(*************************************************************************)
Climbs(t, caller) ==
  ladder' = [ladder EXCEPT ![t] = IF @.at = "none"
                                  THEN [at |-> "sent", cookie |-> jar, sid |-> 0, for |-> {caller}]
                                  ELSE [ladder[t] EXCEPT !.for = ladder[t].for \cup {caller}]]

\* The bound on rotations holds back the calls that would need one more
Rotatable == jar # NoCookie =>
  rows[jar.sid].generation + Cardinality({t \in Tabs : ladder[t].at # "none"}) < MaxRotations

\* bootstrap, on the first guard a loaded page mounts
Boot(t) ==
  /\ tabs[t].status = "idle" /\ Rotatable
  /\ tabs' = [tabs EXCEPT ![t].status = "loading"]
  /\ Climbs(t, "boot")
  /\ UNCHANGED <<rows, jar, accounts, asking, hub, changes, outages, edits>>

\* The person reloads a tab that has nothing in flight
Reload(t) ==
  /\ tabs[t].status \in {"authed", "anon"} /\ ladder[t].at = "none" /\ asking[t].at = "none"
  /\ tabs' = [tabs EXCEPT ![t] = NewTab]
  /\ UNCHANGED <<rows, jar, accounts, ladder, asking, hub, changes, outages, edits>>

\* request: an access token the server refuses
RefusedCall(t) ==
  /\ tabs[t].status = "authed" /\ "call" \notin ladder[t].for /\ Rotatable
  /\ ~tabs[t].fresh \/ ~Active(tabs[t].user)
  /\ Climbs(t, "call")
  /\ UNCHANGED <<rows, jar, accounts, tabs, asking, hub, changes, outages, edits>>

(******************************************************************************)
(* What the waiting callers do with an outcome.  tab is the tab as setSession *)
(* left it.                                                                   *)
(******************************************************************************)
AfterLadder(tab, cleared, outcome, for) ==
  IF outcome # "refreshed" /\ ("boot" \in for \/ outcome = "expired") THEN cleared ELSE tab

\* renewFromAuthority joins the renewal under way, or begins one
AsksHub(t, caller) ==
  asking' = [asking EXCEPT ![t] = IF @.at = "none" THEN [NoAsking EXCEPT !.at = "asked", !.for = {caller}]
                                  ELSE [asking[t] EXCEPT !.for = asking[t].for \cup {caller}]]

\* The server reads the cookie's row ...
RefreshChecks(t) ==
  /\ ladder[t].at = "sent"
  /\ ladder' = [ladder EXCEPT ![t] =
       IF Matches(@.cookie) /\ Active(rows[@.cookie.sid].user)
       THEN [@ EXCEPT !.at = "checked", !.sid = ladder[t].cookie.sid]
       ELSE [@ EXCEPT !.at = "refused"]]
  /\ UNCHANGED <<rows, jar, accounts, tabs, asking, hub, changes, outages, edits>>

\* ... and rotates it: nothing looks at the hash again
RefreshRotates(t) ==
  /\ ladder[t].at = "checked"
  /\ LET s == ladder[t].sid
     IN IF rows[s].state = "gone"
        THEN /\ ladder' = [ladder EXCEPT ![t].at = "refused"]
             /\ UNCHANGED rows
        ELSE /\ rows' = [rows EXCEPT ![s].generation = @ + 1]
             /\ ladder' = [ladder EXCEPT ![t].at = "rotated",
                             ![t].cookie = [sid |-> s, generation |-> rows'[s].generation]]
  /\ UNCHANGED <<jar, accounts, tabs, asking, hub, changes, outages, edits>>

RefreshAnswers(t) ==
  /\ ladder[t].at = "rotated"
  /\ jar' = ladder[t].cookie
  /\ tabs' = [tabs EXCEPT ![t] = Installed(t, rows[ladder[t].sid].user, ladder[t].sid)]
  /\ ladder' = [ladder EXCEPT ![t] = NoLadder]
  /\ UNCHANGED <<rows, accounts, asking, hub, changes, outages, edits>>

\* A refusal is put to the session authority, which main.tsx always installs
RefreshRefused(t) ==
  /\ ladder[t].at = "refused"
  /\ AsksHub(t, "ladder")
  /\ ladder' = [ladder EXCEPT ![t].at = "hub"]
  /\ UNCHANGED <<rows, jar, accounts, tabs, hub, changes, outages, edits>>

\* NetworkError and 502-504: the refresh got no answer, which tells nothing
Unanswered_Expired == "expired"
Unanswered == "unreachable"

RefreshUnanswered(t) ==
  /\ ladder[t].at \in {"sent", "rotated", "refused"} /\ outages < MaxOutages
  /\ outages' = outages + 1
  /\ tabs' = [tabs EXCEPT ![t] = AfterLadder(@, Cleared(t), Unanswered, ladder[t].for)]
  /\ ladder' = [ladder EXCEPT ![t] = NoLadder]
  /\ UNCHANGED <<rows, jar, accounts, asking, hub, changes, edits>>

(*************************************************************************)
(* The hub: renewSessionFromHub, and the sign-in screen /sso/callback.   *)
(*************************************************************************)
\* onVisible
Focus(t) ==
  /\ tabs[t].status = "authed" /\ "focus" \notin asking[t].for
  /\ AsksHub(t, "focus")
  /\ UNCHANGED <<rows, jar, accounts, tabs, ladder, hub, changes, outages, edits>>

\* HubSsoEntry sends an anonymous tab to the hub once; HubSsoButton again
ArriveAtHub(t) ==
  /\ tabs[t].status = "anon" /\ asking[t].at = "none" /\ Sso
  /\ AsksHub(t, "arrive")
  /\ UNCHANGED <<rows, jar, accounts, tabs, ladder, hub, changes, outages, edits>>

\* What a renewal means when the hub could not tell
Unknown == "unreachable"

\* renew()'s answer reaches everybody who waits for it
Concludes(t, tab, outcome) ==
  LET for == asking[t].for
      cleared == [tab EXCEPT !.status = "anon", !.user = NoUser, !.sid = 0, !.fresh = FALSE]
      laddered == IF "ladder" \in for THEN AfterLadder(tab, cleared, outcome, ladder[t].for) ELSE tab
      focused == IF "focus" \in for /\ outcome = "expired"
                 THEN cleared ELSE laddered
  IN /\ tabs' = [tabs EXCEPT ![t] = focused]
     /\ asking' = [asking EXCEPT ![t] = NoAsking]
     /\ ladder' = [ladder EXCEPT ![t] = IF "ladder" \in for THEN NoLadder ELSE @]

\* fetchHubSsoConfig, then requestHubAgentToken
HubAnswers(t) ==
  /\ asking[t].at = "asked"
  /\ IF ~Sso
     THEN Concludes(t, tabs[t], Unknown)
     ELSE IF hub = NoUser THEN Concludes(t, tabs[t], "expired")
     ELSE /\ asking' = [asking EXCEPT ![t].at = "minted", ![t].user = hub]
          /\ UNCHANGED <<tabs, ladder>>
  /\ UNCHANGED <<rows, jar, accounts, hub, changes, outages, edits>>

\* Whether the session the hub vouches for leaves a refresh cookie behind
PersistRefresh_Kept == TRUE
PersistRefresh == FALSE

\* resolve_hub_user: a deleted account comes back as a member
Resolved(u) == IF accounts[u].state = "gone" THEN [role |-> "member", state |-> "active"] ELSE accounts[u]

\* sso_complete: resolve_hub_user, then a session row without a cookie
SsoComplete(t) ==
  /\ asking[t].at = "minted"
  /\ LET u == asking[t].user
     IN IF accounts[u].state = "inactive"
        THEN /\ Concludes(t, tabs[t], Unknown)
             /\ UNCHANGED <<rows, accounts>>
        ELSE /\ accounts' = [accounts EXCEPT ![u] = Resolved(u)]
             /\ IF PersistRefresh THEN CreateSession(u, FALSE) ELSE UNCHANGED rows
             /\ asking' = [asking EXCEPT ![t].at = "vouched", ![t].sid = IF PersistRefresh THEN Len(rows') ELSE 0]
             /\ UNCHANGED <<tabs, ladder>>
  /\ UNCHANGED <<jar, hub, changes, outages, edits>>

SsoInstalls(t) ==
  /\ asking[t].at = "vouched"
  /\ jar' = IF PersistRefresh THEN [sid |-> asking[t].sid, generation |-> 1] ELSE NoCookie
  /\ Concludes(t, Installed(t, asking[t].user, asking[t].sid), "refreshed")
  /\ UNCHANGED <<rows, accounts, hub, changes, outages, edits>>

\* One of the three requests gets no answer
HubUnanswered(t) ==
  /\ asking[t].at \in {"asked", "minted", "vouched"} /\ outages < MaxOutages
  /\ outages' = outages + 1
  /\ Concludes(t, tabs[t], Unknown)
  /\ UNCHANGED <<rows, jar, accounts, hub, changes, edits>>

(*************************************************************************)
(* Sessions ended and accounts edited from an authenticated tab.         *)
(*************************************************************************)
\* logout elsewhere, revoke_session, expires_at
RevokeSession(s) ==
  /\ edits < MaxAccountEdits /\ Valid(s)
  /\ rows' = Revoked({s})
  /\ edits' = edits + 1
  /\ UNCHANGED <<jar, accounts, tabs, ladder, asking, hub, changes, outages>>

\* revoke_others; reset_password keeps no session at all
RevokeOthers(u, keeps) ==
  /\ edits < MaxAccountEdits
  /\ rows' = Revoked({s \in DOMAIN rows : rows[s].user = u} \ {keeps})
  /\ rows' # rows
  /\ edits' = edits + 1
  /\ UNCHANGED <<jar, accounts, tabs, ladder, asking, hub, changes, outages>>

\* update_user, under the guard against a workspace without administrators
UpdateUser(t, u, role, state) ==
  /\ edits < MaxAccountEdits /\ By(t) /\ accounts[tabs[t].user].role = "admin" /\ accounts[u].state # "gone"
  /\ [role |-> role, state |-> state] # accounts[u]
  /\ ActiveAdmins(u) # {} \/ ~Active(u) \/ accounts[u].role # "admin" \/ (role = "admin" /\ state = "active")
  /\ accounts' = [accounts EXCEPT ![u] = [role |-> role, state |-> state]]
  /\ edits' = edits + 1
  /\ UNCHANGED <<rows, jar, tabs, ladder, asking, hub, changes, outages>>

\* The sessions of a deleted account go with it
Deletes(u) ==
  /\ edits < MaxAccountEdits
  /\ accounts' = [accounts EXCEPT ![u].state = "gone"]
  /\ rows' = [s \in DOMAIN rows |-> IF rows[s].user = u THEN [rows[s] EXCEPT !.state = "gone"] ELSE rows[s]]
  /\ edits' = edits + 1
  /\ UNCHANGED <<tabs, ladder, asking, hub, changes, outages>>

DeleteUser(t, u) ==
  /\ By(t) /\ accounts[tabs[t].user].role = "admin" /\ accounts[u].state # "gone"
  /\ ActiveAdmins(u) # {} \/ ~Active(u) \/ accounts[u].role # "admin"
  /\ Deletes(u)
  /\ UNCHANGED jar

\* delete_me asks nothing of the other administrators
DeleteMe(t) ==
  /\ By(t)
  /\ Deletes(tabs[t].user)
  /\ jar' = NoCookie

(*************************************************************************)
(* Time and the outside.                                                 *)
(*************************************************************************)
Age(t) ==
  /\ tabs[t].status = "authed" /\ tabs[t].fresh
  /\ tabs' = [tabs EXCEPT ![t].fresh = FALSE]
  /\ UNCHANGED <<rows, jar, accounts, ladder, asking, hub, changes, outages, edits>>

HubChanges(u) ==
  /\ Sso /\ changes < MaxChanges /\ u # hub
  /\ hub' = u
  /\ changes' = changes + 1
  /\ UNCHANGED <<rows, jar, accounts, tabs, ladder, asking, outages, edits>>

SignNext ==
  \/ \E t \in Tabs : \/ LogOut(t) \/ Boot(t) \/ Reload(t) \/ RefusedCall(t)
                    \/ RefreshChecks(t) \/ RefreshRotates(t) \/ RefreshAnswers(t) \/ RefreshRefused(t)
                    \/ RefreshUnanswered(t) \/ Focus(t) \/ ArriveAtHub(t) \/ HubAnswers(t) \/ SsoComplete(t)
                    \/ SsoInstalls(t) \/ HubUnanswered(t) \/ Age(t) \/ DeleteMe(t)
  \/ \E t \in Tabs, u \in Users : SignIn(t, u) \/ DeleteUser(t, u)
  \/ \E t \in Tabs, u \in Users, r \in {"admin", "member"}, s \in {"active", "inactive"} : UpdateUser(t, u, r, s)
  \/ \E s \in Sids : RevokeSession(s)
  \/ \E u \in Users, keep \in Sids \cup {0} : RevokeOthers(u, keep)
  \/ \E u \in Users \cup {NoUser} : HubChanges(u)

(***************************************************************************)
(* Fairness: timers run out, a page that shows something keeps asking, the *)
(* server and the hub answer every request but MaxOutages of them.         *)
(***************************************************************************)
Refreshes(t) == RefreshChecks(t) \/ RefreshRotates(t) \/ RefreshAnswers(t) \/ RefreshRefused(t)
Vouches(t) == HubAnswers(t) \/ SsoComplete(t) \/ SsoInstalls(t)
SignFairness ==
  \A t \in Tabs : /\ WF_signVars(Boot(t)) /\ WF_signVars(RefusedCall(t)) /\ WF_signVars(Age(t))
                 /\ WF_signVars(Refreshes(t)) /\ WF_signVars(Vouches(t))

SignSpec == SignInit /\ [][SignNext]_signVars /\ SignFairness

(*************************************************************************)
(* Properties.                                                           *)
(*************************************************************************)
Cookies == {NoCookie} \cup [sid : Sids, generation : 1..MaxRotations]
SignTypeOK ==
  /\ \A s \in DOMAIN rows : rows[s].state \in {"live", "revoked", "gone"} /\ rows[s].generation \in 1..MaxRotations
  /\ jar \in Cookies
  /\ \A t \in Tabs : /\ tabs[t].status \in {"idle", "loading", "authed", "anon"}
                     /\ (tabs[t].status = "authed") = (tabs[t].user # NoUser)
                     /\ ladder[t].at \in {"none", "sent", "checked", "rotated", "refused", "hub"}
                     /\ ladder[t].at = "hub" => "ladder" \in asking[t].for
                     /\ asking[t].at \in {"none", "asked", "minted", "vouched"}

\* A hub outage, a lost reply, an ended row or two tabs that refresh one cookie
\* together never sign a tab out while the hub has somebody signed in: only the
\* person's own sign-out does (tryRefresh's and renew's three outcomes, of which
\* `unreachable` must change nothing).
OutageSignsNobodyOut ==
  [][\A t \in Tabs : changes = 0 /\ hub # NoUser /\ tabs[t].status = "authed" /\ tabs'[t].status = "anon"
                     => LogOut(t)]_signVars

\* Once no password sign-in is left in the cookie, every tab comes to show the
\* person signed in at the hub or nobody, however the tabs' renewals overlap with
\* the change (sso_complete leaves no cookie; the renewal asks the hub each time).
OfThePassword == jar # NoCookie /\ rows[jar.sid].local
IdentityFollowsHub ==
  <>[](Sso /\ ~OfThePassword /\ (hub = NoUser \/ Active(hub)))
    => <>[](\A t \in Tabs : tabs[t].status = "authed" => tabs[t].user = hub)

\* Without a hub, a tab whose session the server has ended comes to be signed out:
\* "Local logins have no renewer registered and fall straight through, so their
\* fast path is unchanged" (tryRefresh).
DeadSessionEnds ==
  <>[](~Sso /\ ~Matches(jar)) => <>[](\A t \in Tabs : tabs[t].status # "authed")
=============================================================================
