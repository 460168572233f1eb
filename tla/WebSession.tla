----------------------------- MODULE WebSession -----------------------------
(***************************************************************************)
(* The web client's session: the interceptors of                           *)
(* frontend/lib/api/axios.ts, which renew an access token once for all the *)
(* requests that were refused with it, and the login, logout and           *)
(* restoring of frontend/lib/auth/context.tsx, in the tabs of one browser. *)
(*                                                                         *)
(* A tab runs one piece of JavaScript at a time, up to an await.  The tabs *)
(* share localStorage and the cookies; each has its own sessionStorage,    *)
(* React state and module variables, and loses the last two when its page  *)
(* is loaded anew.  Tokens carry the number of the login they come from.   *)
(***************************************************************************)
EXTENDS Naturals

CONSTANTS
    Tabs,
    Requests,    \* requests the pages make, logout requests among them
    MaxLogins,   \* bound: logins in the life of the model
    MaxRenewals, \* bound: access tokens a login may get after its first
    None

ASSUME WebSessionAssumption == MaxLogins \in Nat /\ MaxRenewals \in Nat

Logins == 1..MaxLogins
Access == [login: Logins, no: 0..MaxRenewals]

VARIABLES
    local,       \* localStorage: access_token, refresh_token, user_data
    cookie,      \* the access_token cookie
    session,     \* sessionStorage of each tab: access_token, user_data
    shown,       \* the user the tab shows as signed in
    default,     \* the tab's default Authorization header
    refreshing,  \* isRefreshing
    signingOut,  \* the request a logout awaits
    leaving,     \* the tab has been sent to /auth
    notified,    \* a storage event is due
    req,         \* the requests
    logins,      \* logins so far
    renewed,     \* access tokens issued to a login after its first
    expired,     \* access tokens past their lifetime
    lapsed,      \* logins whose refresh token is past its lifetime
    late         \* history: the end of a refresh met a refresh token it had not used

browser == <<local, cookie, notified>>
page == <<session, shown, default, refreshing, signingOut, leaving>>
server == <<logins, renewed, expired, lapsed>>
vars == <<browser, page, req, server, late>>

Empty == [access |-> None, refresh |-> None, user |-> None]
NoStore == [access |-> None, user |-> None]

\* failedQueue holds the waiting requests.  Behind "denied" is a 401 on its way,
\* behind "granted" and "refused" the answer to the refresh a request awaits.
Stages == {"unsent", "sent", "accepted", "denied", "waiting",
           "refreshing", "granted", "refused", "settled"}
AtRefresh == {"refreshing", "granted", "refused"}
Unsent == [at |-> "unsent", tab |-> None, token |-> None, retried |-> FALSE, renewing |-> None]
Settled == [Unsent EXCEPT !.at = "settled"]

Init ==
    /\ local = Empty /\ cookie = None
    /\ session = [b \in Tabs |-> NoStore]
    /\ shown = [b \in Tabs |-> None]
    /\ default = [b \in Tabs |-> None]
    /\ refreshing = [b \in Tabs |-> FALSE]
    /\ signingOut = [b \in Tabs |-> None]
    /\ leaving = [b \in Tabs |-> FALSE]
    /\ notified = [b \in Tabs |-> FALSE]
    /\ req = [r \in Requests |-> Unsent]
    /\ logins = 0
    /\ renewed = [n \in Logins |-> 0]
    /\ expired = {} /\ lapsed = {}
    /\ late = FALSE

\* What tab b leaves in localStorage; the other tabs hear of it when the access
\* token or the user has changed.
StoreLocal(b, s) ==
    /\ local' = s
    /\ notified' = [c \in Tabs |-> notified[c] \/
                      (c # b /\ <<s.access, s.user>> # <<local.access, local.user>>)]

OneOf(x, y) == IF x # None THEN x ELSE y

-----------------------------------------------------------------------------
\* Requests.

\* The request interceptor, over the defaults of the axios instance.
Bearer(b) == OneOf(local.access, default[b])

Send(r, b) ==
    /\ req[r].at = "unsent"
    /\ req' = [req EXCEPT ![r].at = "sent", ![r].tab = b, ![r].token = Bearer(b)]

Request(r, b) ==
    /\ Send(r, b)
    /\ UNCHANGED <<browser, page, server, late>>

\* The server accepts a token that has not expired.
Judge(r) ==
    /\ req[r].at = "sent"
    /\ req' = [req EXCEPT ![r].at = IF req[r].token \in Access \ expired
                                    THEN "accepted" ELSE "denied"]
    /\ UNCHANGED <<browser, page, server, late>>

\* The answer arrives, or the request is lost or times out.
Deliver(r) ==
    /\ req[r].at \in {"sent", "accepted", "denied"}
    /\ req' = [req EXCEPT ![r] = Settled]
    /\ UNCHANGED <<browser, page, server, late>>

\* A 401 while the tab is refreshing: the request waits for the new token.
Wait(r) ==
    /\ req[r].at = "denied" /\ ~req[r].retried
    /\ refreshing[req[r].tab]
    /\ req' = [req EXCEPT ![r].at = "waiting"]
    /\ UNCHANGED <<browser, page, server, late>>

\* A 401 otherwise: the request starts a refresh, or the user is sent to /auth.
Refresh(r) ==
    LET b == req[r].tab IN
    /\ req[r].at = "denied" /\ ~req[r].retried
    /\ ~refreshing[b]
    /\ IF local.refresh # None
       THEN /\ refreshing' = [refreshing EXCEPT ![b] = TRUE]
            /\ req' = [req EXCEPT ![r].at = "refreshing", ![r].retried = TRUE,
                                  ![r].renewing = local.refresh]
            /\ UNCHANGED <<local, notified, leaving>>
       ELSE /\ req' = [req EXCEPT ![r] = Settled]
            /\ StoreLocal(b, [local EXCEPT !.access = None])
            /\ leaving' = [leaving EXCEPT ![b] = TRUE]
            /\ UNCHANGED refreshing
    /\ UNCHANGED <<cookie, session, shown, default, signingOut, server, late>>

\* A 401 for the request sent again after its own refresh.
GiveUp(r) ==
    /\ req[r].at = "denied" /\ req[r].retried
    /\ req' = [req EXCEPT ![r] = Settled]
    /\ UNCHANGED <<browser, page, server, late>>

\* TokenRefreshView: a refresh token serves until it lapses, and is not rotated.
\* The request may be lost like any other.
Renew(r) ==
    LET n == req[r].renewing IN
    /\ req[r].at = "refreshing"
    /\ \/ /\ n \notin lapsed /\ renewed[n] < MaxRenewals
          /\ renewed' = [renewed EXCEPT ![n] = @ + 1]
          /\ req' = [req EXCEPT ![r].at = "granted",
                                ![r].token = [login |-> n, no |-> renewed[n] + 1]]
       \/ /\ req' = [req EXCEPT ![r].at = "refused"]
          /\ UNCHANGED renewed
    /\ UNCHANGED <<browser, page, logins, expired, lapsed, late>>

\* Mutant: the queue is emptied before the callbacks have run.
WakeNobody(b) == {}

\* The requests processQueue settles one way or the other.
Woken(b) == {r \in Requests : req[r].tab = b /\ req[r].at = "waiting"}

\* Mutant: the flag is reset after a successful refresh only.
ResetOnSuccess(r) ==
    refreshing' = [refreshing EXCEPT ![req[r].tab] = req[r].at # "granted"]

\* The finally clause.
ResetFlag(r) == refreshing' = [refreshing EXCEPT ![req[r].tab] = FALSE]

\* The new token is stored, and the requests are sent again with it.
Renewed(r) ==
    LET b == req[r].tab
        token == req[r].token IN
    /\ req[r].at = "granted"
    /\ StoreLocal(b, [local EXCEPT !.access = token])
    /\ req' = [q \in Requests |->
                 IF q \in Woken(b) \cup {r}
                 THEN [req[q] EXCEPT !.at = "sent", !.token = token, !.renewing = None]
                 ELSE req[q]]
    /\ ResetFlag(r)
    /\ late' = (late \/ local.refresh # req[r].renewing)
    /\ UNCHANGED <<cookie, session, shown, default, signingOut, leaving, server>>

\* The tokens are removed, the requests fail and the user is sent to /auth.
RefreshFailed(r) ==
    LET b == req[r].tab IN
    /\ req[r].at = "refused"
    /\ StoreLocal(b, [local EXCEPT !.access = None, !.refresh = None])
    /\ req' = [q \in Requests |-> IF q \in Woken(b) \cup {r} THEN Settled ELSE req[q]]
    /\ ResetFlag(r)
    /\ leaving' = [leaving EXCEPT ![b] = TRUE]
    /\ late' = (late \/ local.refresh # req[r].renewing)
    /\ UNCHANGED <<cookie, session, shown, default, signingOut, server>>

-----------------------------------------------------------------------------
\* Signing in and out.

\* checkAuth: cookie, then localStorage, then sessionStorage.
Token(b) == OneOf(cookie, OneOf(local.access, session[b].access))
UserData(b) == OneOf(local.user, session[b].user)

CheckAuth(b) ==
    IF Token(b) # None /\ UserData(b) # None
    THEN /\ shown' = [shown EXCEPT ![b] = UserData(b)]
         /\ default' = [default EXCEPT ![b] = Token(b)]
    ELSE /\ shown' = [shown EXCEPT ![b] = None]
         /\ UNCHANGED default

\* Mutant: the refresh token of the login before stays.
KeepRefresh(n) ==
    [access |-> [login |-> n, no |-> 0], refresh |-> OneOf(local.refresh, n), user |-> n]

\* Mutant: the refresh token of an answer before this one.
Outdated(n) == [access |-> [login |-> n, no |-> 0], refresh |-> n - 1, user |-> n]

Credentials(n) == [access |-> [login |-> n, no |-> 0], refresh |-> n, user |-> n]

\* A login succeeds.
Login(b) ==
    LET n == logins + 1
        token == [login |-> n, no |-> 0] IN
    /\ n \in Logins
    /\ logins' = n
    /\ StoreLocal(b, Credentials(n))
    /\ session' = [session EXCEPT ![b] = [access |-> token, user |-> n]]
    /\ cookie' = token
    /\ shown' = [shown EXCEPT ![b] = n]
    /\ UNCHANGED <<default, refreshing, signingOut, leaving, req, renewed, expired, lapsed, late>>

\* logout tells the server when it has a token.  The server cannot serve the
\* request, which carries no refresh token, and revokes nothing.
Logout(b, r) ==
    /\ signingOut[b] = None
    /\ local.access # None
    /\ Send(r, b)
    /\ signingOut' = [signingOut EXCEPT ![b] = r]
    /\ UNCHANGED <<browser, session, shown, default, refreshing, leaving, server, late>>

\* The finally clause of logout.
SignOut(b) ==
    /\ \/ signingOut[b] = None /\ local.access = None
       \/ signingOut[b] # None /\ req[signingOut[b]] = Settled
    /\ StoreLocal(b, Empty)
    /\ cookie' = None
    /\ shown' = [shown EXCEPT ![b] = None]
    /\ signingOut' = [signingOut EXCEPT ![b] = None]
    /\ leaving' = [leaving EXCEPT ![b] = TRUE]
    /\ UNCHANGED <<session, default, refreshing, req, server, late>>

\* Another tab has changed the access token or the user.
StorageEvent(b) ==
    /\ notified[b]
    /\ notified' = [notified EXCEPT ![b] = FALSE]
    /\ CheckAuth(b)
    /\ UNCHANGED <<local, cookie, session, refreshing, signingOut, leaving, req, server, late>>

\* The page is left and another one loaded; the user may also reload it.
Load(b) ==
    /\ req' = [r \in Requests |->
                 IF req[r].tab = b THEN Settled ELSE req[r]]
    /\ refreshing' = [refreshing EXCEPT ![b] = FALSE]
    /\ signingOut' = [signingOut EXCEPT ![b] = None]
    /\ leaving' = [leaving EXCEPT ![b] = FALSE]
    /\ notified' = [notified EXCEPT ![b] = FALSE]
    /\ IF Token(b) # None /\ UserData(b) # None
       THEN CheckAuth(b)
       ELSE /\ shown' = [shown EXCEPT ![b] = None]
            /\ default' = [default EXCEPT ![b] = None]
    /\ UNCHANGED <<local, cookie, session, server, late>>

-----------------------------------------------------------------------------
\* Lifetimes end; the cookie lives as long as a refresh token.
Expire(a) ==
    /\ a \notin expired
    /\ a.login <= logins /\ a.no <= renewed[a.login]
    /\ expired' = expired \cup {a}
    /\ UNCHANGED <<browser, page, req, logins, renewed, lapsed, late>>

Lapse(n) ==
    /\ n <= logins /\ n \notin lapsed
    /\ lapsed' = lapsed \cup {n}
    /\ cookie' = IF cookie # None /\ cookie.login = n THEN None ELSE cookie
    /\ UNCHANGED <<local, notified, page, req, logins, renewed, expired, late>>

Progress(r) ==
    \/ Judge(r) \/ Deliver(r) \/ Wait(r) \/ Refresh(r) \/ GiveUp(r)
    \/ Renew(r) \/ Renewed(r) \/ RefreshFailed(r)

Next ==
    \/ \E r \in Requests : Progress(r)
    \/ \E r \in Requests, b \in Tabs : Request(r, b) \/ Logout(b, r)
    \/ \E b \in Tabs : Login(b) \/ SignOut(b) \/ StorageEvent(b) \/ Load(b)
    \/ \E a \in Access : Expire(a)
    \/ \E n \in Logins : Lapse(n)

\* A request, the refresh among them, is answered or fails, and its handler runs.
Spec == Init /\ [][Next]_vars /\ \A r \in Requests : WF_vars(Progress(r))

-----------------------------------------------------------------------------
Refreshing(b) == {r \in Requests : req[r].tab = b /\ req[r].at \in AtRefresh}

TypeOK ==
    /\ local \in [access: Access \cup {None}, refresh: Logins \cup {None},
                  user: Logins \cup {None}]
    /\ cookie \in Access \cup {None}
    /\ session \in [Tabs -> [access: Access \cup {None}, user: Logins \cup {None}]]
    /\ \A b \in Tabs : signingOut[b] # None => req[signingOut[b]].tab \in {b, None}
    /\ req \in [Requests -> [at: Stages, tab: Tabs \cup {None}, token: Access \cup {None},
                             retried: BOOLEAN, renewing: Logins \cup {None}]]

\* However requests, refusals, logins and page loads interleave, a tab has at most
\* one refresh under way, and isRefreshing is up exactly while it has one.
RefreshAlone ==
    \A b \in Tabs :
        /\ refreshing[b] <=> Refreshing(b) # {}
        /\ \A r, s \in Refreshing(b) : r = s

\* A request waits in failedQueue only while a refresh will wake it.
NobodyLeftWaiting ==
    \A r \in Requests : req[r].at = "waiting" => refreshing[req[r].tab]

\* The stored tokens and user are of one login, and none is kept after a logout,
\* unless a refresh ended after its refresh token had been replaced or removed.
TokensMatch ==
    ~late => /\ local.refresh # None => local.refresh = local.user
             /\ local.access # None => local.access.login = local.user

\* Every request the page makes comes to an end.
RequestsSettle == \A r \in Requests : req[r].at = "sent" ~> req[r] = Settled

\* context.tsx:125 "sync auth state across tabs" and :234 "Clear local storage and
\* state": when the user has signed out, and every tab has heard of it, no tab
\* shows anybody as signed in.
SignedOutEverywhere ==
    (local = Empty /\ \A b \in Tabs : ~leaving[b] /\ ~notified[b])
        => \A b \in Tabs : shown[b] = None
=============================================================================
