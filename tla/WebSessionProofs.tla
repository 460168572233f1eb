-------------------------- MODULE WebSessionProofs --------------------------
(***************************************************************************)
(* Proofs about the web session, for any tabs, requests, logins and        *)
(* renewals: the types, the single flight of the refresh, and that the     *)
(* tokens the browser keeps belong together.                               *)
(***************************************************************************)
EXTENDS WebSession, TLAPS

Fields == {"at", "tab", "token", "retried", "renewing"}

\* A request on its way has a tab.
RequestsPlaced ==
    /\ DOMAIN req = Requests
    /\ \A r \in Requests :
          /\ DOMAIN req[r] = Fields
          /\ req[r].at \notin {"unsent", "settled"} => req[r].tab \in Tabs

FlightInv ==
    /\ RequestsPlaced
    /\ refreshing \in [Tabs -> BOOLEAN]
    /\ RefreshAlone
    /\ NobodyLeftWaiting

-----------------------------------------------------------------------------
(* The single flight. *)

\* A step of one request that neither starts nor ends a refresh and joins the
\* waiting ones only while its tab is refreshing.
Quiet(r) ==
    /\ DOMAIN req' = Requests
    /\ \A q \in Requests \ {r} : req'[q] = req[q]
    /\ DOMAIN req'[r] = Fields
    /\ req'[r].at \notin {"unsent", "settled"} => req'[r].tab \in Tabs
    /\ req'[r].at \in AtRefresh <=> req[r].at \in AtRefresh
    /\ req[r].at \in AtRefresh => req'[r].tab = req[r].tab
    /\ req'[r].at = "waiting" => refreshing[req'[r].tab]
    /\ refreshing' = refreshing

\* A quiet step keeps the single flight.
LEMMA QuietKeeps ==
    ASSUME FlightInv, NEW r \in Requests, Quiet(r)
    PROVE  FlightInv'
<1>1. RequestsPlaced'
  BY DEF FlightInv, RequestsPlaced, Quiet
<1>2. \A b \in Tabs : Refreshing(b)' = Refreshing(b)
  BY DEF Quiet, Refreshing
<1>3. RefreshAlone'
  BY <1>2 DEF FlightInv, RefreshAlone, Quiet
<1>4. NobodyLeftWaiting'
  BY DEF FlightInv, NobodyLeftWaiting, Quiet
<1> QED BY <1>1, <1>3, <1>4 DEF FlightInv, Quiet

\* A request that has ended is settled.
LEMMA SettledShape == DOMAIN Settled = Fields /\ Settled.at = "settled"
BY DEF Settled, Unsent, Fields

\* Sending a request is quiet.
LEMMA SendQuiet ==
    ASSUME FlightInv, NEW r \in Requests, NEW b \in Tabs, Send(r, b), refreshing' = refreshing
    PROVE  Quiet(r)
BY DEF FlightInv, RequestsPlaced, Fields, Quiet, Send, AtRefresh

\* Answering one is quiet.
LEMMA AnswerQuiet ==
    ASSUME FlightInv, NEW r \in Requests,
           Judge(r) \/ Deliver(r) \/ Wait(r) \/ GiveUp(r) \/ Renew(r)
    PROVE  Quiet(r)
<1>1. refreshing' = refreshing
  BY DEF Judge, Deliver, Wait, GiveUp, Renew, page
<1>2. CASE Judge(r)
  BY <1>1, <1>2 DEF FlightInv, RequestsPlaced, Fields, Quiet, Judge, AtRefresh
<1>3. CASE Deliver(r) \/ GiveUp(r)
  BY <1>1, <1>3, SettledShape DEF FlightInv, RequestsPlaced, Quiet, Deliver, GiveUp, AtRefresh
<1>4. CASE Wait(r)
  BY <1>1, <1>4 DEF FlightInv, RequestsPlaced, Fields, Quiet, Wait, AtRefresh
<1>5. CASE Renew(r)
  BY <1>1, <1>5 DEF FlightInv, RequestsPlaced, Fields, Quiet, Renew, AtRefresh
<1> QED BY <1>2, <1>3, <1>4, <1>5

\* A refresh starts only while the tab has none.
LEMMA RefreshKeeps ==
    ASSUME FlightInv, NEW r \in Requests, Refresh(r)
    PROVE  FlightInv'
<1>0. PICK b \in Tabs : b = req[r].tab
  BY DEF FlightInv, RequestsPlaced, Refresh
<1>1. ~refreshing[b] /\ Refreshing(b) = {}
  BY <1>0 DEF FlightInv, RefreshAlone, Refresh
<1>2. CASE local.refresh # None
  <2>1. /\ DOMAIN req' = Requests
        /\ \A q \in Requests \ {r} : req'[q] = req[q]
        /\ DOMAIN req'[r] = Fields
        /\ req'[r].at = "refreshing" /\ req'[r].tab = b
    BY <1>0, <1>2 DEF FlightInv, RequestsPlaced, Fields, Refresh
  <2>2. /\ refreshing' \in [Tabs -> BOOLEAN]
        /\ refreshing'[b]
        /\ \A c \in Tabs \ {b} : refreshing'[c] = refreshing[c]
    BY <1>0, <1>2 DEF FlightInv, Refresh
  <2>3. RequestsPlaced'
    BY <2>1 DEF FlightInv, RequestsPlaced
  <2>4. /\ Refreshing(b)' = {r}
        /\ \A c \in Tabs \ {b} : Refreshing(c)' = Refreshing(c)
    <3>1. req[r].at \notin AtRefresh
      BY DEF Refresh, AtRefresh
    <3> QED BY <1>1, <2>1, <3>1 DEF Refreshing, AtRefresh
  <2>5. RefreshAlone'
    BY <1>1, <2>2, <2>4 DEF FlightInv, RefreshAlone
  <2>6. NobodyLeftWaiting'
    <3>1. \A q \in Requests : req'[q].at = "waiting" => q # r /\ req'[q] = req[q] /\ req[q].tab \in Tabs
      BY <2>1 DEF FlightInv, RequestsPlaced
    <3> QED BY <2>2, <3>1 DEF FlightInv, NobodyLeftWaiting
  <2> QED BY <2>2, <2>3, <2>5, <2>6 DEF FlightInv
<1>3. CASE local.refresh = None
  <2>1. Quiet(r)
    BY <1>3, SettledShape DEF FlightInv, RequestsPlaced, Quiet, Refresh, AtRefresh
  <2> QED BY <2>1, QuietKeeps
<1> QED BY <1>2, <1>3

\* Requests of one tab leave their stages together, its refresh and all that wait
\* among them, and the flag comes down: a refresh ends, or the page is loaded anew.
Release(b) ==
    /\ DOMAIN req' = Requests
    /\ \A q \in Requests :
          \/ req'[q] = req[q] /\ ~(req[q].tab = b /\ req[q].at \in AtRefresh \cup {"waiting"})
          \/ /\ DOMAIN req'[q] = Fields
             /\ req[q].tab = b
             /\ req'[q].at \in {"sent", "settled"}
             /\ req'[q].at = "sent" => req'[q].tab = b
    /\ refreshing' = [refreshing EXCEPT ![b] = FALSE]

\* A release keeps the single flight.
LEMMA ReleaseKeeps ==
    ASSUME FlightInv, NEW b \in Tabs, Release(b)
    PROVE  FlightInv'
<1>1. /\ refreshing' \in [Tabs -> BOOLEAN]
      /\ ~refreshing'[b]
      /\ \A c \in Tabs \ {b} : refreshing'[c] = refreshing[c]
  BY DEF FlightInv, Release
<1>2. RequestsPlaced'
  BY DEF FlightInv, RequestsPlaced, Release
<1>3. /\ Refreshing(b)' = {}
      /\ \A c \in Tabs \ {b} : Refreshing(c)' = Refreshing(c)
  BY DEF Refreshing, Release, AtRefresh
<1>4. RefreshAlone'
  BY <1>1, <1>3 DEF FlightInv, RefreshAlone
<1>5. NobodyLeftWaiting'
  <2>1. ASSUME NEW q \in Requests, req'[q].at = "waiting"
        PROVE  req'[q] = req[q] /\ req[q].tab \in Tabs \ {b}
    BY <2>1 DEF FlightInv, RequestsPlaced, Release
  <2> QED BY <1>1, <2>1 DEF FlightInv, NobodyLeftWaiting
<1> QED BY <1>1, <1>2, <1>4, <1>5 DEF FlightInv

\* The end of a refresh is a release.
LEMMA EndRefreshReleases ==
    ASSUME FlightInv, NEW r \in Requests, Renewed(r) \/ RefreshFailed(r)
    PROVE  req[r].tab \in Tabs /\ Release(req[r].tab)
<1>0. PICK b \in Tabs : b = req[r].tab
  BY DEF FlightInv, RequestsPlaced, Renewed, RefreshFailed
<1>1. r \in Refreshing(b) /\ \A q \in Refreshing(b) : q = r
  <2>1. r \in Refreshing(b)
    BY <1>0 DEF Refreshing, AtRefresh, Renewed, RefreshFailed
  <2> QED BY <2>1 DEF FlightInv, RefreshAlone
<1>2. \A q \in Requests \ (Woken(b) \cup {r}) :
         ~(req[q].tab = b /\ req[q].at \in AtRefresh \cup {"waiting"})
  BY <1>1 DEF Woken, Refreshing
<1>3. \A q \in Woken(b) \cup {r} : q \in Requests /\ req[q].tab = b
  BY <1>0 DEF Woken
<1>4. refreshing' = [refreshing EXCEPT ![b] = FALSE]
  BY <1>0 DEF Renewed, RefreshFailed, ResetFlag
<1>5. CASE Renewed(r)
  <2>1. \A q \in Woken(b) \cup {r} :
           DOMAIN req'[q] = Fields /\ req'[q].at = "sent" /\ req'[q].tab = req[q].tab
    BY <1>0, <1>3, <1>5 DEF FlightInv, RequestsPlaced, Fields, Renewed
  <2>2. /\ DOMAIN req' = Requests
        /\ \A q \in Requests \ (Woken(b) \cup {r}) : req'[q] = req[q]
    BY <1>0, <1>5 DEF Renewed
  <2> QED BY <1>1, <1>2, <1>3, <1>4, <2>1, <2>2 DEF Release
<1>6. CASE RefreshFailed(r)
  <2>1. /\ DOMAIN req' = Requests
        /\ \A q \in Requests : req'[q] = IF q \in Woken(b) \cup {r} THEN Settled ELSE req[q]
    BY <1>0, <1>6 DEF RefreshFailed
  <2> QED BY <1>1, <1>2, <1>3, <1>4, <2>1, SettledShape DEF Release
<1> QED BY <1>0, <1>5, <1>6

\* So is a new page.
LEMMA LoadReleases ==
    ASSUME FlightInv, NEW b \in Tabs, Load(b)
    PROVE  Release(b)
BY SettledShape DEF FlightInv, RequestsPlaced, Load, Release

\* At the start nobody refreshes.
LEMMA FlightStart == Init => FlightInv
<1> SUFFICES ASSUME Init PROVE FlightInv
  OBVIOUS
<1>1. \A r \in Requests : DOMAIN req[r] = Fields /\ req[r].at = "unsent"
  BY DEF Init, Unsent, Fields
<1>2. \A b \in Tabs : Refreshing(b) = {}
  BY <1>1 DEF Refreshing, AtRefresh
<1>3. refreshing \in [Tabs -> BOOLEAN] /\ \A b \in Tabs : ~refreshing[b]
  BY DEF Init
<1>4. DOMAIN req = Requests
  BY DEF Init
<1> QED BY <1>1, <1>2, <1>3, <1>4 DEF FlightInv, RequestsPlaced, RefreshAlone, NobodyLeftWaiting

\* Every step keeps the single flight.
LEMMA FlightStep == FlightInv /\ [Next]_vars => FlightInv'
<1> SUFFICES ASSUME FlightInv, [Next]_vars PROVE FlightInv'
  OBVIOUS
<1>1. ASSUME NEW r \in Requests, Progress(r) PROVE FlightInv'
  <2>1. CASE Judge(r) \/ Deliver(r) \/ Wait(r) \/ GiveUp(r) \/ Renew(r)
    BY <2>1, AnswerQuiet, QuietKeeps
  <2>2. CASE Refresh(r)
    BY <2>2, RefreshKeeps
  <2>3. CASE Renewed(r) \/ RefreshFailed(r)
    BY <2>3, EndRefreshReleases, ReleaseKeeps
  <2> QED BY <1>1, <2>1, <2>2, <2>3 DEF Progress
<1>2. ASSUME NEW r \in Requests, NEW b \in Tabs, Request(r, b) \/ Logout(b, r) PROVE FlightInv'
  <2>1. Send(r, b) /\ refreshing' = refreshing
    BY <1>2 DEF Request, Logout, page
  <2> QED BY <2>1, SendQuiet, QuietKeeps
<1>3. ASSUME NEW b \in Tabs, Load(b) PROVE FlightInv'
  BY <1>3, LoadReleases, ReleaseKeeps
<1>4. CASE UNCHANGED <<req, refreshing>>
  BY <1>4 DEF FlightInv, RequestsPlaced, RefreshAlone, NobodyLeftWaiting, Refreshing
<1>5. ASSUME NEW b \in Tabs, Login(b) \/ SignOut(b) \/ StorageEvent(b)
      PROVE  UNCHANGED <<req, refreshing>>
  BY <1>5 DEF Login, SignOut, StorageEvent
<1>6. ASSUME (\E a \in Access : Expire(a)) \/ (\E n \in Logins : Lapse(n)) \/ UNCHANGED vars
      PROVE  UNCHANGED <<req, refreshing>>
  BY <1>6 DEF Expire, Lapse, vars, page
<1> QED BY <1>1, <1>2, <1>3, <1>4, <1>5, <1>6 DEF Next

\* A tab has at most one refresh under way, and isRefreshing is up exactly while
\* it has one, whatever number of requests, tabs and logins there are.
THEOREM OneRefreshAtATime == Spec => []RefreshAlone
<1>1. FlightInv => RefreshAlone
  BY DEF FlightInv
<1> QED BY <1>1, FlightStart, FlightStep, PTL DEF Spec

\* No request is left in failedQueue when the refresh it waits for has ended.
THEOREM NobodyWaitsInVain == Spec => []NobodyLeftWaiting
<1>1. FlightInv => NobodyLeftWaiting
  BY DEF FlightInv
<1> QED BY <1>1, FlightStart, FlightStep, PTL DEF Spec

-----------------------------------------------------------------------------
(* What the browser keeps. *)

RequestRecord ==
    [at: Stages, tab: Tabs \cup {None}, token: Access \cup {None},
     retried: BOOLEAN, renewing: Logins \cup {None}]

\* The request a logout awaits has been sent, from its tab.
LogoutsSent ==
    \A b \in Tabs : signingOut[b] # None =>
        /\ req[signingOut[b]].tab \in {b, None}
        /\ req[signingOut[b]].at # "unsent"

\* A refresh under way has a refresh token, and is granted a token of its login.
Grants ==
    \A r \in Requests : req[r].at \in AtRefresh =>
        /\ req[r].renewing # None
        /\ req[r].at = "granted" =>
              req[r].token \in Access /\ req[r].token.login = req[r].renewing

Typing ==
    /\ req \in [Requests -> RequestRecord]
    /\ signingOut \in [Tabs -> Requests \cup {None}]
    /\ default \in [Tabs -> Access \cup {None}]
    /\ logins \in Nat
    /\ renewed \in [Logins -> 0..MaxRenewals]
    /\ LogoutsSent

StoreTyping ==
    /\ local \in [access: Access \cup {None}, refresh: Logins \cup {None},
                  user: Logins \cup {None}]
    /\ cookie \in Access \cup {None}
    /\ session \in [Tabs -> [access: Access \cup {None}, user: Logins \cup {None}]]

StoreInv == Typing /\ StoreTyping /\ Grants /\ TokensMatch

\* The invariant is about the types TypeOK states.
LEMMA StoreInvTypes == StoreInv => TypeOK
BY DEF StoreInv, Typing, StoreTyping, TypeOK, RequestRecord, LogoutsSent

\* Tokens are tokens.
LEMMA TokenTyped ==
    ASSUME StoreInv, NEW b \in Tabs
    PROVE  Token(b) \in Access \cup {None} /\ Bearer(b) \in Access \cup {None}
BY DEF StoreInv, Typing, StoreTyping, Token, Bearer, OneOf

\* A step of one request that leaves the stores of the browser alone.
LEMMA RequestStep ==
    ASSUME StoreInv, NEW r \in Requests, NEW rec \in RequestRecord,
           req' = [req EXCEPT ![r] = rec],
           rec.tab \in {req[r].tab, None} \/ req[r].at = "unsent",
           rec.at # "unsent",
           rec.at \in AtRefresh =>
              /\ rec.renewing # None
              /\ rec.at = "granted" => rec.token \in Access /\ rec.token.login = rec.renewing,
           UNCHANGED signingOut
    PROVE  req' \in [Requests -> RequestRecord] /\ LogoutsSent' /\ Grants'
<1>1. req' \in [Requests -> RequestRecord]
  BY DEF StoreInv, Typing
<1>2. req'[r] = rec /\ \A q \in Requests \ {r} : req'[q] = req[q]
  BY DEF StoreInv, Typing
<1>3. LogoutsSent'
  BY <1>2 DEF StoreInv, Typing, LogoutsSent
<1>4. Grants'
  BY <1>2 DEF StoreInv, Grants
<1> QED BY <1>1, <1>3, <1>4

\* Requests at rest are requests.
LEMMA SettledRecord == Settled \in RequestRecord /\ Unsent \in RequestRecord
BY DEF Settled, Unsent, RequestRecord, Stages

\* The variables the invariant speaks of besides the requests.
LEMMA OnlyRequestsChange ==
    ASSUME StoreInv, req' \in [Requests -> RequestRecord], LogoutsSent', Grants',
           UNCHANGED <<local, cookie, session, default, signingOut, logins, renewed, late>>
    PROVE  StoreInv'
BY DEF StoreInv, Typing, StoreTyping, TokensMatch

\* Answering a request leaves the stores alone.
LEMMA AnswerKeepsStore ==
    ASSUME StoreInv, NEW r \in Requests, Judge(r) \/ Deliver(r) \/ Wait(r) \/ GiveUp(r)
    PROVE  StoreInv'
<1>1. UNCHANGED <<local, cookie, session, default, signingOut, logins, renewed, late>>
  BY DEF Judge, Deliver, Wait, GiveUp, browser, page, server
<1>2. req[r] \in RequestRecord
  BY DEF StoreInv, Typing
<1>3. CASE Judge(r) \/ Wait(r)
  <2>1. PICK stage \in {"accepted", "denied", "waiting"} : req' = [req EXCEPT ![r].at = stage]
    BY <1>3 DEF Judge, Wait
  <2> DEFINE rec == [req[r] EXCEPT !.at = stage]
  <2>2. /\ rec \in RequestRecord /\ rec.tab = req[r].tab
        /\ rec.at # "unsent" /\ rec.at \notin AtRefresh
    BY <1>2 DEF RequestRecord, Stages, AtRefresh
  <2>3. req' = [req EXCEPT ![r] = rec]
    BY <2>1
  <2> HIDE DEF rec
  <2> QED BY <1>1, <2>2, <2>3, RequestStep, OnlyRequestsChange
<1>4. CASE Deliver(r) \/ GiveUp(r)
  <2>1. Settled.tab = None /\ Settled.at = "settled" /\ Settled.at \notin AtRefresh
    BY DEF Settled, Unsent, AtRefresh
  <2>2. req' = [req EXCEPT ![r] = Settled]
    BY <1>4 DEF Deliver, GiveUp
  <2> QED BY <1>1, <2>1, <2>2, SettledRecord, RequestStep, OnlyRequestsChange
<1> QED BY <1>3, <1>4

\* The server grants an access token of the login whose refresh token it was given.
LEMMA RenewKeepsStore ==
    ASSUME StoreInv, NEW r \in Requests, Renew(r)
    PROVE  StoreInv'
<1> DEFINE n == req[r].renewing
<1>1. UNCHANGED <<local, cookie, session, default, signingOut, logins, late>>
  BY DEF Renew, browser, page
<1>2. req[r] \in RequestRecord /\ n \in Logins /\ n # None
  BY DEF StoreInv, Typing, Grants, Renew, RequestRecord, AtRefresh
<1>3. PICK rec :
         /\ req' = [req EXCEPT ![r] = rec]
         /\ rec \in RequestRecord /\ rec.tab = req[r].tab /\ rec.renewing = n
         /\ rec.at \in {"granted", "refused"}
         /\ rec.at = "granted" => rec.token \in Access /\ rec.token.login = n
  <2>1. CASE renewed[n] < MaxRenewals /\
             req' = [req EXCEPT ![r].at = "granted", ![r].token = [login |-> n, no |-> renewed[n] + 1]]
    <3>1. [login |-> n, no |-> renewed[n] + 1] \in Access
      BY <1>2, <2>1, WebSessionAssumption DEF StoreInv, Typing, Access
    <3> DEFINE rec == [req[r] EXCEPT !.at = "granted", !.token = [login |-> n, no |-> renewed[n] + 1]]
    <3>2. /\ rec \in RequestRecord /\ rec.tab = req[r].tab /\ rec.renewing = n
          /\ rec.at = "granted" /\ rec.token = [login |-> n, no |-> renewed[n] + 1]
      BY <1>2, <3>1 DEF RequestRecord, Stages
    <3>3. req' = [req EXCEPT ![r] = rec]
      BY <2>1
    <3>4. rec.token \in Access /\ rec.token.login = n
      BY <3>1, <3>2
    <3>5. rec.at \in {"granted", "refused"}
      BY <3>2
    <3> HIDE DEF rec
    <3> WITNESS rec
    <3> QED BY <3>2, <3>3, <3>4, <3>5
  <2>2. CASE req' = [req EXCEPT ![r].at = "refused"]
    <3> DEFINE rec == [req[r] EXCEPT !.at = "refused"]
    <3>1. /\ rec \in RequestRecord /\ rec.tab = req[r].tab /\ rec.renewing = n
          /\ rec.at = "refused"
      BY <1>2 DEF RequestRecord, Stages
    <3>2. req' = [req EXCEPT ![r] = rec]
      BY <2>2
    <3> HIDE DEF rec
    <3> QED BY <3>1, <3>2
  <2> QED BY <2>1, <2>2 DEF Renew
<1>4. req' \in [Requests -> RequestRecord] /\ LogoutsSent' /\ Grants'
  BY <1>1, <1>2, <1>3, RequestStep
<1>5. renewed' \in [Logins -> 0..MaxRenewals]
  BY <1>2, WebSessionAssumption DEF StoreInv, Typing, Renew
<1> QED BY <1>1, <1>4, <1>5 DEF StoreInv, Typing, StoreTyping, TokensMatch

\* A request that is sent is one.
LEMMA SendRecord ==
    ASSUME StoreInv, NEW r \in Requests, NEW b \in Tabs, Send(r, b)
    PROVE  /\ req[r].at = "unsent"
           /\ req' \in [Requests -> RequestRecord]
           /\ req'[r].at = "sent" /\ req'[r].tab = b
           /\ \A q \in Requests \ {r} : req'[q] = req[q]
<1> DEFINE rec == [req[r] EXCEPT !.at = "sent", !.tab = b, !.token = Bearer(b)]
<1>1. req[r] \in RequestRecord
  BY DEF StoreInv, Typing
<1>2. rec \in RequestRecord /\ rec.at = "sent" /\ rec.tab = b
  BY <1>1, TokenTyped DEF RequestRecord, Stages
<1>3. req' = [req EXCEPT ![r] = rec]
  BY DEF Send
<1>4. req[r].at = "unsent" /\ req \in [Requests -> RequestRecord]
  BY DEF Send, StoreInv, Typing
<1> HIDE DEF rec
<1> QED BY <1>2, <1>3, <1>4

\* Sending leaves the stores alone.
LEMMA SendKeepsStore ==
    ASSUME StoreInv, NEW r \in Requests, NEW b \in Tabs, Request(r, b) \/ Logout(b, r)
    PROVE  StoreInv'
<1>1. UNCHANGED <<local, cookie, session, default, logins, renewed, late>>
  BY DEF Request, Logout, browser, page, server
<1>2. Send(r, b)
  BY DEF Request, Logout
<1>3. signingOut' = signingOut \/ signingOut' = [signingOut EXCEPT ![b] = r]
  BY DEF Request, Logout, page
<1>4. Grants'
  BY <1>2, SendRecord DEF StoreInv, Grants, AtRefresh
<1>5. LogoutsSent'
  BY <1>2, <1>3, SendRecord DEF StoreInv, Typing, LogoutsSent
<1>6. signingOut' \in [Tabs -> Requests \cup {None}]
  BY <1>3 DEF StoreInv, Typing
<1> QED BY <1>1, <1>2, <1>4, <1>5, <1>6, SendRecord DEF StoreInv, Typing, StoreTyping, TokensMatch

-----------------------------------------------------------------------------
(* Refreshes end, users sign in and out. *)

\* The requests at a tab go on with one token, or end.
LEMMA TabMovesOn ==
    ASSUME StoreInv, NEW S \in SUBSET Requests, NEW rec \in [Requests -> RequestRecord],
           \A q \in S : /\ rec[q].tab \in {req[q].tab, None}
                        /\ rec[q].at \in {"sent", "settled"},
           req' = [q \in Requests |-> IF q \in S THEN rec[q] ELSE req[q]],
           \A b \in Tabs : signingOut'[b] \in {signingOut[b], None}
    PROVE  req' \in [Requests -> RequestRecord] /\ LogoutsSent' /\ Grants'
<1>1. req' \in [Requests -> RequestRecord]
  BY DEF StoreInv, Typing
<1>2. \A q \in Requests : req'[q] = IF q \in S THEN rec[q] ELSE req[q]
  OBVIOUS
<1>3. LogoutsSent'
  BY <1>2 DEF StoreInv, Typing, LogoutsSent
<1>4. Grants'
  BY <1>2 DEF StoreInv, Grants, AtRefresh
<1> QED BY <1>1, <1>3, <1>4

\* The access token stored at the end of a refresh is of the login of the refresh
\* token it was got with; when that one is still stored, so is its user.
LEMMA RenewedKeepsStore ==
    ASSUME StoreInv, NEW r \in Requests, Renewed(r)
    PROVE  StoreInv'
<1> DEFINE token == req[r].token
           S == Woken(req[r].tab) \cup {r}
           rec == [q \in Requests |-> [req[q] EXCEPT !.at = "sent", !.token = token, !.renewing = None]]
<1>1. /\ token \in Access /\ token.login = req[r].renewing /\ req[r].renewing # None
      /\ req \in [Requests -> RequestRecord]
  BY DEF StoreInv, Typing, Grants, Renewed, AtRefresh
<1>2. /\ rec \in [Requests -> RequestRecord]
      /\ \A q \in Requests : rec[q].tab = req[q].tab /\ rec[q].at = "sent"
  <2>1. ASSUME NEW q \in Requests
        PROVE  /\ [req[q] EXCEPT !.at = "sent", !.token = token, !.renewing = None] \in RequestRecord
               /\ rec[q].tab = req[q].tab /\ rec[q].at = "sent"
    BY <1>1 DEF RequestRecord, Stages
  <2> QED BY <2>1
<1>3. S \in SUBSET Requests
  BY DEF Woken
<1>4. req' = [q \in Requests |-> IF q \in S THEN rec[q] ELSE req[q]]
  BY DEF Renewed
<1>5. UNCHANGED <<cookie, session, default, signingOut, logins, renewed>>
  BY DEF Renewed, server
<1> HIDE DEF S, rec
<1>6. req' \in [Requests -> RequestRecord] /\ LogoutsSent' /\ Grants'
  BY <1>2, <1>3, <1>4, <1>5, TabMovesOn
<1>7. local' = [local EXCEPT !.access = token]
  BY DEF Renewed, StoreLocal
<1>8. StoreTyping'
  BY <1>1, <1>5, <1>7 DEF StoreInv, StoreTyping
<1>9. TokensMatch'
  BY <1>1, <1>7 DEF StoreInv, StoreTyping, TokensMatch, Renewed
<1> QED BY <1>5, <1>6, <1>8, <1>9 DEF StoreInv, Typing

\* A failed refresh empties them.
LEMMA RefreshFailedKeepsStore ==
    ASSUME StoreInv, NEW r \in Requests, RefreshFailed(r)
    PROVE  StoreInv'
<1> DEFINE S == Woken(req[r].tab) \cup {r}
           rec == [q \in Requests |-> Settled]
<1>1. S \in SUBSET Requests
  BY DEF Woken
<1>2. /\ rec \in [Requests -> RequestRecord]
      /\ \A q \in Requests : rec[q].tab = None /\ rec[q].at = "settled"
  BY SettledRecord DEF Settled, Unsent
<1>3. req' = [q \in Requests |-> IF q \in S THEN rec[q] ELSE req[q]]
  BY DEF RefreshFailed
<1>4. UNCHANGED <<cookie, session, default, signingOut, logins, renewed>>
  BY DEF RefreshFailed, server
<1> HIDE DEF S, rec
<1>5. req' \in [Requests -> RequestRecord] /\ LogoutsSent' /\ Grants'
  BY <1>1, <1>2, <1>3, <1>4, TabMovesOn
<1>6. local' = [local EXCEPT !.access = None, !.refresh = None]
  BY DEF RefreshFailed, StoreLocal
<1>7. StoreTyping' /\ TokensMatch'
  BY <1>4, <1>6 DEF StoreInv, StoreTyping, TokensMatch
<1> QED BY <1>4, <1>5, <1>7 DEF StoreInv, Typing

\* A refresh stores the token of the login it was granted for.
LEMMA RefreshKeepsStore ==
    ASSUME StoreInv, NEW r \in Requests, Refresh(r)
    PROVE  StoreInv'
<1>1. UNCHANGED <<cookie, session, default, signingOut, logins, renewed, late>>
  BY DEF Refresh, server
<1>2. req[r] \in RequestRecord /\ local.refresh \in Logins \cup {None}
  BY DEF StoreInv, Typing, StoreTyping
<1>3. CASE local.refresh # None
  <2> DEFINE rec == [req[r] EXCEPT !.at = "refreshing", !.retried = TRUE, !.renewing = local.refresh]
  <2>1. /\ rec \in RequestRecord /\ rec.tab = req[r].tab
        /\ rec.at = "refreshing" /\ rec.renewing # None
    BY <1>2, <1>3 DEF RequestRecord, Stages
  <2>2. req' = [req EXCEPT ![r] = rec] /\ local' = local
    BY <1>3 DEF Refresh
  <2> HIDE DEF rec
  <2> QED BY <1>1, <2>1, <2>2, RequestStep, OnlyRequestsChange
<1>4. CASE local.refresh = None
  <2>1. Settled.tab = None /\ Settled.at = "settled" /\ Settled.at \notin AtRefresh
    BY DEF Settled, Unsent, AtRefresh
  <2>2. req' = [req EXCEPT ![r] = Settled] /\ local' = [local EXCEPT !.access = None]
    BY <1>4 DEF Refresh, StoreLocal
  <2>3. req' \in [Requests -> RequestRecord] /\ LogoutsSent' /\ Grants'
    BY <1>1, <2>1, <2>2, SettledRecord, RequestStep
  <2>4. StoreTyping' /\ TokensMatch'
    BY <1>1, <1>4, <2>2 DEF StoreInv, StoreTyping, TokensMatch
  <2> QED BY <1>1, <2>3, <2>4 DEF StoreInv, Typing
<1> QED BY <1>3, <1>4

\* A login stores its own tokens.
LEMMA LoginKeepsStore ==
    ASSUME StoreInv, NEW b \in Tabs, Login(b)
    PROVE  StoreInv'
<1> DEFINE n == logins + 1
           token == [login |-> n, no |-> 0]
<1>1. UNCHANGED <<default, signingOut, req, renewed, late>>
  BY DEF Login
<1>2. n \in Logins /\ token \in Access /\ logins' = n /\ n \in Nat
  BY WebSessionAssumption DEF StoreInv, Typing, Login, Access
<1>3. local' = [access |-> token, refresh |-> n, user |-> n]
  BY DEF Login, StoreLocal, Credentials
<1>4. cookie' = token /\ session' = [session EXCEPT ![b] = [access |-> token, user |-> n]]
  BY DEF Login
<1>5. StoreTyping'
  BY <1>2, <1>3, <1>4 DEF StoreInv, StoreTyping
<1>6. TokensMatch'
  BY <1>3 DEF TokensMatch
<1>7. Typing' /\ Grants'
  BY <1>1, <1>2 DEF StoreInv, Typing, LogoutsSent, Grants
<1> QED BY <1>5, <1>6, <1>7 DEF StoreInv

\* Signing out removes tokens.
LEMMA SignOutKeepsStore ==
    ASSUME StoreInv, NEW b \in Tabs, SignOut(b)
    PROVE  StoreInv'
<1>1. UNCHANGED <<session, default, req, logins, renewed, late>>
  BY DEF SignOut, server
<1>2. local' = [access |-> None, refresh |-> None, user |-> None] /\ cookie' = None
  BY DEF SignOut, StoreLocal, Empty
<1>3. signingOut' = [signingOut EXCEPT ![b] = None]
  BY DEF SignOut
<1>4. StoreTyping' /\ TokensMatch'
  BY <1>1, <1>2 DEF StoreInv, StoreTyping, TokensMatch
<1>5. Typing' /\ Grants'
  BY <1>1, <1>3 DEF StoreInv, Typing, LogoutsSent, Grants
<1> QED BY <1>4, <1>5 DEF StoreInv

\* A storage event touches the page only.
LEMMA StorageEventKeepsStore ==
    ASSUME StoreInv, NEW b \in Tabs, StorageEvent(b)
    PROVE  StoreInv'
<1>1. UNCHANGED <<local, cookie, session, signingOut, req, logins, renewed, late>>
  BY DEF StorageEvent, server
<1>2. default' \in [Tabs -> Access \cup {None}]
  BY TokenTyped DEF StoreInv, Typing, StorageEvent, CheckAuth
<1> QED BY <1>1, <1>2 DEF StoreInv, Typing, StoreTyping, LogoutsSent, Grants, TokensMatch

\* A new page leaves the stores alone.
LEMMA LoadKeepsStore ==
    ASSUME StoreInv, NEW b \in Tabs, Load(b)
    PROVE  StoreInv'
<1> DEFINE S == {q \in Requests : req[q].tab = b}
           rec == [q \in Requests |-> Settled]
<1>1. UNCHANGED <<local, cookie, session, logins, renewed, late>>
  BY DEF Load, server
<1>2. signingOut' = [signingOut EXCEPT ![b] = None]
  BY DEF Load
<1>3. S \in SUBSET Requests
  OBVIOUS
<1>4. /\ rec \in [Requests -> RequestRecord]
      /\ \A q \in Requests : rec[q].tab = None /\ rec[q].at = "settled"
  BY SettledRecord DEF Settled, Unsent
<1>5. req' = [q \in Requests |-> IF q \in S THEN rec[q] ELSE req[q]]
  BY DEF Load
<1>6. default' \in [Tabs -> Access \cup {None}]
  BY TokenTyped DEF StoreInv, Typing, Load, CheckAuth
<1>7. /\ signingOut' \in [Tabs -> Requests \cup {None}]
      /\ \A c \in Tabs : signingOut'[c] \in {signingOut[c], None}
  BY <1>2 DEF StoreInv, Typing
<1> HIDE DEF S, rec
<1>8. req' \in [Requests -> RequestRecord] /\ LogoutsSent' /\ Grants'
  BY <1>3, <1>4, <1>5, <1>7, TabMovesOn
<1> QED BY <1>1, <1>6, <1>7, <1>8 DEF StoreInv, Typing, StoreTyping, TokensMatch

\* At the start nothing is stored.
LEMMA StoreStart == Init => StoreInv
<1> SUFFICES ASSUME Init PROVE StoreInv
  OBVIOUS
<1>1. \A r \in Requests : req[r] = Unsent
  BY DEF Init
<1>2. Unsent.at = "unsent"
  BY DEF Unsent
<1>3. Typing
  BY <1>1, SettledRecord, WebSessionAssumption DEF Init, Typing, LogoutsSent
<1>4. StoreTyping /\ TokensMatch
  BY DEF Init, Empty, NoStore, StoreTyping, TokensMatch
<1>5. Grants
  BY <1>1, <1>2 DEF Grants, AtRefresh
<1> QED BY <1>3, <1>4, <1>5 DEF StoreInv

\* Every step keeps tokens of one login.
LEMMA StoreStep == StoreInv /\ [Next]_vars => StoreInv'
<1> SUFFICES ASSUME StoreInv, [Next]_vars PROVE StoreInv'
  OBVIOUS
<1>1. ASSUME NEW r \in Requests, Progress(r) PROVE StoreInv'
  BY <1>1, AnswerKeepsStore, RefreshKeepsStore, RenewKeepsStore, RenewedKeepsStore,
     RefreshFailedKeepsStore DEF Progress
<1>2. ASSUME NEW r \in Requests, NEW b \in Tabs, Request(r, b) \/ Logout(b, r) PROVE StoreInv'
  BY <1>2, SendKeepsStore
<1>3. ASSUME NEW b \in Tabs, Login(b) \/ SignOut(b) \/ StorageEvent(b) \/ Load(b) PROVE StoreInv'
  BY <1>3, LoginKeepsStore, SignOutKeepsStore, StorageEventKeepsStore, LoadKeepsStore
<1>4. ASSUME NEW a \in Access, Expire(a) PROVE StoreInv'
  BY <1>4 DEF Expire, browser, page, StoreInv, Typing, StoreTyping, LogoutsSent, Grants, TokensMatch
<1>5. ASSUME NEW n \in Logins, Lapse(n) PROVE StoreInv'
  <2>1. UNCHANGED <<local, session, default, signingOut, req, logins, renewed, late>>
    BY <1>5 DEF Lapse, page
  <2>2. cookie' \in {cookie, None}
    BY <1>5 DEF Lapse
  <2> QED BY <2>1, <2>2 DEF StoreInv, Typing, StoreTyping, LogoutsSent, Grants, TokensMatch
<1>6. CASE UNCHANGED vars
  BY <1>6 DEF vars, browser, page, server, StoreInv, Typing, StoreTyping, LogoutsSent, Grants,
     TokensMatch
<1> QED BY <1>1, <1>2, <1>3, <1>4, <1>5, <1>6 DEF Next

\* The session keeps its types, for any tabs, requests, logins and renewals.
THEOREM SessionTyped == Spec => []TypeOK
BY StoreInvTypes, StoreStart, StoreStep, PTL DEF Spec

\* What localStorage keeps is of one login as long as no refresh has ended after
\* its refresh token was replaced or removed.
THEOREM StoredTokensMatch == Spec => []TokensMatch
<1>1. StoreInv => TokensMatch
  BY DEF StoreInv
<1> QED BY <1>1, StoreStart, StoreStep, PTL DEF Spec
=============================================================================
