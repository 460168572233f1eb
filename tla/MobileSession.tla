--------------------------- MODULE MobileSession ---------------------------
(***************************************************************************)
(* The session of the mobile app: the interceptors of                      *)
(* mobile-app/src/services/api.ts, and login, logout and checkAuth of      *)
(* store/authStore.ts, over the three items of the secure store.           *)
(*                                                                         *)
(* Each access to the secure store is a promise: one is awaited after the  *)
(* other, and everything else in the app may run in between.  Unlike the   *)
(* web client, every refused call refreshes the token by itself, and the   *)
(* interceptors know nothing of the store that says who is signed in.      *)
(* The app may be killed at any time, and a write to the secure store may  *)
(* fail.  An item is named by the login it comes from.                     *)
(***************************************************************************)
EXTENDS Naturals, FiniteSets

CONSTANTS
    Calls,             \* concurrent calls through the interceptors
    SignOutCall,       \* the one that logout makes
    MaxLogins,         \* bound: logins in the life of the model
    MaxInterruptions,  \* bound: kills and failed writes half way through the items
    None

ASSUME MobileAssumption ==
    /\ MaxLogins \in Nat /\ MaxInterruptions \in Nat
    /\ SignOutCall \in Calls
    /\ None \notin Nat

Logins == 1..MaxLogins

VARIABLES
    storage,       \* the secure store: ACCESS_TOKEN, REFRESH_TOKEN, USER_DATA
    screen,        \* what login or logout does next, or where the user is
    signedIn,      \* the user of the auth store, whose isAuthenticated follows
    logins,        \* logins the server has granted
    call,          \* the calls
    interruptions, \* kills and failed writes that left the items half written
    crossed,       \* history: a call wrote over items that were not its own, and
                   \* what it left may still be there
    givenUp        \* history: a call gave up its refresh since the last login

vars == <<storage, screen, signedIn, logins, call, interruptions, crossed, givenUp>>

Empty == [access |-> None, refresh |-> None, user |-> None]
Idle == [at |-> "idle", retried |-> FALSE, owner |-> None]

Saving == {"save_access", "save_refresh", "save_user"}
Dropping == {"drop_access", "drop_refresh", "drop_user"}
SigningOut == {"reading", "calling"} \cup Dropping
Rest == {"signed_in", "signed_out"}
Clearing == {"clear_access", "clear_refresh", "clear_user"}
Stages == {"idle", "sent", "refused", "refreshing", "storing"}
          \cup Clearing

Init ==
    /\ storage = Empty
    /\ screen = "signed_out"
    /\ signedIn = None
    /\ logins = 0
    /\ call = [c \in Calls |-> Idle]
    /\ interruptions = 0
    /\ crossed = FALSE
    /\ givenUp = FALSE

-----------------------------------------------------------------------------
\* A call through the interceptors.

Move(c, stage) == call' = [call EXCEPT ![c].at = stage]
Settle(c) == call' = [call EXCEPT ![c] = Idle]

\* The call writes to the secure store although the items there are not, or will not
\* stay, those of its own login: a token is stored where its refresh token is gone or
\* about to go, items are removed where there is another refresh token, or a login is
\* being saved.
Crosses(c) ==
    \/ /\ call[c].at = "storing"
       /\ \/ storage.refresh # call[c].owner
          \/ screen \in Dropping
          \/ \E d \in Calls : call[d].at \in Clearing
    \/ call[c].at \in Clearing /\ storage.refresh \notin {call[c].owner, None}
    \/ screen \in Saving

\* A screen of the main navigator makes a call.  The request interceptor gives it
\* the access token there is; the model does not say which, because the server may
\* find any of them expired and refuses a call without one.
Request(c) ==
    /\ call[c] = Idle
    /\ c # SignOutCall
    /\ screen \notin {"signed_out", "posting"} \cup Saving
    /\ Move(c, "sent")
    /\ UNCHANGED <<storage, screen, signedIn, logins, interruptions, crossed, givenUp>>

\* Mutant: _retry is not set.
AnswerAgain(c) ==
    /\ call[c].at = "sent"
    /\ Settle(c) \/ Move(c, "refused")
    /\ UNCHANGED <<storage, screen, signedIn, logins, interruptions, crossed, givenUp>>

\* The answer, an error or a timeout; or 401, which is final the second time.
Answer(c) ==
    /\ call[c].at = "sent"
    /\ \/ Settle(c)
       \/ /\ ~call[c].retried
          /\ call' = [call EXCEPT ![c].at = "refused", ![c].retried = TRUE]
    /\ UNCHANGED <<storage, screen, signedIn, logins, interruptions, crossed, givenUp>>

\* The response interceptor reads the refresh token; without one, or if that fails,
\* it gives up.
ReadRefresh(c) ==
    /\ call[c].at = "refused"
    /\ \/ /\ storage.refresh # None
          /\ call' = [call EXCEPT ![c].at = "refreshing", ![c].owner = storage.refresh]
          /\ UNCHANGED givenUp
       \/ /\ Move(c, "clear_access")
          /\ givenUp' = TRUE
    /\ UNCHANGED <<storage, screen, signedIn, logins, interruptions, crossed>>

\* The answer to the refresh: a new access token of the same login, or a failure,
\* of the network or because the refresh token has lapsed.
AnswerRefresh(c) ==
    /\ call[c].at = "refreshing"
    /\ \/ Move(c, "storing") /\ UNCHANGED givenUp
       \/ Move(c, "clear_access") /\ givenUp' = TRUE
    /\ UNCHANGED <<storage, screen, signedIn, logins, interruptions, crossed>>

\* The new token is stored and the call sent again.  A write that fails is treated
\* like a refresh that fails.
StoreAccess(c) ==
    /\ call[c].at = "storing"
    /\ \/ /\ storage' = [storage EXCEPT !.access = call[c].owner]
          /\ crossed' = (crossed \/ Crosses(c))
          /\ Move(c, "sent")
          /\ UNCHANGED givenUp
       \/ /\ Move(c, "clear_access")
          /\ givenUp' = TRUE
          /\ UNCHANGED <<storage, crossed>>
    /\ UNCHANGED <<screen, signedIn, logins, interruptions>>

Cleared(c) ==
    CASE call[c].at = "clear_access" -> [storage EXCEPT !.access = None]
      [] call[c].at = "clear_refresh" -> [storage EXCEPT !.refresh = None]
      [] call[c].at = "clear_user" -> [storage EXCEPT !.user = None]

\* The catch clause removes the three items, one after the other.
Clear(c) ==
    /\ call[c].at \in Clearing
    /\ storage' = Cleared(c)
    /\ crossed' = (crossed \/ Crosses(c))
    /\ CASE call[c].at = "clear_access" -> Move(c, "clear_refresh")
         [] call[c].at = "clear_refresh" -> Move(c, "clear_user")
         [] call[c].at = "clear_user" -> Settle(c)
    /\ UNCHANGED <<screen, signedIn, logins, interruptions, givenUp>>

-----------------------------------------------------------------------------
\* login.  The endpoint authenticates nobody, answers 400 to a wrong password, and
\* so never sends the interceptor to the refresh.

Login ==
    /\ screen = "signed_out"
    /\ logins < MaxLogins
    /\ screen' = "posting"
    /\ UNCHANGED <<storage, signedIn, logins, call, interruptions, crossed, givenUp>>

\* What befell the items so far no longer matters if the login finds no refresh token
\* and no user data: an access token is the first to be replaced.  Only calls still
\* under way may do harm then.
LoginAnswered ==
    /\ screen = "posting"
    /\ \/ /\ screen' = "save_access"
          /\ logins' = logins + 1
          /\ crossed' = (crossed /\ \/ storage.refresh # None \/ storage.user # None
                                    \/ \E c \in Calls : call[c] # Idle)
          /\ givenUp' = FALSE
       \/ /\ screen' = "signed_out"
          /\ UNCHANGED <<logins, crossed, givenUp>>
    /\ UNCHANGED <<storage, signedIn, call, interruptions>>

\* Mutant: user data that is there is not replaced.
SavedOnce ==
    CASE screen = "save_access" -> [storage EXCEPT !.access = logins]
      [] screen = "save_refresh" -> [storage EXCEPT !.refresh = logins]
      [] screen = "save_user" /\ storage.user = None -> [storage EXCEPT !.user = logins]
      [] OTHER -> storage

Saved ==
    CASE screen = "save_access" -> [storage EXCEPT !.access = logins]
      [] screen = "save_refresh" -> [storage EXCEPT !.refresh = logins]
      [] screen = "save_user" -> [storage EXCEPT !.user = logins]

\* The three items are saved in turn; then the auth store is set.
SaveItem ==
    /\ screen \in Saving
    /\ storage' = Saved
    /\ screen' = CASE screen = "save_access" -> "save_refresh"
                   [] screen = "save_refresh" -> "save_user"
                   [] screen = "save_user" -> "signed_in"
    /\ signedIn' = IF screen = "save_user" THEN logins ELSE signedIn
    /\ UNCHANGED <<logins, call, interruptions, crossed, givenUp>>

\* Mutant: logout ends when the refresh token is removed.
DropTokensOnly ==
    \/ /\ screen = "drop_access"
       /\ storage' = [storage EXCEPT !.access = None]
       /\ screen' = "drop_refresh"
       /\ UNCHANGED signedIn
    \/ /\ screen = "drop_refresh"
       /\ storage' = [storage EXCEPT !.refresh = None]
       /\ screen' = "signed_out"
       /\ signedIn' = None

\* logout: tell the server if there is a refresh token and it can be read, then
\* remove the items.
Logout ==
    /\ screen = "signed_in"
    /\ screen' = "reading"
    /\ UNCHANGED <<storage, signedIn, logins, call, interruptions, crossed, givenUp>>

TellServer ==
    /\ screen = "reading"
    /\ \/ storage.refresh # None /\ screen' = "calling" /\ Move(SignOutCall, "sent")
       \/ screen' = "drop_access" /\ UNCHANGED call
    /\ UNCHANGED <<storage, signedIn, logins, interruptions, crossed, givenUp>>

\* The server's answer is ignored; it is 400 in any case.
ServerTold ==
    /\ screen = "calling"
    /\ call[SignOutCall] = Idle
    /\ screen' = "drop_access"
    /\ UNCHANGED <<storage, signedIn, logins, call, interruptions, crossed, givenUp>>

RemoveItem ==
    \/ /\ screen = "drop_access"
       /\ storage' = [storage EXCEPT !.access = None]
       /\ screen' = "drop_refresh"
       /\ UNCHANGED signedIn
    \/ /\ screen = "drop_refresh"
       /\ storage' = [storage EXCEPT !.refresh = None]
       /\ screen' = "drop_user"
       /\ UNCHANGED signedIn
    \/ /\ screen = "drop_user"
       /\ storage' = [storage EXCEPT !.user = None]
       /\ screen' = "signed_out"
       /\ signedIn' = None

DropItem ==
    /\ RemoveItem
    /\ UNCHANGED <<logins, call, interruptions, crossed, givenUp>>

-----------------------------------------------------------------------------
\* A write fails: a login ends with an error, a logout leaves the auth store as it
\* is, and a call is rejected.
WriteFails ==
    /\ interruptions < MaxInterruptions
    /\ interruptions' = interruptions + 1
    /\ \/ /\ screen \in Saving /\ screen' = "signed_out"
          /\ UNCHANGED call
       \/ /\ screen \in Dropping /\ screen' = "signed_in"
          /\ UNCHANGED call
       \/ /\ \E c \in Calls : call[c].at \in Clearing /\ Settle(c)
          /\ UNCHANGED screen
    /\ UNCHANGED <<storage, signedIn, logins, crossed, givenUp>>

\* Mutant: checkAuth looks at the tokens only.
TokensOnly == storage.access # None /\ storage.refresh # None

\* checkAuth at launch takes the user in when all three items are there.
HasSession == storage.access # None /\ storage.refresh # None /\ storage.user # None

\* The app is killed and launched again: memory is lost, the secure store stays.
Restart ==
    LET halfway == screen \in Saving \cup Dropping \/ \E c \in Calls : call[c].at \in Clearing IN
    /\ halfway => interruptions < MaxInterruptions
    /\ interruptions' = IF halfway THEN interruptions + 1 ELSE interruptions
    /\ call' = [c \in Calls |-> Idle]
    /\ IF HasSession
       THEN screen' = "signed_in" /\ signedIn' = storage.user
       ELSE screen' = "signed_out" /\ signedIn' = None
    /\ UNCHANGED <<storage, logins, crossed, givenUp>>

Progress(c) ==
    Answer(c) \/ ReadRefresh(c) \/ AnswerRefresh(c) \/ StoreAccess(c) \/ Clear(c)

Flow == LoginAnswered \/ SaveItem \/ TellServer \/ ServerTold \/ DropItem

Next ==
    \/ \E c \in Calls : Request(c) \/ Progress(c)
    \/ Login \/ Logout \/ Flow
    \/ WriteFails \/ Restart

\* Promises settle: a call is answered or fails, and whatever awaits it goes on.
Spec == Init /\ [][Next]_vars /\ WF_vars(Flow) /\ \A c \in Calls : WF_vars(Progress(c))

-----------------------------------------------------------------------------
Items == {storage.access, storage.refresh, storage.user} \ {None}

TypeOK ==
    /\ storage \in [access: Logins \cup {None}, refresh: Logins \cup {None},
                    user: Logins \cup {None}]
    /\ screen \in Rest \cup {"posting"} \cup Saving \cup SigningOut
    /\ signedIn \in Logins \cup {None}
    /\ signedIn = None <=> screen \in {"signed_out", "posting"} \cup Saving
    /\ logins \in 0..MaxLogins /\ interruptions \in 0..MaxInterruptions
    /\ call \in [Calls -> [at: Stages, retried: BOOLEAN, owner: Logins \cup {None}]]
    /\ crossed \in BOOLEAN /\ givenUp \in BOOLEAN

\* As long as no write failed half way and no call wrote over items that were not its
\* own: nothing is stored when nobody is signed in, what is stored is of the user
\* shown, and it is all there unless a call gave up its refresh.
StorageMatchesScreen ==
    ~crossed /\ interruptions = 0 =>
        /\ screen = "signed_out" => storage = Empty
        /\ screen = "signed_in" => Items \subseteq {signedIn}
        /\ screen = "signed_in" /\ ~givenUp => None \notin {storage.access, storage.refresh, storage.user}

\* One kill or failed write, wherever it strikes and whatever comes after it, leaves
\* no mixture of two logins behind.
OneLogin ==
    ~crossed /\ interruptions <= 1 /\ screen \in Rest => Cardinality(Items) <= 1

\* Every call settles, however many of them are refused together, although each
\* refreshes by itself and takes tokens from the others; and a logout comes to its
\* end, whatever becomes of the call it makes.
CallsSettle ==
    /\ \A c \in Calls : call[c] # Idle ~> call[c] = Idle
    /\ screen \in SigningOut ~> screen \in Rest
=============================================================================
