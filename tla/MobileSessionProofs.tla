------------------------ MODULE MobileSessionProofs ------------------------
(***************************************************************************)
(* Proofs about the session of the mobile app, for any number of calls,    *)
(* logins and interruptions: what is stored fits what is shown, and one    *)
(* interruption leaves no mixture of two logins.                           *)
(***************************************************************************)
EXTENDS MobileSession, FiniteSetTheorems, TLAPS

\* Both are there, and the first is of an earlier login.
Before(x, y) == x # None /\ y # None => x < y

Stage(c) == call[c].at
Owner(c) == call[c].owner

Token == Logins \cup {None}
Calling == [at: Stages, retried: BOOLEAN, owner: Token]

\* A login that is posted is yet to be granted, one that is being saved has been.
TypeInv ==
    /\ TypeOK
    /\ screen = "posting" => logins < MaxLogins
    /\ screen \in Saving => logins # 0

\* The types hold at the start.
LEMMA TypeStart == Init => TypeInv
<1> SUFFICES ASSUME Init PROVE TypeInv
  OBVIOUS
<1>1. storage \in [access: Token, refresh: Token, user: Token]
  BY DEF Init, Empty, Token
<1>2. Idle \in Calling
  BY DEF Idle, Calling, Stages, Token
<1>3. call \in [Calls -> Calling]
  BY <1>2 DEF Init
<1>4. screen \in Rest /\ signedIn = None /\ screen = "signed_out"
  BY DEF Init, Rest
<1>5. logins \in 0..MaxLogins /\ interruptions \in 0..MaxInterruptions
  BY MobileAssumption DEF Init
<1>6. crossed \in BOOLEAN /\ givenUp \in BOOLEAN
  BY DEF Init
<1> QED BY <1>1, <1>3, <1>4, <1>5, <1>6 DEF TypeInv, TypeOK, Calling, Token, Saving

\* A step of one call: the others stand, and only a stored token or a removed item
\* changes the secure store.
LEMMA CallStep ==
    ASSUME TypeInv, NEW c \in Calls, Request(c) \/ Progress(c)
    PROVE  /\ TypeInv' /\ call'[c] \in Calling
           /\ \A d \in Calls \ {c} : call'[d] = call[d]
           /\ UNCHANGED <<screen, signedIn, logins, interruptions>>
<1> USE DEF TypeInv
<1>1. UNCHANGED <<screen, signedIn, logins, interruptions>> /\ crossed' \in BOOLEAN /\ givenUp' \in BOOLEAN
  BY DEF TypeOK, Request, Progress, Answer, ReadRefresh, AnswerRefresh, StoreAccess, Clear
<1>2. call \in [Calls -> Calling] /\ call[c] \in Calling /\ Idle \in Calling
  BY DEF TypeOK, Calling, Token, Idle, Stages
<1>3. storage \in [access: Token, refresh: Token, user: Token]
  BY DEF TypeOK, Token
<1>5. call' \in [Calls -> Calling] /\ \A d \in Calls \ {c} : call'[d] = call[d]
  <2>1. CASE \E st \in Stages : Move(c, st)
    BY <1>2, <2>1 DEF Move, Calling
  <2>2. CASE Settle(c)
    BY <1>2, <2>2 DEF Settle
  <2>3. CASE call' = [call EXCEPT ![c].at = "refused", ![c].retried = TRUE]
    BY <1>2, <2>3 DEF Calling, Stages
  <2>4. CASE call' = [call EXCEPT ![c].at = "refreshing", ![c].owner = storage.refresh]
    BY <1>2, <1>3, <2>4 DEF Calling, Stages
  <2> QED BY <2>1, <2>2, <2>3, <2>4 DEF Request, Progress, Answer, ReadRefresh, AnswerRefresh, StoreAccess,
          Clear, Stages, Clearing
<1>6. storage' \in [access: Token, refresh: Token, user: Token]
  <2>1. CASE Clear(c)
    BY <1>3, <2>1 DEF Clear, Cleared, Clearing, Token
  <2>2. CASE StoreAccess(c)
    BY <1>2, <1>3, <2>2 DEF StoreAccess, Calling
  <2> QED BY <1>3, <2>1, <2>2 DEF Request, Progress, Answer, ReadRefresh, AnswerRefresh
<1> QED BY <1>1, <1>5, <1>6 DEF TypeOK, Calling, Token

\* The steps of the screens and of the system.
Screen == Login \/ Logout \/ Flow \/ WriteFails \/ Restart

\* Steps of the store of the session keep the types.
LEMMA ScreenTyped ==
    ASSUME TypeInv, Screen
    PROVE  TypeInv'
<1>1. /\ storage \in [access: Token, refresh: Token, user: Token]
      /\ call \in [Calls -> Calling] /\ Idle \in Calling
      /\ None \in Token /\ signedIn \in Token
  BY DEF TypeInv, TypeOK, Calling, Token, Idle, Stages
<1>2. /\ None \notin Logins /\ MaxLogins \in Nat /\ MaxInterruptions \in Nat
      /\ logins \in 0..MaxLogins /\ interruptions \in 0..MaxInterruptions
      /\ screen \in Saving => logins \in Logins
  BY MobileAssumption DEF TypeInv, TypeOK, Logins
<1>3. call' \in [Calls -> Calling]
  <2>1. CASE WriteFails
    BY <1>1, <2>1 DEF WriteFails, Settle
  <2>2. CASE TellServer
    BY <1>1, <2>2, MobileAssumption DEF TellServer, Move, Calling, Stages
  <2> QED BY <1>1, <2>1, <2>2 DEF Screen, Login, Logout, Flow, LoginAnswered, SaveItem, ServerTold,
          DropItem, Restart
<1>4. storage' \in [access: Token, refresh: Token, user: Token]
  <2>1. CASE SaveItem
    BY <1>1, <1>2, <2>1 DEF SaveItem, Saved, Saving, Token
  <2>2. CASE DropItem
    BY <1>1, <2>2 DEF DropItem, RemoveItem
  <2> QED BY <1>1, <2>1, <2>2 DEF Screen, Login, Logout, Flow, LoginAnswered, TellServer, ServerTold,
          WriteFails, Restart
<1>5. interruptions' \in 0..MaxInterruptions
  BY <1>2 DEF Screen, Login, Logout, Flow, LoginAnswered, SaveItem, TellServer, ServerTold, DropItem,
     WriteFails, Restart
<1>6. /\ logins' \in 0..MaxLogins
      /\ screen' = "posting" => logins' < MaxLogins
      /\ screen' \in Saving => logins' # 0
  <2>1. CASE LoginAnswered
    BY <1>2, <2>1 DEF LoginAnswered, TypeInv, Saving
  <2>2. CASE SaveItem
    BY <1>2, <2>2 DEF SaveItem, Saving, Logins
  <2>3. CASE Login
    BY <1>2, <2>3 DEF Login, Saving
  <2>4. CASE Logout \/ TellServer \/ ServerTold \/ DropItem \/ WriteFails \/ Restart
    <3>1. \/ logins' = logins /\ screen' \notin {"posting"} \cup Saving \cup {screen}
          \/ UNCHANGED <<logins, screen>>
      BY <2>4 DEF Logout, TellServer, ServerTold, DropItem, RemoveItem, WriteFails, Restart, Saving
    <3> QED BY <1>2, <3>1 DEF TypeInv
  <2> QED BY <2>1, <2>2, <2>3, <2>4 DEF Screen, Flow
<1>7. /\ screen' \in Rest \cup {"posting"} \cup Saving \cup SigningOut
      /\ signedIn' \in Token
      /\ signedIn' = None <=> screen' \in {"signed_out", "posting"} \cup Saving
  <2>0. /\ signedIn \in Token
        /\ signedIn = None <=> screen \in {"signed_out", "posting"} \cup Saving
    BY <1>1 DEF TypeInv, TypeOK
  <2>1. CASE Login \/ LoginAnswered
    BY <2>0, <2>1 DEF Login, LoginAnswered, Saving, Rest
  <2>2. CASE SaveItem
    BY <1>2, <2>0, <2>2 DEF SaveItem, Saving, Rest, Token
  <2>3. CASE Logout \/ TellServer \/ ServerTold
    BY <2>0, <2>3 DEF Logout, TellServer, ServerTold, SigningOut, Dropping, Saving
  <2>4. CASE DropItem
    BY <1>1, <2>0, <2>4 DEF DropItem, RemoveItem, SigningOut, Dropping, Saving, Rest
  <2>5. CASE WriteFails
    BY <2>0, <2>5 DEF WriteFails, SigningOut, Dropping, Saving, Rest, TypeInv, TypeOK
  <2>6. CASE Restart
    BY <1>1, <2>6 DEF Restart, HasSession, Rest, Saving
  <2> QED BY <2>1, <2>2, <2>3, <2>4, <2>5, <2>6 DEF Screen, Flow
<1>8. crossed' \in BOOLEAN /\ givenUp' \in BOOLEAN
  BY DEF TypeInv, TypeOK, Screen, Login, Logout, Flow, LoginAnswered, SaveItem, TellServer, ServerTold,
     DropItem, RemoveItem, WriteFails, Restart
<1> QED BY <1>3, <1>4, <1>5, <1>6, <1>7, <1>8 DEF TypeInv, TypeOK, Calling, Token

\* Every step keeps the types.
LEMMA TypeNext == TypeInv /\ [Next]_vars => TypeInv'
<1> SUFFICES ASSUME TypeInv, [Next]_vars PROVE TypeInv'
  OBVIOUS
<1>1. CASE UNCHANGED vars
  BY <1>1 DEF vars, TypeInv, TypeOK
<1> QED BY <1>1, CallStep, ScreenTyped DEF Next, Screen

\* The session keeps its types: a user is shown once all items of a login are saved.
THEOREM SessionTyped == Spec => []TypeOK
<1>1. TypeInv => TypeOK
  BY DEF TypeInv
<1> QED BY <1>1, TypeStart, TypeNext, PTL DEF Spec

-----------------------------------------------------------------------------
(* What a step of a call does. *)

Quiet == UNCHANGED <<storage, crossed>>

\* It is sent, refused, or settled.
Passes(c) ==
    /\ Stage(c)' \in {"idle", "sent", "refused"} /\ Owner(c)' \in {Owner(c), None}
    /\ Stage(c) \notin Clearing /\ Quiet /\ givenUp' = givenUp

Reads(c) ==
    /\ Stage(c)' = "refreshing" /\ storage.refresh # None /\ Owner(c)' = storage.refresh
    /\ Stage(c) \notin Clearing /\ Quiet /\ givenUp' = givenUp

Gets(c) ==
    /\ Stage(c) = "refreshing" /\ Stage(c)' = "storing" /\ Owner(c)' = Owner(c)
    /\ Quiet /\ givenUp' = givenUp

GivesUp(c) ==
    /\ Stage(c)' = "clear_access" /\ Owner(c)' = Owner(c)
    /\ Stage(c) \notin Clearing /\ Quiet /\ givenUp'

Stores(c) ==
    /\ Stage(c) = "storing" /\ Stage(c)' = "sent" /\ Owner(c)' = Owner(c)
    /\ storage' = [storage EXCEPT !.access = Owner(c)]
    /\ crossed' = (crossed \/ Crosses(c)) /\ givenUp' = givenUp

Removes(c) ==
    /\ Stage(c) \in Clearing /\ storage' = Cleared(c)
    /\ \/ Stage(c) = "clear_access" /\ Stage(c)' = "clear_refresh" /\ Owner(c)' = Owner(c)
       \/ Stage(c) = "clear_refresh" /\ Stage(c)' = "clear_user" /\ Owner(c)' = Owner(c)
       \/ Stage(c) = "clear_user" /\ Stage(c)' = "idle" /\ Owner(c)' = None
    /\ crossed' = (crossed \/ Crosses(c)) /\ givenUp' = givenUp

\* The steps of a call, by what they do to the items.
LEMMA CallDoes ==
    ASSUME TypeInv, NEW c \in Calls, Request(c) \/ Progress(c)
    PROVE  Passes(c) \/ Reads(c) \/ Gets(c) \/ GivesUp(c) \/ Stores(c) \/ Removes(c)
<1>0. call \in [Calls -> Calling]
  BY DEF TypeInv, TypeOK, Calling, Token
<1> USE DEF Stage, Owner
<1>1. CASE Request(c)
  BY <1>0, <1>1 DEF Request, Move, Calling, Passes, Quiet, Idle, Clearing
<1>2. CASE Answer(c)
  BY <1>0, <1>2 DEF Answer, Settle, Idle, Calling, Passes, Quiet, Clearing
<1>3. CASE ReadRefresh(c)
  BY <1>0, <1>3 DEF ReadRefresh, Move, Calling, Reads, GivesUp, Quiet, Clearing
<1>4. CASE AnswerRefresh(c)
  BY <1>0, <1>4 DEF AnswerRefresh, Move, Calling, Gets, GivesUp, Quiet, Clearing
<1>5. CASE StoreAccess(c)
  BY <1>0, <1>5 DEF StoreAccess, Move, Calling, Stores, GivesUp, Quiet, Clearing
<1>6. CASE Clear(c)
  <2>1. \/ Stage(c) = "clear_access" /\ Move(c, "clear_refresh")
        \/ Stage(c) = "clear_refresh" /\ Move(c, "clear_user")
        \/ Stage(c) = "clear_user" /\ Settle(c)
    BY <1>6 DEF Clear, Clearing
  <2> QED BY <1>0, <1>6, <2>1 DEF Clear, Move, Settle, Idle, Calling, Removes, Clearing
<1> QED BY <1>1, <1>2, <1>3, <1>4, <1>5, <1>6 DEF Progress

-----------------------------------------------------------------------------
(* Which login items and calls come from. *)

Known(x) == x = None \/ x <= logins

\* A call that has removed an item does not know the one that is there now, and one that
\* gives up the latest login has said so.
CallOK(c) ==
    /\ Stage(c) \in {"refreshing", "storing"} => Owner(c) # None
    /\ Known(Owner(c))
    /\ screen \in {"save_access", "save_refresh"} => Before(Owner(c), logins)
    /\ Stage(c) = "clear_user" => Before(Owner(c), storage.refresh)
    /\ ~crossed /\ Stage(c) \in {"clear_refresh", "clear_user"} => Before(Owner(c), storage.access)
    /\ Stage(c) \in Clearing /\ Owner(c) = logins => givenUp

Base ==
    /\ Known(storage.access) /\ Known(storage.refresh) /\ Known(storage.user)
    /\ screen \in {"save_access", "save_refresh"} => Before(storage.refresh, logins)
    /\ screen # "calling" => call[SignOutCall] = Idle
    /\ \A c \in Calls : CallOK(c)

\* What items and calls are.
LEMMA Types ==
    ASSUME TypeInv
    PROVE  /\ storage \in [access: Token, refresh: Token, user: Token]
           /\ storage.access \in Token /\ storage.refresh \in Token /\ storage.user \in Token
           /\ logins \in Nat /\ logins # None
           /\ \A x \in Token : x \in Nat <=> x # None
           /\ \A c \in Calls : Owner(c) \in Token /\ Stage(c) \in Stages
<1>1. storage \in [access: Token, refresh: Token, user: Token]
  BY DEF TypeInv, TypeOK, Token
<1>2. logins \in Nat /\ logins # None /\ \A x \in Token : x \in Nat <=> x # None
  BY MobileAssumption DEF TypeInv, TypeOK, Token, Logins
<1>3. \A c \in Calls : call[c] \in Calling
  BY DEF TypeInv, TypeOK, Calling, Token
<1> QED BY <1>1, <1>2, <1>3 DEF Calling, Owner, Stage

\* At the start no item and no call comes from a login.
LEMMA BaseStart == Init => Base
<1> SUFFICES ASSUME Init PROVE Base
  OBVIOUS
<1>1. storage.access = None /\ storage.refresh = None /\ storage.user = None /\ screen = "signed_out"
  BY DEF Init, Empty
<1>2. \A c \in Calls : call[c] = Idle /\ Stage(c) = "idle" /\ Owner(c) = None
  BY DEF Init, Idle, Stage, Owner
<1>3. \A c \in Calls : CallOK(c)
  BY <1>1, <1>2 DEF CallOK, Known, Clearing
<1> QED BY <1>1, <1>2, <1>3, MobileAssumption DEF Base, Known

\* Steps of a call keep where things come from.
LEMMA BaseCall ==
    ASSUME TypeInv, Base, NEW c \in Calls, Request(c) \/ Progress(c)
    PROVE  Base'
<1>0. /\ UNCHANGED <<screen, signedIn, logins, interruptions>>
      /\ \A d \in Calls \ {c} : call'[d] = call[d] /\ Stage(d)' = Stage(d) /\ Owner(d)' = Owner(d)
      /\ TypeInv'
  BY CallStep DEF Stage, Owner
<1>1. CallOK(c) /\ \A d \in Calls : CallOK(d)
  BY DEF Base
<1>2. screen # "calling" => call'[SignOutCall] = Idle
  <2>1. CASE c # SignOutCall
    BY <1>0, <2>1, MobileAssumption DEF Base
  <2>2. CASE c = SignOutCall /\ call[c] = Idle
    BY <2>2 DEF Idle, Request, Progress, Answer, ReadRefresh, AnswerRefresh, StoreAccess, Clear, Clearing
  <2> QED BY <2>1, <2>2 DEF Base
<1>3. CASE Passes(c) \/ Reads(c) \/ Gets(c) \/ GivesUp(c)
  <2>1. /\ storage' = storage /\ crossed' = crossed /\ (givenUp => givenUp')
    BY <1>3 DEF Quiet, Passes, Reads, Gets, GivesUp
  <2>2. ASSUME NEW d \in Calls \ {c} PROVE CallOK(d)'
    BY <1>0, <1>1, <2>1 DEF CallOK, Known
  <2>3. CallOK(c)'
    <3>1. CASE Passes(c)
      BY <1>0, <1>1, <2>1, <3>1 DEF CallOK, Known, Before, Passes, Clearing
    <3>2. CASE Reads(c)
      BY <1>0, <1>1, <2>1, <3>2 DEF CallOK, Known, Before, Base, Reads, Clearing
    <3>3. CASE Gets(c) \/ GivesUp(c)
      BY <1>0, <1>1, <2>1, <3>3 DEF CallOK, Known, Before, Gets, GivesUp, Clearing
    <3> QED BY <1>3, <3>1, <3>2, <3>3
  <2> QED BY <1>0, <1>1, <1>2, <2>1, <2>2, <2>3 DEF Base, Known, Before
<1>4. CASE Stores(c)
  <2>1. /\ storage'.access = Owner(c) /\ storage'.refresh = storage.refresh /\ storage'.user = storage.user
    BY <1>4, Types DEF Stores
  <2>2. ASSUME ~crossed' PROVE ~crossed /\ \A d \in Calls : Stage(d) \notin Clearing
    BY <1>4, <2>2 DEF Stores, Crosses, Stage
  <2>3. ASSUME NEW d \in Calls \ {c} PROVE CallOK(d)'
    BY <1>0, <1>1, <1>4, <2>1, <2>2 DEF CallOK, Known, Stores, Clearing
  <2>4. CallOK(c)'
    BY <1>0, <1>1, <1>4 DEF CallOK, Known, Stores, Clearing
  <2> QED BY <1>0, <1>1, <1>2, <2>1, <2>3, <2>4 DEF Base, Known, CallOK
<1>5. CASE Removes(c)
  <2>1. /\ storage'.access \in {storage.access, None} /\ storage'.refresh \in {storage.refresh, None}
        /\ storage'.user \in {storage.user, None}
        /\ Stage(c) = "clear_access" => storage'.access = None
        /\ Stage(c) = "clear_refresh" => storage'.refresh = None
    BY <1>5, Types DEF Removes, Cleared, Clearing, Stage
  <2>2. (crossed => crossed') /\ givenUp' = givenUp
    BY <1>5 DEF Removes
  <2>3. ASSUME NEW d \in Calls \ {c} PROVE CallOK(d)'
    BY <1>0, <1>1, <2>1, <2>2 DEF CallOK, Known, Before
  <2>4. CallOK(c)'
    BY <1>0, <1>1, <1>5, <2>1, <2>2, Types DEF CallOK, Known, Before, Removes, Clearing
  <2> QED BY <1>0, <1>1, <1>2, <2>1, <2>3, <2>4 DEF Base, Known, Before
<1> QED BY <1>3, <1>4, <1>5, CallDoes

\* A call that is let alone, ended, or sent where there was none.
Spares(c) ==
    \/ Stage(c)' = Stage(c) /\ Owner(c)' = Owner(c)
    \/ Stage(c)' \in {"idle", "sent"} /\ Owner(c)' = None

\* Items may go, and calls with them, between one login and the next.
LEMMA BaseKept ==
    ASSUME TypeInv, Base, logins' = logins, givenUp' = givenUp, crossed' = crossed,
           storage'.access \in {storage.access, None}, storage'.refresh \in {storage.refresh, None},
           storage'.user \in {storage.user, None},
           screen' \notin {"save_access", "save_refresh"},
           screen' # "calling" => call'[SignOutCall] = Idle,
           \A c \in Calls : Spares(c)
    PROVE  Base'
<1>1. ASSUME NEW c \in Calls PROVE CallOK(c)'
  <2>1. CallOK(c) /\ Spares(c)
    BY DEF Base
  <2>2. CASE Stage(c)' = Stage(c) /\ Owner(c)' = Owner(c)
    BY <2>1, <2>2 DEF CallOK, Known, Before
  <2>3. CASE Stage(c)' \in {"idle", "sent"} /\ Owner(c)' = None
    BY <2>3 DEF CallOK, Known, Before, Clearing
  <2> QED BY <2>1, <2>2, <2>3 DEF Spares
<1> QED BY <1>1 DEF Base, Known

\* So do the steps of the store.
LEMMA BaseScreen ==
    ASSUME TypeInv, Base, Screen
    PROVE  Base'
<1>0. /\ TypeInv' /\ call \in [Calls -> Calling] /\ SignOutCall \in Calls
      /\ \A c \in Calls : CallOK(c)
  BY ScreenTyped, MobileAssumption DEF Base, TypeInv, TypeOK, Calling, Token
<1>1. CASE call' = call /\ storage' = storage /\ logins' = logins /\ givenUp' = givenUp /\ crossed' = crossed
           /\ screen' \notin {"save_access", "save_refresh"} /\ (screen' # "calling" => screen # "calling" \/ call[SignOutCall] = Idle)
  <2>1. \A c \in Calls : Spares(c)
    BY <1>1 DEF Spares, Stage, Owner
  <2>2. screen' # "calling" => call'[SignOutCall] = Idle
    BY <1>1 DEF Base
  <2> QED BY <1>1, <2>1, <2>2, BaseKept
<1>2. CASE Login \/ Logout \/ ServerTold
  BY <1>1, <1>2 DEF Login, Logout, ServerTold
<1>3. CASE LoginAnswered /\ screen' = "signed_out"
  BY <1>1, <1>3 DEF LoginAnswered
<1>4. CASE LoginAnswered /\ screen' # "signed_out"
  <2>1. /\ screen = "posting" /\ screen' = "save_access" /\ logins' = logins + 1
        /\ storage' = storage /\ call' = call
        /\ ~crossed' => ~crossed \/ \A c \in Calls : call[c] = Idle
    BY <1>4 DEF LoginAnswered
  <2>2. ASSUME NEW c \in Calls PROVE CallOK(c)'
    <3>1. CallOK(c) /\ Stage(c)' = Stage(c) /\ Owner(c)' = Owner(c)
      BY <1>0, <2>1 DEF Stage, Owner
    <3>2. ~crossed' /\ Stage(c) \in {"clear_refresh", "clear_user"} => ~crossed
      BY <2>1 DEF Stage, Idle
    <3>3. Owner(c) \in Token /\ logins \in Nat
      BY Types
    <3> QED BY <2>1, <3>1, <3>2, <3>3, Types DEF CallOK, Known, Before
  <2> QED BY <2>1, <2>2, Types DEF Base, Known, Before
<1>5. CASE SaveItem
  <2>1. /\ storage'.access \in {storage.access, logins} /\ storage'.refresh \in {storage.refresh, logins}
        /\ storage'.user \in {storage.user, logins}
        /\ screen = "save_access" => storage'.refresh = storage.refresh
        /\ screen # "save_access" => storage'.access = storage.access
        /\ screen = "save_user" => storage'.refresh = storage.refresh
        /\ \/ screen = "save_access" /\ screen' = "save_refresh"
           \/ screen = "save_refresh" /\ screen' = "save_user"
           \/ screen = "save_user" /\ screen' = "signed_in"
    BY <1>5, Types DEF SaveItem, Saved, Saving
  <2>2. UNCHANGED <<logins, call, crossed, givenUp>> /\ \A c \in Calls : Stage(c)' = Stage(c) /\ Owner(c)' = Owner(c)
    BY <1>5 DEF SaveItem, Stage, Owner
  <2>3. ASSUME NEW c \in Calls PROVE CallOK(c)'
    BY <1>0, <2>1, <2>2, Types DEF CallOK, Known, Before
  <2>4. Known(storage'.access) /\ Known(storage'.refresh) /\ Known(storage'.user)
    BY <2>1, Types DEF Base, Known
  <2> QED BY <2>1, <2>2, <2>3, <2>4 DEF Base, Known
<1>6. CASE TellServer
  <2>1. CASE screen' = "drop_access"
    BY <1>1, <1>6, <2>1 DEF TellServer
  <2>2. CASE screen' = "calling" /\ Move(SignOutCall, "sent")
    <3>1. call[SignOutCall] = Idle /\ UNCHANGED <<storage, logins, crossed, givenUp>>
      BY <1>6 DEF Base, TellServer
    <3>2. ASSUME NEW c \in Calls PROVE Spares(c)
      BY <1>0, <2>2, <3>1, <3>2 DEF Move, Idle, Calling, Spares, Stage, Owner
    <3> QED BY <2>2, <3>1, <3>2, BaseKept
  <2> QED BY <1>6, <2>1, <2>2 DEF TellServer
<1>7. CASE DropItem
  <2>1. /\ storage'.access \in {storage.access, None} /\ storage'.refresh \in {storage.refresh, None}
        /\ storage'.user \in {storage.user, None}
        /\ screen # "calling" /\ screen' \notin {"save_access", "save_refresh"}
    BY <1>7, Types DEF DropItem, RemoveItem
  <2>2. UNCHANGED <<logins, call, crossed, givenUp>> /\ \A c \in Calls : Spares(c)
    BY <1>7 DEF DropItem, Spares, Stage, Owner
  <2> QED BY <2>1, <2>2, BaseKept DEF Base
<1>8. CASE WriteFails
  <2>1. UNCHANGED <<storage, logins, crossed, givenUp>>
    BY <1>8 DEF WriteFails
  <2>2. CASE call' = call /\ screen \in Saving \cup Dropping /\ screen' \in Rest
    BY <1>1, <2>1, <2>2 DEF Saving, Dropping, Rest
  <2>3. CASE screen' = screen /\ \E c \in Calls : call[c].at \in Clearing /\ Settle(c)
    <3>1. \A c \in Calls : call'[c] \in {call[c], Idle}
      BY <1>0, <2>3 DEF Settle
    <3>2. \A c \in Calls : Spares(c)
      BY <3>1 DEF Spares, Stage, Owner, Idle
    <3>3. CASE screen \notin {"save_access", "save_refresh"}
      BY <1>0, <2>1, <2>3, <3>1, <3>2, <3>3, BaseKept DEF Base
    <3>4. CASE screen \in {"save_access", "save_refresh"}
      <4>1. ASSUME NEW c \in Calls PROVE CallOK(c)'
        BY <1>0, <2>1, <2>3, <3>1, <3>4 DEF CallOK, Known, Before, Stage, Owner, Idle, Clearing
      <4> QED BY <1>0, <2>1, <2>3, <3>1, <3>4, <4>1 DEF Base, Known
    <3> QED BY <3>3, <3>4
  <2> QED BY <1>8, <2>2, <2>3 DEF WriteFails, Rest
<1>9. CASE Restart
  <2>1. /\ UNCHANGED <<storage, logins, crossed, givenUp>> /\ call' = [c \in Calls |-> Idle]
        /\ screen' \in Rest
    BY <1>9 DEF Restart, Rest
  <2>2. call'[SignOutCall] = Idle /\ \A c \in Calls : Spares(c)
    BY <1>0, <2>1 DEF Spares, Stage, Owner, Idle
  <2> QED BY <2>1, <2>2, BaseKept DEF Rest
<1> QED BY <1>2, <1>3, <1>4, <1>5, <1>6, <1>7, <1>8, <1>9 DEF Screen, Flow

\* Every step keeps where things come from.
LEMMA BaseNext ==
    ASSUME TypeInv, Base, [Next]_vars
    PROVE  Base'
<1>1. CASE UNCHANGED vars
  <2>1. Base
    OBVIOUS
  <2> QED BY <1>1, <2>1 DEF vars, Base, CallOK, Known, Stage, Owner
<1> QED BY <1>1, BaseCall, BaseScreen DEF Next, Screen

-----------------------------------------------------------------------------
(* What the secure store holds. *)

Uniform == \A x, y \in Items : x = y

\* Up to one interruption, only a login that is being saved mixes its items with others,
\* and those it has saved are there.
Single == ~crossed /\ interruptions <= 1 =>
    /\ screen \notin Saving => Uniform
    /\ screen = "save_refresh" => storage.access = logins
    /\ screen = "save_user" => storage.access = logins /\ storage.refresh = logins

At(stage) == \E c \in Calls : Stage(c) = stage

\* The items of somebody signed in: all of them, or what a call that gave up has left
\* of them so far.
Shape ==
    LET a == storage.access  r == storage.refresh  u == storage.user IN
    \/ a = logins /\ r = logins /\ u = logins
    \/ givenUp /\ a = None /\ r = logins /\ u = logins /\ At("clear_refresh")
    \/ givenUp /\ a = None /\ r = None /\ u = logins /\ At("clear_user")
    \/ givenUp /\ a = None /\ r = None /\ u = None

\* Without an interruption, the items follow the screen.
Zero == ~crossed /\ interruptions = 0 =>
    /\ screen \in {"signed_out", "posting"} =>
          storage.access = None /\ storage.refresh = None /\ storage.user = None
    /\ screen \in Saving => storage.user = None
    /\ screen \in {"save_access", "save_refresh"} => storage.refresh = None
    /\ screen \in {"signed_in", "reading", "calling", "drop_access"} => signedIn = logins /\ Shape
    /\ screen \in {"drop_refresh", "drop_user"} => storage.access = None
    /\ screen = "drop_user" => storage.refresh = None

Stored == Single /\ Zero

\* At the start nothing is stored.
LEMMA StoredStart == Init => Stored
BY DEF Init, Empty, Stored, Single, Zero, Items, Uniform, Saving

\* A call that crosses nobody removes or replaces items of its own login.
LEMMA StoredCall ==
    ASSUME TypeInv, Base, Stored, NEW c \in Calls, Request(c) \/ Progress(c)
    PROVE  Stored'
<1>0. /\ UNCHANGED <<screen, signedIn, logins, interruptions>>
      /\ \A d \in Calls \ {c} : Stage(d)' = Stage(d)
      /\ interruptions \in Nat
  BY CallStep, MobileAssumption DEF Stage, TypeInv, TypeOK
<1>1. CASE Passes(c) \/ Reads(c) \/ Gets(c) \/ GivesUp(c)
  <2>1. /\ storage' = storage /\ crossed' = crossed /\ (givenUp => givenUp') /\ Stage(c) \notin Clearing
    BY <1>1 DEF Quiet, Passes, Reads, Gets, GivesUp, Clearing
  <2>2. \A st \in Clearing : At(st) => At(st)'
    BY <1>0, <2>1 DEF At
  <2>3. Shape => Shape'
    BY <1>0, <2>1, <2>2 DEF Shape, Clearing
  <2>4. Uniform => Uniform'
    BY <2>1 DEF Uniform, Items
  <2> QED BY <1>0, <2>1, <2>3, <2>4 DEF Stored, Single, Zero
<1>2. CASE (Stores(c) \/ Removes(c)) /\ crossed'
  BY <1>2 DEF Stored, Single, Zero
<1>3. CASE Stores(c) /\ ~crossed'
  <2>1. /\ ~crossed /\ screen \notin Saving \cup Dropping
        /\ Owner(c) = storage.refresh /\ \A d \in Calls : Stage(d) \notin Clearing
    BY <1>3 DEF Stores, Crosses, Stage, Owner
  <2>2. storage.refresh # None
    BY <1>3, <2>1 DEF Stores, Base, CallOK
  <2>3. /\ storage'.access = storage.refresh /\ storage'.refresh = storage.refresh
        /\ storage'.user = storage.user
    BY <1>3, <2>1, Types DEF Stores
  <2>4. Single'
    BY <1>0, <2>1, <2>2, <2>3 DEF Stored, Single, Uniform, Items, Saving
  <2>5. ASSUME Shape PROVE Shape'
    BY <1>0, <2>1, <2>2, <2>3, <2>5 DEF Shape, At, Clearing
  <2> QED BY <1>0, <2>1, <2>2, <2>3, <2>4, <2>5 DEF Stored, Zero, Saving, Dropping
<1>4. CASE Removes(c) /\ ~crossed'
  <2>1. /\ ~crossed /\ screen \notin Saving /\ storage.refresh \in {Owner(c), None}
        /\ Stage(c) \in Clearing /\ givenUp' = givenUp
    BY <1>4 DEF Removes, Crosses, Stage, Owner
  <2>2. /\ storage'.access = (IF Stage(c) = "clear_access" THEN None ELSE storage.access)
        /\ storage'.refresh = (IF Stage(c) = "clear_refresh" THEN None ELSE storage.refresh)
        /\ storage'.user = (IF Stage(c) = "clear_user" THEN None ELSE storage.user)
    BY <1>4, Types DEF Removes, Cleared, Clearing, Stage
  <2>3. Single'
    BY <1>0, <2>1, <2>2 DEF Stored, Single, Uniform, Items, Saving
  <2>4. ASSUME Shape PROVE Shape'
    <3>1. /\ CallOK(c) /\ logins \in Nat /\ logins # None /\ Owner(c) \in Token
      BY Types DEF Base
    <3>2. storage.refresh = logins => givenUp /\ Stage(c) # "clear_user"
      BY <2>1, <3>1 DEF CallOK, Before
    <3>3. storage.refresh = logins /\ storage.access = logins => Stage(c) = "clear_access"
      BY <2>1, <3>1, <3>2 DEF CallOK, Before, Clearing
    <3>4. /\ Stage(c) = "clear_access" => At("clear_refresh")'
          /\ Stage(c) = "clear_refresh" => At("clear_user")'
          /\ Stage(c) # "clear_refresh" /\ At("clear_refresh") => At("clear_refresh")'
          /\ Stage(c) # "clear_user" /\ At("clear_user") => At("clear_user")'
      BY <1>0, <1>4 DEF At, Removes
    <3>5. CASE storage.access = logins /\ storage.refresh = logins /\ storage.user = logins
      BY <1>0, <2>1, <2>2, <3>2, <3>3, <3>4, <3>5 DEF Shape
    <3>6. CASE givenUp /\ storage.access = None /\ storage.refresh = logins /\ storage.user = logins /\ At("clear_refresh")
      BY <1>0, <2>1, <2>2, <3>2, <3>4, <3>6 DEF Shape, Clearing
    <3>7. CASE givenUp /\ storage.access = None /\ storage.refresh = None /\ storage.user = logins /\ At("clear_user")
      BY <1>0, <2>1, <2>2, <3>4, <3>7 DEF Shape
    <3>8. CASE givenUp /\ storage.access = None /\ storage.refresh = None /\ storage.user = None
      BY <2>1, <2>2, <3>8 DEF Shape
    <3> QED BY <2>4, <3>5, <3>6, <3>7, <3>8 DEF Shape
  <2> QED BY <1>0, <2>1, <2>2, <2>3, <2>4 DEF Stored, Zero, Saving
<1> QED BY <1>1, <1>2, <1>3, <1>4, CallDoes

\* A write that fails, or an app that is killed, half way through a login leaves its own
\* items only.
LEMMA HalfSaved ==
    ASSUME TypeInv, Stored, ~crossed, interruptions = 0
    PROVE  Uniform
<1>1. interruptions <= 1
  OBVIOUS
<1>2. CASE screen \in Saving
  BY <1>1, <1>2 DEF Stored, Single, Zero, Uniform, Items, Saving
<1> QED BY <1>1, <1>2 DEF Stored, Single

\* Login and logout write and remove items in order.
LEMMA StoredScreen ==
    ASSUME TypeInv, Base, Stored, Screen
    PROVE  Stored'
<1>0. /\ call \in [Calls -> Calling] /\ SignOutCall \in Calls /\ interruptions \in Nat
      /\ screen \in Rest \cup {"posting"} \cup Saving \cup SigningOut
      /\ logins # None /\ (storage.access = None \/ storage.access # None)
  BY Types, MobileAssumption DEF TypeInv, TypeOK, Calling, Token
<1>1. CASE Login
  BY <1>1 DEF Login, Stored, Single, Zero, Uniform, Items, Saving
<1>2. CASE LoginAnswered
  BY <1>2 DEF LoginAnswered, Stored, Single, Zero, Uniform, Items, Saving
<1>3. CASE SaveItem
  <2>1. UNCHANGED <<logins, call, interruptions, crossed, givenUp>>
    BY <1>3 DEF SaveItem
  <2>2. CASE screen = "save_access"
    <3>1. /\ screen' = "save_refresh" /\ storage'.access = logins
          /\ storage'.refresh = storage.refresh /\ storage'.user = storage.user
      BY <1>3, <2>2, Types DEF SaveItem, Saved
    <3> QED BY <2>1, <2>2, <3>1 DEF Stored, Single, Zero, Saving
  <2>3. CASE screen = "save_refresh"
    <3>1. /\ screen' = "save_user" /\ storage'.access = storage.access
          /\ storage'.refresh = logins /\ storage'.user = storage.user
      BY <1>3, <2>3, Types DEF SaveItem, Saved
    <3> QED BY <2>1, <2>3, <3>1 DEF Stored, Single, Zero, Saving
  <2>4. CASE screen = "save_user"
    <3>1. /\ screen' = "signed_in" /\ signedIn' = logins /\ storage'.access = storage.access
          /\ storage'.refresh = storage.refresh /\ storage'.user = logins
      BY <1>3, <2>4, Types DEF SaveItem, Saved
    <3> QED BY <2>1, <2>4, <3>1 DEF Stored, Single, Zero, Saving, Shape, Uniform, Items
  <2> QED BY <1>3, <2>2, <2>3, <2>4 DEF SaveItem, Saving
<1>4. CASE Logout \/ ServerTold
  <2>1. Uniform => Uniform'
    BY <1>4 DEF Logout, ServerTold, Uniform, Items
  <2>2. Shape => Shape'
    BY <1>4 DEF Logout, ServerTold, Shape, At, Stage
  <2> QED BY <1>4, <2>1, <2>2 DEF Logout, ServerTold, Stored, Single, Zero, Saving
<1>5. CASE TellServer
  <2>1. /\ UNCHANGED <<storage, signedIn, logins, interruptions, crossed, givenUp>>
        /\ screen = "reading" /\ screen' \in {"calling", "drop_access"}
    BY <1>5 DEF TellServer
  <2>2. Uniform => Uniform'
    BY <2>1 DEF Uniform, Items
  <2>3. \A c \in Calls : Stage(c) \in Clearing => Stage(c)' = Stage(c)
    BY <1>0, <1>5 DEF TellServer, Move, Base, Idle, Stage, Clearing, Calling
  <2>4. Shape => Shape'
    BY <2>1, <2>3 DEF Shape, At, Clearing
  <2> QED BY <2>1, <2>2, <2>4 DEF Stored, Single, Zero, Saving
<1>6. CASE DropItem
  <2>1. UNCHANGED <<logins, call, interruptions, crossed, givenUp>>
    BY <1>6 DEF DropItem
  <2>2. \/ /\ screen = "drop_access" /\ screen' = "drop_refresh" /\ storage'.access = None
           /\ storage'.refresh = storage.refresh /\ storage'.user = storage.user
        \/ /\ screen = "drop_refresh" /\ screen' = "drop_user" /\ storage'.access = storage.access
           /\ storage'.refresh = None /\ storage'.user = storage.user
        \/ /\ screen = "drop_user" /\ screen' = "signed_out" /\ storage'.access = storage.access
           /\ storage'.refresh = storage.refresh /\ storage'.user = None
    BY <1>6, Types DEF DropItem, RemoveItem
  <2>3. Uniform => Uniform'
    BY <2>2 DEF Uniform, Items
  <2> QED BY <2>1, <2>2, <2>3 DEF Stored, Single, Zero, Saving
<1>7. CASE WriteFails
  <2>1. /\ UNCHANGED <<storage, logins, crossed>> /\ interruptions' = interruptions + 1
        /\ screen' = screen \/ screen' \in Rest
    BY <1>7 DEF WriteFails, Rest
  <2>2. ~crossed /\ interruptions = 0 => Uniform'
    BY <2>1, HalfSaved DEF Uniform, Items
  <2> QED BY <1>0, <2>1, <2>2 DEF Stored, Single, Zero, Rest, Saving
<1>8. CASE Restart
  <2>0. UNCHANGED <<storage, logins, crossed, givenUp>> /\ screen' \in Rest
    BY <1>8 DEF Restart, Rest
  <2>1. CASE interruptions' = interruptions + 1
    <3>1. ~crossed /\ interruptions = 0 => Uniform'
      BY <2>0, HalfSaved DEF Uniform, Items
    <3> QED BY <1>0, <2>0, <2>1, <3>1 DEF Stored, Single, Zero, Rest, Saving
  <2>2. CASE /\ interruptions' = interruptions /\ screen \notin Saving \cup Dropping
             /\ \A c \in Calls : Stage(c) \notin Clearing
    <3>1. Single'
      BY <2>0, <2>2 DEF Stored, Single, Uniform, Items, Rest, Saving
    <3>2. Shape => \/ storage.access = logins /\ storage.refresh = logins /\ storage.user = logins
                   \/ givenUp /\ storage.access = None /\ storage.refresh = None /\ storage.user = None
      BY <2>2 DEF Shape, At, Clearing
    <3>3. \/ HasSession /\ screen' = "signed_in" /\ signedIn' = storage.user
          \/ ~HasSession /\ screen' = "signed_out"
      BY <1>8 DEF Restart
    <3>4. ~crossed /\ interruptions = 0 =>
             \/ storage.access = None /\ storage.refresh = None /\ storage.user = None
             \/ storage.access = logins /\ storage.refresh = logins /\ storage.user = logins
      BY <1>0, <2>2, <3>2 DEF Stored, Zero, Rest, SigningOut, Dropping
    <3>5. CASE ~crossed /\ interruptions = 0
      BY <1>0, <2>0, <2>2, <3>1, <3>3, <3>4, <3>5 DEF Stored, Zero, HasSession, Shape, Saving
    <3> QED BY <2>0, <2>2, <3>1, <3>5 DEF Stored, Zero
  <2> QED BY <1>8, <2>1, <2>2 DEF Restart, Stage
<1> QED BY <1>1, <1>2, <1>3, <1>4, <1>5, <1>6, <1>7, <1>8 DEF Screen, Flow

\* Every step keeps what is stored in shape.
LEMMA StoredNext ==
    ASSUME TypeInv, Base, Stored, [Next]_vars
    PROVE  Stored'
<1>1. CASE UNCHANGED vars
  BY <1>1 DEF vars, Stored, Single, Zero, Shape, At, Stage, Uniform, Items
<1> QED BY <1>1, StoredCall, StoredScreen DEF Next, Screen

\* Items that do not differ are one login's, or none.
LEMMA AtMostOne ==
    ASSUME Uniform
    PROVE  Cardinality(Items) <= 1
<1>1. CASE Items = {}
  BY <1>1, FS_EmptySet
<1>2. CASE Items # {}
  <2>1. PICK x \in Items : TRUE
    BY <1>2
  <2>2. Items = {x}
    BY <2>1 DEF Uniform
  <2> QED BY <2>2, FS_Singleton
<1> QED BY <1>1, <1>2

\* All of this holds throughout.
LEMMA Invariant == Spec => [](TypeInv /\ Base /\ Stored)
<1>1. Init => TypeInv /\ Base /\ Stored
  BY TypeStart, BaseStart, StoredStart
<1>2. TypeInv /\ Base /\ Stored /\ [Next]_vars => (TypeInv /\ Base /\ Stored)'
  BY TypeNext, BaseNext, StoredNext
<1> QED BY <1>1, <1>2, PTL DEF Spec

\* As long as no write failed half way and no call wrote over items of another login:
\* nothing is stored when nobody is signed in, and what is stored is of the user shown,
\* and complete unless a call gave up its refresh.
THEOREM StorageFollows == Spec => []StorageMatchesScreen
<1>1. TypeInv /\ Base /\ Stored => StorageMatchesScreen
  <2> SUFFICES ASSUME TypeInv, Base, Stored, ~crossed, interruptions = 0
               PROVE  /\ screen = "signed_out" => storage = Empty
                      /\ screen = "signed_in" => Items \subseteq {signedIn}
                      /\ screen = "signed_in" /\ ~givenUp =>
                            None \notin {storage.access, storage.refresh, storage.user}
    BY DEF StorageMatchesScreen
  <2>1. screen = "signed_out" => storage = Empty
    BY Types DEF Stored, Zero, Empty
  <2>2. screen = "signed_in" => signedIn = logins /\ Shape /\ logins # None
    BY Types DEF Stored, Zero
  <2> QED BY <2>1, <2>2 DEF Shape, Items
<1> QED BY <1>1, Invariant, PTL

\* Whatever interrupts the app, once, no mixture of two logins is left behind.
THEOREM NoMixture == Spec => []OneLogin
<1>1. TypeInv /\ Base /\ Stored => OneLogin
  BY AtMostOne DEF Stored, Single, OneLogin, Rest, Saving
<1> QED BY <1>1, Invariant, PTL
=============================================================================
