------------------------- MODULE InvitationsProofs -------------------------
(***************************************************************************)
(* Proofs about applications and invitations, for any number of them, of   *)
(* addresses and of requests at once: the types, that an approval invites  *)
(* once, that a closed invitation stays closed, and that it opens no       *)
(* account.                                                                *)
(***************************************************************************)
EXTENDS MerchantInvitations, FiniteSetTheorems, TLAPS

Accepting == {"look_for_user", "create_user", "create_profile"}
Stages == {"idle", "save_application", "invite", "save_invitation"} \cup Accepting

\* What a request has tested on the row it loaded still holds of that row.
Tested(c, row) ==
    /\ c \in {"resend", "validate", "cancel"}
    /\ c \in {"resend", "validate"} => row.status = "pending"
    /\ c = "cancel" => row.status \in {"pending", "expired"}

\* What a worker holds at each stage.
WorkerOK(w) ==
    \/ at[w] = "idle" /\ target[w] = None /\ email[w] = None
    \/ /\ at[w] = "save_application" /\ target[w] \in Applications
       /\ call[w] \in Reviews /\ held[w] \in Verdicts
       /\ MayReview(call[w], held[w])
    \/ /\ at[w] = "invite" /\ target[w] \in Applications
       /\ call[w] \in Reviews /\ held[w] \in Verdicts
    \/ /\ at[w] = "save_invitation" /\ target[w] \in Invitations
       /\ held[w] \in Invitation /\ Tested(call[w], held[w])
    \/ /\ at[w] \in Accepting /\ target[w] \in Invitations /\ email[w] \in Emails
       /\ held[w] \in Invitation /\ held[w].status = "pending"

RowsOK ==
    /\ application \in [Applications -> Verdicts \cup {None}]
    /\ invitation \in [Invitations -> Invitation \cup {None}]
    /\ opened \in [Emails -> Invitations \cup {None}]
    /\ profile \subseteq {e \in Emails : opened[e] # None}
    /\ today \in 0..MaxDay
    /\ issued \in [Applications -> 0..2]
    /\ disturbed \cup lost \subseteq Applications

Memories ==
    /\ at \in [Workers -> Stages]
    /\ DOMAIN call = Workers /\ DOMAIN target = Workers
    /\ DOMAIN held = Workers /\ DOMAIN email = Workers

\* The account a signal is about to complete has been opened.
OpenedFirst == \A w \in Workers : at[w] = "create_profile" => opened[email[w]] # None

TypeInv ==
    /\ RowsOK
    /\ OpenedFirst
    /\ Memories
    /\ \A w \in Workers : WorkerOK(w)

\* The invariant is about the types TypeOK states.
LEMMA TypeInvTypes == TypeInv => TypeOK
<1> SUFFICES ASSUME TypeInv PROVE TypeOK
  OBVIOUS
<1>1. \A w \in Workers :
          \/ at[w] = "idle" /\ target[w] = None /\ email[w] = None
          \/ /\ at[w] \in {"save_application", "invite"} /\ target[w] \in Applications
             /\ call[w] \in Reviews /\ held[w] \in Verdicts
          \/ /\ at[w] = "save_invitation" /\ target[w] \in Invitations
             /\ call[w] \in InvitationCalls /\ held[w] \in Invitation
          \/ /\ at[w] \in {"look_for_user", "create_user", "create_profile"}
             /\ target[w] \in Invitations /\ email[w] \in Emails
  BY DEF TypeInv, WorkerOK, Tested, Accepting, InvitationCalls
<1> QED BY <1>1 DEF TypeInv, RowsOK, TypeOK

-----------------------------------------------------------------------------
(* The types. *)

\* One worker moves, and the memory of the others is as it was.
Moves(w) ==
    /\ Memories'
    /\ \A v \in Workers \ {w} :
          /\ at'[v] = at[v] /\ call'[v] = call[v] /\ target'[v] = target[v]
          /\ held'[v] = held[v] /\ email'[v] = email[v]

\* Accounts stay, and whoever is about to complete one has opened it.
Opens(w) ==
    /\ \A e \in Emails : opened[e] # None => opened'[e] # None
    /\ at'[w] = "create_profile" => opened'[email'[w]] # None

\* A worker that moves with what its next query needs keeps the types.
LEMMA MoveKeeps ==
    ASSUME TypeInv, NEW w \in Workers, Moves(w), WorkerOK(w)', Opens(w)
    PROVE  OpenedFirst' /\ Memories' /\ \A v \in Workers : WorkerOK(v)'
<1>1. \A v \in Workers : WorkerOK(v)'
  BY DEF TypeInv, Moves, WorkerOK
<1>2. OpenedFirst'
  <2>1. \A v \in Workers \ {w} : at[v] = "create_profile" => email[v] \in Emails
    BY DEF TypeInv, WorkerOK, Accepting
  <2> QED BY <2>1 DEF TypeInv, OpenedFirst, Moves, Opens
<1> QED BY <1>1, <1>2 DEF Moves

\* Answering ends the request.
LEMMA AnswerMoves ==
    ASSUME TypeInv, NEW w \in Workers, Answer(w)
    PROVE  Moves(w) /\ WorkerOK(w)' /\ at'[w] = "idle" /\ (opened' = opened => Opens(w))
BY DEF Opens, TypeInv, Memories, Moves, WorkerOK, Answer, GoTo, Stages

\* A step to the next stage that keeps what is in memory.
LEMMA GoToMoves ==
    ASSUME TypeInv, NEW w \in Workers, NEW s \in Stages, GoTo(w, s), UNCHANGED memory
    PROVE  Moves(w) /\ at'[w] = s /\ call'[w] = call[w] /\ target'[w] = target[w]
                    /\ held'[w] = held[w] /\ email'[w] = email[w]
BY DEF TypeInv, Memories, Moves, GoTo, memory

\* The types hold at the start.
LEMMA TypeStart == Init => TypeInv
<1> SUFFICES ASSUME Init PROVE TypeInv
  OBVIOUS
<1> USE InvitationsAssumption
<1>1. RowsOK
  BY DEF Init, RowsOK
<1>2. Memories /\ \A w \in Workers : WorkerOK(w)
  BY DEF Init, Memories, WorkerOK, Stages
<1>3. OpenedFirst
  BY DEF Init, OpenedFirst
<1> QED BY <1>1, <1>2, <1>3 DEF TypeInv

\* A new invitation is one.
LEMMA NewTyped == ASSUME today \in 0..MaxDay PROVE New(today) \in Invitation
BY InvitationsAssumption DEF New, Invitation, Statuses

\* Whatever a save writes is an invitation.
LEMMA ChangedTyped ==
    ASSUME today \in 0..MaxDay, NEW c, NEW row \in Invitation, Tested(c, row)
    PROVE  Changed(c, row) \in Invitation
BY InvitationsAssumption DEF Changed, Tested, Invitation, Statuses

\* The steps of no worker, or of one that leaves the rows alone.
LEMMA RowStep ==
    ASSUME TypeInv,
           \/ NextDay
           \/ \E a \in Applications : Apply(a) \/ DeleteApplication(a)
           \/ \E i \in Invitations : Invite(i)
    PROVE  TypeInv'
<1> USE InvitationsAssumption
<1>1. UNCHANGED <<at, memory>>
  BY DEF NextDay, Apply, DeleteApplication, Invite
<1>2. Memories' /\ \A w \in Workers : WorkerOK(w)'
  BY <1>1 DEF TypeInv, Memories, WorkerOK, memory
<1>3. RowsOK'
  <2>1. CASE NextDay
    BY <2>1 DEF TypeInv, RowsOK, NextDay, rows, history
  <2>2. CASE \E a \in Applications : Apply(a) \/ DeleteApplication(a)
    BY <2>2 DEF TypeInv, RowsOK, Apply, DeleteApplication, Verdicts, history
  <2>3. CASE \E i \in Invitations : Invite(i)
    BY <2>3, NewTyped DEF TypeInv, RowsOK, Invite, history
  <2> QED BY <2>1, <2>2, <2>3
<1>4. OpenedFirst'
  <2>1. opened' = opened
    BY DEF NextDay, Apply, DeleteApplication, Invite, rows
  <2> QED BY <1>1, <2>1 DEF TypeInv, OpenedFirst, memory
<1> QED BY <1>2, <1>3, <1>4 DEF TypeInv

\* Loading keeps the types.
LEMMA LoadStep ==
    ASSUME TypeInv, NEW w \in Workers,
           \/ \E a \in Applications, c \in Reviews : LoadApplication(w, a, c)
           \/ \E i \in Invitations, c \in InvitationCalls : LoadInvitation(w, i, c)
    PROVE  TypeInv'
<1>1. RowsOK'
  BY DEF TypeInv, RowsOK, LoadApplication, LoadInvitation, rows, history
<1>2. ASSUME NEW a \in Applications, NEW c \in Reviews, LoadApplication(w, a, c)
      PROVE  Moves(w) /\ WorkerOK(w)' /\ at'[w] # "create_profile"
  <2>1. application[a] \in Verdicts
    BY <1>2 DEF TypeInv, RowsOK, LoadApplication
  <2>2. Moves(w)
    BY <1>2 DEF TypeInv, Memories, Moves, LoadApplication, Keep, GoTo, Stages
  <2>3. /\ at'[w] = "save_application" /\ target'[w] = a /\ call'[w] = c
        /\ held'[w] = application[a]
    BY <1>2 DEF TypeInv, Memories, LoadApplication, Keep, GoTo
  <2> QED BY <1>2, <2>1, <2>2, <2>3 DEF WorkerOK, LoadApplication
<1>3. ASSUME NEW i \in Invitations, NEW c \in InvitationCalls, LoadInvitation(w, i, c)
      PROVE  Moves(w) /\ WorkerOK(w)' /\ at'[w] # "create_profile"
  <2>1. invitation[i] \in Invitation
    BY <1>3 DEF TypeInv, RowsOK, LoadInvitation
  <2>2. Moves(w)
    BY <1>3 DEF TypeInv, Memories, Moves, LoadInvitation, Keep, GoTo, Stages, Accepting
  <2>3. target'[w] = i /\ call'[w] = c /\ held'[w] = invitation[i]
    BY <1>3 DEF TypeInv, Memories, LoadInvitation, Keep
  <2>4. CASE c = "accept"
    <3>1. at'[w] = "look_for_user" /\ email'[w] \in Emails
      BY <1>3, <2>4 DEF TypeInv, Memories, LoadInvitation, GoTo
    <3>2. invitation[i].status = "pending"
      BY <1>3, <2>4 DEF LoadInvitation, GoesOn
    <3> QED BY <2>1, <2>2, <2>3, <3>1, <3>2 DEF WorkerOK, Accepting
  <2>5. CASE c # "accept"
    <3>1. at'[w] = "save_invitation"
      BY <1>3, <2>5 DEF TypeInv, Memories, LoadInvitation, GoTo
    <3>2. Tested(c, invitation[i])
      BY <1>3, <2>5 DEF LoadInvitation, GoesOn, IsExpired, Tested, InvitationCalls
    <3> QED BY <2>1, <2>2, <2>3, <3>1, <3>2 DEF WorkerOK
  <2> QED BY <2>4, <2>5
<1>4. Moves(w) /\ WorkerOK(w)' /\ Opens(w)
  <2>1. opened' = opened
    BY DEF LoadApplication, LoadInvitation, rows
  <2> QED BY <1>2, <1>3, <2>1 DEF Opens
<1> QED BY <1>1, <1>4, MoveKeeps DEF TypeInv

\* The last query of a request, or a step to the next one.
LEMMA WorkStep ==
    ASSUME TypeInv, NEW w \in Workers,
           \/ SaveApplication(w) \/ CreateInvitation(w) \/ SaveInvitation(w)
           \/ LookForUser(w) \/ CreateUser(w) \/ CreateProfile(w) \/ Crash(w)
    PROVE  TypeInv'
<1> USE InvitationsAssumption
<1>0. WorkerOK(w)
  BY DEF TypeInv
<1>1. CASE SaveApplication(w)
  <2>1. RowsOK'
    <3>1. target[w] \in Applications /\ Reviewed(call[w]) \in Verdicts
      BY <1>0, <1>1 DEF WorkerOK, SaveApplication, Reviewed, Verdicts, Reviews, Accepting
    <3> QED BY <1>1, <3>1 DEF TypeInv, RowsOK, SaveApplication
  <2>2. Moves(w) /\ WorkerOK(w)'
    <3>1. CASE Answer(w)
      BY <3>1, AnswerMoves
    <3>2. CASE GoTo(w, "invite") /\ UNCHANGED memory
      BY <1>0, <1>1, <3>2, GoToMoves DEF SaveApplication, WorkerOK, Stages, Accepting
    <3> QED BY <1>1, <3>1, <3>2 DEF SaveApplication
  <2>3. Opens(w)
    BY <1>1, <2>2, AnswerMoves, GoToMoves DEF Opens, SaveApplication, Stages, Accepting
  <2> QED BY <2>1, <2>2, <2>3, MoveKeeps DEF TypeInv
<1>2. CASE CreateInvitation(w)
  <2>1. RowsOK'
    <3>1. target[w] \in Applications
      BY <1>0, <1>2 DEF WorkerOK, CreateInvitation, Accepting
    <3> QED BY <1>2, <3>1, NewTyped DEF TypeInv, RowsOK, CreateInvitation
  <2> QED BY <1>2, <2>1, AnswerMoves, MoveKeeps DEF TypeInv, CreateInvitation
<1>3. CASE SaveInvitation(w)
  <2>1. RowsOK'
    <3>1. target[w] \in Invitations /\ Changed(call[w], held[w]) \in Invitation
      BY <1>0, <1>3, ChangedTyped DEF TypeInv, RowsOK, WorkerOK, SaveInvitation, Accepting
    <3> QED BY <1>3, <3>1 DEF TypeInv, RowsOK, SaveInvitation, history
  <2> QED BY <1>3, <2>1, AnswerMoves, MoveKeeps DEF TypeInv, SaveInvitation
<1>4. CASE LookForUser(w)
  <2>1. RowsOK'
    BY <1>4 DEF TypeInv, RowsOK, LookForUser, rows, history
  <2>2. Moves(w) /\ WorkerOK(w)'
    <3>1. CASE Answer(w)
      BY <3>1, AnswerMoves
    <3>2. CASE GoTo(w, "create_user") /\ UNCHANGED memory
      BY <1>0, <1>4, <3>2, GoToMoves DEF LookForUser, WorkerOK, Stages, Accepting
    <3> QED BY <1>4, <3>1, <3>2 DEF LookForUser
  <2>3. Opens(w)
    BY <1>4, <2>2, AnswerMoves, GoToMoves DEF Opens, LookForUser, rows, Stages, Accepting
  <2> QED BY <2>1, <2>2, <2>3, MoveKeeps DEF TypeInv
<1>5. CASE CreateUser(w)
  <2>1. RowsOK'
    <3>1. target[w] \in Invitations /\ email[w] \in Emails
      BY <1>0, <1>5 DEF WorkerOK, CreateUser, Accepting
    <3> QED BY <1>5, <3>1 DEF TypeInv, RowsOK, CreateUser, history
  <2>2. Moves(w) /\ WorkerOK(w)'
    <3>1. CASE Answer(w)
      BY <3>1, AnswerMoves
    <3>2. CASE GoTo(w, "create_profile") /\ UNCHANGED memory
      BY <1>0, <1>5, <3>2, GoToMoves DEF CreateUser, WorkerOK, Stages, Accepting
    <3> QED BY <1>5, <3>1, <3>2 DEF CreateUser
  <2>3. Opens(w)
    <3>1. CASE Answer(w) /\ UNCHANGED opened
      BY <3>1, AnswerMoves
    <3>2. CASE /\ opened' = [opened EXCEPT ![email[w]] = target[w]]
               /\ GoTo(w, "create_profile") /\ UNCHANGED memory
      <4>1. target[w] \in Invitations /\ email[w] \in Emails
        BY <1>0, <1>5 DEF WorkerOK, CreateUser, Accepting
      <4>2. email'[w] = email[w]
        BY <3>2 DEF memory
      <4> QED BY <3>2, <4>1, <4>2 DEF TypeInv, RowsOK, Opens
    <3> QED BY <1>5, <3>1, <3>2 DEF CreateUser
  <2> QED BY <2>1, <2>2, <2>3, MoveKeeps DEF TypeInv
<1>6. CASE CreateProfile(w)
  <2>1. RowsOK'
    <3>1. email[w] \in Emails /\ opened[email[w]] # None
      BY <1>0, <1>6 DEF TypeInv, OpenedFirst, WorkerOK, CreateProfile, Accepting
    <3> QED BY <1>6, <3>1 DEF TypeInv, RowsOK, CreateProfile, history
  <2> QED BY <1>6, <2>1, AnswerMoves, MoveKeeps DEF TypeInv, CreateProfile
<1>7. CASE Crash(w)
  <2>1. RowsOK'
    BY <1>0, <1>7 DEF TypeInv, RowsOK, WorkerOK, Crash, rows, Accepting
  <2> QED BY <1>7, <2>1, AnswerMoves, MoveKeeps DEF TypeInv, Crash, rows
<1> QED BY <1>1, <1>2, <1>3, <1>4, <1>5, <1>6, <1>7

\* Every step keeps the types.
LEMMA TypeStep == TypeInv /\ [Next]_vars => TypeInv'
<1> SUFFICES ASSUME TypeInv, [Next]_vars PROVE TypeInv'
  OBVIOUS
<1>1. CASE UNCHANGED vars
  BY <1>1 DEF TypeInv, RowsOK, OpenedFirst, Memories, WorkerOK, vars, rows, memory, history
<1>2. CASE Next
  BY <1>2, RowStep, LoadStep, WorkStep DEF Next, Step
<1> QED BY <1>1, <1>2

\* The types hold throughout.
LEMMA TypeAlways == Spec => []TypeInv
BY TypeStart, TypeStep, PTL DEF Spec

\* Rows and memories keep their types, whichever of the requests on one row
\* interleave, fail or load it before another changes it.
THEOREM InvitationsTyped == Spec => []TypeOK
BY TypeAlways, TypeInvTypes, PTL

-----------------------------------------------------------------------------
(* What is closed. *)

\* Steps other than SaveInvitation change only a row that is not there yet.
LEMMA OnlySavesChange ==
    ASSUME TypeInv, [Next]_vars, NEW i \in Invitations,
           \A w \in Workers : SaveInvitation(w) => target[w] # i
    PROVE  invitation[i] = None \/ invitation'[i] = invitation[i]
<1>1. CASE UNCHANGED invitation
  BY <1>1
<1>2. CASE \E k \in Invitations : Invite(k)
  BY <1>2 DEF TypeInv, RowsOK, Invite
<1>3. CASE \E w \in Workers : CreateInvitation(w)
  BY <1>3 DEF TypeInv, RowsOK, CreateInvitation
<1>4. CASE \E w \in Workers : SaveInvitation(w)
  BY <1>4 DEF TypeInv, RowsOK, SaveInvitation
<1> QED
  BY <1>1, <1>2, <1>3, <1>4 DEF Next, Step, NextDay, Apply, DeleteApplication, LoadApplication,
     LoadInvitation, SaveApplication, LookForUser, CreateUser, CreateProfile, Crash, rows, vars

\* A save revives an invitation only from a row loaded before.
LEMMA SaveKeepsClosed ==
    ASSUME TypeInv, NEW w \in Workers, SaveInvitation(w)
    PROVE  StaysClosed(target[w])
<1>1. /\ target[w] \in Invitations /\ at[w] = "save_invitation"
      /\ held[w] \in Invitation /\ Tested(call[w], held[w])
  BY DEF TypeInv, WorkerOK, SaveInvitation, Accepting
<1>2. /\ invitation'[target[w]] = Changed(call[w], held[w])
      /\ at'[w] = "idle"
  BY <1>1, AnswerMoves DEF TypeInv, RowsOK, SaveInvitation
<1>3. CASE held[w] # invitation[target[w]]
  BY <1>1, <1>2, <1>3 DEF StaysClosed, Outdated
<1>4. CASE held[w] = invitation[target[w]]
  BY <1>1, <1>2, <1>4 DEF StaysClosed, Changed, Tested, Invitation
<1> QED BY <1>3, <1>4

\* A cancelled invitation is not revived and an expired one not pending again but by
\* a save of a row loaded before it was closed.
THEOREM ClosedRemainsClosed == Spec => ClosedStaysClosed
<1>1. TypeInv /\ [Next]_vars => [\A i \in Invitations : StaysClosed(i)]_vars
  <2> SUFFICES ASSUME TypeInv, [Next]_vars, NEW i \in Invitations PROVE StaysClosed(i)
    OBVIOUS
  <2>1. CASE \E w \in Workers : SaveInvitation(w) /\ target[w] = i
    BY <2>1, SaveKeepsClosed
  <2>2. CASE \A w \in Workers : SaveInvitation(w) => target[w] # i
    BY <2>2, OnlySavesChange DEF StaysClosed
  <2> QED BY <2>1, <2>2
<1> QED BY <1>1, TypeAlways, PTL DEF Spec, ClosedStaysClosed

\* Every account was opened with an invitation that was pending when it was loaded.
THEOREM OnlyPendingOpens == Spec => ClosedOpensNoAccount
<1>1. TypeInv /\ [Next]_vars => [\A e \in Emails : OpenedByPending(e)]_vars
  <2> SUFFICES ASSUME TypeInv, [Next]_vars, NEW e \in Emails PROVE OpenedByPending(e)
    OBVIOUS
  <2>1. ASSUME NEW w \in Workers, CreateUser(w) PROVE OpenedByPending(e)
    <3>1. held[w].status = "pending" /\ at[w] = "create_user"
      BY <2>1 DEF TypeInv, WorkerOK, CreateUser, Accepting
    <3> QED BY <2>1, <3>1 DEF TypeInv, RowsOK, CreateUser, OpenedByPending
  <2>2. CASE UNCHANGED opened
    BY <2>2 DEF OpenedByPending
  <2> QED
    BY <2>1, <2>2 DEF Next, Step, NextDay, Apply, DeleteApplication, Invite,
       LoadApplication, LoadInvitation, SaveApplication, CreateInvitation, SaveInvitation,
       LookForUser, CreateProfile, Crash, rows, vars
<1> QED BY <1>1, TypeAlways, PTL DEF Spec, ClosedOpensNoAccount

-----------------------------------------------------------------------------
(* Who is invited. *)

Due(a) == IF application[a] = "approved" /\ a \notin lost THEN 1 ELSE 0

\* The count, what makes counting possible, and that a reviewer was lost after the
\* approval only.
Counted(a) ==
    /\ IsFiniteSet(Inviting(a))
    /\ a \in lost => application[a] = "approved"
    /\ issued[a] + Cardinality(Inviting(a)) = Due(a)

CountInv == \A a \in Applications \ disturbed : Counted(a)

\* The count is what the property asks for.
LEMMA CountInvApproval == CountInv => ApprovalInvites
BY DEF CountInv, Counted, Due, ApprovalInvites

\* A step by which nobody comes to the invitation or leaves it, and which leaves
\* alone all that is counted.
LEMMA NothingCounted ==
    ASSUME CountInv, \A a \in Applications \ disturbed' : Inviting(a)' = Inviting(a),
           disturbed \subseteq disturbed',
           \A a \in Applications \ disturbed' :
              /\ Due(a)' = Due(a) /\ issued'[a] = issued[a]
              /\ a \in lost' => a \in lost /\ application'[a] = application[a]
    PROVE  CountInv'
BY DEF CountInv, Counted

\* A step of a worker that neither begins nor ends inviting changes no count.
LEMMA NobodyInvites ==
    ASSUME TypeInv, NEW w \in Workers, Moves(w), at[w] # "invite", at'[w] # "invite", NEW a
    PROVE  Inviting(a)' = Inviting(a)
BY DEF Moves, Inviting

\* The worker goes to the invitation of its application.
LEMMA GoesToInvite ==
    ASSUME TypeInv, NEW w \in Workers, Moves(w), at[w] # "invite", at'[w] = "invite", NEW a,
           IsFiniteSet(Inviting(a))
    PROVE  /\ a = target'[w] => /\ IsFiniteSet(Inviting(a)')
                                /\ Cardinality(Inviting(a)') = Cardinality(Inviting(a)) + 1
           /\ a # target'[w] => Inviting(a)' = Inviting(a)
<1>1. CASE a = target'[w]
  <2>1. Inviting(a)' = Inviting(a) \cup {w} /\ w \notin Inviting(a)
    BY <1>1 DEF Moves, Inviting
  <2> QED BY <1>1, <2>1, FS_AddElement
<1>2. CASE a # target'[w]
  BY <1>2 DEF Moves, Inviting
<1> QED BY <1>1, <1>2

\* The worker leaves the invitation, which it was about to make, or it dies.
LEMMA LeavesInvite ==
    ASSUME TypeInv, NEW w \in Workers, Moves(w), at[w] = "invite", at'[w] # "invite", NEW a,
           IsFiniteSet(Inviting(a))
    PROVE  /\ a = target[w] => /\ IsFiniteSet(Inviting(a)')
                               /\ Cardinality(Inviting(a)') = Cardinality(Inviting(a)) - 1
                               /\ Cardinality(Inviting(a)) > 0
           /\ a # target[w] => Inviting(a)' = Inviting(a)
<1>1. CASE a = target[w]
  <2>1. Inviting(a)' = Inviting(a) \ {w} /\ w \in Inviting(a)
    BY <1>1 DEF Moves, Inviting
  <2>2. Cardinality(Inviting(a)) # 0 /\ Cardinality(Inviting(a)) \in Nat
    BY <2>1, FS_EmptySet, FS_CardinalityType
  <2> QED BY <1>1, <2>1, <2>2, FS_RemoveElement
<1>2. CASE a # target[w]
  BY <1>2 DEF Moves, Inviting
<1> QED BY <1>1, <1>2

\* At the start nobody is due an invitation.
LEMMA CountStart == Init => CountInv
<1> SUFFICES ASSUME Init, NEW a \in Applications PROVE Counted(a)
  BY DEF CountInv
<1>1. Inviting(a) = {}
  BY DEF Init, Inviting
<1>2. Due(a) = 0 /\ issued[a] = 0 /\ a \notin lost
  BY InvitationsAssumption DEF Init, Due, Verdicts
<1> QED BY <1>1, <1>2, FS_EmptySet DEF Counted

\* Steps of no worker.
LEMMA CountRowStep ==
    ASSUME TypeInv, CountInv,
           \/ NextDay
           \/ \E a \in Applications : Apply(a) \/ DeleteApplication(a)
           \/ \E i \in Invitations : Invite(i)
    PROVE  CountInv'
<1>1. \A a : Inviting(a)' = Inviting(a)
  BY DEF NextDay, Apply, DeleteApplication, Invite, memory, Inviting
<1>2. disturbed \subseteq disturbed'
  BY DEF NextDay, Apply, DeleteApplication, Invite, history
<1>3. \A a \in Applications \ disturbed' :
          /\ Due(a)' = Due(a) /\ issued'[a] = issued[a]
          /\ a \in lost' => a \in lost /\ application'[a] = application[a]
  <2>1. ASSUME NEW b \in Applications, Apply(b)
        PROVE  \A a \in Applications \ disturbed' :
                  /\ Due(a)' = Due(a) /\ issued'[a] = issued[a]
                  /\ a \in lost' => a \in lost /\ application'[a] = application[a]
    <3>1. b \notin lost /\ application[b] = None /\ None # "approved"
      BY <2>1, InvitationsAssumption DEF Apply, CountInv, Counted, Verdicts
    <3> QED BY <2>1, <3>1 DEF TypeInv, RowsOK, Apply, history, Due
  <2>2. CASE \E a \in Applications : DeleteApplication(a)
    BY <2>2 DEF TypeInv, RowsOK, DeleteApplication, Due
  <2>3. CASE NextDay \/ \E i \in Invitations : Invite(i)
    BY <2>3 DEF NextDay, Invite, history, rows, Due
  <2> QED BY <2>1, <2>2, <2>3
<1> QED BY <1>1, <1>2, <1>3, NothingCounted

\* A review: of an application nobody handled in between, an approval turns a pending
\* one into one about to be invited.
LEMMA CountReview ==
    ASSUME TypeInv, CountInv, NEW w \in Workers, SaveApplication(w)
    PROVE  CountInv'
<1> DEFINE a == target[w]
<1>1. /\ a \in Applications /\ call[w] \in Reviews /\ held[w] \in Verdicts
      /\ MayReview(call[w], held[w]) /\ at[w] = "save_application"
  BY DEF TypeInv, WorkerOK, SaveApplication, Accepting
<1>2. /\ Moves(w)
      /\ call[w] = "approve" => at'[w] = "invite" /\ target'[w] = a
      /\ call[w] # "approve" => at'[w] = "idle"
  BY AnswerMoves, GoToMoves DEF SaveApplication, Stages
<1>3. /\ application'[a] = Reviewed(call[w])
      /\ \A b \in Applications \ {a} : application'[b] = application[b]
      /\ issued' = issued /\ lost' = lost /\ disturbed \subseteq disturbed'
      /\ a \notin disturbed' => call[w] \in {"approve", "reject"} /\ application[a] = held[w]
  BY <1>1 DEF TypeInv, RowsOK, SaveApplication
<1> SUFFICES ASSUME NEW b \in Applications \ disturbed' PROVE Counted(b)'
  BY DEF CountInv
<1>4. Counted(b)
  BY <1>3 DEF CountInv
<1>5. CASE b # a
  <2>1. Inviting(b)' = Inviting(b)
    BY <1>1, <1>2, <1>4, <1>5, NobodyInvites, GoesToInvite DEF Counted
  <2> QED BY <1>3, <1>4, <1>5, <2>1 DEF Counted, Due
<1>6. CASE b = a /\ call[w] = "approve"
  <2>1. Due(b) = 0 /\ application'[b] = "approved"
    BY <1>1, <1>3, <1>6 DEF Due, MayReview, Reviewed
  <2>2. issued[b] \in 0..2 /\ Cardinality(Inviting(b)) \in Nat
    BY <1>4, <1>6, <1>1, FS_CardinalityType DEF Counted, TypeInv, RowsOK
  <2>3. b \notin lost
    BY <1>1, <1>3, <1>4, <1>6 DEF Counted, MayReview
  <2> QED BY <1>1, <1>2, <1>3, <1>4, <1>6, <2>1, <2>2, <2>3, GoesToInvite DEF Counted, Due
<1>7. CASE b = a /\ call[w] # "approve"
  <2>1. Due(b) = 0 /\ b \notin lost /\ application'[b] = "rejected"
    BY <1>1, <1>3, <1>4, <1>7 DEF Counted, Due, MayReview, Reviewed
  <2>2. Due(b)' = 0
    BY <2>1 DEF Due
  <2>3. Inviting(b)' = Inviting(b)
    BY <1>1, <1>2, <1>7, NobodyInvites
  <2> QED BY <1>3, <1>4, <2>1, <2>2, <2>3 DEF Counted
<1> QED BY <1>5, <1>6, <1>7

\* The worker leaves the invitation, with it made or lost.
LEMMA CountInvited ==
    ASSUME TypeInv, CountInv, NEW w \in Workers, at[w] = "invite",
           CreateInvitation(w) \/ Crash(w)
    PROVE  CountInv'
<1> DEFINE a == target[w]
<1>1. a \in Applications
  BY DEF TypeInv, WorkerOK, Accepting
<1>2. Moves(w) /\ at'[w] # "invite"
  BY AnswerMoves DEF CreateInvitation, Crash
<1>3. disturbed' = disturbed /\ application' = application
  BY DEF CreateInvitation, Crash, rows
<1> SUFFICES ASSUME NEW b \in Applications \ disturbed' PROVE Counted(b)'
  BY DEF CountInv
<1>4. Counted(b)
  BY <1>3 DEF CountInv
<1>5. CASE b # a
  <2>1. Inviting(b)' = Inviting(b)
    BY <1>2, <1>4, <1>5, LeavesInvite DEF Counted
  <2>2. Due(b)' = Due(b) /\ issued'[b] = issued[b] /\ (b \in lost' => b \in lost)
    BY <1>1, <1>3, <1>5 DEF CreateInvitation, Crash, Due, TypeInv, RowsOK
  <2> QED BY <1>3, <1>4, <2>1, <2>2 DEF Counted
<1>6. CASE b = a
  <2>1. /\ IsFiniteSet(Inviting(b)') /\ Cardinality(Inviting(b)) > 0
        /\ Cardinality(Inviting(b)') = Cardinality(Inviting(b)) - 1
        /\ Cardinality(Inviting(b)) \in Nat
    BY <1>2, <1>4, <1>6, LeavesInvite, FS_CardinalityType DEF Counted
  <2>2. issued[b] \in 0..2
    BY <1>1, <1>6 DEF TypeInv, RowsOK
  <2>3. /\ Due(b) = 1 /\ issued[b] = 0 /\ Cardinality(Inviting(b)') = 0
        /\ application[b] = "approved" /\ b \notin lost
    <3>1. Due(b) \in {0, 1} /\ issued[b] + Cardinality(Inviting(b)) = Due(b)
      BY <1>4 DEF Due, Counted
    <3> QED BY <2>1, <2>2, <3>1 DEF Due
  <2>4. CASE CreateInvitation(w)
    <3>1. issued'[b] = 1 /\ lost' = lost
      BY <1>1, <1>6, <2>3, <2>4 DEF TypeInv, RowsOK, CreateInvitation
    <3> QED BY <1>3, <2>1, <2>3, <3>1 DEF Counted, Due
  <2>5. CASE Crash(w)
    <3>1. issued' = issued /\ lost' = lost \cup {b}
      BY <1>6, <2>5 DEF Crash
    <3> QED BY <1>3, <2>1, <2>3, <3>1 DEF Counted, Due
  <2> QED BY <2>4, <2>5
<1> QED BY <1>5, <1>6

\* The other steps of a worker count nothing.
LEMMA CountOther ==
    ASSUME TypeInv, CountInv, NEW w \in Workers,
           \/ \E a \in Applications, c \in Reviews : LoadApplication(w, a, c)
           \/ \E i \in Invitations, c \in InvitationCalls : LoadInvitation(w, i, c)
           \/ SaveInvitation(w) \/ LookForUser(w) \/ CreateUser(w) \/ CreateProfile(w)
           \/ Crash(w) /\ at[w] # "invite"
    PROVE  CountInv'
<1> DEFINE Elsewhere ==
        /\ \A v \in Workers \ {w} : at'[v] = at[v] /\ target'[v] = target[v]
        /\ at[w] # "invite" /\ at'[w] # "invite"
<1>1. Elsewhere
  <2>1. CASE Answer(w)
    BY <2>1, AnswerMoves DEF Moves, LoadApplication, LoadInvitation, SaveInvitation,
       LookForUser, CreateUser, CreateProfile
  <2>2. CASE \/ LookForUser(w) /\ GoTo(w, "create_user") /\ UNCHANGED memory
             \/ CreateUser(w) /\ GoTo(w, "create_profile") /\ UNCHANGED memory
    BY <2>2, GoToMoves DEF Moves, LookForUser, CreateUser, Stages, Accepting
  <2>3. ASSUME NEW a \in Applications, NEW c \in Reviews, LoadApplication(w, a, c)
        PROVE  Elsewhere
    BY <2>3 DEF LoadApplication, Keep, GoTo, TypeInv, Memories
  <2>4. ASSUME NEW i \in Invitations, NEW c \in InvitationCalls, LoadInvitation(w, i, c)
        PROVE  Elsewhere
    BY <2>4 DEF LoadInvitation, Keep, GoTo, TypeInv, Memories
  <2> QED BY <2>1, <2>2, <2>3, <2>4 DEF SaveInvitation, LookForUser, CreateUser, CreateProfile, Crash
<1>2. \A a : Inviting(a)' = Inviting(a)
  BY <1>1 DEF Inviting
<1>3. /\ disturbed' = disturbed /\ issued' = issued /\ lost' = lost
      /\ application' = application
  BY DEF LoadApplication, LoadInvitation, SaveInvitation, LookForUser, CreateUser,
     CreateProfile, Crash, rows, history
<1>4. \A a : Due(a)' = Due(a)
  BY <1>3 DEF Due
<1> QED BY <1>2, <1>3, <1>4, NothingCounted

\* Every step keeps the count.
LEMMA CountStep == TypeInv /\ CountInv /\ [Next]_vars => CountInv'
<1> SUFFICES ASSUME TypeInv, CountInv, [Next]_vars PROVE CountInv'
  OBVIOUS
<1>1. CASE UNCHANGED vars
  BY <1>1 DEF CountInv, Counted, Due, Inviting, vars, rows, memory, history
<1>2. ASSUME NEW w \in Workers, CreateInvitation(w) PROVE CountInv'
  BY <1>2, CountInvited DEF CreateInvitation
<1>3. ASSUME NEW w \in Workers, Crash(w) PROVE CountInv'
  BY <1>3, CountInvited, CountOther
<1> QED BY <1>1, <1>2, <1>3, CountRowStep, CountReview, CountOther DEF Next, Step

\* An application that one reviewer at a time handles, and nobody edits or deletes, is
\* invited exactly once when it is approved and never otherwise.
THEOREM ApprovedOnceInvitedOnce == Spec => []ApprovalInvites
<1>1. Init => CountInv
  BY CountStart
<1>2. Spec => []CountInv
  BY <1>1, CountStep, TypeAlways, PTL DEF Spec
<1> QED BY <1>2, CountInvApproval, PTL
=============================================================================
