------------------------ MODULE MerchantInvitations ------------------------
(***************************************************************************)
(* How a business becomes a merchant: applications, their review,          *)
(* invitations and their acceptance (merchants/views.py and                *)
(* merchants/admin_views.py over merchants/models.py).                     *)
(*                                                                         *)
(* A request loads one row, tests its status in memory and saves every     *)
(* column of it later; no request runs in a transaction.  save() inserts   *)
(* an application that was deleted meanwhile.  Applications are reviewed   *)
(* through both modules, by requests that do the same to the rows and are  *)
(* one action: those of views.py end in a NameError after their writes     *)
(* (settings and User are not imported there), which changes the answer    *)
(* only.  Invitations are sent, resent and cancelled through               *)
(* admin_views.py alone: the view set of views.py has no queryset, so that *)
(* every request of it about one invitation fails before it loads a row,   *)
(* and creating one through it fails for want of expires_at.               *)
(***************************************************************************)
EXTENDS Naturals, FiniteSets

CONSTANTS
    Applications,  \* applications that may be sent
    Invitations,   \* primary keys of invitations
    Emails,        \* addresses for which accounts are opened
    Workers,       \* requests that run at once
    Validity,      \* ticks of the clock an invitation is valid (14 days)
    MaxDay,        \* bound: the last tick of the clock
    None

Verdicts == {"pending", "approved", "rejected"}

ASSUME InvitationsAssumption ==
    /\ Validity \in Nat \ {0} /\ MaxDay \in Nat
    /\ None \notin Applications \cup Invitations \cup Emails \cup Verdicts

Statuses == {"pending", "expired", "cancelled"}
Invitation == [status: Statuses, expires: 0..MaxDay + Validity]

VARIABLES
    application,  \* the status of each application, or None
    invitation,   \* the rows of MerchantInvitation, or None
    opened,       \* the invitation each User was created with, or None
    profile,      \* emails whose User has a Merchant row
    today,
    at,           \* where each worker stands
    call,         \* the request it serves
    target,       \* the application or invitation it is about
    held,         \* what it loaded
    email,        \* the address an acceptance names
    issued,       \* history: invitations an application led to: 0, 1, or 2 for more
    disturbed,    \* history: applications reviewed from an outdated row or by hand
    lost          \* history: applications whose reviewer died before inviting

rows == <<application, invitation, opened, profile>>
memory == <<call, target, held, email>>
history == <<issued, disturbed, lost>>
vars == <<rows, today, at, memory, history>>

Init ==
    /\ application = [a \in Applications |-> None]
    /\ invitation = [i \in Invitations |-> None]
    /\ opened = [e \in Emails |-> None]
    /\ profile = {}
    /\ today = 0
    /\ at = [w \in Workers |-> "idle"]
    /\ call = [w \in Workers |-> None]
    /\ target = [w \in Workers |-> None]
    /\ held = [w \in Workers |-> None]
    /\ email = [w \in Workers |-> None]
    /\ issued = [a \in Applications |-> 0]
    /\ disturbed = {}
    /\ lost = {}

GoTo(w, stage) == at' = [at EXCEPT ![w] = stage]

\* Mutant: what a request loaded is kept for the next one.
AnswerAndKeep(w) ==
    /\ GoTo(w, "idle")
    /\ UNCHANGED memory

\* The request has been answered.
Answer(w) ==
    /\ GoTo(w, "idle")
    /\ call' = [call EXCEPT ![w] = None]
    /\ target' = [target EXCEPT ![w] = None]
    /\ held' = [held EXCEPT ![w] = None]
    /\ email' = [email EXCEPT ![w] = None]

Keep(w, c, t, row) ==
    /\ call' = [call EXCEPT ![w] = c]
    /\ target' = [target EXCEPT ![w] = t]
    /\ held' = [held EXCEPT ![w] = row]

-----------------------------------------------------------------------------
\* Applications.

\* The row is stored; telling the administrators fails afterwards.
Apply(a) ==
    /\ application[a] = None /\ issued[a] = 0 /\ a \notin disturbed
    /\ application' = [application EXCEPT ![a] = "pending"]
    /\ UNCHANGED <<invitation, opened, profile, today, at, memory, history>>

Reviews == {"approve", "reject", "patch_pending", "patch_approved", "patch_rejected"}

\* Mutant: the status is not looked at.
AnyStatus(c, status) == c \in Reviews /\ status \in Verdicts

\* approve and reject turn down what is not pending; status is not a read-only field
\* of the serializer that PATCH uses.
MayReview(c, status) == c \in {"approve", "reject"} => status = "pending"

LoadApplication(w, a, c) ==
    /\ at[w] = "idle" /\ application[a] # None
    /\ MayReview(c, application[a])
    /\ Keep(w, c, a, application[a])
    /\ GoTo(w, "save_application")
    /\ UNCHANGED <<rows, today, email, history>>

Reviewed(c) ==
    CASE c \in {"approve", "patch_approved"} -> "approved"
      [] c \in {"reject", "patch_rejected"} -> "rejected"
      [] c = "patch_pending" -> "pending"

SaveApplication(w) ==
    LET a == target[w] IN
    /\ at[w] = "save_application"
    /\ application' = [application EXCEPT ![a] = Reviewed(call[w])]
    /\ disturbed' = IF call[w] \notin {"approve", "reject"} \/ application[a] # held[w]
                    THEN disturbed \cup {a} ELSE disturbed
    /\ IF call[w] = "approve"
       THEN GoTo(w, "invite") /\ UNCHANGED memory
       ELSE Answer(w)
    /\ UNCHANGED <<invitation, opened, profile, today, issued, lost>>

New(day) == [status |-> "pending", expires |-> day + Validity]

\* The second half of approve, for the contact of the application.
CreateInvitation(w) ==
    /\ at[w] = "invite"
    /\ \E i \in Invitations :
          /\ invitation[i] = None
          /\ invitation' = [invitation EXCEPT ![i] = New(today)]
    /\ issued' = [issued EXCEPT ![target[w]] = IF @ = 0 THEN 1 ELSE 2]
    /\ Answer(w)
    /\ UNCHANGED <<application, opened, profile, today, disturbed, lost>>

DeleteApplication(a) ==
    /\ application[a] # None
    /\ application' = [application EXCEPT ![a] = None]
    /\ disturbed' = disturbed \cup {a}
    /\ UNCHANGED <<invitation, opened, profile, today, at, memory, issued, lost>>

-----------------------------------------------------------------------------
\* Invitations.

\* An administrator invites somebody who has not applied (admin_views.py).
Invite(i) ==
    /\ invitation[i] = None
    /\ invitation' = [invitation EXCEPT ![i] = New(today)]
    /\ UNCHANGED <<application, opened, profile, today, at, memory, history>>

\* Mutant: only the date is looked at.
PastDate(row) == today > row.expires

\* is_expired.
IsExpired(row) == today > row.expires /\ row.status = "pending"

\* Mutant: accept_invitation does not look at the status.
AcceptsAny(c, row) ==
    CASE c = "resend" -> row.status = "pending"
      [] c = "validate" -> IsExpired(row)
      [] c = "cancel" -> row.status \in {"pending", "expired"}
      [] c = "accept" -> TRUE

\* Which requests go on after the load: validate writes only when the date has passed.
\* accept_invitation looks at the status, and not at the date.
GoesOn(c, row) ==
    CASE c \in {"resend", "accept"} -> row.status = "pending"
      [] c = "validate" -> IsExpired(row)
      [] c = "cancel" -> row.status \in {"pending", "expired"}

LoadInvitation(w, i, c) ==
    /\ at[w] = "idle" /\ invitation[i] # None
    /\ GoesOn(c, invitation[i])
    /\ Keep(w, c, i, invitation[i])
    /\ IF c = "accept"
       THEN /\ \E e \in Emails : email' = [email EXCEPT ![w] = e]
            /\ GoTo(w, "look_for_user")
       ELSE GoTo(w, "save_invitation") /\ UNCHANGED email
    /\ UNCHANGED <<rows, today, history>>

Changed(c, row) ==
    CASE c = "resend" -> [row EXCEPT !.expires = today + Validity]
      [] c = "cancel" -> [row EXCEPT !.status = "cancelled"]
      [] c = "validate" -> [row EXCEPT !.status = "expired"]

SaveInvitation(w) ==
    /\ at[w] = "save_invitation"
    /\ invitation' = [invitation EXCEPT ![target[w]] = Changed(call[w], held[w])]
    /\ Answer(w)
    /\ UNCHANGED <<application, opened, profile, today, history>>

\* accept_invitation: is there an account with this address?
LookForUser(w) ==
    /\ at[w] = "look_for_user"
    /\ IF opened[email[w]] # None THEN Answer(w) ELSE GoTo(w, "create_user") /\ UNCHANGED memory
    /\ UNCHANGED <<rows, today, history>>

\* create_user; the address is unique, so that the slower of two fails.
CreateUser(w) ==
    /\ at[w] = "create_user"
    /\ IF opened[email[w]] # None
       THEN Answer(w) /\ UNCHANGED opened
       ELSE /\ opened' = [opened EXCEPT ![email[w]] = target[w]]
            /\ GoTo(w, "create_profile")
            /\ UNCHANGED memory
    /\ UNCHANGED <<application, invitation, profile, today, history>>

\* The post_save receiver of User makes the Merchant row.  The Merchant row that
\* accept_invitation then makes itself is the second of a one-to-one relation and
\* fails: the code behind it, which marks the invitation accepted, never runs.
CreateProfile(w) ==
    /\ at[w] = "create_profile"
    /\ profile' = profile \cup {email[w]}
    /\ Answer(w)
    /\ UNCHANGED <<application, invitation, opened, today, history>>

-----------------------------------------------------------------------------
NextDay ==
    /\ today < MaxDay
    /\ today' = today + 1
    /\ UNCHANGED <<rows, at, memory, history>>

\* The worker is lost, or its database connection.
Crash(w) ==
    /\ at[w] # "idle"
    /\ lost' = IF at[w] = "invite" THEN lost \cup {target[w]} ELSE lost
    /\ Answer(w)
    /\ UNCHANGED <<rows, today, issued, disturbed>>

InvitationCalls == {"resend", "cancel", "validate", "accept"}

Step(w) ==
    \/ \E a \in Applications, c \in Reviews : LoadApplication(w, a, c)
    \/ \E i \in Invitations, c \in InvitationCalls : LoadInvitation(w, i, c)
    \/ SaveApplication(w) \/ CreateInvitation(w) \/ SaveInvitation(w)
    \/ LookForUser(w) \/ CreateUser(w) \/ CreateProfile(w) \/ Crash(w)

Next ==
    \/ NextDay
    \/ \E a \in Applications : Apply(a) \/ DeleteApplication(a)
    \/ \E i \in Invitations : Invite(i)
    \/ \E w \in Workers : Step(w)

Spec == Init /\ [][Next]_vars

-----------------------------------------------------------------------------
(* Types.  A worker that works on a row knows which, and an acceptance knows its   *)
(* address.                                                                        *)
TypeOK ==
    /\ application \in [Applications -> Verdicts \cup {None}]
    /\ invitation \in [Invitations -> Invitation \cup {None}]
    /\ opened \in [Emails -> Invitations \cup {None}]
    /\ profile \subseteq {e \in Emails : opened[e] # None}
    /\ today \in 0..MaxDay
    /\ issued \in [Applications -> 0..2]
    /\ disturbed \cup lost \subseteq Applications
    /\ \A w \in Workers :
          \/ at[w] = "idle" /\ target[w] = None /\ email[w] = None
          \/ /\ at[w] \in {"save_application", "invite"} /\ target[w] \in Applications
             /\ call[w] \in Reviews /\ held[w] \in Verdicts
          \/ /\ at[w] = "save_invitation" /\ target[w] \in Invitations
             /\ call[w] \in InvitationCalls /\ held[w] \in Invitation
          \/ /\ at[w] \in {"look_for_user", "create_user", "create_profile"}
             /\ target[w] \in Invitations /\ email[w] \in Emails

\* The workers that are about to invite the contact of an application.
Inviting(a) == {w \in Workers : at[w] = "invite" /\ target[w] = a}

(* An application is approved once and then invited once.  Approved means that an  *)
(* invitation was issued, is about to be, or was lost with its reviewer; anything  *)
(* else means that there is none.  Excepted are applications that two reviewers    *)
(* handled at once, that were deleted, or whose status was edited with PATCH.      *)
ApprovalInvites ==
    \A a \in Applications \ disturbed :
        issued[a] + Cardinality(Inviting(a)) =
          IF application[a] = "approved" /\ a \notin lost THEN 1 ELSE 0

\* A worker that is about to save an invitation it loaded in another state.
Outdated(w, i) == at[w] = "save_invitation" /\ target[w] = i /\ held[w] # invitation[i]

StaysClosed(i) ==
    invitation[i] # None =>
        \/ /\ invitation[i].status = "cancelled" => invitation'[i].status = "cancelled"
           /\ invitation[i].status = "expired" => invitation'[i].status # "pending"
        \/ \E w \in Workers : Outdated(w, i) /\ at'[w] = "idle"

(* A cancelled invitation is not revived, and an expired one is not pending again, *)
(* whoever validates, resends or cancels it, except by a request that loaded it    *)
(* before.                                                                         *)
ClosedStaysClosed == [][\A i \in Invitations : StaysClosed(i)]_vars

OpenedByPending(e) ==
    opened'[e] # opened[e] =>
        \E w \in Workers :
            /\ at[w] = "create_user" /\ target[w] = opened'[e]
            /\ held[w] # invitation[target[w]] \/ held[w].status = "pending"

(* No account is opened with an invitation that is not pending, although three     *)
(* queries lie between the test and the account, unless the invitation changed     *)
(* in between.                                                                     *)
ClosedOpensNoAccount == [][\A e \in Emails : OpenedByPending(e)]_vars
=============================================================================
