------------------------------ MODULE Payments ------------------------------
(***************************************************************************)
(* Payments through a gateway, beside the requests of TransactionAdmin on  *)
(* the same rows: POST /payments/process/ and PaymentViewSet.create in     *)
(* payments/views/main_views.py, which both call process_payment of        *)
(* PaymentServiceWithKYC (payments/services/payment_processing_service.py) *)
(* with the gateways it asks.                                              *)
(*                                                                         *)
(* process_payment creates the row, asks the gateway, and saves the object *)
(* it created with the outcome.  Each query commits by itself, and the     *)
(* requests to the gateways have no time limit, so that anything can       *)
(* happen to the row in between.  A payment is named by the row it         *)
(* creates.  Nothing ends a call that hangs: no fairness, no liveness.     *)
(***************************************************************************)
EXTENDS TransactionAdmin

CONSTANTS Methods \* kinds of payment method in use

ASSUME PaymentsAssumption == Methods \subseteq {"card", "momo", "bank", "other"}

VARIABLES
    at,      \* where the payment that creates a row stands
    method,  \* the kind of method it is made with
    result,  \* what came of asking the gateway
    opened   \* payments for which a provider has opened a payment page

payments == <<at, method, result, opened>>
allVars == <<vars, payments>>

InService == {"gateway", "save", "amend"}
\* "none": the row was there at the start.  A customer is told of a failure, with
\* success: False, or gets an error.
Places == {"none", "new", "failure", "error", "lost"} \cup InService

\* A row exists from the start, or is for a payment to create.
PaymentsInit ==
    /\ row \in [Transactions -> AnyRow \cup {Gone}]
    /\ dispute \in [Transactions -> {Gone, OpenDispute}]
    /\ \A t \in Transactions : row[t] = Gone => dispute[t] = Gone
    /\ NoRequests
    /\ at = [t \in Transactions |-> IF row[t] = Gone THEN "new" ELSE "none"]
    /\ method = [t \in Transactions |-> "none"]
    /\ result = [t \in Transactions |-> "none"]
    /\ opened = {}

Move(t, place) == at' = [at EXCEPT ![t] = place]

-----------------------------------------------------------------------------
\* Bad parameters, another user's method, no customer profile, an amount that does
\* not fit its column: no row is made.
Refuse(t) ==
    /\ at[t] = "new"
    /\ Move(t, "failure")
    /\ UNCHANGED <<vars, method, result, opened>>

\* Transaction.objects.create, committed at once.  The object made here is the one
\* that is saved in the end.
Create(t, m) ==
    /\ at[t] = "new"
    /\ row' = [row EXCEPT ![t] = [status |-> "pending", notes |-> <<>>]]
    /\ method' = [method EXCEPT ![t] = m]
    /\ Move(t, "gateway")
    /\ UNCHANGED <<dispute, pc, task, seen, found, deleted, result, opened>>

\* A gateway without its keys raises, which is logged and leaves no result; so does
\* Stripe, since the customer has no stripe_customer_id.  Flutterwave misses the
\* customer's e-mail and reports that.  Paystack opens a page where the customer may
\* pay, and its answer may be lost.  For other kinds a mock gateway reports success.
GatewayResults(m) ==
    CASE m = "card" -> {"nothing"}
      [] m = "momo" -> {"nothing", "opened", "lost", "refused"}
      [] m = "bank" -> {"nothing", "refused"}
      [] m = "other" -> {"mocked"}

Successes == {"opened", "mocked"}

Ask(t) ==
    /\ at[t] = "gateway"
    /\ \E a \in GatewayResults(method[t]) :
          /\ result' = [result EXCEPT ![t] = a]
          /\ opened' = IF a \in {"opened", "lost"} THEN opened \cup {t} ELSE opened
    /\ Move(t, "save")
    /\ UNCHANGED <<vars, method>>

Outcome(t) == IF result[t] \in Successes THEN "completed" ELSE "failed"

\* Mutant: a failed payment is left to the retry.
SaveSuccess(t) ==
    /\ at[t] = "save"
    /\ IF result[t] \in Successes
       THEN row' = [row EXCEPT ![t] = [status |-> Outcome(t), notes |-> <<>>]]
       ELSE UNCHANGED row
    /\ Move(t, IF result[t] = "nothing" THEN "failure" ELSE "error")
    /\ UNCHANGED <<dispute, pc, task, seen, found, deleted, method, result, opened>>

\* transaction.save(): the outcome, over whatever the row is by now, or as a new row.
\* A missing result is an AttributeError, whose handler saves.  Otherwise the object
\* is returned, which no view can render.
SaveOutcome(t) ==
    /\ at[t] = "save"
    /\ row' = [row EXCEPT ![t] = [status |-> Outcome(t), notes |-> <<>>]]
    /\ IF SaveRaises(t, Outcome(t))
       THEN Move(t, IF result[t] = "nothing" THEN "error" ELSE "amend")
       ELSE Move(t, IF result[t] = "nothing" THEN "failure" ELSE "error")
    /\ UNCHANGED <<dispute, pc, task, seen, found, deleted, method, result, opened>>

\* The handler of an exception of save(): 'failed', whatever the gateway said.
Amend(t) ==
    /\ at[t] = "amend"
    /\ row' = [row EXCEPT ![t] = [status |-> "failed", notes |-> <<>>]]
    /\ Move(t, IF SaveRaises(t, "failed") THEN "error" ELSE "failure")
    /\ UNCHANGED <<dispute, pc, task, seen, found, deleted, method, result, opened>>

\* The worker dies, or a call that hangs is ended with it.  What it asked of the
\* provider may have been carried out.
Lose(t) ==
    /\ at[t] \in InService
    /\ opened' \in IF at[t] = "gateway" /\ "lost" \in GatewayResults(method[t])
                   THEN {opened, opened \cup {t}} ELSE {opened}
    /\ Move(t, "lost")
    /\ UNCHANGED <<vars, method, result>>

Pay(t) ==
    \/ Refuse(t)
    \/ \E m \in Methods : Create(t, m)
    \/ Ask(t) \/ SaveOutcome(t) \/ Amend(t) \/ Lose(t)

Finished ==
    /\ \A r \in Requests : pc[r] \in Final
    /\ \A t \in Transactions : at[t] \notin {"new"} \cup InService
    /\ UNCHANGED allVars

PaymentsNext ==
    \/ Next /\ UNCHANGED payments
    \/ \E t \in Transactions : Pay(t)
    \/ Finished

PaymentsSpec == PaymentsInit /\ [][PaymentsNext]_allVars

-----------------------------------------------------------------------------
\* The types of TransactionAdmin, and those of the payments, which are told apart
\* from rows that were there before.
PaymentsTypeOK ==
    /\ TypeOK
    /\ at \in [Transactions -> Places]
    /\ method \in [Transactions -> Methods \cup {"none"}]
    /\ result \in [Transactions -> Successes \cup {"none", "nothing", "lost", "refused"}]
    /\ opened \subseteq {t \in Transactions : method[t] = "momo"}

\* The payment itself undoes a refund.
UndoneByPayment(t) == at[t] \in {"save", "amend"} /\ at'[t] # at[t] /\ at'[t] # "lost"

RefundStands(t) ==
    StatusOf(t) = "refunded" /\ StatusOf(t)' \notin {"refunded", "gone"} =>
        UndoneByRequest(t) \/ UndoneByPayment(t)

\* A transaction leaves "refunded" only through a handler that loaded it before the
\* refund, by a dispute resolved in favour of completion, or by the payment itself,
\* whose outcome comes after somebody has completed and refunded it.
RefundUndoneOnlyByDisputeOrOutdatedLoad == [][\A t \in Transactions : RefundStands(t)]_allVars

\* Nobody has asked for anything on t yet.
Untouched(t) == \A r \in Requests : pc[r] # "idle" => T(r) # t

\* The row of a payment nobody else touched says what became of it: pending while
\* the payment is under way or for ever after its worker was lost, otherwise as the
\* gateway answered; a customer told of a failure has no completed row, and no
\* provider was asked without a row.
PaymentAccounted ==
    \A t \in Transactions : at[t] # "none" /\ Untouched(t) =>
        /\ StatusOf(t) = "completed" => at[t] = "error" /\ result[t] \in Successes
        /\ StatusOf(t) = "pending" => at[t] \in {"gateway", "save", "lost"}
        /\ StatusOf(t) = "failed" => at[t] \in {"failure", "error"} /\ result[t] \notin Successes
        /\ StatusOf(t) = "gone" => at[t] \in {"new", "failure"} /\ t \notin opened
=============================================================================
