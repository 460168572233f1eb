-------------------------------- MODULE Kyc --------------------------------
(***************************************************************************)
(* Identity verification of one customer: the customer's own endpoints     *)
(* (users/views/kyc_views.py), the view sets of users/views.py,            *)
(* kyc/views.py and merchants/views.py that write the statuses, what       *)
(* KYCService (users/services.py) decides for administrators, and the      *)
(* forms and actions of users/admin.py, over the rows of users/models.py.  *)
(*                                                                         *)
(* A handler is a sequence of queries, each committed on its own           *)
(* (ATOMIC_REQUESTS is off).  It saves all columns of rows it loaded       *)
(* earlier, except start_kyc_process, which saves two columns only.  A     *)
(* worker serves any number of requests, one after the other.              *)
(*                                                                         *)
(* Left out: the creation and the deletion of the Customer and of the      *)
(* MerchantCustomer themselves; both are there from the start.             *)
(***************************************************************************)
EXTENDS Naturals, FiniteSets

CONSTANTS
    Workers,       \* server workers: requests that run at once
    Documents,     \* KYCDocument keys: how many documents there may be
    Mixes,         \* the sets of requests that may come together
    Gone,          \* no row under this key
    Nothing        \* no row loaded, no task, a column a request does not give

Verdicts == {"approved", "rejected"}
KycStatuses == {"not_required", "not_started", "in_progress", "pending_review", "suspended"}
               \cup Verdicts
\* The choices of a document's status are in lower case; a review writes upper case.
DocumentChoices == {"pending"} \cup Verdicts
DocumentStatuses == DocumentChoices \cup {"APPROVED", "REJECTED"}
SubmissionChoices == {"pending", "escalated"} \cup Verdicts
\* bulk_decide stores any word it is given ("other").
SubmissionStatuses == SubmissionChoices \cup {"other"}
MerchantStatuses == {"active", "suspended", "blocked"}

CustomerRow == [status: KycStatuses, verified: BOOLEAN]
MerchantRow == [status: MerchantStatuses, kyc: KycStatuses \cup {"pending"}]

OwnKinds == {"upload", "personal", "complete", "resubmit"}
RelationKinds == {"suspend", "activate", "submit"}

\* A request: the document it is about, the status it gives, and the other column it
\* may give (kyc_verified of a customer, status of a merchant's customer).
\*   kyc_views.py: upload, personal, complete, resubmit;
\*   profile: PATCH of a Customer, by its owner too, or its form;
\*   review: approve or reject a document (KYCDocumentViewSet), mark: the same in
\*     KYCViewSet; edit and delete: PATCH, form and DELETE of a document;
\*   decide: approve, reject or escalate a submission, or mark it in the admin;
\*     bulk: one of bulk_decide; amend and withdraw: PATCH, form and DELETE of one;
\*   suspend, activate (in merchants/views.py also onboard), submit (submit_kyc
\*     there) and relate (PATCH or form) of a MerchantCustomer.
\* Requests of one query: file (POST or form of a document), enter (form of a
\* submission) and select (the admin action activate_customers).
Task ==
    [kind: OwnKinds \cup RelationKinds \cup {"select"},
     on: {Nothing}, arg: {Nothing}, also: {Nothing}]
    \cup [kind: {"file"}, on: {Nothing}, arg: DocumentChoices, also: {Nothing}]
    \cup [kind: {"enter"}, on: Documents, arg: SubmissionChoices, also: {Nothing}]
    \cup [kind: {"profile"}, on: {Nothing}, arg: KycStatuses \cup {Nothing},
          also: {"verified", "unverified", Nothing}]
    \cup [kind: {"relate"}, on: {Nothing}, arg: KycStatuses \cup {Nothing},
          also: MerchantStatuses \cup {Nothing}]
    \cup [kind: {"review", "mark"}, on: Documents, arg: Verdicts, also: {Nothing}]
    \cup [kind: {"edit"}, on: Documents, arg: DocumentChoices \cup {Nothing}, also: {Nothing}]
    \cup [kind: {"delete", "withdraw"}, on: Documents, arg: {Nothing}, also: {Nothing}]
    \cup [kind: {"decide"}, on: Documents, arg: {"escalated"} \cup Verdicts, also: {Nothing}]
    \cup [kind: {"bulk"}, on: Documents, arg: SubmissionStatuses, also: {Nothing}]
    \cup [kind: {"amend"}, on: Documents, arg: SubmissionChoices \cup {Nothing}, also: {Nothing}]

ASSUME KycAssumption ==
    /\ Mixes \subseteq SUBSET Task
    /\ Nothing \notin Documents \cup DocumentStatuses \cup SubmissionStatuses
    /\ Nothing \notin KycStatuses \cup MerchantStatuses \cup {"verified", "unverified"}
    /\ Nothing \notin CustomerRow \cup MerchantRow \cup Task
    /\ Gone \notin DocumentStatuses \cup SubmissionStatuses

VARIABLES
    customer,    \* Customer row: kyc_status and kyc_verified
    document,    \* KYCDocument rows: status
    submission,  \* MerchantKYCSubmission rows, at most one for a document
    merchant,    \* MerchantCustomer row of this customer: status and kyc_status
    mix,         \* which requests come in this behaviour; never changes
    at,          \* the next query of each worker
    task,        \* the request it serves
    held         \* the rows it has in memory and, as history, those it saved (done)

rows == <<customer, document, submission, merchant>>
vars == <<rows, mix, at, task, held>>

Exists(d) == document[d] # Gone

\* A serializer, or a form, writes the columns it is given and keeps the others.
Given(value, old) == IF value = Nothing THEN old ELSE value

Empty == [customer |-> Nothing, document |-> Nothing, submission |-> Nothing,
          merchant |-> Nothing, done |-> {}]

Init ==
    /\ customer = [status |-> "not_started", verified |-> FALSE]
    /\ document = [d \in Documents |-> Gone]
    /\ submission = [d \in Documents |-> Gone]
    /\ merchant \in [status: {"active"}, kyc: {"not_started", "not_required"}]
    /\ mix \in Mixes
    /\ at = [w \in Workers |-> "idle"]
    /\ task = [w \in Workers |-> Nothing]
    /\ held = [w \in Workers |-> Empty]

GoTo(w, stage) ==
    at' = [at EXCEPT ![w] = stage] /\ UNCHANGED <<task, mix>>

Answer(w) ==
    /\ at' = [at EXCEPT ![w] = "idle"]
    /\ task' = [task EXCEPT ![w] = Nothing]
    /\ held' = [held EXCEPT ![w] = Empty]
    /\ UNCHANGED mix

\* Go on with these rows if there is a next query, answer otherwise.
GoOn(w, stage, kept) ==
    IF stage = "idle" THEN Answer(w)
    ELSE GoTo(w, stage) /\ held' = [held EXCEPT ![w] = kept]

Serve(w, k, stage, loaded) ==
    /\ at[w] = "idle"
    /\ at' = [at EXCEPT ![w] = stage]
    /\ task' = [task EXCEPT ![w] = k]
    /\ held' = [held EXCEPT ![w] = loaded]
    /\ UNCHANGED <<rows, mix>>

-----------------------------------------------------------------------------
\* The first query of each request; a request refused there changes nothing and
\* is left out.

\* Which query follows the load of the customer and the start of the process.
AfterStart(kind) == IF kind = "upload" THEN "create" ELSE "save_customer"

\* Mutant: resubmit_kyc does not look at the status.
LoadUnchecked(w, k) ==
    /\ k.kind \in OwnKinds
    /\ Serve(w, k,
             IF k.kind # "resubmit" /\ customer.status = "not_started"
             THEN "start" ELSE AfterStart(k.kind),
             [Empty EXCEPT !.customer = customer])

\* kyc_views: request.user.customer_profile, and the check of resubmit_kyc.
LoadOwnProfile(w, k) ==
    /\ k.kind \in OwnKinds
    /\ k.kind = "resubmit" => customer.status \in {"rejected", "not_started"}
    /\ Serve(w, k,
             IF k.kind # "resubmit" /\ customer.status = "not_started"
             THEN "start" ELSE AfterStart(k.kind),
             [Empty EXCEPT !.customer = customer])

\* get_object of a customer.
LoadCustomer(w, k) ==
    /\ k.kind = "profile"
    /\ Serve(w, k, "save_customer", [Empty EXCEPT !.customer = customer])

\* get_object of a document.
LoadDocument(w, k) ==
    /\ k.kind \in {"review", "mark", "edit", "delete"}
    /\ Exists(k.on)
    /\ Serve(w, k, IF k.kind = "delete" THEN "delete" ELSE "save_document",
             [Empty EXCEPT !.document = document[k.on]])

\* get_object of a submission brings the document and the merchant's customer with
\* it (select_related), and finds pending submissions only, unless asked for all;
\* bulk_decide loads the submission alone, whatever its status.
LoadSubmission(w, k) ==
    /\ k.kind \in {"decide", "bulk", "amend", "withdraw"}
    /\ submission[k.on] # Gone
    /\ Serve(w, k, IF k.kind = "withdraw" THEN "withdraw" ELSE "save_submission",
             CASE k.kind = "decide" ->
                     [Empty EXCEPT !.document = document[k.on], !.merchant = merchant]
               [] k.kind = "amend" -> [Empty EXCEPT !.submission = submission[k.on]]
               [] OTHER -> Empty)

\* get_object of the merchant's customer.
LoadMerchantCustomer(w, k) ==
    /\ k.kind \in RelationKinds \cup {"relate"}
    /\ Serve(w, k, "save_merchant", [Empty EXCEPT !.merchant = merchant])

-----------------------------------------------------------------------------
\* Customer.start_kyc_process: on the row in memory, saving only kyc_status (and
\* kyc_started_at).
StartKycProcess(w) ==
    /\ at[w] = "start"
    /\ customer' = [customer EXCEPT !.status = "in_progress"]
    /\ held' = [held EXCEPT ![w].customer.status = "in_progress"]
    /\ GoTo(w, AfterStart(task[w].kind))
    /\ UNCHANGED <<document, submission, merchant>>

\* A key nobody works with stands for the fresh one the database gives out.
Fresh(d) ==
    /\ document[d] = Gone
    /\ \A v \in Workers : task[v] # Nothing => task[v].on # d

\* serializer.save(user=request.user): a new row, pending.
CreateDocument(w) ==
    /\ at[w] = "create"
    /\ \E d \in Documents : Fresh(d) /\ document' = [document EXCEPT ![d] = "pending"]
    /\ GoTo(w, "save_customer")
    /\ UNCHANGED <<customer, submission, merchant, held>>

\* Mutant: every status but a rejection sets kyc_verified.
AllButRejected(row, new) == [status |-> new, verified |-> new # "rejected"]

\* Mutant: a rejection leaves kyc_verified alone.
RejectionKeepsFlag(row, new) ==
    [status |-> new, verified |-> row.verified \/ new = "approved"]

\* Customer.update_kyc_status: kyc_verified changes with a verdict only.
UpdateKycStatus(row, new) ==
    [status |-> new, verified |-> new = "approved" \/ (new # "rejected" /\ row.verified)]

\* The row a handler saves, made from the one it holds.
SavedCustomer(row, k) ==
    CASE k.kind = "review" -> UpdateKycStatus(row, k.arg)
      [] k.kind \in {"upload", "complete"} -> UpdateKycStatus(row, "pending_review")
      [] k.kind = "resubmit" -> UpdateKycStatus(row, "not_started")
      [] k.kind = "profile" ->
            [status |-> Given(k.arg, row.status),
             verified |-> k.also = "verified" \/ (k.also = Nothing /\ row.verified)]
      [] OTHER -> row

\* customer.save(), all columns.
SaveCustomer(w) ==
    /\ at[w] = "save_customer"
    /\ customer' = SavedCustomer(held[w].customer, task[w])
    /\ Answer(w)
    /\ UNCHANGED <<document, submission, merchant>>

\* document.user.customer_profile, after the document was saved.
LoadProfileOfDocument(w) ==
    /\ at[w] = "load_customer"
    /\ held' = [held EXCEPT ![w].customer = customer]
    /\ GoTo(w, "save_customer")
    /\ UNCHANGED rows

-----------------------------------------------------------------------------
\* POST of KYCDocumentViewSet, or the form of KYCDocumentAdmin: a document without a
\* step of the customer's process.
FileDocument(k) ==
    /\ k.kind = "file"
    /\ \E d \in Documents : Fresh(d) /\ document' = [document EXCEPT ![d] = k.arg]
    /\ UNCHANGED <<customer, submission, merchant, mix, at, task, held>>

DocumentVerdict(row, k) ==
    IF k.kind = "edit" THEN Given(k.arg, row)
    ELSE IF k.arg = "approved" THEN "APPROVED" ELSE "REJECTED"

\* document.save(): all columns; a row that was deleted meanwhile is inserted again.
SaveDocument(w) ==
    /\ at[w] = "save_document"
    /\ document' = [document EXCEPT ![task[w].on] = DocumentVerdict(held[w].document, task[w])]
    /\ GoOn(w, CASE task[w].kind = "review" -> "load_customer"
                 [] task[w].kind \in {"decide", "bulk"} -> "save_merchant"
                 [] OTHER -> "idle",
            [held[w] EXCEPT !.document = Nothing, !.done = @ \cup {"document"}])
    /\ UNCHANGED <<customer, submission, merchant>>

\* DELETE of a document takes its submission with it (on_delete=CASCADE).
DeleteDocument(w) ==
    /\ at[w] = "delete"
    /\ document' = [document EXCEPT ![task[w].on] = Gone]
    /\ submission' = [submission EXCEPT ![task[w].on] = Gone]
    /\ Answer(w)
    /\ UNCHANGED <<customer, merchant>>

-----------------------------------------------------------------------------
\* The form of MerchantKYCSubmissionAdmin creates a submission; no endpoint does,
\* because submit_merchant_customer_kyc fails on its first query.
EnterSubmission(k) ==
    /\ k.kind = "enter"
    /\ Exists(k.on) /\ submission[k.on] = Gone
    /\ submission' = [submission EXCEPT ![k.on] = k.arg]
    /\ UNCHANGED <<customer, document, merchant, mix, at, task, held>>

\* What follows when process_admin_kyc_decision has the related rows.
AfterDecision(k) ==
    CASE k.arg \in Verdicts -> "save_document"
      [] k.arg = "escalated" -> "save_escalated"
      [] OTHER -> "idle"

\* process_admin_kyc_decision saves the submission first, and once more to escalate
\* it; a row that was deleted meanwhile is inserted again, unless its document is
\* gone too: the foreign key refuses that.
SaveSubmission(w) ==
    LET k == task[w] IN
    /\ at[w] \in {"save_submission", "save_escalated"}
    /\ IF ~Exists(k.on)
       THEN Answer(w) /\ UNCHANGED submission
       ELSE /\ submission' = [submission EXCEPT ![k.on] = Given(k.arg, held[w].submission)]
            /\ GoOn(w, IF at[w] = "save_escalated" \/ k.kind = "amend" THEN "idle"
                       ELSE IF k.kind = "bulk" THEN "load_related" ELSE AfterDecision(k),
                    [held[w] EXCEPT !.done = @ \cup {"submission"}])
    /\ UNCHANGED <<customer, document, merchant>>

\* DELETE of a submission.
DeleteSubmission(w) ==
    /\ at[w] = "withdraw"
    /\ submission' = [submission EXCEPT ![task[w].on] = Gone]
    /\ Answer(w)
    /\ UNCHANGED <<customer, document, merchant>>

\* Mutant: bulk_decide does not load the merchant's customer.
LoadDocumentOnly(w) ==
    /\ at[w] = "load_related" /\ Exists(task[w].on)
    /\ GoOn(w, AfterDecision(task[w]), [held[w] EXCEPT !.document = document[task[w].on]])
    /\ UNCHANGED rows

\* Mutant: bulk_decide goes on without the document.
LoadIfThere(w) ==
    LET d == task[w].on IN
    /\ at[w] = "load_related"
    /\ IF Exists(d)
       THEN GoOn(w, AfterDecision(task[w]),
                 [held[w] EXCEPT !.merchant = merchant, !.document = document[d]])
       ELSE GoOn(w, IF task[w].arg \in Verdicts THEN "save_merchant" ELSE "idle",
                 [held[w] EXCEPT !.merchant = merchant])
    /\ UNCHANGED rows

\* In bulk_decide the related rows are loaded now, one by one: the merchant's
\* customer, then the document.
LoadRelated(w) ==
    LET d == task[w].on IN
    /\ at[w] = "load_related"
    /\ IF held[w].merchant = Nothing
       THEN GoOn(w, "load_related", [held[w] EXCEPT !.merchant = merchant])
       ELSE IF Exists(d)
            THEN GoOn(w, AfterDecision(task[w]), [held[w] EXCEPT !.document = document[d]])
            ELSE Answer(w)
    /\ UNCHANGED rows

-----------------------------------------------------------------------------
\* The admin action activate_customers: one UPDATE of the status column.
ActivateSelected(k) ==
    /\ k.kind = "select"
    /\ merchant' = [merchant EXCEPT !.status = "active"]
    /\ UNCHANGED <<customer, document, submission, mix, at, task, held>>

\* Mutant: a rejection leaves the merchant's customer active.
RejectionKeepsActive(row, k) ==
    CASE k.kind = "suspend" -> [row EXCEPT !.status = "suspended"]
      [] k.kind = "activate" -> [row EXCEPT !.status = "active"]
      [] k.kind = "submit" -> [row EXCEPT !.kyc = "pending"]
      [] k.kind = "relate" -> [status |-> Given(k.also, row.status), kyc |-> Given(k.arg, row.kyc)]
      [] OTHER -> IF k.arg = "approved" THEN [status |-> "active", kyc |-> "approved"]
                  ELSE [row EXCEPT !.kyc = "rejected"]

\* The row saved by suspend, activate, submit_kyc, a serializer or a form, and by
\* process_admin_kyc_decision.
UpdateMerchantCustomer(row, k) ==
    CASE k.kind = "suspend" -> [row EXCEPT !.status = "suspended"]
      [] k.kind = "activate" -> [row EXCEPT !.status = "active"]
      [] k.kind = "submit" -> [row EXCEPT !.kyc = "pending"]
      [] k.kind = "relate" -> [status |-> Given(k.also, row.status), kyc |-> Given(k.arg, row.kyc)]
      [] OTHER -> IF k.arg = "approved" THEN [status |-> "active", kyc |-> "approved"]
                  ELSE [status |-> "suspended", kyc |-> "rejected"]

\* merchant_customer.save(), all columns.
SaveMerchantCustomer(w) ==
    /\ at[w] = "save_merchant"
    /\ merchant' = UpdateMerchantCustomer(held[w].merchant, task[w])
    /\ Answer(w)
    /\ UNCHANGED <<customer, document, submission>>

\* The worker is lost, or a query fails (a document that is not valid, personal
\* information without a date of birth): what was saved stays.
Crash(w) ==
    /\ at[w] # "idle"
    /\ Answer(w)
    /\ UNCHANGED rows

Load(w, k) ==
    \/ LoadOwnProfile(w, k) \/ LoadCustomer(w, k) \/ LoadDocument(w, k)
    \/ LoadSubmission(w, k) \/ LoadMerchantCustomer(w, k)

Step(w) ==
    \/ \E k \in mix : Load(w, k)
    \/ StartKycProcess(w) \/ CreateDocument(w) \/ SaveCustomer(w)
    \/ LoadProfileOfDocument(w) \/ SaveDocument(w) \/ DeleteDocument(w)
    \/ SaveSubmission(w) \/ DeleteSubmission(w) \/ LoadRelated(w)
    \/ SaveMerchantCustomer(w) \/ Crash(w)

Next ==
    \/ \E k \in mix : FileDocument(k) \/ EnterSubmission(k) \/ ActivateSelected(k)
    \/ \E w \in Workers : Step(w)

Spec == Init /\ [][Next]_vars

-----------------------------------------------------------------------------
Loaded(row) == row \cup {Nothing}

\* The rows, and what a worker must hold to take its next step: the customer it
\* will save, the document, the merchant's customer.
TypeOK ==
    /\ customer \in CustomerRow
    /\ document \in [Documents -> DocumentStatuses \cup {Gone}]
    /\ submission \in [Documents -> SubmissionStatuses \cup {Gone}]
    /\ merchant \in MerchantRow
    /\ task \in [Workers -> Task \cup {Nothing}]
    /\ held \in [Workers -> [customer: Loaded(CustomerRow),
                             document: Loaded(DocumentStatuses),
                             submission: Loaded(SubmissionStatuses),
                             merchant: Loaded(MerchantRow),
                             done: SUBSET {"submission", "document"}]]
    /\ \A w \in Workers :
          /\ at[w] = "idle" <=> task[w] = Nothing
          /\ at[w] \in {"start", "save_customer"} => held[w].customer # Nothing
          /\ at[w] = "save_document" => held[w].document # Nothing
          /\ at[w] = "save_merchant" => held[w].merchant # Nothing

\* kyc_status and the older kyc_verified, which different gates read
\* (payment_processing_service.py:556, compliance_service.py:46).
Agree(row) ==
    /\ row.status = "approved" => row.verified
    /\ row.status = "rejected" => ~row.verified

\* The two columns come apart only where a request gives one of them, or saves a row
\* loaded while they were apart; never by start_kyc_process, which saves one of the
\* two columns of a row that may have changed since, and never by a review.
FlagFollowsVerdict ==
    [][Agree(customer) /\ ~Agree(customer') =>
         \E w \in Workers :
            /\ at[w] = "save_customer" /\ task[w].kind \in {"personal", "profile"}
            /\ \/ task[w].kind = "profile" /\ (task[w].arg # Nothing \/ task[w].also # Nothing)
               \/ ~Agree(held[w].customer)]_vars

Verifies(w) ==
    \/ task[w].kind = "review" /\ task[w].arg = "approved" /\ "document" \in held[w].done
    \/ task[w].kind = "profile" /\ task[w].also = "verified"
    \/ task[w].kind # "review" /\ held[w].customer.verified

\* A customer becomes verified by a review that saved the approval of a document
\* before, by a request that gives kyc_verified, or by the save of a row loaded
\* while it was verified; by no sequence of uploads, completions and resubmissions.
VerifiedAfterReview ==
    [][~customer.verified /\ customer'.verified =>
         \E w \in Workers : at[w] = "save_customer" /\ Verifies(w)]_vars

Approves(w) ==
    \/ /\ task[w].kind \in {"decide", "bulk"} /\ task[w].arg = "approved"
       /\ held[w].done = {"submission", "document"}
    \/ task[w].kind = "relate" /\ task[w].arg = "approved"
    \/ task[w].kind \in {"suspend", "activate", "relate"} /\ held[w].merchant.kyc = "approved"

\* The merchant's customer becomes approved after the decision saved the submission
\* and the document, however decisions die and rows vanish; otherwise by a request
\* that gives the column, or by the save of a row loaded while it was approved.
ApprovedInOrder ==
    [][merchant.kyc # "approved" /\ merchant'.kyc = "approved" =>
         \E w \in Workers : at[w] = "save_merchant" /\ Approves(w)]_vars

LetIn(row) == row.kyc = "rejected" /\ row.status = "active"

Admits(w) ==
    \/ task[w].kind = "activate" /\ held[w].merchant.kyc = "rejected"
    \/ task[w].kind = "relate" /\ (task[w].arg = "rejected" \/ task[w].also = "active")
    \/ task[w].kind = "relate" /\ LetIn(held[w].merchant)

\* A merchant's customer is both rejected and active only by an activation of a
\* rejected one, by a request that gives one of the columns, or by the save of a row
\* loaded while it was: decisions and suspensions that cross never make it so.
RejectedIsSuspended ==
    [][~LetIn(merchant) /\ LetIn(merchant') =>
         \/ merchant.kyc = "rejected" /\ held' = held
         \/ \E w \in Workers : at[w] = "save_merchant" /\ Admits(w)]_vars

TakesBack(w) ==
    \/ at[w] \in {"start", "save_customer"} /\ held[w].customer.status # customer.status
    \/ at[w] = "save_customer" /\ task[w].kind \in {"review", "upload", "complete"}
    \/ at[w] = "save_customer" /\ task[w].kind = "resubmit" /\ customer.status = "rejected"
    \/ at[w] = "save_customer" /\ task[w].kind = "profile" /\ task[w].arg # Nothing

\* A verdict on the customer is taken back by a new review, by an upload or a
\* completion, by a resubmission after a rejection, by a request that gives
\* kyc_status, and otherwise only by a save of a row loaded before the verdict.
VerdictStands ==
    [][customer.status \in Verdicts /\ customer'.status # customer.status =>
         \E w \in Workers : TakesBack(w)]_vars

\* "Only allow resubmission if rejected or not started" (kyc_views.py:171): whoever
\* is about to resubmit may.
ResubmitsWhenAllowed ==
    \A w \in Workers :
       at[w] = "save_customer" /\ task[w].kind = "resubmit" =>
          customer.status \in {"rejected", "not_started"}
=============================================================================
