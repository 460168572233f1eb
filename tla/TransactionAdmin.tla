-------------------------- MODULE TransactionAdmin --------------------------
(***************************************************************************)
(* What administrators and customers do to Transaction and Dispute rows:   *)
(* AdminTransactionViewSet in payments/views/main_views.py, a ModelViewSet *)
(* with five extra actions, TransactionViewSet, by which a customer (or    *)
(* merchant) edits and deletes rows of their own, and Dispute.resolve in   *)
(* payments/models/dispute.py.  Payments adds the payments that create and *)
(* settle such rows.                                                       *)
(*                                                                         *)
(* Every handler loads the row (get_object), decides on what it loaded,    *)
(* and saves all columns.  There is no transaction around a handler        *)
(* (ATOMIC_REQUESTS is off), so each query is a step, and a handler that   *)
(* dies or fails half way leaves what it has already saved.  Nothing in a  *)
(* handler waits, so no fairness is assumed and no liveness claimed.       *)
(***************************************************************************)
EXTENDS Naturals, Sequences, FiniteSets

CONSTANTS
    Transactions,  \* Transaction primary keys
    Requests,      \* requests of administrators and customers
    Workers,       \* how many of them run at once
    Tasks,         \* what a request may ask for
    Existing,      \* whoever created the disputes that are open at the start
    MaxNotes,      \* how many notes fit a description of 255 characters
    Gone, Nobody   \* no row; no administrator

Statuses == {"pending", "completed", "failed", "refunded"}

\* What can be asked: override_status with the status wanted, process_refund with
\* an amount within or above the transaction's, manual_complete, create_dispute,
\* resolve_dispute with an action, PATCH of the description or of other columns
\* (status is read-only there), and DELETE.  Customers have the last two.
Task == [on: Transactions, kind: {"override"}, arg: Statuses]
   \cup [on: Transactions, kind: {"refund"}, arg: {"within", "above"}]
   \cup [on: Transactions, kind: {"complete", "dispute", "delete"}, arg: {"-"}]
   \cup [on: Transactions, kind: {"resolve"}, arg: {"refund", "complete", "close"}]
   \cup [on: Transactions, kind: {"edit"}, arg: {"description", "other"}]

\* The rows of the two tables; notes are known by the requests that added them.
Row == [status: Statuses, notes: Seq(Requests)]
DisputeRow == [by: Requests \cup {Existing}, resolved: Requests \cup {Nobody}]

ASSUME AdminAssumption ==
    /\ Tasks \subseteq Task
    /\ MaxNotes \in Nat /\ Workers \in Nat
    /\ Existing \notin Requests /\ Nobody \notin Requests
    /\ Gone \notin Row \cup DisputeRow

VARIABLES
    row,      \* Transaction rows: status, and the notes in the description
    dispute,  \* Dispute rows: who created it, whose resolution it carries
    pc, task, \* where each request stands, and what it was asked
    seen,     \* the Transaction as the handler loaded it
    found,    \* the Dispute as the handler loaded it
    deleted   \* history: transactions that were deleted at some time

vars == <<row, dispute, pc, task, seen, found, deleted>>

Idle == [kind |-> "none"]
Final == {"accepted", "refused", "crashed"}
Stages == {"look", "create", "resolve", "save", "delete"}
Open(r) == pc[r] \in Stages
T(r) == task[r].on

\* A row as it may be found, and a dispute that is open.
AnyRow == [status: Statuses, notes: {<<>>}]
OpenDispute == [by |-> Existing, resolved |-> Nobody]

NoRequests ==
    /\ pc = [r \in Requests |-> "idle"]
    /\ task = [r \in Requests |-> Idle]
    /\ seen = [r \in Requests |-> Gone]
    /\ found = [r \in Requests |-> Gone]
    /\ deleted = {}

Init ==
    /\ row \in [Transactions -> AnyRow]
    /\ dispute \in [Transactions -> {Gone, OpenDispute}]
    /\ NoRequests

Answer(r, result) == pc' = [pc EXCEPT ![r] = result]
StatusOf(t) == IF row[t] = Gone THEN "gone" ELSE row[t].status

-----------------------------------------------------------------------------
\* Mutant: override_status and process_refund check nothing.
MayOnlyComplete(k, loaded) ==
    k.kind = "complete" => loaded.status \in {"pending", "failed"}

\* The handlers' checks of the row they loaded.
MayProceed(k, loaded) ==
    /\ k.kind = "override" => ~(loaded.status = "refunded" /\ k.arg # "refunded")
    /\ k.kind = "refund" => loaded.status # "refunded" /\ k.arg = "within"
    /\ k.kind = "complete" => loaded.status \in {"pending", "failed"}

FirstStage(kind) ==
    CASE kind \in {"dispute", "resolve"} -> "look"
      [] kind = "delete" -> "delete"
      [] OTHER -> "save"

\* get_object, or 404, and the checks.
Load(r, k) ==
    /\ pc[r] = "idle"
    /\ Cardinality({q \in Requests : Open(q)}) < Workers
    /\ task' = [task EXCEPT ![r] = k]
    /\ seen' = [seen EXCEPT ![r] = row[k.on]]
    /\ IF row[k.on] # Gone /\ MayProceed(k, row[k.on])
       THEN Answer(r, FirstStage(k.kind))
       ELSE Answer(r, "refused")
    /\ UNCHANGED <<row, dispute, found, deleted>>

\* hasattr(transaction, 'dispute') is a query of its own.
LookForDispute(r) ==
    /\ pc[r] = "look"
    /\ found' = [found EXCEPT ![r] = dispute[T(r)]]
    /\ Answer(r, IF task[r].kind = "dispute"
                 THEN IF dispute[T(r)] = Gone THEN "create" ELSE "refused"
                 ELSE IF dispute[T(r)] = Gone THEN "refused" ELSE "resolve")
    /\ UNCHANGED <<row, dispute, task, seen, deleted>>

\* Mutant: Dispute.transaction is not unique.
CreateAnyDispute(r) ==
    /\ pc[r] = "create"
    /\ dispute' = [dispute EXCEPT ![T(r)] = [by |-> r, resolved |-> Nobody]]
    /\ Answer(r, "accepted")
    /\ UNCHANGED <<row, task, seen, found, deleted>>

\* Dispute.objects.create: the one-to-one column is unique, and the transaction
\* must still exist; otherwise the request ends in an IntegrityError.
CreateDispute(r) ==
    /\ pc[r] = "create"
    /\ IF dispute[T(r)] = Gone /\ row[T(r)] # Gone
       THEN /\ dispute' = [dispute EXCEPT ![T(r)] = [by |-> r, resolved |-> Nobody]]
            /\ Answer(r, "accepted")
       ELSE /\ Answer(r, "refused")
            /\ UNCHANGED dispute
    /\ UNCHANGED <<row, task, seen, found, deleted>>

\* Mutant: the dispute is resolved only in memory.
ResolveInMemory(r) ==
    /\ pc[r] = "resolve"
    /\ Answer(r, "save")
    /\ UNCHANGED <<row, dispute, task, seen, found, deleted>>

\* Dispute.resolve saves the dispute that was found, whatever its state is by
\* now.  If it was deleted meanwhile, save() inserts it again, which the foreign
\* key or a dispute created since may refuse.
ResolveDispute(r) ==
    LET same == dispute[T(r)] # Gone /\ dispute[T(r)].by = found[r].by
        again == dispute[T(r)] = Gone /\ row[T(r)] # Gone IN
    /\ pc[r] = "resolve"
    /\ IF same \/ again
       THEN /\ dispute' = [dispute EXCEPT ![T(r)] = [by |-> found[r].by, resolved |-> r]]
            /\ Answer(r, "save")
       ELSE /\ Answer(r, "refused")
            /\ UNCHANGED dispute
    /\ UNCHANGED <<row, task, seen, found, deleted>>

\* Mutant: resolve_dispute stores the action as the status.
ActionAsStatus(k, loaded) ==
    IF k.kind \in {"override", "resolve"} THEN k.arg ELSE loaded.status

\* The row a handler saves, made from the one it loaded.
NewStatus(k, loaded) ==
    CASE k.kind = "override" -> k.arg
      [] k.kind = "refund" \/ (k.kind = "resolve" /\ k.arg = "refund") -> "refunded"
      [] k.kind = "complete" \/ (k.kind = "resolve" /\ k.arg = "complete") -> "completed"
      [] OTHER -> loaded.status

NewNotes(r, k, loaded) ==
    CASE k.kind = "edit" /\ k.arg = "description" -> <<>>
      [] (k.kind = "edit" /\ k.arg = "other") \/ (k.kind = "resolve" /\ k.arg = "close") ->
           loaded.notes
      [] OTHER -> Append(loaded.notes, r)

\* The receiver that announces a new transaction, if it is completed or failed,
\* calls a method that does not exist: the row stays, and save() raises.
SaveRaises(t, status) == row[t] = Gone /\ status \in {"completed", "failed"}

\* transaction.save() writes every column; a row deleted meanwhile is inserted
\* again.  A description that no longer fits is a DataError, after which
\* resolve_dispute has resolved the dispute and nothing else.
SaveRow(r) ==
    LET status == NewStatus(task[r], seen[r])
        notes == NewNotes(r, task[r], seen[r]) IN
    /\ pc[r] = "save"
    /\ IF Len(notes) <= MaxNotes
       THEN /\ row' = [row EXCEPT ![T(r)] = [status |-> status, notes |-> notes]]
            /\ Answer(r, IF SaveRaises(T(r), status) THEN "refused" ELSE "accepted")
       ELSE /\ Answer(r, "refused")
            /\ UNCHANGED row
    /\ UNCHANGED <<dispute, task, seen, found, deleted>>

\* DELETE removes the row and, by cascade, its dispute.
DeleteRow(r) ==
    /\ pc[r] = "delete"
    /\ row' = [row EXCEPT ![T(r)] = Gone]
    /\ dispute' = [dispute EXCEPT ![T(r)] = Gone]
    /\ deleted' = deleted \cup {T(r)}
    /\ Answer(r, "accepted")
    /\ UNCHANGED <<task, seen, found>>

\* The worker dies between two queries.
Crash(r) ==
    /\ Open(r)
    /\ Answer(r, "crashed")
    /\ UNCHANGED <<row, dispute, task, seen, found, deleted>>

Step(r) ==
    \/ LookForDispute(r) \/ CreateDispute(r) \/ ResolveDispute(r)
    \/ SaveRow(r) \/ DeleteRow(r)

Next ==
    \/ \E r \in Requests, k \in Tasks : Load(r, k)
    \/ \E r \in Requests : Step(r) \/ Crash(r)

Spec == Init /\ [][Next]_vars

-----------------------------------------------------------------------------
\* Rows, disputes and requests keep their shapes, and a description its length.
TypeOK ==
    /\ \A t \in Transactions :
          /\ row[t] # Gone => /\ row[t].status \in Statuses
                              /\ Len(row[t].notes) <= MaxNotes
                              /\ \A i \in DOMAIN row[t].notes : row[t].notes[i] \in Requests
          /\ dispute[t] # Gone => /\ dispute[t].by \in Requests \cup {Existing}
                                  /\ dispute[t].resolved \in Requests \cup {Nobody}
    /\ pc \in [Requests -> {"idle"} \cup Stages \cup Final]
    /\ task \in [Requests -> Tasks \cup {Idle}]
    /\ deleted \subseteq Transactions

\* A handler undoes a refund: it loaded the row before the refund, or resolves a
\* dispute in favour of completion.
UndoneByRequest(t) == \E r \in Requests :
    /\ pc[r] = "save" /\ pc'[r] = "accepted" /\ T(r) = t
    /\ \/ seen[r].status # "refunded"
       \/ task[r].kind = "resolve" /\ task[r].arg = "complete"

\* A transaction that carries the mark of a dispute resolution has a resolved
\* dispute, in whatever order administrators interleave and handlers die, unless
\* the row was deleted and came back.
DisputeMarkMeansResolved ==
    \A t \in Transactions \ deleted : row[t] # Gone =>
        \A i \in DOMAIN row[t].notes :
            task[row[t].notes[i]].kind = "resolve" =>
                dispute[t] # Gone /\ dispute[t].resolved # Nobody

\* A dispute that was answered 201 stays the transaction's dispute: of two
\* administrators who both found none, only one creates it.
DisputeKept ==
    \A r \in Requests :
        pc[r] = "accepted" /\ task[r].kind = "dispute" /\ T(r) \notin deleted =>
            dispute[T(r)] # Gone /\ dispute[T(r)].by = r
=============================================================================
