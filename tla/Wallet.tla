------------------------------- MODULE Wallet -------------------------------
(***************************************************************************)
(* The multi-currency wallet: WalletService in                             *)
(* payments/services/currency_service.py over the WalletBalance rows of    *)
(* payments/models/currency.py.                                            *)
(*                                                                         *)
(* A request is one call of a wallet operation, run by a web worker inside *)
(* one database transaction.  The operations read a balance row without    *)
(* locking it, compute in Python, and save the whole row back.  Reads and  *)
(* writes are therefore separate steps, the value read is kept in seen,    *)
(* and the row lock the UPDATE takes lasts until the transaction ends      *)
(* (PostgreSQL, READ COMMITTED: core/settings.py sets no other level).     *)
(***************************************************************************)
EXTENDS Money, FiniteSets

CONSTANTS
    Customers,         \* the users that have a customer_profile
    Workers,           \* how many requests the web workers run at once
    Opening,           \* the WalletBalance rows before the first request
    MaxBalance,        \* largest value of a balance column (15 digits, 6 decimals)
    MaxAmount,         \* largest Transaction.amount (10 digits, 2 decimals)
    ReceiverOutcomes,  \* what the post_save receiver of Transaction may do
    FeeOutcomes,       \* what DynamicFeeCalculator may find
    NoRow              \* no WalletBalance row (or no uncommitted version of it)

Row == [Buckets -> Int]
EmptyRow == [b \in Buckets |-> 0]
NoJob == [kind |-> "none"]

ASSUME WalletAssumption ==
    /\ NoRow \notin Row
    /\ Customers \subseteq Users
    /\ Workers \in Nat
    /\ Opening \in [Wallets -> [Buckets -> 0..MaxBalance] \cup {NoRow}]
    /\ MaxBalance \in Nat /\ MaxAmount \in Nat
    /\ ReceiverOutcomes \subseteq {"returns", "raises"}
    /\ FeeOutcomes \subseteq {"no_fee", "logged"}

VARIABLES
    table,    \* committed WalletBalance rows
    booked,   \* per wallet, committed wallet_topup minus wallet_deduction amounts
    ledger,   \* committed Transaction rows, as <<request, transaction_type>>
    pc, job,  \* where each request stands, and what it was asked to do
    seen,     \* the row the request last read
    dirty,    \* uncommitted row versions; holding one is holding the row lock
    fresh,    \* the row being credited was inserted by this request
    book,     \* uncommitted part of booked
    notes,    \* uncommitted Transaction rows
    answer,   \* what the service function is going to return
    suspect   \* history: wallets whose last writes the books cannot match

vars == <<table, booked, ledger, pc, job, seen, dirty, fresh, book, notes, answer, suspect>>

Final == {"accepted", "refused", "crashed"}
Stages == {"debit_read", "debit_write", "credit_read", "credit_write", "records", "commit"}
Open(r) == pc[r] \in Stages

DebitWallet(r) == PayerWallet(job[r])
CreditWallet(r) == PayeeWallet(job[r])
CreditAmount(r) == CreditOf(job[r])

Total(row) ==
    IF row = NoRow THEN 0 ELSE row["available"] + row["pending"] + row["reserved"]

\* Mutant: an unknown balance_type becomes a column.
AddAnyColumn(row, bucket, a) ==
    [b \in Buckets \cup {bucket} |->
        IF b \notin Buckets THEN a ELSE IF b = bucket THEN row[b] + a ELSE row[b]]

\* WalletBalance.add_balance on a row: an unknown balance_type changes nothing.
AddBalance(row, bucket, a) ==
    [b \in Buckets |-> IF b = bucket THEN row[b] + a ELSE row[b]]
DeductBalance(row, a) == [row EXCEPT !["available"] = @ - a]

Visible(r, w) == IF dirty[r][w] # NoRow THEN dirty[r][w] ELSE table[w]

\* Mutant: writes do not wait for each other.
LockIgnored(r, w) == r \in Requests /\ w \in Wallets

LockFree(r, w) == \A q \in Requests \ {r} : dirty[q][w] = NoRow

NothingDirty == [w \in Wallets |-> NoRow]
NothingBooked == [w \in Wallets |-> 0]

Init ==
    /\ table = Opening
    /\ booked = NothingBooked
    /\ ledger = {}
    /\ pc = [r \in Requests |-> "idle"]
    /\ job = [r \in Requests |-> NoJob]
    /\ seen = [r \in Requests |-> EmptyRow]
    /\ dirty = [r \in Requests |-> NothingDirty]
    /\ fresh = [r \in Requests |-> FALSE]
    /\ book = [r \in Requests |-> NothingBooked]
    /\ notes = [r \in Requests |-> {}]
    /\ answer = [r \in Requests |-> FALSE]
    /\ suspect = {}

-----------------------------------------------------------------------------
\* A worker takes request r up and opens the transaction.  An exchange needs a
\* non-zero converted amount.  The other paying operations price a fee first: with no
\* fee configuration the legacy result has no 'total_fee' and the fee is 0; with
\* one, logging the calculation fails on its Decimal breakdown, which marks the
\* transaction for rollback, so that every later query fails.
Submit(r, op) ==
    /\ pc[r] = "idle"
    /\ Cardinality({q \in Requests : Open(q)}) < Workers
    /\ job' = [job EXCEPT ![r] = op]
    /\ \/ /\ op.kind = "topup"
          /\ pc' = [pc EXCEPT ![r] = "credit_read"]
       \/ /\ op.kind = "exchange"
          /\ pc' = [pc EXCEPT ![r] =
                     IF Convert(op.amount, op.from, op.to) = 0 THEN "commit" ELSE "debit_read"]
       \/ /\ op.kind \in {"p2p", "bill", "airtime"}
          /\ \E fee \in FeeOutcomes :
                pc' = [pc EXCEPT ![r] = IF fee = "logged" THEN "refused" ELSE "debit_read"]
    /\ UNCHANGED <<table, booked, ledger, seen, dirty, fresh, book, notes, answer, suspect>>

\* get_wallet_balance: get_or_create.  Creating the row waits for another
\* transaction that is creating it.
ReadRow(r, w) ==
    IF Visible(r, w) = NoRow
    THEN /\ LockFree(r, w)
         /\ seen' = [seen EXCEPT ![r] = EmptyRow]
         /\ dirty' = [dirty EXCEPT ![r][w] = EmptyRow]
         /\ fresh' = [fresh EXCEPT ![r] = TRUE]
    ELSE /\ seen' = [seen EXCEPT ![r] = Visible(r, w)]
         /\ fresh' = [fresh EXCEPT ![r] = FALSE]
         /\ UNCHANGED dirty

\* deduct_from_wallet up to the comparison in deduct_balance.
DebitRead(r) ==
    /\ pc[r] = "debit_read"
    /\ ReadRow(r, DebitWallet(r))
    /\ pc' = [pc EXCEPT ![r] =
               IF seen'[r]["available"] >= job[r].amount THEN "debit_write" ELSE "commit"]
    /\ UNCHANGED <<table, booked, ledger, job, book, notes, answer, suspect>>

\* Rolling back or committing empties what the transaction held.
Discard(r) ==
    /\ dirty' = [dirty EXCEPT ![r] = NothingDirty]
    /\ book' = [book EXCEPT ![r] = NothingBooked]
    /\ notes' = [notes EXCEPT ![r] = {}]

\* The inner atomic block of deduct_from_wallet or add_to_wallet rolled back to
\* its savepoint: a row it inserted is gone, the lock with it.
UndoInsert(r, w) ==
    dirty' = IF fresh[r] THEN [dirty EXCEPT ![r][w] = NoRow] ELSE dirty

\* History: the row saved and the Transaction created disagree, because the row
\* was read before another request changed it, because the bucket does not exist,
\* or because the amount has more than two decimals.
Mismatch(r, w, a, bucket) ==
    IF seen[r] # Visible(r, w) \/ bucket \notin Buckets \/ Recorded(a) # a
    THEN {w} ELSE {}

\* Mutant: a later Transaction replaces the earlier one.
ReplaceNote(r, type) == notes' = [notes EXCEPT ![r] = {<<r, type>>}]

AddNote(r, type) == notes' = [notes EXCEPT ![r] = @ \cup {<<r, type>>}]

\* deduct_balance saves the whole row, then the wallet_deduction Transaction is
\* created and its post_save receiver runs.  Any exception undoes the block, and
\* deduct_from_wallet returns False to a caller that gives up.
DebitWrite(r) ==
    LET w == DebitWallet(r) IN
    /\ pc[r] = "debit_write"
    /\ LockFree(r, w)
    /\ \/ /\ "returns" \in ReceiverOutcomes
          /\ job[r].payer \in Customers
          /\ Recorded(job[r].amount) <= MaxAmount
          /\ dirty' = [dirty EXCEPT ![r][w] = DeductBalance(seen[r], job[r].amount)]
          /\ suspect' = suspect \cup Mismatch(r, w, job[r].amount, "available")
          /\ book' = [book EXCEPT ![r][w] = @ - Recorded(job[r].amount)]
          /\ AddNote(r, "wallet_deduction")
          /\ pc' = [pc EXCEPT ![r] =
                     IF job[r].kind \in {"exchange", "p2p"} THEN "credit_read" ELSE "records"]
       \/ /\ \/ "raises" \in ReceiverOutcomes
             \/ job[r].payer \notin Customers
             \/ Recorded(job[r].amount) > MaxAmount
          /\ pc' = [pc EXCEPT ![r] = "commit"]
          /\ UNCHANGED <<dirty, suspect, book, notes>>
    /\ UNCHANGED <<table, booked, ledger, job, seen, fresh, answer>>

\* add_to_wallet up to add_balance.
CreditRead(r) ==
    /\ pc[r] = "credit_read"
    /\ ReadRow(r, CreditWallet(r))
    /\ pc' = [pc EXCEPT ![r] = "credit_write"]
    /\ UNCHANGED <<table, booked, ledger, job, book, notes, answer, suspect>>

\* Mutant: only Transaction.amount refuses a value that is too wide.
OverflowsAmount(r) == Recorded(CreditAmount(r)) > MaxAmount

\* Both columns refuse a value that needs more digits than they have.
Overflows(r) ==
    \/ Recorded(CreditAmount(r)) > MaxAmount
    \/ \E b \in Buckets : AddBalance(seen[r], job[r].bucket, CreditAmount(r))[b] > MaxBalance

\* Mutant: the exchange returns what add_to_wallet returned, and commits.
AfterCreditChecked(r, added) ==
    /\ pc' = [pc EXCEPT ![r] = IF job[r].kind = "p2p" THEN "records" ELSE "commit"]
    /\ answer' = [answer EXCEPT ![r] = added]

\* What add_to_wallet's callers do next; only the top-up looks at the result.
AfterCredit(r, added) ==
    /\ pc' = [pc EXCEPT ![r] = IF job[r].kind = "p2p" THEN "records" ELSE "commit"]
    /\ answer' = [answer EXCEPT ![r] = added \/ job[r].kind = "exchange"]

\* add_balance saves the whole row and the wallet_topup Transaction is created.
CreditWrite(r) ==
    LET w == CreditWallet(r)
        row == AddBalance(seen[r], job[r].bucket, CreditAmount(r)) IN
    /\ pc[r] = "credit_write"
    /\ LockFree(r, w)
    /\ "returns" \in ReceiverOutcomes
    /\ job[r].payee \in Customers
    /\ ~Overflows(r)
    /\ dirty' = [dirty EXCEPT ![r][w] = row]
    /\ suspect' = suspect \cup Mismatch(r, w, CreditAmount(r), job[r].bucket)
    /\ book' = [book EXCEPT ![r][w] = @ + Recorded(CreditAmount(r))]
    /\ AddNote(r, "wallet_topup")
    /\ AfterCredit(r, TRUE)
    /\ UNCHANGED <<table, booked, ledger, job, seen, fresh>>

\* Which row r waits for, and the requests that hold it.
Wanted(r) ==
    CASE pc[r] = "debit_write" -> {DebitWallet(r)}
      [] pc[r] = "credit_write" -> {CreditWallet(r)}
      [] pc[r] = "debit_read" -> {w \in {DebitWallet(r)} : Visible(r, w) = NoRow}
      [] pc[r] = "credit_read" -> {w \in {CreditWallet(r)} : Visible(r, w) = NoRow}
      [] OTHER -> {}

WaitsFor(r, q) == q # r /\ \E w \in Wanted(r) : dirty[q][w] # NoRow

\* Mutant: nobody looks for wait cycles.
NoWaitCycle(r) == r \notin Requests

\* r is on a cycle of waiting transactions, all of which therefore hold a lock.
InWaitCycle(r) ==
    \E S \in SUBSET Requests :
        /\ r \in S
        /\ \A q \in S : (\E p \in S : WaitsFor(q, p)) /\ (\E p \in S : WaitsFor(p, q))

\* add_to_wallet swallows an exception of its block and returns False: a value
\* too wide (raised before any SQL), a missing customer_profile, a receiver that
\* raises, or the server breaking a wait cycle by failing this statement.
CreditFail(r) ==
    /\ \/ pc[r] = "credit_write" /\ Overflows(r)
       \/ /\ pc[r] = "credit_write"
          /\ LockFree(r, CreditWallet(r))
          /\ job[r].payee \notin Customers \/ "raises" \in ReceiverOutcomes
       \/ pc[r] \in {"credit_read", "credit_write"} /\ InWaitCycle(r)
    /\ IF pc[r] = "credit_write" THEN UndoInsert(r, CreditWallet(r)) ELSE UNCHANGED dirty
    /\ AfterCredit(r, FALSE)
    /\ UNCHANGED <<table, booked, ledger, job, seen, fresh, book, notes, suspect>>

\* After the money: transfer_to_user creates p2p_send and p2p_receive, which need
\* both customer profiles; pay_bill and buy_airtime create one row for the payer.
\* Here an exception leaves the outer block, so everything is rolled back.
Records(r) ==
    /\ pc[r] = "records"
    /\ \/ /\ "returns" \in ReceiverOutcomes
          /\ job[r].payer \in Customers
          /\ job[r].kind = "p2p" => job[r].payee \in Customers
          /\ notes' = [notes EXCEPT ![r] = @ \cup
                {<<r, type>> : type \in ServiceRows(job[r].kind)}]
          /\ pc' = [pc EXCEPT ![r] = "commit"]
          /\ answer' = [answer EXCEPT ![r] = TRUE]
          /\ UNCHANGED <<dirty, book>>
       \/ /\ \/ "raises" \in ReceiverOutcomes
             \/ job[r].payer \notin Customers
             \/ job[r].kind = "p2p" /\ job[r].payee \notin Customers
          /\ pc' = [pc EXCEPT ![r] = "refused"]
          /\ Discard(r)
          /\ UNCHANGED answer
    /\ UNCHANGED <<table, booked, ledger, job, seen, fresh, suspect>>

\* The outer atomic block ends: its rows become visible and its locks are
\* released.  "return False" inside the block commits too.
Commit(r) ==
    /\ pc[r] = "commit"
    /\ table' = [w \in Wallets |-> Visible(r, w)]
    /\ booked' = [w \in Wallets |-> booked[w] + book[r][w]]
    /\ ledger' = ledger \cup notes[r]
    /\ Discard(r)
    /\ pc' = [pc EXCEPT ![r] = IF answer[r] THEN "accepted" ELSE "refused"]
    /\ UNCHANGED <<job, seen, fresh, answer, suspect>>

\* The worker or its connection dies: the server rolls the transaction back.
Crash(r) ==
    /\ Open(r)
    /\ Discard(r)
    /\ pc' = [pc EXCEPT ![r] = "crashed"]
    /\ UNCHANGED <<table, booked, ledger, job, seen, fresh, answer, suspect>>

\* Nothing left to run.
Finished ==
    /\ \A r \in Requests : pc[r] \in Final
    /\ UNCHANGED vars

Step(r) ==
    \/ DebitRead(r) \/ DebitWrite(r)
    \/ CreditRead(r) \/ CreditWrite(r) \/ CreditFail(r)
    \/ Records(r) \/ Commit(r)

Next ==
    \/ \E r \in Requests, op \in Ops : Submit(r, op)
    \/ \E r \in Requests : Step(r) \/ Crash(r)
    \/ Finished

\* A worker that has a request in hand keeps running it.
Spec == Init /\ [][Next]_vars /\ \A r \in Requests : WF_vars(Step(r))

-----------------------------------------------------------------------------
StatusOf == [r \in Requests |->
    CASE pc[r] = "idle" -> "new"
      [] pc[r] \in Stages -> "placed"
      [] pc[r] = "accepted" -> "settled"
      [] OTHER -> "rejected"]

\* The transaction records, read through the service's own notion of a request,
\* follow the settlement promise whatever the workers interleave.
Promise == INSTANCE Settlement WITH
    order <- job,
    status <- StatusOf,
    position <- booked,
    rows <- ledger

\* All or nothing: every request's records appear in one step, with the whole
\* debit and at most the whole credit, or never (transaction.atomic around the
\* swallowed failures of the inner blocks).
ImplementsSettlement == Promise!SettlementSpec

\* The service never leaves its data types: a balance row keeps its three
\* columns whatever balance_type the caller of add_to_wallet names.
TypeOK ==
    /\ table \in [Wallets -> Row \cup {NoRow}]
    /\ booked \in [Wallets -> Int]
    /\ ledger \subseteq Requests \X RowTypes
    /\ pc \in [Requests -> {"idle"} \cup Stages \cup Final]
    /\ job \in [Requests -> Ops \cup {NoJob}]
    /\ seen \in [Requests -> Row]
    /\ dirty \in [Requests -> [Wallets -> Row \cup {NoRow}]]
    /\ fresh \in [Requests -> BOOLEAN]
    /\ book \in [Requests -> [Wallets -> Int]]
    /\ notes \in [Requests -> SUBSET (Requests \X RowTypes)]
    /\ answer \in [Requests -> BOOLEAN]
    /\ suspect \subseteq Wallets

\* No balance column is ever stored below zero or wider than it is, although
\* nothing locks the row between the comparison in deduct_balance and the UPDATE.
InRange ==
    \A w \in Wallets, b \in Buckets :
        table[w] # NoRow => table[w][b] \in 0..MaxBalance

\* The change of a wallet's balance is what its committed wallet_topup and
\* wallet_deduction transactions say, except for the wallets a named hazard of
\* the code touched (suspect): an outdated row written back, an unknown bucket,
\* an amount with more than two decimals.
BooksUnlessSuspect ==
    \A w \in Wallets \ suspect : Total(table[w]) = Total(Opening[w]) + booked[w]

\* The same without the exception: what the transaction list of WalletService
\* promises of the balances it accounts for.  Proved for one worker.
BooksBalance ==
    \A w \in Wallets : Total(table[w]) = Total(Opening[w]) + booked[w]

\* A committed service row is never alone: both ends of a P2P transfer are
\* recorded or neither is, and every payment recorded has its deduction, across
\* the inner blocks whose failure the services swallow.
RecordsBacked ==
    \A r \in Requests :
        /\ <<r, "p2p_send">> \in ledger <=> <<r, "p2p_receive">> \in ledger
        /\ \A type \in {"p2p_send", "bill_payment", "airtime_purchase"} :
              <<r, type>> \in ledger => <<r, "wallet_deduction">> \in ledger

\* A request answered False, or one whose worker died before the commit, leaves
\* no transaction behind although "return False" inside the block commits it.
RefusedLeavesNoTrace ==
    \A r \in Requests, type \in RowTypes :
        pc[r] \in {"refused", "crashed"} => <<r, type>> \notin ledger

\* Every request a worker takes up ends: waiting for a row lock is never for
\* ever, since a cycle of waiting transactions is broken.
EveryRequestAnswered ==
    \A r \in Requests : Open(r) ~> pc[r] \in Final
=============================================================================
