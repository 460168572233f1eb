---------------------------- MODULE WalletProofs ----------------------------
(***************************************************************************)
(* Proofs about the wallet for any set of users, currencies, requests and  *)
(* any number of workers.  The argument is about the rows a transaction    *)
(* holds: only one transaction holds a row, and what the books will gain   *)
(* when it commits is what the row has gained since it was taken.          *)
(* The records follow from what a transaction has noted at each stage,     *)
(* which is what the settlement promise writes in one step.                *)
(***************************************************************************)
EXTENDS Wallet, FiniteSetTheorems, TLAPS

InBounds(row) == \A b \in Buckets : row[b] \in 0..MaxBalance

\* Row locks are exclusive.
LocksExclusive ==
    \A p, q \in Requests, w \in Wallets :
        dirty[p][w] # NoRow /\ dirty[q][w] # NoRow => p = q

\* A request in hand has an operation to run.
JobsKnown == \A r \in Requests : pc[r] \in Stages => job[r] \in Ops

\* No version of a row, committed, written or merely read, is out of bounds.
VersionsInRange ==
    /\ InRange
    /\ \A r \in Requests : InBounds(seen[r])
    /\ \A r \in Requests, w \in Wallets : dirty[r][w] # NoRow => InBounds(dirty[r][w])

\* The comparison of deduct_balance still holds for the value about to be written.
ReadEnough ==
    \A r \in Requests :
        pc[r] = "debit_write" => job[r].amount <= seen[r]["available"]

\* An uncommitted row differs from the committed one by what r will book.
BookedInFlight ==
    \A r \in Requests, w \in Wallets :
        /\ dirty[r][w] = NoRow => book[r][w] = 0
        /\ w \notin suspect /\ dirty[r][w] # NoRow
              => Total(dirty[r][w]) = Total(table[w]) + book[r][w]

\* A row inserted for a credit is still as it was inserted until it is credited.
FreshUntouched ==
    \A r \in Requests :
        pc[r] = "credit_write" /\ fresh[r] => book[r][CreditWallet(r)] = 0

RangeInv == TypeOK /\ JobsKnown /\ VersionsInRange /\ ReadEnough
BooksInv == LocksExclusive /\ BookedInFlight /\ FreshUntouched /\ BooksUnlessSuspect

-----------------------------------------------------------------------------
(* The money arithmetic stays within the naturals. *)

\* Rounding a non-negative amount down to whole cents after conversion.
LEMMA ConvertNat ==
    ASSUME NEW a \in Nat, NEW from \in Currencies, NEW to \in Currencies
    PROVE  Convert(a, from, to) \in Nat
<1> DEFINE num == IF from = to THEN 1 ELSE RateNum[<<from, to>>]
           den == IF from = to THEN 1 ELSE RateDen[<<from, to>>]
<1>1. num \in Nat /\ den \in Nat \ {0} /\ Cent \in Nat \ {0}
  BY MoneyAssumption
<1>2. Convert(a, from, to) = Cent * ((a * num) \div (den * Cent))
  BY DEF Convert
<1> HIDE DEF num, den
<1>3. den * Cent \in Nat \ {0}
  BY <1>1
<1>4. a * num \in Nat
  BY <1>1
<1>5. (a * num) \div (den * Cent) \in Nat
  BY <1>3, <1>4
<1> QED
  BY <1>1, <1>2, <1>5

\* Rounding a non-negative amount to the two decimals of a Transaction.
LEMMA RecordedNat ==
    ASSUME NEW a \in Nat
    PROVE  Recorded(a) \in Nat
<1> DEFINE cents == a \div Cent
           up == 2 * (a % Cent) > Cent \/ (2 * (a % Cent) = Cent /\ cents % 2 = 1)
<1>1. Cent \in Nat \ {0}
  BY MoneyAssumption
<1>2. cents \in Nat
  BY <1>1
<1>3. Recorded(a) = Cent * (IF up THEN cents + 1 ELSE cents)
  BY DEF Recorded
<1> HIDE DEF cents, up
<1>4. (IF up THEN cents + 1 ELSE cents) \in Nat
  BY <1>2
<1> QED
  BY <1>1, <1>3, <1>4

\* The fields of an operation, and the amount it credits.
LEMMA OpFields ==
    ASSUME NEW op \in Ops
    PROVE  /\ op.kind \in Kinds /\ op.payer \in Users /\ op.payee \in Users
           /\ op.from \in Currencies /\ op.to \in Currencies
           /\ op.amount \in Nat /\ op.bucket \in Buckets \cup {"unknown"}
           /\ PayerWallet(op) \in Wallets /\ PayeeWallet(op) \in Wallets
           /\ CreditOf(op) \in Nat
<1>1. op \in [kind: Kinds, payer: Users, payee: Users, from: Currencies, to: Currencies,
              amount: Nat \ {0}, bucket: Buckets \cup {"unknown"}]
  BY MoneyAssumption DEF Op
<1>2. Convert(op.amount, op.from, op.to) \in Nat
  BY <1>1, ConvertNat
<1> QED
  BY <1>1, <1>2 DEF PayerWallet, PayeeWallet, Wallets, CreditOf

-----------------------------------------------------------------------------
(* What the operators on rows do. *)

\* Rows, the empty one and the missing one.
LEMMA RowFacts ==
    /\ EmptyRow \in Row /\ NoRow \notin Row
    /\ Total(NoRow) = 0 /\ Total(EmptyRow) = 0
    /\ \A row \in Row : Total(row) = row["available"] + row["pending"] + row["reserved"]
    /\ \A row \in Row : Total(row) \in Int
BY WalletAssumption DEF EmptyRow, Row, Buckets, Total

\* A credit to a known bucket adds to the total.
LEMMA AddFacts ==
    ASSUME NEW row \in Row, NEW a \in Int, NEW bucket \in Buckets \cup {"unknown"}
    PROVE  /\ AddBalance(row, bucket, a) \in Row
           /\ bucket \in Buckets => Total(AddBalance(row, bucket, a)) = Total(row) + a
<1>1. AddBalance(row, bucket, a) \in Row
  BY DEF AddBalance, Row
<1>2. ASSUME bucket \in Buckets
      PROVE  Total(AddBalance(row, bucket, a)) = Total(row) + a
  <2>1. Total(AddBalance(row, bucket, a)) =
            AddBalance(row, bucket, a)["available"]
              + AddBalance(row, bucket, a)["pending"]
              + AddBalance(row, bucket, a)["reserved"]
    BY <1>1, RowFacts
  <2>2. Total(row) = row["available"] + row["pending"] + row["reserved"]
    BY RowFacts
  <2> QED
    BY <1>2, <2>1, <2>2 DEF AddBalance, Row, Buckets
<1> QED
  BY <1>1, <1>2

\* A debit takes from the total.
LEMMA DeductFacts ==
    ASSUME NEW row \in Row, NEW a \in Int
    PROVE  /\ DeductBalance(row, a) \in Row
           /\ Total(DeductBalance(row, a)) = Total(row) - a
<1>1. DeductBalance(row, a) \in Row
  BY DEF DeductBalance, Row, Buckets
<1>2. Total(DeductBalance(row, a)) =
          DeductBalance(row, a)["available"] + DeductBalance(row, a)["pending"]
            + DeductBalance(row, a)["reserved"]
  BY <1>1, RowFacts
<1>3. Total(row) = row["available"] + row["pending"] + row["reserved"]
  BY RowFacts
<1> QED
  BY <1>1, <1>2, <1>3 DEF DeductBalance, Row, Buckets

-----------------------------------------------------------------------------
(* Types, bounds and the comparison a debit relies on. *)

\* What a request in hand works on.
LEMMA JobFacts ==
    ASSUME TypeOK, JobsKnown, NEW r \in Requests, pc[r] \in Stages
    PROVE  /\ job[r] \in Ops
           /\ DebitWallet(r) \in Wallets /\ CreditWallet(r) \in Wallets
           /\ job[r].amount \in Nat /\ job[r].bucket \in Buckets \cup {"unknown"}
           /\ CreditAmount(r) \in Nat
           /\ Recorded(job[r].amount) \in Nat /\ Recorded(CreditAmount(r)) \in Nat
<1>1. job[r] \in Ops
  BY DEF JobsKnown
<1>2. job[r].amount \in Nat /\ CreditAmount(r) \in Nat
  BY <1>1, OpFields DEF CreditAmount
<1> QED
  BY <1>1, <1>2, OpFields, RecordedNat DEF DebitWallet, CreditWallet

\* Reading a row keeps what is read and what is inserted well typed and in bounds.
LEMMA ReadFacts ==
    ASSUME TypeOK, VersionsInRange, NEW r \in Requests, NEW w \in Wallets, ReadRow(r, w)
    PROVE  /\ seen' \in [Requests -> Row]
           /\ dirty' \in [Requests -> [Wallets -> Row \cup {NoRow}]]
           /\ fresh' \in [Requests -> BOOLEAN]
           /\ \A q \in Requests : InBounds(seen'[q])
           /\ \A q \in Requests, v \in Wallets : dirty'[q][v] # NoRow => InBounds(dirty'[q][v])
<1>1. InBounds(EmptyRow) /\ EmptyRow \in Row
  BY RowFacts, WalletAssumption DEF InBounds, EmptyRow
<1>2. CASE Visible(r, w) = NoRow
  <2>1. /\ seen' = [seen EXCEPT ![r] = EmptyRow]
        /\ dirty' = [dirty EXCEPT ![r][w] = EmptyRow]
        /\ fresh' = [fresh EXCEPT ![r] = TRUE]
    BY <1>2 DEF ReadRow
  <2> QED
    BY <1>1, <2>1 DEF TypeOK, VersionsInRange
<1>3. CASE Visible(r, w) # NoRow
  <2>1. /\ seen' = [seen EXCEPT ![r] = Visible(r, w)]
        /\ fresh' = [fresh EXCEPT ![r] = FALSE]
        /\ dirty' = dirty
    BY <1>3 DEF ReadRow
  <2>2. Visible(r, w) \in Row
    BY <1>3 DEF Visible, TypeOK
  <2>3. InBounds(Visible(r, w))
    BY <1>3 DEF Visible, VersionsInRange, InRange, InBounds
  <2> QED
    BY <2>1, <2>2, <2>3 DEF TypeOK, VersionsInRange
<1> QED
  BY <1>2, <1>3

\* Writing one row version, or dropping one, keeps the others as they are.
LEMMA WriteFacts ==
    ASSUME TypeOK, VersionsInRange, NEW r \in Requests, NEW w \in Wallets,
           NEW row \in Row \cup {NoRow}, row # NoRow => InBounds(row),
           \/ dirty' = dirty
           \/ dirty' = [dirty EXCEPT ![r][w] = row]
           \/ dirty' = [dirty EXCEPT ![r] = NothingDirty]
    PROVE  /\ dirty' \in [Requests -> [Wallets -> Row \cup {NoRow}]]
           /\ \A q \in Requests, v \in Wallets : dirty'[q][v] # NoRow => InBounds(dirty'[q][v])
<1>1. CASE dirty' = dirty
  BY <1>1 DEF TypeOK, VersionsInRange
<1>2. CASE dirty' = [dirty EXCEPT ![r][w] = row]
  BY <1>2 DEF TypeOK, VersionsInRange
<1>3. CASE dirty' = [dirty EXCEPT ![r] = NothingDirty]
  BY <1>3 DEF TypeOK, VersionsInRange, NothingDirty
<1> QED
  BY <1>1, <1>2, <1>3

\* Types and bounds hold at the start.
LEMMA RangeInit == Init => RangeInv
<1> SUFFICES ASSUME Init PROVE RangeInv
  OBVIOUS
<1>1. EmptyRow \in Row /\ InBounds(EmptyRow)
  BY RowFacts, WalletAssumption DEF InBounds, EmptyRow
<1>2. Opening \in [Wallets -> Row \cup {NoRow}]
  <2>1. [Buckets -> 0..MaxBalance] \subseteq Row
    BY WalletAssumption DEF Row
  <2> QED
    BY <2>1, WalletAssumption
<1>3. TypeOK
  BY <1>1, <1>2 DEF Init, TypeOK, NothingDirty, NothingBooked
<1>4. InRange
  BY WalletAssumption DEF Init, InRange
<1> QED
  BY <1>1, <1>3, <1>4 DEF Init, RangeInv, JobsKnown, VersionsInRange, ReadEnough, Stages, NothingDirty

\* Every step keeps types, bounds and the debit comparison.
LEMMA RangeStep == RangeInv /\ [Next]_vars => RangeInv'
<1> SUFFICES ASSUME RangeInv, [Next]_vars PROVE RangeInv'
  OBVIOUS
<1> USE DEF RangeInv
<1>1. ASSUME NEW r \in Requests, NEW op \in Ops, Submit(r, op) PROVE RangeInv'
  <2>1. TypeOK'
    BY <1>1 DEF Submit, TypeOK, Stages, Final
  <2>2. JobsKnown' /\ ReadEnough' /\ VersionsInRange'
    BY <1>1 DEF Submit, TypeOK, JobsKnown, ReadEnough, VersionsInRange, InRange, InBounds
  <2> QED
    BY <2>1, <2>2
<1>2. ASSUME NEW r \in Requests, DebitRead(r) PROVE RangeInv'
  <2>1. pc[r] \in Stages
    BY <1>2 DEF DebitRead, Stages
  <2>2. ReadRow(r, DebitWallet(r)) /\ DebitWallet(r) \in Wallets
    BY <1>2, <2>1, JobFacts DEF DebitRead
  <2>3. TypeOK'
    BY <1>2, <2>2, ReadFacts DEF DebitRead, TypeOK, Stages
  <2>4. VersionsInRange'
    BY <1>2, <2>2, ReadFacts DEF DebitRead, VersionsInRange, InRange
  <2>5. seen' \in [Requests -> Row] /\ \A q \in Requests \ {r} : seen'[q] = seen[q]
    BY <2>2, ReadFacts DEF ReadRow, TypeOK
  <2>6. JobsKnown' /\ ReadEnough'
    <3>1. job[r].amount \in Nat /\ seen'[r]["available"] \in Int
      BY <2>1, <2>5, JobFacts DEF Row, Buckets
    <3> QED
      BY <1>2, <2>1, <2>5, <3>1 DEF DebitRead, TypeOK, JobsKnown, ReadEnough
  <2> QED
    BY <2>3, <2>4, <2>6
<1>3. ASSUME NEW r \in Requests, DebitWrite(r) PROVE RangeInv'
  <2> DEFINE w == DebitWallet(r)
  <2>1. /\ pc[r] \in Stages /\ w \in Wallets
        /\ job[r].amount \in Nat /\ Recorded(job[r].amount) \in Nat
    BY <1>3, JobFacts DEF DebitWrite, Stages
  <2>2. DeductBalance(seen[r], job[r].amount) \in Row
    BY <2>1, DeductFacts DEF TypeOK
  <2>3. InBounds(DeductBalance(seen[r], job[r].amount))
    <3>1. job[r].amount <= seen[r]["available"]
      BY <1>3 DEF DebitWrite, ReadEnough
    <3>2. InBounds(seen[r]) /\ seen[r] \in Row
      BY DEF VersionsInRange, TypeOK
    <3> QED
      BY <2>1, <3>1, <3>2, WalletAssumption DEF InBounds, DeductBalance, Row, Buckets
  <2>a. \/ dirty' = dirty
        \/ dirty' = [dirty EXCEPT ![r][w] = DeductBalance(seen[r], job[r].amount)]
    BY <1>3 DEF DebitWrite
  <2>b. book' = book \/ book' = [book EXCEPT ![r][w] = @ - Recorded(job[r].amount)]
    BY <1>3 DEF DebitWrite
  <2>c. notes' = notes \/ notes' = [notes EXCEPT ![r] = @ \cup {<<r, "wallet_deduction">>}]
    BY <1>3 DEF DebitWrite, AddNote
  <2> HIDE DEF w
  <2>4. TypeOK'
    <3>1. suspect' \subseteq Wallets
      BY <1>3, <2>1 DEF DebitWrite, Mismatch, TypeOK, w
    <3>2. dirty' \in [Requests -> [Wallets -> Row \cup {NoRow}]]
      BY <2>1, <2>2, <2>3, <2>a, WriteFacts
    <3>3. book' \in [Requests -> [Wallets -> Int]]
      BY <2>1, <2>b DEF TypeOK
    <3>4. notes' \in [Requests -> SUBSET (Requests \X RowTypes)]
      <4>1. <<r, "wallet_deduction">> \in Requests \X RowTypes
        BY DEF RowTypes
      <4>2. CASE notes' = notes
        BY <4>2 DEF TypeOK
      <4>3. CASE notes' = [notes EXCEPT ![r] = @ \cup {<<r, "wallet_deduction">>}]
        BY <4>1, <4>3 DEF TypeOK
      <4> QED
        BY <2>c, <4>2, <4>3
    <3>5. pc' \in [Requests -> {"idle"} \cup Stages \cup Final]
      BY <1>3 DEF DebitWrite, TypeOK, Stages
    <3> QED
      BY <1>3, <3>1, <3>2, <3>3, <3>4, <3>5 DEF DebitWrite, TypeOK
  <2>5. VersionsInRange'
    <3>1. \A q \in Requests, v \in Wallets : dirty'[q][v] # NoRow => InBounds(dirty'[q][v])
      BY <2>1, <2>2, <2>3, <2>a, WriteFacts
    <3> QED
      BY <1>3, <3>1 DEF DebitWrite, VersionsInRange, InRange
  <2>6. JobsKnown' /\ ReadEnough'
    BY <1>3, <2>1 DEF DebitWrite, JobsKnown, ReadEnough, TypeOK
  <2> QED
    BY <2>4, <2>5, <2>6
<1>4. ASSUME NEW r \in Requests, CreditRead(r) PROVE RangeInv'
  <2>1. pc[r] \in Stages
    BY <1>4 DEF CreditRead, Stages
  <2>2. ReadRow(r, CreditWallet(r)) /\ CreditWallet(r) \in Wallets
    BY <1>4, <2>1, JobFacts DEF CreditRead
  <2>3. TypeOK'
    BY <1>4, <2>2, ReadFacts DEF CreditRead, TypeOK, Stages
  <2>4. VersionsInRange'
    BY <1>4, <2>2, ReadFacts DEF CreditRead, VersionsInRange, InRange
  <2>5. \A q \in Requests \ {r} : seen'[q] = seen[q]
    BY <2>2 DEF ReadRow, TypeOK
  <2>6. JobsKnown' /\ ReadEnough'
    BY <1>4, <2>1, <2>5 DEF CreditRead, TypeOK, JobsKnown, ReadEnough
  <2> QED
    BY <2>3, <2>4, <2>6
<1>5. ASSUME NEW r \in Requests, CreditWrite(r) PROVE RangeInv'
  <2> DEFINE w == CreditWallet(r)
             row == AddBalance(seen[r], job[r].bucket, CreditAmount(r))
  <2>1. /\ pc[r] \in Stages /\ w \in Wallets
        /\ job[r].bucket \in Buckets \cup {"unknown"}
        /\ CreditAmount(r) \in Nat /\ Recorded(CreditAmount(r)) \in Nat
    BY <1>5, JobFacts DEF CreditWrite, Stages
  <2>2. row \in Row
    BY <2>1, AddFacts DEF TypeOK
  <2>3. InBounds(row)
    <3>1. InBounds(seen[r]) /\ seen[r] \in Row
      BY DEF VersionsInRange, TypeOK
    <3>2. \A b \in Buckets : row[b] >= seen[r][b]
      BY <2>1, <3>1 DEF AddBalance, Row
    <3>3. \A b \in Buckets : ~(row[b] > MaxBalance)
      BY <1>5 DEF CreditWrite, Overflows
    <3> HIDE DEF row
    <3> QED
      BY <2>2, <3>1, <3>2, <3>3, WalletAssumption DEF InBounds, Row
  <2>4. dirty' = [dirty EXCEPT ![r][w] = row]
    BY <1>5 DEF CreditWrite
  <2> HIDE DEF row
  <2>5. TypeOK'
    <3>1. suspect' \subseteq Wallets
      BY <1>5, <2>1 DEF CreditWrite, Mismatch, TypeOK
    <3>2. dirty' \in [Requests -> [Wallets -> Row \cup {NoRow}]]
      BY <2>1, <2>2, <2>4 DEF TypeOK
    <3>3. book' \in [Requests -> [Wallets -> Int]]
      BY <1>5, <2>1 DEF CreditWrite, TypeOK
    <3>4. notes' \in [Requests -> SUBSET (Requests \X RowTypes)]
      BY <1>5 DEF CreditWrite, AddNote, TypeOK, RowTypes
    <3>5. pc' \in [Requests -> {"idle"} \cup Stages \cup Final]
      BY <1>5 DEF CreditWrite, AfterCredit, TypeOK, Stages
    <3>6. answer' \in [Requests -> BOOLEAN]
      BY <1>5 DEF CreditWrite, AfterCredit, TypeOK
    <3> QED
      BY <1>5, <3>1, <3>2, <3>3, <3>4, <3>5, <3>6 DEF CreditWrite, TypeOK
  <2>6. VersionsInRange'
    BY <1>5, <2>1, <2>3, <2>4 DEF CreditWrite, VersionsInRange, InRange, TypeOK
  <2>7. JobsKnown' /\ ReadEnough'
    BY <1>5, <2>1 DEF CreditWrite, AfterCredit, JobsKnown, ReadEnough, TypeOK
  <2> QED
    BY <2>5, <2>6, <2>7
<1>6. ASSUME NEW r \in Requests, CreditFail(r) PROVE RangeInv'
  <2>1. pc[r] \in Stages
    BY <1>6 DEF CreditFail, Stages, InWaitCycle, WaitsFor, Wanted
  <2>2. CreditWallet(r) \in Wallets
    BY <2>1, JobFacts
  <2>3. dirty' = dirty \/ dirty' = [dirty EXCEPT ![r][CreditWallet(r)] = NoRow]
    BY <1>6 DEF CreditFail, UndoInsert
  <2>4. TypeOK'
    <3>1. dirty' \in [Requests -> [Wallets -> Row \cup {NoRow}]]
      <4>1. CASE dirty' = dirty
        BY <4>1 DEF TypeOK
      <4>2. CASE dirty' = [dirty EXCEPT ![r][CreditWallet(r)] = NoRow]
        BY <2>2, <4>2 DEF TypeOK
      <4> QED
        BY <2>3, <4>1, <4>2
    <3>2. pc' \in [Requests -> {"idle"} \cup Stages \cup Final]
      BY <1>6 DEF CreditFail, AfterCredit, TypeOK, Stages
    <3>3. answer' \in [Requests -> BOOLEAN]
      BY <1>6 DEF CreditFail, AfterCredit, TypeOK
    <3> QED
      BY <1>6, <3>1, <3>2, <3>3 DEF CreditFail, TypeOK
  <2>5. VersionsInRange'
    BY <1>6, <2>2, <2>3 DEF CreditFail, VersionsInRange, InRange, TypeOK
  <2>6. JobsKnown' /\ ReadEnough'
    BY <1>6, <2>1 DEF CreditFail, AfterCredit, JobsKnown, ReadEnough, TypeOK
  <2> QED
    BY <2>4, <2>5, <2>6
<1>7. ASSUME NEW r \in Requests, Records(r) PROVE RangeInv'
  <2>1. pc[r] \in Stages
    BY <1>7 DEF Records, Stages
  <2>2. dirty' = dirty \/ dirty' = [dirty EXCEPT ![r] = NothingDirty]
    BY <1>7 DEF Records, Discard
  <2>a. book' = book \/ book' = [book EXCEPT ![r] = NothingBooked]
    BY <1>7 DEF Records, Discard
  <2>b. notes' \in [Requests -> SUBSET (Requests \X RowTypes)]
    <3>1. CASE notes' = [notes EXCEPT ![r] = @ \cup {<<r, type>> : type \in ServiceRows(job[r].kind)}]
      <4>1. {<<r, type>> : type \in ServiceRows(job[r].kind)} \in SUBSET (Requests \X RowTypes)
        BY DEF ServiceRows, RowTypes
      <4> QED
        BY <3>1, <4>1 DEF TypeOK
    <3>2. CASE notes' = [notes EXCEPT ![r] = {}]
      BY <3>2 DEF TypeOK
    <3> QED
      BY <1>7, <3>1, <3>2 DEF Records, Discard
  <2>3. TypeOK'
    <3>1. dirty' \in [Requests -> [Wallets -> Row \cup {NoRow}]]
      BY <2>2 DEF TypeOK, NothingDirty
    <3>2. book' \in [Requests -> [Wallets -> Int]]
      BY <2>a DEF TypeOK, NothingBooked
    <3>4. pc' \in [Requests -> {"idle"} \cup Stages \cup Final]
      BY <1>7 DEF Records, TypeOK, Stages, Final
    <3>5. answer' \in [Requests -> BOOLEAN]
      BY <1>7 DEF Records, TypeOK
    <3> QED
      BY <1>7, <2>b, <3>1, <3>2, <3>4, <3>5 DEF Records, TypeOK
  <2>4. VersionsInRange'
    <3>1. \A q \in Requests, v \in Wallets : dirty'[q][v] # NoRow => InBounds(dirty'[q][v])
      <4>1. DebitWallet(r) \in Wallets
        BY <2>1, JobFacts
      <4> QED
        BY <2>2, <4>1, WriteFacts
    <3> QED
      BY <1>7, <3>1 DEF Records, VersionsInRange, InRange
  <2>5. JobsKnown' /\ ReadEnough'
    BY <1>7, <2>1 DEF Records, JobsKnown, ReadEnough, TypeOK, Stages
  <2> QED
    BY <2>3, <2>4, <2>5
<1>8. ASSUME NEW r \in Requests, Commit(r) PROVE RangeInv'
  <2>1. \A w \in Wallets : Visible(r, w) \in Row \cup {NoRow}
    BY DEF Visible, TypeOK
  <2>2. \A w \in Wallets : Visible(r, w) # NoRow => InBounds(Visible(r, w))
    BY DEF Visible, VersionsInRange, InRange, InBounds
  <2>3. TypeOK'
    BY <1>8, <2>1 DEF Commit, Discard, TypeOK, NothingDirty, NothingBooked, Final
  <2>4. VersionsInRange'
    <3>1. InRange'
      BY <1>8, <2>2 DEF Commit, InRange, InBounds
    <3>2. \A q \in Requests, w \in Wallets : dirty'[q][w] # NoRow => InBounds(dirty'[q][w])
      BY <1>8 DEF Commit, Discard, VersionsInRange, TypeOK, NothingDirty
    <3> QED
      BY <1>8, <3>1, <3>2 DEF Commit, VersionsInRange
  <2>5. JobsKnown' /\ ReadEnough'
    BY <1>8 DEF Commit, JobsKnown, ReadEnough, TypeOK, Stages
  <2> QED
    BY <2>3, <2>4, <2>5
<1>9. ASSUME NEW r \in Requests, Crash(r) PROVE RangeInv'
  <2>1. TypeOK'
    BY <1>9 DEF Crash, Discard, TypeOK, NothingDirty, NothingBooked, Final
  <2>2. VersionsInRange'
    BY <1>9 DEF Crash, Discard, VersionsInRange, InRange, TypeOK, NothingDirty
  <2>3. JobsKnown' /\ ReadEnough'
    BY <1>9 DEF Crash, JobsKnown, ReadEnough, TypeOK, Stages
  <2> QED
    BY <2>1, <2>2, <2>3
<1>10. ASSUME UNCHANGED vars PROVE RangeInv'
  BY <1>10 DEF vars, TypeOK, JobsKnown, VersionsInRange, InRange, InBounds, ReadEnough
<1> QED
  BY <1>1, <1>2, <1>3, <1>4, <1>5, <1>6, <1>7, <1>8, <1>9, <1>10 DEF Next, Step, Finished

\* The wallet service never leaves its data types.
THEOREM TypeCorrect == Spec => []TypeOK
<1>1. RangeInv => TypeOK
  BY DEF RangeInv
<1> QED
  BY <1>1, RangeInit, RangeStep, PTL DEF Spec

\* No stored balance is ever negative or wider than its column, however many
\* workers write the same row from outdated reads.
THEOREM BalancesInRange == Spec => []InRange
<1>1. RangeInv => InRange
  BY DEF RangeInv, VersionsInRange
<1> QED
  BY <1>1, RangeInit, RangeStep, PTL DEF Spec

-----------------------------------------------------------------------------
(* The books. *)

\* The books match at the start.
LEMMA BooksInit == Init => BooksInv
<1> SUFFICES ASSUME Init PROVE BooksInv
  OBVIOUS
<1>1. LocksExclusive /\ BookedInFlight /\ FreshUntouched
  BY DEF Init, LocksExclusive, BookedInFlight, FreshUntouched, NothingDirty, NothingBooked
<1>2. \A w \in Wallets : Opening[w] \in Row \cup {NoRow}
  BY WalletAssumption DEF Row
<1>3. BooksUnlessSuspect
  BY <1>2, RowFacts DEF Init, BooksUnlessSuspect, NothingBooked
<1> QED
  BY <1>1, <1>3 DEF BooksInv

\* Reading a row takes a lock only on a row nobody has, and books nothing.
LEMMA ReadBooks ==
    ASSUME TypeOK, BooksInv, NEW r \in Requests, NEW w \in Wallets, ReadRow(r, w),
           UNCHANGED <<table, book, suspect>>
    PROVE  /\ LocksExclusive' /\ BookedInFlight'
           /\ fresh'[r] => book'[r][w] = 0
           /\ \A q \in Requests \ {r} : fresh'[q] = fresh[q]
<1>1. CASE Visible(r, w) = NoRow
  <2>1. /\ LockFree(r, w) /\ dirty' = [dirty EXCEPT ![r][w] = EmptyRow]
        /\ fresh' = [fresh EXCEPT ![r] = TRUE]
    BY <1>1 DEF ReadRow
  <2>2. dirty[r][w] = NoRow /\ table[w] = NoRow
    BY <1>1 DEF Visible
  <2>3. book[r][w] = 0
    BY <2>2 DEF BooksInv, BookedInFlight
  <2>4. LocksExclusive'
    BY <2>1 DEF LockFree, BooksInv, LocksExclusive, TypeOK
  <2>5. BookedInFlight'
    BY <2>1, <2>2, <2>3, RowFacts DEF BooksInv, BookedInFlight, TypeOK
  <2> QED
    BY <2>1, <2>3, <2>4, <2>5 DEF TypeOK
<1>2. CASE Visible(r, w) # NoRow
  <2>1. dirty' = dirty /\ fresh' = [fresh EXCEPT ![r] = FALSE]
    BY <1>2 DEF ReadRow
  <2> QED
    BY <2>1 DEF BooksInv, LocksExclusive, BookedInFlight, TypeOK
<1> QED
  BY <1>1, <1>2

\* Saving a row that was current when it was computed, and booking the change.
LEMMA WriteBooks ==
    ASSUME TypeOK, BooksInv, NEW r \in Requests, NEW w \in Wallets, LockFree(r, w),
           NEW row \in Row, NEW gain \in Int, NEW kept \in Int, table' = table,
           dirty' = [dirty EXCEPT ![r][w] = row],
           book' = [book EXCEPT ![r][w] = @ + kept],
           suspect \subseteq suspect',
           w \notin suspect' => /\ seen[r] = Visible(r, w) /\ gain = kept
                               /\ Total(row) = Total(seen[r]) + gain
    PROVE  LocksExclusive' /\ BookedInFlight'
<1>1. LocksExclusive'
  BY DEF LockFree, BooksInv, LocksExclusive, TypeOK
<1>2. row # NoRow
  BY RowFacts
<1>3. ASSUME w \notin suspect' PROVE Total(row) = Total(table[w]) + book'[r][w]
  <2>1. Total(row) = Total(Visible(r, w)) + kept /\ Visible(r, w) \in Row
    <3>1. seen[r] = Visible(r, w) /\ gain = kept /\ Total(row) = Total(seen[r]) + gain
      BY <1>3
    <3>2. seen[r] \in Row
      BY DEF TypeOK
    <3> QED
      BY <3>1, <3>2
  <2>2. book'[r][w] = book[r][w] + kept /\ book[r][w] \in Int
    BY DEF TypeOK
  <2>3. Total(Visible(r, w)) = Total(table[w]) + book[r][w] /\ Total(table[w]) \in Int
    <3>1. w \notin suspect
      BY <1>3
    <3>2. table[w] \in Row \cup {NoRow} /\ Total(table[w]) \in Int
      BY RowFacts DEF TypeOK
    <3>3. CASE dirty[r][w] = NoRow
      BY <3>2, <3>3 DEF Visible, BooksInv, BookedInFlight
    <3>4. CASE dirty[r][w] # NoRow
      BY <3>1, <3>2, <3>4 DEF Visible, BooksInv, BookedInFlight
    <3> QED
      BY <3>2, <3>3, <3>4
  <2> QED
    BY <2>1, <2>2, <2>3
<1>4. ASSUME NEW q \in Requests, NEW v \in Wallets
      PROVE  /\ dirty'[q][v] = NoRow => book'[q][v] = 0
             /\ v \notin suspect' /\ dirty'[q][v] # NoRow
                   => Total(dirty'[q][v]) = Total(table'[v]) + book'[q][v]
  <2>1. CASE q = r /\ v = w
    BY <1>2, <1>3, <2>1 DEF TypeOK
  <2>2. CASE ~(q = r /\ v = w)
    <3>1. dirty'[q][v] = dirty[q][v] /\ book'[q][v] = book[q][v]
      BY <2>2 DEF TypeOK
    <3> QED
      BY <3>1 DEF BooksInv, BookedInFlight
  <2> QED
    BY <2>1, <2>2
<1> QED
  BY <1>1, <1>4 DEF BookedInFlight

\* Giving up everything r holds disturbs no other request's books.
LEMMA DiscardBooks ==
    ASSUME TypeOK, BooksInv, NEW r \in Requests, Discard(r), UNCHANGED <<table, suspect>>
    PROVE  /\ LocksExclusive' /\ BookedInFlight'
           /\ \A q \in Requests \ {r} : book'[q] = book[q]
<1>1. /\ \A q \in Requests \ {r} : dirty'[q] = dirty[q] /\ book'[q] = book[q]
      /\ \A w \in Wallets : dirty'[r][w] = NoRow /\ book'[r][w] = 0
  BY DEF Discard, TypeOK, NothingDirty, NothingBooked
<1> QED
  BY <1>1 DEF BooksInv, LocksExclusive, BookedInFlight

\* Every step keeps the books of the wallets no hazard touched.
LEMMA BooksStep == RangeInv /\ BooksInv /\ [Next]_vars => BooksInv'
<1> SUFFICES ASSUME RangeInv, BooksInv, [Next]_vars PROVE BooksInv'
  OBVIOUS
<1> USE DEF RangeInv
<1>1. ASSUME NEW r \in Requests, NEW op \in Ops, Submit(r, op) PROVE BooksInv'
  <2>1. LocksExclusive' /\ BookedInFlight' /\ BooksUnlessSuspect'
    BY <1>1 DEF Submit, BooksInv, LocksExclusive, BookedInFlight, BooksUnlessSuspect
  <2>2. /\ pc'[r] # "credit_write"
        /\ \A q \in Requests \ {r} : pc'[q] = pc[q] /\ job'[q] = job[q]
    BY <1>1 DEF Submit, TypeOK
  <2>3. FreshUntouched'
    BY <1>1, <2>2 DEF Submit, BooksInv, FreshUntouched, CreditWallet
  <2> QED
    BY <2>1, <2>3 DEF BooksInv
<1>2. ASSUME NEW r \in Requests, DebitRead(r) PROVE BooksInv'
  <2>1. ReadRow(r, DebitWallet(r)) /\ DebitWallet(r) \in Wallets
    BY <1>2, JobFacts DEF DebitRead, Stages
  <2>2. /\ LocksExclusive' /\ BookedInFlight'
        /\ \A q \in Requests \ {r} : fresh'[q] = fresh[q]
    BY <1>2, <2>1, ReadBooks DEF DebitRead
  <2>3. BooksUnlessSuspect'
    BY <1>2 DEF DebitRead, BooksInv, BooksUnlessSuspect
  <2>4. /\ pc'[r] # "credit_write"
        /\ \A q \in Requests \ {r} : pc'[q] = pc[q]
    BY <1>2 DEF DebitRead, TypeOK
  <2>5. FreshUntouched'
    BY <1>2, <2>2, <2>4 DEF DebitRead, BooksInv, FreshUntouched, CreditWallet
  <2> QED
    BY <2>2, <2>3, <2>5 DEF BooksInv
<1>3. ASSUME NEW r \in Requests, DebitWrite(r) PROVE BooksInv'
  <2> DEFINE w == DebitWallet(r)
             a == job[r].amount
  <2>1. w \in Wallets /\ a \in Nat /\ Recorded(a) \in Nat
    BY <1>3, JobFacts DEF DebitWrite, Stages
  <2>2. LocksExclusive' /\ BookedInFlight'
    <3>1. CASE /\ dirty' = [dirty EXCEPT ![r][w] = DeductBalance(seen[r], a)]
               /\ suspect' = suspect \cup Mismatch(r, w, a, "available")
               /\ book' = [book EXCEPT ![r][w] = @ - Recorded(a)]
      <4>1. /\ DeductBalance(seen[r], a) \in Row
            /\ Total(DeductBalance(seen[r], a)) = Total(seen[r]) - a
            /\ Total(seen[r]) \in Int
        <5>1. seen[r] \in Row /\ a \in Int
          BY <2>1 DEF TypeOK
        <5> HIDE DEF a
        <5> QED
          BY <5>1, DeductFacts, RowFacts
      <4>2. w \notin suspect' => seen[r] = Visible(r, w) /\ Recorded(a) = a
        BY <3>1 DEF Mismatch
      <4>3. book' = [book EXCEPT ![r][w] = @ + (-Recorded(a))]
        BY <2>1, <3>1 DEF TypeOK
      <4>4. LockFree(r, w) /\ table' = table
        BY <1>3 DEF DebitWrite
      <4>5. Total(DeductBalance(seen[r], a)) = Total(seen[r]) + (-a)
        BY <2>1, <4>1
      <4>6. -a \in Int /\ -Recorded(a) \in Int /\ suspect \subseteq suspect'
        BY <2>1, <3>1
      <4>7. w \notin suspect' => -a = -Recorded(a)
        BY <4>2
      <4> HIDE DEF a, w
      <4> QED
        BY <2>1, <3>1, <4>1, <4>2, <4>3, <4>4, <4>5, <4>6, <4>7, WriteBooks
    <3>2. CASE UNCHANGED <<dirty, suspect, book>>
      BY <1>3, <3>2 DEF DebitWrite, BooksInv, LocksExclusive, BookedInFlight
    <3> QED
      BY <1>3, <3>1, <3>2 DEF DebitWrite
  <2>3. BooksUnlessSuspect'
    BY <1>3 DEF DebitWrite, BooksInv, BooksUnlessSuspect
  <2>4. /\ pc'[r] # "credit_write"
        /\ \A q \in Requests \ {r} : pc'[q] = pc[q] /\ book'[q] = book[q]
    BY <1>3 DEF DebitWrite, TypeOK
  <2>5. FreshUntouched'
    BY <1>3, <2>4 DEF DebitWrite, BooksInv, FreshUntouched, CreditWallet
  <2> QED
    BY <2>2, <2>3, <2>5 DEF BooksInv
<1>4. ASSUME NEW r \in Requests, CreditRead(r) PROVE BooksInv'
  <2>1. ReadRow(r, CreditWallet(r)) /\ CreditWallet(r) \in Wallets
    BY <1>4, JobFacts DEF CreditRead, Stages
  <2>2. /\ LocksExclusive' /\ BookedInFlight'
        /\ fresh'[r] => book'[r][CreditWallet(r)] = 0
        /\ \A q \in Requests \ {r} : fresh'[q] = fresh[q]
    BY <1>4, <2>1, ReadBooks DEF CreditRead
  <2>3. BooksUnlessSuspect'
    BY <1>4 DEF CreditRead, BooksInv, BooksUnlessSuspect
  <2>4. FreshUntouched'
    BY <1>4, <2>2 DEF CreditRead, BooksInv, FreshUntouched, CreditWallet, TypeOK
  <2> QED
    BY <2>2, <2>3, <2>4 DEF BooksInv
<1>5. ASSUME NEW r \in Requests, CreditWrite(r) PROVE BooksInv'
  <2> DEFINE w == CreditWallet(r)
             a == CreditAmount(r)
             row == AddBalance(seen[r], job[r].bucket, a)
  <2>1. /\ w \in Wallets /\ a \in Nat /\ Recorded(a) \in Nat
        /\ job[r].bucket \in Buckets \cup {"unknown"}
    BY <1>5, JobFacts DEF CreditWrite, Stages
  <2>2. /\ row \in Row
        /\ job[r].bucket \in Buckets => Total(row) = Total(seen[r]) + a
    BY <2>1, AddFacts DEF TypeOK
  <2>3. /\ dirty' = [dirty EXCEPT ![r][w] = row]
        /\ suspect' = suspect \cup Mismatch(r, w, a, job[r].bucket)
        /\ book' = [book EXCEPT ![r][w] = @ + Recorded(a)]
        /\ LockFree(r, w) /\ table' = table
    BY <1>5 DEF CreditWrite
  <2>4. w \notin suspect' => /\ seen[r] = Visible(r, w) /\ Recorded(a) = a
                            /\ job[r].bucket \in Buckets
    BY <2>3 DEF Mismatch
  <2> HIDE DEF w, a, row
  <2>5. LocksExclusive' /\ BookedInFlight'
    <3>1. suspect \subseteq suspect' /\ a \in Int /\ Recorded(a) \in Int
      BY <2>1, <2>3
    <3>2. w \notin suspect' => /\ seen[r] = Visible(r, w) /\ a = Recorded(a)
                               /\ Total(row) = Total(seen[r]) + a
      BY <2>2, <2>4
    <3> QED
      BY <2>1, <2>2, <2>3, <3>1, <3>2, WriteBooks
  <2>6. BooksUnlessSuspect'
    BY <1>5 DEF CreditWrite, BooksInv, BooksUnlessSuspect
  <2>7. /\ pc'[r] # "credit_write"
        /\ \A q \in Requests \ {r} : pc'[q] = pc[q] /\ book'[q] = book[q]
    BY <1>5 DEF CreditWrite, AfterCredit, TypeOK
  <2>8. FreshUntouched'
    BY <1>5, <2>7 DEF CreditWrite, BooksInv, FreshUntouched, CreditWallet
  <2> QED
    BY <2>5, <2>6, <2>8 DEF BooksInv
<1>6. ASSUME NEW r \in Requests, CreditFail(r) PROVE BooksInv'
  <2>1. CreditWallet(r) \in Wallets
    BY <1>6, JobFacts DEF CreditFail, Stages
  <2>2. CASE dirty' = dirty
    BY <1>6, <2>2 DEF CreditFail, AfterCredit, BooksInv, LocksExclusive, BookedInFlight,
          FreshUntouched, BooksUnlessSuspect, CreditWallet, TypeOK
  <2>3. CASE /\ pc[r] = "credit_write" /\ fresh[r]
             /\ dirty' = [dirty EXCEPT ![r][CreditWallet(r)] = NoRow]
    <3>1. book[r][CreditWallet(r)] = 0
      BY <2>3 DEF BooksInv, FreshUntouched
    <3>2. LocksExclusive'
      BY <2>1, <2>3 DEF BooksInv, LocksExclusive, TypeOK
    <3>3. BookedInFlight'
      BY <1>6, <2>1, <2>3, <3>1 DEF CreditFail, BooksInv, BookedInFlight, TypeOK
    <3>4. FreshUntouched' /\ BooksUnlessSuspect'
      BY <1>6 DEF CreditFail, AfterCredit, BooksInv, FreshUntouched, BooksUnlessSuspect,
            CreditWallet, TypeOK
    <3> QED
      BY <3>2, <3>3, <3>4 DEF BooksInv
  <2> QED
    BY <1>6, <2>2, <2>3 DEF CreditFail, UndoInsert
<1>7. ASSUME NEW r \in Requests, Records(r) PROVE BooksInv'
  <2>1. LocksExclusive' /\ BookedInFlight' /\ \A q \in Requests \ {r} : book'[q] = book[q]
    <3>1. CASE Discard(r)
      BY <1>7, <3>1, DiscardBooks DEF Records
    <3>2. CASE UNCHANGED <<dirty, book>>
      BY <1>7, <3>2 DEF Records, BooksInv, LocksExclusive, BookedInFlight
    <3> QED
      BY <1>7, <3>1, <3>2 DEF Records
  <2>2. FreshUntouched' /\ BooksUnlessSuspect'
    BY <1>7, <2>1 DEF Records, BooksInv, FreshUntouched, BooksUnlessSuspect, CreditWallet, TypeOK
  <2> QED
    BY <2>1, <2>2 DEF BooksInv
<1>8. ASSUME NEW r \in Requests, Commit(r) PROVE BooksInv'
  <2>1. /\ \A q \in Requests \ {r} : dirty'[q] = dirty[q] /\ book'[q] = book[q]
        /\ \A w \in Wallets : dirty'[r][w] = NoRow /\ book'[r][w] = 0
    BY <1>8 DEF Commit, Discard, TypeOK, NothingDirty, NothingBooked
  <2>2. LocksExclusive'
    BY <2>1 DEF BooksInv, LocksExclusive
  <2>3. \A w \in Wallets : table'[w] = Visible(r, w) /\ suspect' = suspect
    BY <1>8 DEF Commit
  <2>4. BookedInFlight'
    <3>1. ASSUME NEW q \in Requests \ {r}, NEW w \in Wallets, dirty[q][w] # NoRow
          PROVE  table'[w] = table[w]
      BY <2>3, <3>1 DEF Visible, BooksInv, LocksExclusive
    <3> QED
      BY <2>1, <2>3, <3>1 DEF BooksInv, BookedInFlight
  <2>5. BooksUnlessSuspect'
    <3> SUFFICES ASSUME NEW w \in Wallets \ suspect
                 PROVE  Total(table'[w]) = Total(Opening[w]) + booked'[w]
      BY <2>3 DEF BooksUnlessSuspect
    <3>1. /\ booked'[w] = booked[w] + book[r][w]
          /\ booked[w] \in Int /\ book[r][w] \in Int
      BY <1>8 DEF Commit, TypeOK
    <3>2. Total(table[w]) = Total(Opening[w]) + booked[w] /\ Total(Opening[w]) \in Int
      <4>1. Opening[w] \in Row \cup {NoRow}
        BY WalletAssumption DEF Row
      <4> QED
        BY <4>1, RowFacts DEF BooksInv, BooksUnlessSuspect
    <3>3. Total(table'[w]) = Total(table[w]) + book[r][w]
      <4>1. CASE dirty[r][w] = NoRow
        <5>1. table'[w] = table[w] /\ book[r][w] = 0
          BY <2>3, <4>1 DEF Visible, BooksInv, BookedInFlight
        <5> QED
          BY <3>1, <3>2, <5>1
      <4>2. CASE dirty[r][w] # NoRow
        BY <2>3, <4>2 DEF Visible, BooksInv, BookedInFlight
      <4> QED
        BY <4>1, <4>2
    <3> QED
      BY <3>1, <3>2, <3>3
  <2>6. FreshUntouched'
    BY <1>8, <2>1 DEF Commit, BooksInv, FreshUntouched, CreditWallet, TypeOK
  <2> QED
    BY <2>2, <2>4, <2>5, <2>6 DEF BooksInv
<1>9. ASSUME NEW r \in Requests, Crash(r) PROVE BooksInv'
  <2>1. LocksExclusive' /\ BookedInFlight' /\ \A q \in Requests \ {r} : book'[q] = book[q]
    BY <1>9, DiscardBooks DEF Crash
  <2>2. FreshUntouched' /\ BooksUnlessSuspect'
    BY <1>9, <2>1 DEF Crash, BooksInv, FreshUntouched, BooksUnlessSuspect, CreditWallet, TypeOK
  <2> QED
    BY <2>1, <2>2 DEF BooksInv
<1>10. ASSUME UNCHANGED vars PROVE BooksInv'
  BY <1>10 DEF vars, BooksInv, LocksExclusive, BookedInFlight, FreshUntouched,
        BooksUnlessSuspect, CreditWallet
<1> QED
  BY <1>1, <1>2, <1>3, <1>4, <1>5, <1>6, <1>7, <1>8, <1>9, <1>10 DEF Next, Step, Finished

\* The records account for every balance that no outdated write, unknown bucket
\* or sub-cent amount touched, for any number of concurrent workers.
THEOREM BooksKept == Spec => []BooksUnlessSuspect
<1>1. Init => RangeInv /\ BooksInv
  BY RangeInit, BooksInit
<1>2. (RangeInv /\ BooksInv) /\ [Next]_vars => (RangeInv /\ BooksInv)'
  BY RangeStep, BooksStep
<1>3. RangeInv /\ BooksInv => BooksUnlessSuspect
  BY DEF BooksInv
<1> QED
  BY <1>1, <1>2, <1>3, PTL DEF Spec

-----------------------------------------------------------------------------
(* What a transaction holds until it commits, and what the ledger has of it after. *)

\* What the transaction of r holds: whether its debit, its credit and the rows of the
\* service itself are in it.
Types(op, debited, credited, recorded) ==
    (IF debited THEN {"wallet_deduction"} ELSE {})
        \cup (IF credited THEN {"wallet_topup"} ELSE {})
        \cup (IF recorded THEN ServiceRows(op.kind) ELSE {})

Amount(op, w, debited, credited) ==
    (IF credited THEN Promise!Credit(op, w) ELSE 0) - (IF debited THEN Promise!Debit(op, w) ELSE 0)

Holds(r, debited, credited, recorded) ==
    /\ notes[r] = {<<r, type>> : type \in Types(job[r], debited, credited, recorded)}
    /\ \A w \in Wallets : book[r][w] = Amount(job[r], w, debited, credited)

HoldsNothing(r) == notes[r] = {} /\ \A w \in Wallets : book[r][w] = 0

\* How far a request is, and what its transaction holds there.
Progress(r) ==
    /\ pc[r] \in {"idle"} \cup Final => HoldsNothing(r)
    /\ pc[r] = "idle" => ~answer[r]
    /\ pc[r] \in {"debit_read", "debit_write"} =>
          job[r].kind \in Paying /\ ~answer[r] /\ HoldsNothing(r)
    /\ pc[r] \in {"credit_read", "credit_write"} =>
          /\ job[r].kind \in {"topup", "exchange", "p2p"} /\ ~answer[r]
          /\ Holds(r, job[r].kind \in Paying, FALSE, FALSE)
    /\ pc[r] = "records" =>
          /\ job[r].kind \in {"p2p", "bill", "airtime"}
          /\ \E credited \in Promise!MayCredit(job[r]) : Holds(r, TRUE, credited, FALSE)
    /\ pc[r] = "commit" =>
          IF answer[r]
          THEN \E credited \in Promise!MayCredit(job[r]) :
                  Holds(r, job[r].kind \in Paying, credited, TRUE)
          ELSE HoldsNothing(r)

\* Only accepted requests have rows, and those are the rows of their settled order.
Ledgered(r) ==
    /\ pc[r] # "accepted" => \A type \in RowTypes : <<r, type>> \notin ledger
    /\ pc[r] = "accepted" =>
          /\ job[r] \in Ops
          /\ \E credited \in Promise!MayCredit(job[r]) : \A type \in RowTypes :
                <<r, type>> \in ledger <=> type \in Promise!Entries(job[r], credited)

LedgerInv == \A r \in Requests : Progress(r) /\ Ledgered(r)

\* The promise is about the same money.
LEMMA SameMoney ==
    /\ \A a : Promise!Recorded(a) = Recorded(a)
    /\ \A op : Promise!CreditOf(op) = CreditOf(op)
    /\ \A op : Promise!PayerWallet(op) = PayerWallet(op) /\ Promise!PayeeWallet(op) = PayeeWallet(op)
    /\ \A kind : Promise!ServiceRows(kind) = ServiceRows(kind)
    /\ Promise!Paying = Paying /\ Promise!Wallets = Wallets
BY DEF Promise!Recorded, Recorded, Promise!CreditOf, CreditOf, Promise!Convert, Convert,
       Promise!PayerWallet, PayerWallet, Promise!PayeeWallet, PayeeWallet,
       Promise!ServiceRows, ServiceRows, Promise!Paying, Paying, Promise!Kinds, Kinds,
       Promise!Wallets, Wallets

\* What an operation debits and credits.
LEMMA PromiseFacts ==
    ASSUME NEW op \in Ops
    PROVE  /\ op.kind \in Kinds /\ CreditOf(op) \in Nat /\ op.amount \in Nat
           /\ \A w : Promise!Debit(op, w) =
                IF op.kind \in Paying /\ w = PayerWallet(op) THEN Recorded(op.amount) ELSE 0
           /\ \A w : Promise!Credit(op, w) = IF w = PayeeWallet(op) THEN Recorded(CreditOf(op)) ELSE 0
           /\ \A w : Promise!Debit(op, w) \in Nat /\ Promise!Credit(op, w) \in Nat
           /\ op.kind = "topup" => Promise!MayCredit(op) = {TRUE}
           /\ op.kind \in {"exchange", "p2p"} => Promise!MayCredit(op) = BOOLEAN
           /\ op.kind \in {"bill", "airtime"} => Promise!MayCredit(op) = {FALSE}
<1>1. op.kind \in Kinds /\ CreditOf(op) \in Nat /\ op.amount \in Nat
  BY OpFields
<1>2. Recorded(op.amount) \in Nat /\ Recorded(CreditOf(op)) \in Nat
  BY <1>1, RecordedNat
<1>3. /\ \A w : Promise!Debit(op, w) =
            IF op.kind \in Paying /\ w = PayerWallet(op) THEN Recorded(op.amount) ELSE 0
      /\ \A w : Promise!Credit(op, w) = IF w = PayeeWallet(op) THEN Recorded(CreditOf(op)) ELSE 0
  BY SameMoney DEF Promise!Debit, Promise!Credit
<1>4. /\ op.kind = "topup" => Promise!MayCredit(op) = {TRUE}
      /\ op.kind \in {"exchange", "p2p"} => Promise!MayCredit(op) = BOOLEAN
      /\ op.kind \in {"bill", "airtime"} => Promise!MayCredit(op) = {FALSE}
  BY DEF Promise!MayCredit
<1>5. \A w : Promise!Debit(op, w) \in Nat /\ Promise!Credit(op, w) \in Nat
  BY <1>2, <1>3
<1> QED BY <1>1, <1>3, <1>4, <1>5

\* A request that is not concerned.
LEMMA OthersProgress ==
    ASSUME NEW q \in Requests, Progress(q), Ledgered(q),
           pc'[q] = pc[q], job'[q] = job[q], notes'[q] = notes[q], book'[q] = book[q],
           answer'[q] = answer[q],
           \A type \in RowTypes : <<q, type>> \in ledger' <=> <<q, type>> \in ledger
    PROVE  Progress(q)' /\ Ledgered(q)'
<1>1. \A debited, credited, recorded : Holds(q, debited, credited, recorded)' <=> Holds(q, debited, credited, recorded)
  BY DEF Holds
<1>2. HoldsNothing(q)' <=> HoldsNothing(q)
  BY DEF HoldsNothing
<1>3. Progress(q)'
  BY <1>1, <1>2 DEF Progress
<1>4. Ledgered(q)'
  BY DEF Ledgered
<1> QED BY <1>3, <1>4

\* A request that goes on leaves the ledger as it is.
LEMMA GoesOn ==
    ASSUME TypeOK, LedgerInv, NEW r \in Requests, ledger' = ledger, pc[r] # "accepted", pc'[r] # "accepted",
           \A q \in Requests \ {r} : /\ pc'[q] = pc[q] /\ job'[q] = job[q] /\ notes'[q] = notes[q]
                                     /\ book'[q] = book[q] /\ answer'[q] = answer[q],
           Progress(r)'
    PROVE  LedgerInv'
<1>1. Ledgered(r)'
  BY DEF LedgerInv, Ledgered
<1>2. ASSUME NEW q \in Requests \ {r} PROVE Progress(q)' /\ Ledgered(q)'
  BY <1>2, OthersProgress DEF LedgerInv
<1> QED BY <1>1, <1>2 DEF LedgerInv

\* Taking a request up records nothing.
LEMMA LedgerSubmit ==
    ASSUME RangeInv, LedgerInv, NEW r \in Requests, NEW op \in Ops, Submit(r, op)
    PROVE  LedgerInv'
<1>1. /\ pc[r] = "idle" /\ HoldsNothing(r) /\ ~answer[r]
      /\ UNCHANGED <<ledger, notes, book, answer>>
  BY DEF Submit, LedgerInv, Progress
<1>2. job'[r] = op /\ \A q \in Requests \ {r} : job'[q] = job[q] /\ pc'[q] = pc[q]
  BY DEF Submit, RangeInv, TypeOK
<1>3. HoldsNothing(r)' /\ ~answer'[r]
  BY <1>1 DEF HoldsNothing
<1>4. \/ op.kind = "topup" /\ pc'[r] = "credit_read"
      \/ op.kind \in Paying /\ pc'[r] \in {"debit_read", "commit", "refused"}
  BY DEF Submit, RangeInv, TypeOK, Paying, Kinds
<1>5. op.kind = "topup" => Holds(r, FALSE, FALSE, FALSE)'
  BY <1>3 DEF HoldsNothing, Holds, Types, Amount
<1>6. Progress(r)'
  <2>1. CASE op.kind = "topup" /\ pc'[r] = "credit_read"
    <3>1. ~(op.kind \in Paying)
      BY <2>1 DEF Paying
    <3>2. Holds(r, job[r].kind \in Paying, FALSE, FALSE)'
      BY <1>2, <1>5, <2>1, <3>1 DEF Holds, Types, Amount
    <3> QED BY <1>2, <1>3, <2>1, <3>2 DEF Progress, Final
  <2>2. CASE op.kind \in Paying /\ pc'[r] \in {"debit_read", "commit", "refused"}
    BY <1>2, <1>3, <2>2 DEF Progress, Final
  <2> QED BY <1>4, <2>1, <2>2
<1>7. pc'[r] # "accepted"
  BY <1>4
<1> QED BY <1>1, <1>2, <1>6, <1>7, GoesOn DEF RangeInv

\* What rolling back or committing leaves.
LEMMA DiscardHolds ==
    ASSUME TypeOK, NEW r \in Requests, Discard(r)
    PROVE  /\ HoldsNothing(r)'
           /\ \A q \in Requests \ {r} : notes'[q] = notes[q] /\ book'[q] = book[q]
BY DEF Discard, HoldsNothing, NothingBooked, TypeOK

\* A stage change that holds on to what there is.
LEMMA HoldsOn ==
    ASSUME NEW r \in Requests, UNCHANGED <<job, notes, book>>
    PROVE  /\ HoldsNothing(r) => HoldsNothing(r)'
           /\ \A debited, credited, recorded :
                Holds(r, debited, credited, recorded) => Holds(r, debited, credited, recorded)'
BY DEF Holds, HoldsNothing

\* Reading a balance records nothing.
LEMMA LedgerDebitRead ==
    ASSUME RangeInv, LedgerInv, NEW r \in Requests, DebitRead(r)
    PROVE  LedgerInv'
<1>1. /\ pc[r] = "debit_read" /\ pc'[r] \in {"debit_write", "commit"}
      /\ \A q \in Requests \ {r} : pc'[q] = pc[q]
      /\ UNCHANGED <<ledger, job, notes, book, answer>>
  BY DEF DebitRead, RangeInv, TypeOK
<1>2. job[r].kind \in Paying /\ ~answer[r] /\ HoldsNothing(r)'
  BY <1>1, HoldsOn DEF LedgerInv, Progress
<1>3. Progress(r)'
  BY <1>1, <1>2 DEF Progress, Final
<1> QED BY <1>1, <1>3, GoesOn DEF RangeInv

\* Nor does reading the balance to credit.
LEMMA LedgerCreditRead ==
    ASSUME RangeInv, LedgerInv, NEW r \in Requests, CreditRead(r)
    PROVE  LedgerInv'
<1>1. /\ pc[r] = "credit_read" /\ pc'[r] = "credit_write"
      /\ \A q \in Requests \ {r} : pc'[q] = pc[q]
      /\ UNCHANGED <<ledger, job, notes, book, answer>>
  BY DEF CreditRead, RangeInv, TypeOK
<1>2. /\ job[r].kind \in {"topup", "exchange", "p2p"} /\ ~answer[r]
      /\ Holds(r, job[r].kind \in Paying, FALSE, FALSE)
  BY <1>1 DEF LedgerInv, Progress
<1>3. Holds(r, job[r].kind \in Paying, FALSE, FALSE)'
  BY <1>1, <1>2 DEF Holds
<1>4. Progress(r)'
  BY <1>1, <1>2, <1>3 DEF Progress, Final
<1> QED BY <1>1, <1>4, GoesOn DEF RangeInv

\* A debit that fails leaves nothing, one that is made is noted.
LEMMA LedgerDebitWrite ==
    ASSUME RangeInv, LedgerInv, NEW r \in Requests, DebitWrite(r)
    PROVE  LedgerInv'
<1>1. /\ pc[r] = "debit_write" /\ pc'[r] \in {"credit_read", "records", "commit"}
      /\ \A q \in Requests \ {r} : pc'[q] = pc[q] /\ notes'[q] = notes[q] /\ book'[q] = book[q]
      /\ UNCHANGED <<ledger, job, answer>>
  BY DEF DebitWrite, AddNote, RangeInv, TypeOK
<1>2. job[r].kind \in Paying /\ ~answer[r] /\ HoldsNothing(r) /\ job[r] \in Ops
  BY <1>1 DEF LedgerInv, Progress, RangeInv, JobsKnown, Stages
<1>3. CASE pc'[r] = "commit" /\ UNCHANGED <<book, notes>>
  <2>1. HoldsNothing(r)'
    BY <1>1, <1>2, <1>3, HoldsOn
  <2>2. Progress(r)'
    BY <1>1, <1>2, <1>3, <2>1 DEF Progress, Final
  <2> QED BY <1>1, <2>2, GoesOn DEF RangeInv
<1>4. CASE /\ book' = [book EXCEPT ![r][DebitWallet(r)] = @ - Recorded(job[r].amount)]
           /\ AddNote(r, "wallet_deduction")
           /\ pc' = [pc EXCEPT ![r] = IF job[r].kind \in {"exchange", "p2p"} THEN "credit_read" ELSE "records"]
  <2>1. \A w \in Wallets : book'[r][w] = 0 - Promise!Debit(job[r], w)
    <3>1. /\ \A w \in Wallets : book[r][w] = 0
          /\ \A w \in Wallets : Promise!Debit(job[r], w) = IF w = DebitWallet(r) THEN Recorded(job[r].amount) ELSE 0
      BY <1>2, PromiseFacts DEF HoldsNothing, DebitWallet
    <3>2. Recorded(job[r].amount) \in Nat
      BY <1>2, PromiseFacts, RecordedNat
    <3>3. book \in [Requests -> [Wallets -> Int]]
      BY DEF RangeInv, TypeOK
    <3> HIDE <1>4
    <3>4. \A w \in Wallets : book'[r][w] = IF w = DebitWallet(r) THEN book[r][w] - Recorded(job[r].amount) ELSE book[r][w]
      BY <1>4, <3>3
    <3> QED BY <3>1, <3>2, <3>4
  <2>2. notes'[r] = {<<r, "wallet_deduction">>}
    BY <1>2, <1>4 DEF AddNote, HoldsNothing, RangeInv, TypeOK
  <2>3. \A debited : debited => Holds(r, debited, FALSE, FALSE)'
    BY <1>1, <2>1, <2>2 DEF Holds, Types, Amount
  <2>4. \/ job[r].kind \in {"exchange", "p2p"} /\ pc'[r] = "credit_read"
        \/ job[r].kind \in {"bill", "airtime"} /\ pc'[r] = "records"
    BY <1>2, <1>4 DEF Paying, Kinds, RangeInv, TypeOK
  <2>5. Progress(r)'
    <3>1. CASE job[r].kind \in {"exchange", "p2p"} /\ pc'[r] = "credit_read"
      <4>1. Holds(r, job[r].kind \in Paying, FALSE, FALSE)'
        BY <1>1, <1>2, <2>3
      <4> QED BY <1>1, <1>2, <3>1, <4>1 DEF Progress, Final
    <3>2. CASE job[r].kind \in {"bill", "airtime"} /\ pc'[r] = "records"
      <4>1. FALSE \in Promise!MayCredit(job[r]) /\ Holds(r, TRUE, FALSE, FALSE)'
        BY <1>2, <2>3, <3>2, PromiseFacts
      <4> QED BY <1>1, <1>2, <3>2, <4>1 DEF Progress, Final
    <3> QED BY <2>4, <3>1, <3>2
  <2> QED BY <1>1, <2>5, GoesOn DEF RangeInv
<1>5. CASE pc' = [pc EXCEPT ![r] = "commit"] /\ UNCHANGED <<book, notes>>
  <2>1. pc'[r] = "commit"
    BY <1>5 DEF RangeInv, TypeOK
  <2> QED BY <1>3, <1>5, <2>1
<1> QED BY <1>4, <1>5 DEF DebitWrite

\* What add_to_wallet's callers do next, and what the transaction holds then.
LEMMA AfterCreditHolds ==
    ASSUME RangeInv, LedgerInv, NEW r \in Requests, pc[r] \in {"credit_read", "credit_write"},
           NEW added \in BOOLEAN, AfterCredit(r, added), UNCHANGED <<ledger, job>>,
           \A q \in Requests \ {r} : notes'[q] = notes[q] /\ book'[q] = book[q],
           Holds(r, job[r].kind \in Paying, added, FALSE)'
    PROVE  LedgerInv'
<1>1. /\ \A q \in Requests \ {r} : pc'[q] = pc[q] /\ answer'[q] = answer[q]
      /\ pc'[r] = IF job[r].kind = "p2p" THEN "records" ELSE "commit"
      /\ answer'[r] = (added \/ job[r].kind = "exchange")
  BY DEF AfterCredit, RangeInv, TypeOK
<1>2. job[r].kind \in {"topup", "exchange", "p2p"} /\ job[r] \in Ops
  BY DEF LedgerInv, Progress, RangeInv, JobsKnown, Stages
<1>3. Progress(r)'
  <2>1. CASE job[r].kind = "p2p"
    <3>1. Holds(r, TRUE, added, FALSE)'
      BY <2>1 DEF Paying, Kinds, Holds, Types, Amount
    <3>2. added \in Promise!MayCredit(job[r])
      BY <1>2, <2>1, PromiseFacts
    <3> QED BY <1>1, <2>1, <3>1, <3>2 DEF Progress, Final
  <2>2. CASE job[r].kind \in {"topup", "exchange"} /\ answer'[r]
    <3>1. ServiceRows(job[r].kind) = {}
      BY <2>2 DEF ServiceRows
    <3>2. Holds(r, job[r].kind \in Paying, added, TRUE)'
      BY <3>1 DEF Holds, Types
    <3>3. added \in Promise!MayCredit(job[r])
      BY <1>1, <1>2, <2>2, PromiseFacts
    <3>4. pc'[r] = "commit"
      BY <1>1, <2>2
    <3> QED BY <2>2, <3>2, <3>3, <3>4 DEF Progress, Final
  <2>3. CASE job[r].kind = "topup" /\ ~answer'[r]
    <3>1. ~added /\ ~(job[r].kind \in Paying)
      BY <1>1, <2>3 DEF Paying
    <3>2. Types(job[r], FALSE, FALSE, FALSE) = {} /\ \A w : Amount(job[r], w, FALSE, FALSE) = 0
      BY DEF Types, Amount
    <3>3. Holds(r, FALSE, FALSE, FALSE)'
      BY <3>1 DEF Holds, Types, Amount
    <3>4. HoldsNothing(r)'
      BY <3>2, <3>3 DEF Holds, HoldsNothing
    <3> QED BY <1>1, <2>3, <3>4 DEF Progress, Final
  <2> QED BY <1>1, <1>2, <2>1, <2>2, <2>3
<1>4. pc[r] # "accepted" /\ pc'[r] # "accepted"
  BY <1>1
<1> QED BY <1>1, <1>3, <1>4, GoesOn DEF RangeInv

\* A credit that is made is noted beside the debit.
LEMMA LedgerCreditWrite ==
    ASSUME RangeInv, LedgerInv, NEW r \in Requests, CreditWrite(r)
    PROVE  LedgerInv'
<1> DEFINE paying == job[r].kind \in Paying
           a == Recorded(CreditAmount(r))
           v == CreditWallet(r)
<1>1. /\ pc[r] = "credit_write" /\ AfterCredit(r, TRUE)
      /\ book' = [book EXCEPT ![r][v] = @ + a] /\ AddNote(r, "wallet_topup")
      /\ UNCHANGED <<ledger, job>>
  BY DEF CreditWrite
<1>2. job[r] \in Ops /\ Holds(r, paying, FALSE, FALSE) /\ paying \in BOOLEAN
  <2>1. job[r] \in Ops
    BY <1>1 DEF RangeInv, JobsKnown, Stages
  <2>2. Progress(r)
    BY DEF LedgerInv
  <2>3. Holds(r, job[r].kind \in Paying, FALSE, FALSE)
    BY <1>1, <2>2 DEF Progress
  <2>4. (job[r].kind \in Paying) \in BOOLEAN
    OBVIOUS
  <2> QED BY <2>1, <2>3, <2>4
<1>3. \A w : /\ Promise!Credit(job[r], w) = IF w = v THEN a ELSE 0
             /\ Promise!Debit(job[r], w) \in Nat
  BY <1>2, PromiseFacts DEF CreditWallet, CreditAmount
<1>4. a \in Nat /\ book \in [Requests -> [Wallets -> Int]] /\ notes \in [Requests -> SUBSET (Requests \X RowTypes)]
  BY <1>2, PromiseFacts, RecordedNat DEF CreditAmount, RangeInv, TypeOK
<1> HIDE DEF paying, a, v
<1>5. \A w \in Wallets : book'[r][w] = IF w = v THEN book[r][w] + a ELSE book[r][w]
  BY <1>1, <1>4
<1>6. \A w \in Wallets : book'[r][w] = Amount(job[r], w, paying, TRUE)
  <2>1. \A w \in Wallets : book[r][w] = 0 - (IF paying THEN Promise!Debit(job[r], w) ELSE 0)
    BY <1>2 DEF Holds, Amount
  <2> QED BY <1>3, <1>4, <1>5, <2>1 DEF Amount
<1>7. notes'[r] = {<<r, type>> : type \in Types(job[r], paying, TRUE, FALSE)}
  <2>1. notes'[r] = notes[r] \cup {<<r, "wallet_topup">>}
    BY <1>1, <1>4 DEF AddNote
  <2>2. Types(job[r], paying, TRUE, FALSE) = Types(job[r], paying, FALSE, FALSE) \cup {"wallet_topup"}
    BY DEF Types
  <2>3. notes[r] = {<<r, type>> : type \in Types(job[r], paying, FALSE, FALSE)}
    BY <1>2 DEF Holds
  <2> QED BY <2>1, <2>2, <2>3
<1>8. Holds(r, job[r].kind \in Paying, TRUE, FALSE)'
  BY <1>1, <1>6, <1>7 DEF Holds, paying
<1>9. \A q \in Requests \ {r} : notes'[q] = notes[q] /\ book'[q] = book[q]
  BY <1>1, <1>4 DEF AddNote
<1> QED BY <1>1, <1>8, <1>9, AfterCreditHolds

\* A swallowed failure leaves the debit noted alone, where there is one.
LEMMA LedgerCreditFail ==
    ASSUME RangeInv, LedgerInv, NEW r \in Requests, CreditFail(r)
    PROVE  LedgerInv'
<1>1. /\ pc[r] \in {"credit_read", "credit_write"} /\ AfterCredit(r, FALSE)
      /\ UNCHANGED <<ledger, job, book, notes>>
  BY DEF CreditFail
<1>2. Holds(r, job[r].kind \in Paying, FALSE, FALSE)
  BY <1>1 DEF LedgerInv, Progress
<1>3. Holds(r, job[r].kind \in Paying, FALSE, FALSE)'
  BY <1>1, <1>2 DEF Holds
<1> QED BY <1>1, <1>3, AfterCreditHolds

\* The service's own rows join the debit, or the transaction holds nothing any more.
LEMMA LedgerRecords ==
    ASSUME RangeInv, LedgerInv, NEW r \in Requests, Records(r)
    PROVE  LedgerInv'
<1>1. pc[r] = "records" /\ UNCHANGED <<ledger, job>>
  BY DEF Records
<1>2. PICK credited \in Promise!MayCredit(job[r]) : Holds(r, TRUE, credited, FALSE)
  BY <1>1 DEF LedgerInv, Progress
<1>3. job[r].kind \in Paying
  BY <1>1 DEF LedgerInv, Progress, Paying, Kinds
<1>4. CASE /\ notes' = [notes EXCEPT ![r] = @ \cup {<<r, type>> : type \in ServiceRows(job[r].kind)}]
           /\ pc' = [pc EXCEPT ![r] = "commit"]
           /\ answer' = [answer EXCEPT ![r] = TRUE]
           /\ UNCHANGED <<dirty, book>>
  <2>1. /\ notes'[r] = notes[r] \cup {<<r, type>> : type \in ServiceRows(job[r].kind)}
        /\ pc'[r] = "commit" /\ answer'[r] = TRUE
        /\ \A q \in Requests \ {r} : pc'[q] = pc[q] /\ notes'[q] = notes[q] /\ answer'[q] = answer[q]
    BY <1>4 DEF RangeInv, TypeOK
  <2>2. Types(job[r], TRUE, credited, TRUE) = Types(job[r], TRUE, credited, FALSE) \cup ServiceRows(job[r].kind)
    BY DEF Types
  <2>3. notes[r] = {<<r, type>> : type \in Types(job[r], TRUE, credited, FALSE)}
    BY <1>2 DEF Holds
  <2>4. notes'[r] = {<<r, type>> : type \in Types(job[r], TRUE, credited, TRUE)}
    BY <2>1, <2>2, <2>3
  <2>5. Holds(r, TRUE, credited, TRUE)'
    BY <1>1, <1>2, <1>4, <2>4 DEF Holds
  <2>6. Holds(r, job[r].kind \in Paying, credited, TRUE)'
    BY <1>1, <1>3, <2>5 DEF Holds, Types, Amount
  <2>7. Progress(r)'
    BY <1>1, <2>1, <2>6 DEF Progress, Final
  <2> QED BY <1>1, <1>4, <2>1, <2>7, GoesOn DEF RangeInv
<1>5. CASE pc' = [pc EXCEPT ![r] = "refused"] /\ Discard(r) /\ UNCHANGED answer
  <2>1. pc'[r] = "refused" /\ \A q \in Requests \ {r} : pc'[q] = pc[q]
    BY <1>5 DEF RangeInv, TypeOK
  <2>2. HoldsNothing(r)' /\ \A q \in Requests \ {r} : notes'[q] = notes[q] /\ book'[q] = book[q]
    BY <1>5, DiscardHolds DEF RangeInv
  <2>3. Progress(r)'
    BY <2>1, <2>2 DEF Progress, Final
  <2> QED BY <1>1, <1>5, <2>1, <2>2, <2>3, GoesOn DEF RangeInv
<1> QED BY <1>4, <1>5 DEF Records

\* A worker that dies leaves nothing.
LEMMA LedgerCrash ==
    ASSUME RangeInv, LedgerInv, NEW r \in Requests, Crash(r)
    PROVE  LedgerInv'
<1>1. /\ pc[r] # "accepted" /\ pc'[r] = "crashed" /\ \A q \in Requests \ {r} : pc'[q] = pc[q]
      /\ UNCHANGED <<ledger, job, answer>>
  BY DEF Crash, Open, Stages, RangeInv, TypeOK
<1>2. HoldsNothing(r)' /\ \A q \in Requests \ {r} : notes'[q] = notes[q] /\ book'[q] = book[q]
  BY DiscardHolds DEF Crash, RangeInv
<1>3. Progress(r)'
  BY <1>1, <1>2 DEF Progress, Final
<1> QED BY <1>1, <1>2, <1>3, GoesOn DEF RangeInv

\* What a transaction that is going to be accepted holds is what the promise settles.
LEMMA EntriesHeld ==
    ASSUME NEW op, NEW credited \in BOOLEAN
    PROVE  Types(op, op.kind \in Paying, credited, TRUE) = Promise!Entries(op, credited)
BY SameMoney DEF Types, Promise!Entries

\* Committing an accepted request.
LEMMA CommitAccepted ==
    ASSUME RangeInv, LedgerInv, NEW r \in Requests, Commit(r), answer[r]
    PROVE  /\ job[r] \in Ops /\ pc'[r] = "accepted"
           /\ \E credited \in Promise!MayCredit(job[r]) :
                /\ \A w \in Wallets : booked'[w] = booked[w] + Amount(job[r], w, job[r].kind \in Paying, credited)
                /\ ledger' = ledger \cup {<<r, type>> : type \in Promise!Entries(job[r], credited)}
<1>1. /\ pc[r] = "commit" /\ pc'[r] = "accepted" /\ ledger' = ledger \cup notes[r]
      /\ \A w \in Wallets : booked'[w] = booked[w] + book[r][w]
  BY DEF Commit, RangeInv, TypeOK
<1>2. job[r] \in Ops
  BY <1>1 DEF RangeInv, JobsKnown, Stages
<1>3. PICK credited \in Promise!MayCredit(job[r]) : Holds(r, job[r].kind \in Paying, credited, TRUE)
  BY <1>1 DEF LedgerInv, Progress
<1>4. credited \in BOOLEAN
  BY <1>3 DEF Promise!MayCredit
<1>5. notes[r] = {<<r, type>> : type \in Promise!Entries(job[r], credited)}
  BY <1>3, <1>4, EntriesHeld DEF Holds
<1>6. \A w \in Wallets : book[r][w] = Amount(job[r], w, job[r].kind \in Paying, credited)
  BY <1>3 DEF Holds
<1> QED BY <1>1, <1>2, <1>5, <1>6

\* Committing a refused one.
LEMMA CommitRefused ==
    ASSUME RangeInv, LedgerInv, NEW r \in Requests, Commit(r), ~answer[r]
    PROVE  pc'[r] = "refused" /\ ledger' = ledger /\ \A w \in Wallets : booked'[w] = booked[w]
<1>1. /\ pc[r] = "commit" /\ pc'[r] = "refused" /\ ledger' = ledger \cup notes[r]
      /\ \A w \in Wallets : booked'[w] = booked[w] + book[r][w]
  BY DEF Commit, RangeInv, TypeOK
<1>2. HoldsNothing(r)
  BY <1>1 DEF LedgerInv, Progress
<1> QED BY <1>1, <1>2 DEF HoldsNothing, RangeInv, TypeOK

\* A commit moves what is held to the ledger, and nobody else's rows.
LEMMA LedgerCommit ==
    ASSUME RangeInv, LedgerInv, NEW r \in Requests, Commit(r)
    PROVE  LedgerInv'
<1>1. /\ pc[r] = "commit" /\ UNCHANGED <<job, answer>>
      /\ \A q \in Requests \ {r} : pc'[q] = pc[q]
  BY DEF Commit, RangeInv, TypeOK
<1>2. HoldsNothing(r)' /\ \A q \in Requests \ {r} : notes'[q] = notes[q] /\ book'[q] = book[q]
  BY DiscardHolds DEF Commit, RangeInv
<1>3. CASE ~answer[r]
  <2>1. pc'[r] = "refused" /\ ledger' = ledger
    BY <1>3, CommitRefused
  <2>2. Progress(r)'
    BY <1>2, <2>1 DEF Progress, Final
  <2> QED BY <1>1, <1>2, <2>1, <2>2, GoesOn DEF RangeInv
<1>4. CASE answer[r]
  <2>1. job[r] \in Ops /\ pc'[r] = "accepted"
    BY <1>4, CommitAccepted
  <2>2. PICK credited \in Promise!MayCredit(job[r]) :
            ledger' = ledger \cup {<<r, type>> : type \in Promise!Entries(job[r], credited)}
    BY <1>4, CommitAccepted
  <2>3. Progress(r)'
    BY <1>2, <2>1 DEF Progress, Final
  <2>4. \A type \in RowTypes : <<r, type>> \notin ledger
    BY <1>1 DEF LedgerInv, Ledgered
  <2>5. \A type \in RowTypes : <<r, type>> \in ledger' <=> type \in Promise!Entries(job[r], credited)
    BY <2>2, <2>4
  <2>6. Ledgered(r)'
    BY <1>1, <2>1, <2>5 DEF Ledgered
  <2>7. ASSUME NEW q \in Requests \ {r} PROVE Progress(q)' /\ Ledgered(q)'
    <3>1. \A type : <<q, type>> \in ledger' <=> <<q, type>> \in ledger
      BY <2>2
    <3> QED BY <1>1, <1>2, <3>1, OthersProgress DEF LedgerInv
  <2> QED BY <2>3, <2>6, <2>7 DEF LedgerInv
<1> QED BY <1>3, <1>4

\* Nothing is recorded before the first request.
LEMMA LedgerInit == Init => LedgerInv
BY DEF Init, LedgerInv, Progress, Ledgered, HoldsNothing, NothingBooked, Final

\* Every step keeps held rows and committed rows those of the operation.
LEMMA LedgerStep == RangeInv /\ LedgerInv /\ [Next]_vars => LedgerInv'
<1> SUFFICES ASSUME RangeInv, LedgerInv, [Next]_vars PROVE LedgerInv'
  OBVIOUS
<1>1. CASE \E r \in Requests, op \in Ops : Submit(r, op)
  BY <1>1, LedgerSubmit
<1>2. ASSUME NEW r \in Requests, Step(r) PROVE LedgerInv'
  BY <1>2, LedgerDebitRead, LedgerDebitWrite, LedgerCreditRead, LedgerCreditWrite,
     LedgerCreditFail, LedgerRecords, LedgerCommit DEF Step
<1>3. CASE \E r \in Requests : Crash(r)
  BY <1>3, LedgerCrash
<1>4. CASE UNCHANGED vars
  <2>1. UNCHANGED <<pc, job, notes, book, answer, ledger>>
    BY <1>4 DEF vars
  <2> QED BY <2>1, OthersProgress DEF LedgerInv
<1> QED BY <1>1, <1>2, <1>3, <1>4 DEF Next, Finished

\* It holds throughout, with types and bounds.
LEMMA LedgerAlways == Spec => [](RangeInv /\ LedgerInv)
<1>1. Init => RangeInv /\ LedgerInv
  BY RangeInit, LedgerInit
<1>2. RangeInv /\ LedgerInv /\ [Next]_vars => (RangeInv /\ LedgerInv)'
  BY RangeStep, LedgerStep
<1> QED BY <1>1, <1>2, PTL DEF Spec

\* A service row never stands alone in the ledger, whatever the inner blocks swallow.
THEOREM RowsBacked == Spec => []RecordsBacked
<1>1. ASSUME LedgerInv PROVE RecordsBacked
  <2> SUFFICES ASSUME NEW r \in Requests
               PROVE  /\ <<r, "p2p_send">> \in ledger <=> <<r, "p2p_receive">> \in ledger
                      /\ \A type \in {"p2p_send", "bill_payment", "airtime_purchase"} :
                            <<r, type>> \in ledger => <<r, "wallet_deduction">> \in ledger
    BY DEF RecordsBacked
  <2>1. CASE pc[r] # "accepted"
    BY <1>1, <2>1 DEF LedgerInv, Ledgered, RowTypes
  <2>2. CASE pc[r] = "accepted"
    <3>1. PICK credited \in Promise!MayCredit(job[r]) :
              \A type \in RowTypes : <<r, type>> \in ledger <=> type \in Promise!Entries(job[r], credited)
      BY <1>1, <2>2 DEF LedgerInv, Ledgered
    <3>2. /\ "p2p_send" \in Promise!Entries(job[r], credited) <=> "p2p_receive" \in Promise!Entries(job[r], credited)
          /\ \A type \in {"p2p_send", "bill_payment", "airtime_purchase"} :
                type \in Promise!Entries(job[r], credited)
                   => "wallet_deduction" \in Promise!Entries(job[r], credited)
      BY SameMoney DEF Promise!Entries, ServiceRows, Paying, Kinds
    <3> QED BY <3>1, <3>2 DEF RowTypes
  <2> QED BY <2>1, <2>2
<1> QED BY <1>1, LedgerAlways, PTL

\* Nothing of a refused or crashed request is in the ledger, although "return False"
\* inside the block commits it.
THEOREM RefusedAreTraceless == Spec => []RefusedLeavesNoTrace
<1>1. LedgerInv => RefusedLeavesNoTrace
  BY DEF LedgerInv, Ledgered, RefusedLeavesNoTrace
<1> QED BY <1>1, LedgerAlways, PTL

-----------------------------------------------------------------------------
(* The wallet implements the settlement promise. *)

\* How the stages of a request appear in the promise.
LEMMA StatusFacts ==
    ASSUME TypeOK, NEW r \in Requests
    PROVE  /\ StatusOf[r] = "new" <=> pc[r] = "idle"
           /\ StatusOf[r] = "placed" <=> pc[r] \in Stages
           /\ StatusOf[r] = "settled" <=> pc[r] = "accepted"
           /\ StatusOf[r] = "rejected" <=> pc[r] \in {"refused", "crashed"}
<1>1. pc[r] \in {"idle"} \cup Stages \cup {"accepted", "refused", "crashed"}
  BY DEF TypeOK, Final
<1>2. CASE pc[r] = "idle"
  BY <1>2 DEF StatusOf, Stages
<1>3. CASE pc[r] \in Stages
  BY <1>3 DEF StatusOf, Stages
<1>4. CASE pc[r] = "accepted"
  BY <1>4 DEF StatusOf, Stages
<1>5. CASE pc[r] \in {"refused", "crashed"}
  BY <1>5 DEF StatusOf, Stages
<1> QED BY <1>1, <1>2, <1>3, <1>4, <1>5

\* A step of r moves the status of r alone.
LEMMA StatusMoves ==
    ASSUME NEW r \in Requests, \A q \in Requests \ {r} : pc'[q] = pc[q], NEW new, StatusOf'[r] = new
    PROVE  StatusOf' = [StatusOf EXCEPT ![r] = new]
<1>1. \A q \in Requests \ {r} : StatusOf'[q] = StatusOf[q]
  BY DEF StatusOf
<1>2. /\ StatusOf = [q \in Requests |-> StatusOf[q]]
      /\ StatusOf' = [q \in Requests |-> StatusOf'[q]]
  BY DEF StatusOf
<1> HIDE DEF StatusOf
<1> QED BY <1>1, <1>2

\* The promise starts where the wallet starts.
LEMMA PromiseInit == Init => Promise!SettlementInit
<1> SUFFICES ASSUME Init PROVE Promise!SettlementInit
  OBVIOUS
<1>1. StatusOf = [r \in Requests |-> "new"]
  <2>1. \A r \in Requests : StatusOf[r] = "new"
    <3>1. TypeOK
      BY RangeInit DEF RangeInv
    <3> QED BY <3>1, StatusFacts DEF Init
  <2>2. StatusOf = [r \in Requests |-> StatusOf[r]]
    BY DEF StatusOf
  <2> HIDE DEF StatusOf
  <2> QED BY <2>1, <2>2
<1>2. booked = [w \in Promise!Wallets |-> 0]
  BY SameMoney DEF Init, NothingBooked
<1>3. job = [r \in Requests |-> Promise!NoOrder] /\ ledger = {}
  BY DEF Init, Promise!NoOrder, NoJob
<1> QED BY <1>1, <1>2, <1>3 DEF Promise!SettlementInit

\* A request in hand that goes on does not appear in the promise.
LEMMA GoesOnUnseen ==
    ASSUME TypeOK, TypeOK', NEW r \in Requests, pc[r] \in Stages, pc'[r] \in Stages,
           \A q \in Requests \ {r} : pc'[q] = pc[q], UNCHANGED <<job, booked, ledger>>
    PROVE  UNCHANGED Promise!settlementVars
<1>1. StatusOf'[r] = StatusOf[r]
  <2>1. StatusOf[r] = "placed"
    BY StatusFacts
  <2>2. StatusOf'[r] = "placed"
    BY DEF StatusOf, Stages
  <2> QED BY <2>1, <2>2
<1>2. StatusOf' = [StatusOf EXCEPT ![r] = StatusOf[r]]
  BY <1>1, StatusMoves
<1>3. StatusOf' = StatusOf
  BY <1>2 DEF StatusOf
<1> QED BY <1>3 DEF Promise!settlementVars

\* A request in hand that is refused or dies is a rejected order.
LEMMA EndsRejected ==
    ASSUME TypeOK, NEW r \in Requests, pc[r] \in Stages, pc'[r] \in {"refused", "crashed"},
           \A q \in Requests \ {r} : pc'[q] = pc[q], UNCHANGED <<job, booked, ledger>>
    PROVE  Promise!Reject(r)
<1>1. StatusOf[r] = "placed"
  BY StatusFacts
<1>2. StatusOf'[r] = "rejected"
  BY DEF StatusOf, Stages
<1>3. StatusOf' = [StatusOf EXCEPT ![r] = "rejected"]
  BY <1>2, StatusMoves
<1> QED BY <1>1, <1>3 DEF Promise!Reject

\* Taking a request up places its order, or rejects it.
LEMMA SubmitPlaces ==
    ASSUME TypeOK, NEW r \in Requests, NEW op \in Ops, Submit(r, op)
    PROVE  Promise!Place(r, op) \/ Promise!RejectNew(r, op)
<1>1. /\ pc[r] = "idle" /\ pc'[r] \in Stages \cup {"refused"}
      /\ \A q \in Requests \ {r} : pc'[q] = pc[q]
      /\ job' = [job EXCEPT ![r] = op] /\ UNCHANGED <<booked, ledger>>
  BY DEF Submit, TypeOK, Stages
<1>2. StatusOf[r] = "new"
  BY <1>1, StatusFacts
<1>3. CASE pc'[r] \in Stages
  <2>1. StatusOf'[r] = "placed"
    BY <1>3 DEF StatusOf, Stages
  <2>2. StatusOf' = [StatusOf EXCEPT ![r] = "placed"]
    BY <1>1, <2>1, StatusMoves
  <2> QED BY <1>1, <1>2, <2>2 DEF Promise!Place
<1>4. CASE pc'[r] = "refused"
  <2>1. StatusOf'[r] = "rejected"
    BY <1>4 DEF StatusOf, Stages
  <2>2. StatusOf' = [StatusOf EXCEPT ![r] = "rejected"]
    BY <1>1, <2>1, StatusMoves
  <2> QED BY <1>1, <1>2, <2>2 DEF Promise!RejectNew
<1> QED BY <1>1, <1>3, <1>4

\* Committing an accepted request settles its order, whole.
LEMMA CommitSettles ==
    ASSUME RangeInv, LedgerInv, NEW r \in Requests, Commit(r), answer[r]
    PROVE  Promise!Settle(r)
<1>1. job[r] \in Ops /\ pc'[r] = "accepted" /\ pc[r] \in Stages /\ UNCHANGED job
  BY CommitAccepted DEF Commit, Stages
<1>2. PICK credited \in Promise!MayCredit(job[r]) :
          /\ \A w \in Wallets : booked'[w] = booked[w] + Amount(job[r], w, job[r].kind \in Paying, credited)
          /\ ledger' = ledger \cup {<<r, type>> : type \in Promise!Entries(job[r], credited)}
  BY CommitAccepted
<1>3. \A w \in Wallets : booked'[w] = booked[w] - Promise!Debit(job[r], w)
                                         + (IF credited THEN Promise!Credit(job[r], w) ELSE 0)
  <2> SUFFICES ASSUME NEW w \in Wallets
               PROVE  booked'[w] = booked[w] - Promise!Debit(job[r], w)
                                     + (IF credited THEN Promise!Credit(job[r], w) ELSE 0)
    OBVIOUS
  <2>1. booked[w] \in Int
    BY DEF RangeInv, TypeOK
  <2>2. /\ Promise!Debit(job[r], w) \in Nat /\ Promise!Credit(job[r], w) \in Nat
        /\ ~(job[r].kind \in Paying) => Promise!Debit(job[r], w) = 0
    BY <1>1, PromiseFacts
  <2>3. booked'[w] = booked[w] + ((IF credited THEN Promise!Credit(job[r], w) ELSE 0)
                                   - (IF job[r].kind \in Paying THEN Promise!Debit(job[r], w) ELSE 0))
    BY <1>2 DEF Amount
  <2> QED BY <2>1, <2>2, <2>3
<1>4. booked' = [w \in Wallets |-> booked[w] - Promise!Debit(job[r], w)
                                     + (IF credited THEN Promise!Credit(job[r], w) ELSE 0)]
  <2>1. booked' = [w \in Wallets |-> booked'[w]]
    BY DEF Commit
  <2> QED BY <1>3, <2>1
<1>5. StatusOf[r] = "placed"
  BY <1>1, StatusFacts DEF RangeInv
<1>6. StatusOf' = [StatusOf EXCEPT ![r] = "settled"]
  <2>1. StatusOf'[r] = "settled"
    BY <1>1 DEF StatusOf, Stages
  <2>2. \A q \in Requests \ {r} : pc'[q] = pc[q]
    BY DEF Commit, RangeInv, TypeOK
  <2> QED BY <2>1, <2>2, StatusMoves
<1>7. Promise!Wallets = Wallets
  BY SameMoney
<1> QED BY <1>1, <1>2, <1>4, <1>5, <1>6, <1>7 DEF Promise!Settle

\* Every step of the wallet is a step of the promise or does not appear in it.
LEMMA PromiseStep ==
    RangeInv /\ LedgerInv /\ [Next]_vars => [Promise!SettlementNext]_(Promise!settlementVars)
<1> SUFFICES ASSUME RangeInv, LedgerInv, [Next]_vars
             PROVE  [Promise!SettlementNext]_(Promise!settlementVars)
  OBVIOUS
<1>0. TypeOK /\ RangeInv' /\ TypeOK'
  BY RangeStep DEF RangeInv
<1>1. ASSUME NEW r \in Requests, NEW op \in Ops, Submit(r, op) PROVE Promise!SettlementNext
  BY <1>0, <1>1, SubmitPlaces DEF Promise!SettlementNext
<1>2. ASSUME NEW r \in Requests, Crash(r) PROVE Promise!SettlementNext
  <2>1. /\ pc[r] \in Stages /\ pc'[r] \in {"refused", "crashed"} /\ UNCHANGED <<job, booked, ledger>>
        /\ \A q \in Requests \ {r} : pc'[q] = pc[q]
    BY <1>0, <1>2 DEF Crash, Open, TypeOK
  <2> QED BY <1>0, <2>1, EndsRejected DEF Promise!SettlementNext
<1>3. ASSUME NEW r \in Requests, Commit(r) PROVE Promise!SettlementNext
  <2>1. CASE answer[r]
    BY <1>3, <2>1, CommitSettles DEF Promise!SettlementNext
  <2>2. CASE ~answer[r]
    <3>1. /\ pc'[r] = "refused" /\ ledger' = ledger /\ \A w \in Wallets : booked'[w] = booked[w]
      BY <1>3, <2>2, CommitRefused
    <3>2. booked' = booked
      BY <1>0, <3>1 DEF TypeOK
    <3>3. /\ pc[r] \in Stages /\ job' = job /\ \A q \in Requests \ {r} : pc'[q] = pc[q]
      BY <1>0, <1>3 DEF Commit, Stages, TypeOK
    <3> QED BY <1>0, <3>1, <3>2, <3>3, EndsRejected DEF Promise!SettlementNext
  <2> QED BY <2>1, <2>2
<1>4. ASSUME NEW r \in Requests, DebitRead(r) \/ DebitWrite(r) \/ CreditRead(r) \/ CreditWrite(r)
                                   \/ CreditFail(r)
      PROVE  UNCHANGED Promise!settlementVars
  <2>1. UNCHANGED <<job, booked, ledger>> /\ pc[r] \in Stages
    BY <1>4 DEF DebitRead, DebitWrite, CreditRead, CreditWrite, CreditFail, Stages
  <2>2. \E stage \in Stages : pc' = [pc EXCEPT ![r] = stage]
    BY <1>4 DEF DebitRead, DebitWrite, CreditRead, CreditWrite, CreditFail, AfterCredit, Stages
  <2>3. pc'[r] \in Stages /\ \A q \in Requests \ {r} : pc'[q] = pc[q]
    BY <1>0, <2>2 DEF TypeOK
  <2> QED BY <1>0, <2>1, <2>3, GoesOnUnseen
<1>5. ASSUME NEW r \in Requests, Records(r)
      PROVE  [Promise!SettlementNext]_(Promise!settlementVars)
  <2>1. /\ UNCHANGED <<job, booked, ledger>> /\ pc[r] \in Stages
        /\ \A q \in Requests \ {r} : pc'[q] = pc[q]
    BY <1>0, <1>5 DEF Records, Stages, TypeOK
  <2>2. pc'[r] \in {"commit", "refused"}
    BY <1>0, <1>5 DEF Records, TypeOK
  <2>3. CASE pc'[r] = "commit"
    BY <1>0, <2>1, <2>3, GoesOnUnseen DEF Stages
  <2>4. CASE pc'[r] = "refused"
    BY <1>0, <2>1, <2>4, EndsRejected DEF Promise!SettlementNext
  <2> QED BY <2>2, <2>3, <2>4
<1>6. ASSUME UNCHANGED vars PROVE UNCHANGED Promise!settlementVars
  BY <1>6 DEF vars, Promise!settlementVars, StatusOf
<1> QED BY <1>1, <1>2, <1>3, <1>4, <1>5, <1>6 DEF Next, Step, Finished

\* The records follow the promise: every request's rows appear in one step, with the
\* whole debit and at most the whole credit, or never, for any interleaving of any
\* number of workers.
THEOREM SettlesSafely == Spec => Promise!SettlementSafety
<1>1. Init => Promise!SettlementInit
  BY PromiseInit
<1>2. RangeInv /\ LedgerInv /\ [Next]_vars => [Promise!SettlementNext]_(Promise!settlementVars)
  BY PromiseStep
<1> QED BY <1>1, <1>2, LedgerAlways, PTL DEF Spec, Promise!SettlementSafety

-----------------------------------------------------------------------------
(* One worker. *)

\* One request at a time is in hand, and the balance it is about to write is computed
\* from the one that is there.
OneInHand == \A p, q \in Requests : Open(p) /\ Open(q) => p = q
Current ==
    \A r \in Requests :
        /\ pc[r] = "debit_write" => seen[r] = Visible(r, DebitWallet(r))
        /\ pc[r] = "credit_write" => seen[r] = Visible(r, CreditWallet(r))

SerialInv == OneInHand /\ Current /\ suspect = {}

\* Whole cents are recorded as they are.
LEMMA RecordedWhole ==
    ASSUME NEW a \in Nat, a % Cent = 0
    PROVE  Recorded(a) = a
<1>1. Cent \in Nat \ {0}
  BY MoneyAssumption
<1>2. a = Cent * (a \div Cent) + (a % Cent)
  BY <1>1
<1>3. Recorded(a) = Cent * (a \div Cent)
  BY <1>1 DEF Recorded
<1>4. a \div Cent \in Nat
  BY <1>1
<1> QED BY <1>1, <1>2, <1>3, <1>4

\* What is converted is rounded to whole cents.
LEMMA ConvertWhole ==
    ASSUME NEW q \in Nat
    PROVE  Cent * q \in Nat /\ (Cent * q) % Cent = 0
<1>1. Cent \in Nat \ {0}
  BY MoneyAssumption
<1>2. Cent * q \in Nat
  BY <1>1
<1>3. (Cent * q) % Cent = 0
  BY <1>1, <1>2
<1> QED BY <1>2, <1>3

\* What one worker is asked for when every amount is in whole cents and every bucket a
\* column: then nothing but an outdated balance could make a wallet suspect.
Clean(op) == op.bucket \in Buckets /\ op.amount % Cent = 0

\* A clean operation is recorded as it is asked for and as it is converted.
LEMMA CleanRecorded ==
    ASSUME NEW op \in Ops, Clean(op)
    PROVE  Recorded(op.amount) = op.amount /\ Recorded(CreditOf(op)) = CreditOf(op)
<1>1. op.amount \in Nat /\ op.from \in Currencies /\ op.to \in Currencies
  BY OpFields
<1>2. Recorded(op.amount) = op.amount
  BY <1>1, RecordedWhole DEF Clean
<1>3. CASE op.kind # "exchange"
  BY <1>2, <1>3 DEF CreditOf
<1>4. CASE op.kind = "exchange"
  <2> DEFINE num == IF op.from = op.to THEN 1 ELSE RateNum[<<op.from, op.to>>]
             den == IF op.from = op.to THEN 1 ELSE RateDen[<<op.from, op.to>>]
             q == (op.amount * num) \div (den * Cent)
  <2>1. CreditOf(op) = Cent * q
    BY <1>4 DEF CreditOf, Convert
  <2>2. q \in Nat
    <3>1. num \in Nat /\ den \in Nat \ {0} /\ Cent \in Nat \ {0}
      BY <1>1, MoneyAssumption
    <3> HIDE DEF num, den
    <3>2. den * Cent \in Nat \ {0} /\ op.amount * num \in Nat
      BY <1>1, <3>1
    <3> QED BY <3>2
  <2> HIDE DEF q
  <2> QED BY <1>2, <2>1, <2>2, ConvertWhole, RecordedWhole
<1> QED BY <1>2, <1>3, <1>4

\* Reading a balance makes it the current one.
LEMMA ReadsCurrent ==
    ASSUME TypeOK, NEW r \in Requests, NEW w \in Wallets, ReadRow(r, w), table' = table
    PROVE  seen'[r] = Visible(r, w)'
<1>1. CASE Visible(r, w) = NoRow
  <2>1. seen'[r] = EmptyRow /\ dirty'[r][w] = EmptyRow
    BY <1>1 DEF ReadRow, TypeOK
  <2> QED BY <2>1, RowFacts DEF Visible
<1>2. CASE Visible(r, w) # NoRow
  <2>1. seen'[r] = Visible(r, w) /\ dirty' = dirty
    BY <1>2 DEF ReadRow, TypeOK
  <2> QED BY <2>1 DEF Visible
<1> QED BY <1>1, <1>2

\* A step of the only request in hand, or its end.
LEMMA SerialMove ==
    ASSUME OneInHand, NEW r \in Requests, Open(r), \A q \in Requests \ {r} : pc'[q] = pc[q],
           pc'[r] = "debit_write" => seen'[r] = Visible(r, DebitWallet(r))',
           pc'[r] = "credit_write" => seen'[r] = Visible(r, CreditWallet(r))',
           suspect' = {}
    PROVE  SerialInv'
<1>1. \A q \in Requests \ {r} : ~Open(q) /\ ~Open(q)'
  BY DEF OneInHand, Open
<1>2. OneInHand'
  BY <1>1 DEF OneInHand
<1>3. Current'
  BY <1>1 DEF Current, Open, Stages
<1> QED BY <1>2, <1>3 DEF SerialInv

\* With one worker, every step keeps the balance about to be written current.
LEMMA SerialStep ==
    ASSUME Workers <= 1, \A op \in Ops : Clean(op), RangeInv, SerialInv, [Next]_vars
    PROVE  SerialInv'
<1>0. TypeOK /\ JobsKnown /\ OneInHand /\ suspect = {}
  BY DEF RangeInv, SerialInv
<1>1. ASSUME NEW r \in Requests, NEW op \in Ops, Submit(r, op) PROVE SerialInv'
  <2> DEFINE S == {q \in Requests : Open(q)}
  <2>1. S = {}
    <3>1. Cardinality(S) < Workers
      BY <1>1 DEF Submit
    <3>2. CASE \E q \in S : TRUE
      <4>1. PICK q \in S : TRUE
        BY <3>2
      <4>2. S = {q}
        BY <1>0, <4>1 DEF OneInHand
      <4>3. Cardinality(S) = 1
        BY <4>2, FS_Singleton
      <4> QED BY <3>1, <4>3, WalletAssumption
    <3> QED BY <3>2
  <2>2. /\ \A q \in Requests \ {r} : pc'[q] = pc[q]
        /\ pc'[r] \in {"credit_read", "commit", "debit_read", "refused"}
        /\ UNCHANGED suspect
    BY <1>0, <1>1 DEF Submit, TypeOK
  <2>3. \A q \in Requests \ {r} : ~Open(q)'
    BY <2>1, <2>2 DEF Open
  <2>4. OneInHand'
    BY <2>3 DEF OneInHand
  <2>5. Current'
    BY <2>2, <2>3 DEF Current, Open, Stages
  <2> QED BY <1>0, <2>2, <2>4, <2>5 DEF SerialInv
<1>2. ASSUME NEW r \in Requests, DebitRead(r) PROVE SerialInv'
  <2>1. Open(r) /\ DebitWallet(r) \in Wallets
    BY <1>0, <1>2, JobFacts DEF DebitRead, Open, Stages
  <2>2. seen'[r] = Visible(r, DebitWallet(r))'
    <3>1. UNCHANGED <<table, job>> /\ ReadRow(r, DebitWallet(r))
      BY <1>2 DEF DebitRead
    <3>2. \A w \in Wallets : ReadRow(r, w) => seen'[r] = Visible(r, w)'
      BY <1>0, <3>1, ReadsCurrent
    <3> QED BY <2>1, <3>1, <3>2 DEF DebitWallet, Visible
  <2>3. /\ \A q \in Requests \ {r} : pc'[q] = pc[q]
        /\ pc'[r] # "credit_write" /\ suspect' = {}
    BY <1>0, <1>2 DEF DebitRead, TypeOK
  <2> QED BY <1>0, <2>1, <2>2, <2>3, SerialMove
<1>3. ASSUME NEW r \in Requests, CreditRead(r) PROVE SerialInv'
  <2>1. Open(r) /\ CreditWallet(r) \in Wallets
    BY <1>0, <1>3, JobFacts DEF CreditRead, Open, Stages
  <2>2. seen'[r] = Visible(r, CreditWallet(r))'
    <3>1. UNCHANGED <<table, job>> /\ ReadRow(r, CreditWallet(r))
      BY <1>3 DEF CreditRead
    <3>2. \A w \in Wallets : ReadRow(r, w) => seen'[r] = Visible(r, w)'
      BY <1>0, <3>1, ReadsCurrent
    <3> QED BY <2>1, <3>1, <3>2 DEF CreditWallet, Visible
  <2>3. /\ \A q \in Requests \ {r} : pc'[q] = pc[q]
        /\ pc'[r] # "debit_write" /\ suspect' = {}
    BY <1>0, <1>3 DEF CreditRead, TypeOK
  <2> QED BY <1>0, <2>1, <2>2, <2>3, SerialMove
<1>4. ASSUME NEW r \in Requests, DebitWrite(r) PROVE SerialInv'
  <2>1. pc[r] = "debit_write" /\ Open(r) /\ job[r] \in Ops
    BY <1>0, <1>4, JobFacts DEF DebitWrite, Open, Stages
  <2>2. Mismatch(r, DebitWallet(r), job[r].amount, "available") = {}
    <3>1. Recorded(job[r].amount) = job[r].amount
      BY <2>1, CleanRecorded
    <3>2. seen[r] = Visible(r, DebitWallet(r))
      BY <2>1 DEF SerialInv, Current
    <3> QED BY <3>1, <3>2 DEF Mismatch, Buckets
  <2>3. suspect' = {}
    BY <1>0, <1>4, <2>2 DEF DebitWrite
  <2>4. /\ \A q \in Requests \ {r} : pc'[q] = pc[q]
        /\ pc'[r] \in {"commit", "credit_read", "records"}
    BY <1>0, <1>4 DEF DebitWrite, TypeOK
  <2> QED BY <1>0, <2>1, <2>3, <2>4, SerialMove
<1>5. ASSUME NEW r \in Requests, CreditWrite(r) PROVE SerialInv'
  <2>1. pc[r] = "credit_write" /\ Open(r) /\ job[r] \in Ops
    BY <1>0, <1>5, JobFacts DEF CreditWrite, Open, Stages
  <2>2. Mismatch(r, CreditWallet(r), CreditAmount(r), job[r].bucket) = {}
    <3>1. Recorded(CreditAmount(r)) = CreditAmount(r) /\ job[r].bucket \in Buckets
      BY <2>1, CleanRecorded DEF CreditAmount, Clean
    <3>2. seen[r] = Visible(r, CreditWallet(r))
      BY <2>1 DEF SerialInv, Current
    <3> QED BY <3>1, <3>2 DEF Mismatch
  <2>3. suspect' = {}
    BY <1>0, <1>5, <2>2 DEF CreditWrite
  <2>4. /\ \A q \in Requests \ {r} : pc'[q] = pc[q]
        /\ pc'[r] \in {"commit", "records"}
    BY <1>0, <1>5 DEF CreditWrite, AfterCredit, TypeOK
  <2> QED BY <1>0, <2>1, <2>3, <2>4, SerialMove
<1>6. ASSUME NEW r \in Requests, CreditFail(r) \/ Records(r) \/ Commit(r) \/ Crash(r)
      PROVE  SerialInv'
  <2>1. Open(r) /\ suspect' = {}
    BY <1>0, <1>6 DEF CreditFail, Records, Commit, Crash, Open, Stages
  <2>2. \E stage \in {"commit", "records"} \cup Final : pc' = [pc EXCEPT ![r] = stage]
    BY <1>6 DEF CreditFail, AfterCredit, Records, Commit, Crash, Final
  <2>3. /\ \A q \in Requests \ {r} : pc'[q] = pc[q]
        /\ pc'[r] \notin {"debit_write", "credit_write"}
    BY <1>0, <2>2 DEF TypeOK, Final
  <2> QED BY <1>0, <2>1, <2>3, SerialMove
<1>7. CASE UNCHANGED vars
  BY <1>7 DEF vars, SerialInv, OneInHand, Open, Current, Visible, DebitWallet, CreditWallet
<1> QED BY <1>1, <1>2, <1>3, <1>4, <1>5, <1>6, <1>7 DEF Next, Step, Finished

\* It takes two workers to lose an update: with one, amounts in whole cents and buckets
\* that exist, every balance is what the records say.
THEOREM OneWorkerLosesNothing ==
    ASSUME Workers <= 1, \A op \in Ops : Clean(op)
    PROVE  Spec => []BooksBalance
<1>1. Init => SerialInv
  BY DEF Init, SerialInv, OneInHand, Open, Current, Stages
<1>2. RangeInv /\ SerialInv /\ [Next]_vars => SerialInv'
  BY SerialStep
<1>3. SerialInv /\ BooksUnlessSuspect => BooksBalance
  BY DEF SerialInv, BooksUnlessSuspect, BooksBalance
<1>4. Init => RangeInv
  BY RangeInit
<1>5. RangeInv /\ [Next]_vars => RangeInv'
  BY RangeStep
<1> QED BY <1>1, <1>2, <1>3, <1>4, <1>5, BooksKept, PTL DEF Spec
=============================================================================
