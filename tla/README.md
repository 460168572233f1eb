# SikaRemit: models, checks and proofs

SikaRemit is a remittance and payment platform: a Django backend (`backend/`), a Next.js web client
(`frontend/`) and a React Native app (`mobile-app/`). This directory holds TLA+ models of the parts of
it whose correctness depends on interleavings, failures and leftovers of earlier calls, the TLC
configurations that check them on small instances, and TLAPS proofs of what matters most.

Nine parts are modelled: the **wallet** (money), **transaction administration** (refunds, overrides and
disputes) with **payments** through gateways on the same rows, the mobile app's **offline queue**, the
**web session** and the **mobile session**, **identity verification** (KYC), **exchange rates**, and
**merchant applications and invitations**. The inventory below lists the rest, and *Not modelled* says
why it is left out.

| module | models | source |
|---|---|---|
| `Money` | what a wallet operation may ask for; conversion, rounding, rows written | `payments/services/currency_service.py`, `payments/models/transaction.py` |
| `Wallet` | the operations step by step, over rows, row locks and transactions | `currency_service.py`, `payments/models/currency.py` |
| `Settlement` | abstract: an order is settled whole or rejected | what `Wallet` is shown to implement |
| `WalletProofs` | types, balances in range, books kept, records whole, the safety part of `Settlement` | |
| `TransactionAdmin` | administrators' and customers' requests on Transaction and Dispute rows | `payments/views/main_views.py` 935-1233 and 1474-1487, `payments/models/dispute.py` |
| `Payments` | the above, composed with the payments that create and settle such rows | `payments/services/payment_processing_service.py` 18-190, `payments/views/main_views.py` 1235-1318, `payments/gateways/` |
| `PaymentsProofs` | types, disputes, refunds, what becomes of a payment | |
| `OfflineQueue` | the queue in AsyncStorage and the calls working on it | `mobile-app/src/services/offlineService.ts` |
| `OfflineQueueProofs` | the drain flag, types, retries, double payments, what stays stored | |
| `WebSession` | interceptors, login, logout, tabs | `frontend/lib/api/axios.ts`, `frontend/lib/auth/context.tsx` |
| `WebSessionProofs` | types, single flight, nobody left waiting, tokens that match | |
| `Kyc` | documents, reviews, submissions and the two verification columns | `users/views/kyc_views.py`, `users/views.py`, `users/services.py`, `users/models.py`, `users/serializers.py`, `users/admin.py`, `merchants/views.py` 744-790 |
| `KycProofs` | types, the two columns, the order of approvals, verdicts | |
| `MobileSession` | interceptors, login, logout, start of the app | `mobile-app/src/services/api.ts`, `mobile-app/src/store/authStore.ts` |
| `MobileSessionProofs` | types, what is stored, no mixture of logins | |
| `ExchangeRates` | the rate in force, and the cache | `payments/services/currency_service.py` 120-236, `payments/views/currency_views.py`, `payments/models/currency.py` |
| `ExchangeRatesProofs` | types, answers, gaps, the last rate | |
| `MerchantInvitations` | applications, reviews, invitations, acceptance | `merchants/views.py`, `merchants/admin_views.py`, `merchants/models.py` |
| `InvitationsProofs` | types, invited once, closed stays closed | |
| `MC*` | small instances of these | |

`PROJECT.json` maps every definition that models code to its lines.

## Inventory

Paths below are relative to `backend/` unless they start with `frontend/` or `mobile-app/`.

**Execution.** The backend runs several gunicorn workers (`PRODUCTION_DEPLOYMENT.md`: four) and Celery
workers over one PostgreSQL database at READ COMMITTED, the default; `ATOMIC_REQUESTS` is off
(`core/settings.py` 150-177), so each query is its own transaction unless code says
`transaction.atomic`. There is no `select_for_update` and no `F()` update on the paths modelled:
handlers load an object, change it in Python and save *all* of its columns. That is the system's main
hazard and what the backend models are about. The clients run one piece of JavaScript at a time, up
to an `await`; what interleaves there are promises, tabs, storage and kills of the app.

| component | state | operations | what is hard | correct means |
|---|---|---|---|---|
| **Wallet service** | `WalletBalance` rows (available, pending, reserved per user and currency), `Transaction` rows | add_to_wallet, deduct_from_wallet, transfer_between_wallets (exchange), transfer_to_user, pay_bill, buy_airtime | lost updates, ignored results of nested blocks, deadlocks, receivers that raise, column limits, rounding | balances in range, equal to what the records say, records all or nothing, every request answered |
| **Transaction administration** | `Transaction.status`, `description`, `Dispute` | override_status, process_refund, manual_complete, create_dispute, resolve_dispute, PATCH, DELETE | several requests on one row, no transaction around a handler, handlers that fail half way | a refund stays, one dispute per transaction, marks that tell the truth |
| **Payments and gateways** | the `Transaction` a payment creates, the provider's payment page | process_payment behind `POST /payments/process/` and `POST /payments/payments/` | the gateway is asked between two commits and without a time limit; a worker lost meanwhile; many error paths | a row before the provider is asked, and in the end the row says what the gateway said |
| **Offline queue** (mobile) | one JSON array in AsyncStorage; `_isOnline`, `_processingQueue`, the listener | queue, remove, clear, retry, process; reconnections | every operation rewrites the array it read before an await; lost answers; storage errors; kills | one drain at a time, nothing forgotten, nothing paid twice without a failed attempt |
| **Web session** | localStorage, sessionStorage, cookies, `isRefreshing`, `failedQueue`, React state | requests and their refresh, login, logout, page load, storage event | many 401s at once, refreshes that fail or come late, several tabs | one refresh, nobody left waiting, tokens of one login, signed out means signed out |
| **Mobile session** | three items in the secure store, the auth store | calls with their refresh, login, logout, checkAuth | every refused call refreshes by itself; items written one by one; kills and failing writes | stored items of the user shown; no mixture of logins; calls end |
| **KYC** | `Customer.kyc_status` and `kyc_verified`, `KYCDocument`, `MerchantKYCSubmission`, `MerchantCustomer` | upload, complete, resubmit, review, decide, suspend, PATCH and forms | two columns for one fact, full-row saves, decisions of several queries | verified by a review or by hand, never by accident; approvals in order; a verdict undone on purpose |
| **Exchange rates** | `ExchangeRate.is_latest`, a cache | set_exchange_rates, update_exchange_rates, get_exchange_rate | clear-then-insert in two queries beside a job in one transaction, row locks | never without a rate, the last one in force, nothing rolled back shown |
| **Merchant invitations** | `MerchantApplication`, `MerchantInvitation`, the accounts opened | apply, review, invite, resend, cancel, validate, accept | two reviewers, expiry, three queries per acceptance | invited once, closed stays closed |
| Webhooks | `Transaction.status` | bank, mobile money, card events | none reaches a row at this commit | |
| Subscriptions | `Subscription` status, plan, periods, usage | create, cancel, reactivate, change_plan, PATCH | full-row saves, a cancellation nobody carries out | |
| Transfers and remittances | `DomesticTransfer`, `CrossBorderRemittance` | create, process, exempt | check-then-save | processed once |
| Scheduled payouts, invoices, bills, telecom, POS | one status column each | CRUD | little; processing is partly a TODO | |
| USSD | session, menu position | one step per callback | sessions that overlap or expire | |
| Accounts | users, sessions, one-time tokens, MFA | register, login, reset, verify | tokens used twice | |
| Notifications | `Notification` | a receiver on every Transaction save | an exception undoes the sender's work | |
| Social payments, referrals, budgeting | balances of groups, rewards | no route leads to them | | |
| Compliance, dashboards, merchants' shops, integrations, core, pages, deployment | records or none | CRUD, reports, configuration | no interaction beyond foreign keys | |

**How they interact.** Clients call REST endpoints. The wallet is used by `wallet_views.py` and the
USSD views, and writes `Transaction` rows. Saving a completed `Transaction` runs a receiver
(`notifications/signals.py` 10-11) inside the same database transaction. Administrators
change `Transaction` rows that wallet and payment code created, customers edit and delete their own; in
`Payments` all of them meet. The wallet converts with the rates `ExchangeRates` is about. What `Kyc`
decides is read by the gates before a transfer, and suspends a merchant's customer. The offline queue calls the payment
endpoints after the fact; all authenticated calls of the web client pass the interceptors.

**State of the commit.** Some code cannot run as it stands, which the models respect rather than
repair:

- The notification receiver always raises (`services.py:59` calls an undefined method), so at this
  commit every wallet credit and debit is rolled back and refused. `Wallet` takes what the receiver
  does as the parameter `ReceiverOutcomes`: `{"raises"}` is today's code, `{"returns"}` the code with only that call repaired; the run `wallet`
  has both. The lost update of two requests on one wallet is therefore latent today and no finding. In `TransactionAdmin` and `Payments` the same
  receiver answers for the insertion of a completed or failed row only (`SaveRaises`).
- `wallet_views.py`'s deposit and withdrawal actions and `transfer_to_sikaremit_wallet`, and the P2P
  branch of `process_payment` in `main_views.py`, end in an exception on every path.
- With a fee configuration, logging the fee breaks the transaction: `FeeOutcomes`.
- The bank webhooks look up a field that does not exist and answer 400.
- Stripe and Flutterwave are handed a customer without the attributes they need, so that card payments
  end without a result and bank payments with a failure; Paystack opens a payment page, and for the
  remaining kinds a mock gateway reports success (`GatewayResults`).
- The logout endpoint calls an undefined method and is sent no refresh token, so nothing revokes it:
  in `WebSession` a logout revokes nothing.

## Wallet

**State.** `table` is the committed `WalletBalance` rows, `ledger` the committed `Transaction` rows
(as request and `transaction_type`), `booked` the sum of their amounts per wallet. Per request, `pc`
and `job` say where it stands and what it was asked; `seen` is the row it last read, which is the
Python object; `dirty` are its uncommitted row versions (holding one is holding the row lock), `book`
and `notes` the uncommitted records, `answer` what the function will return.

**Actions.** `Submit` is the entry of an operation up to the first query on a wallet (conversion, fee).
`DebitRead`/`DebitWrite` are deduct_from_wallet before and after the point where another worker may
commit; `CreditRead`/`CreditWrite` are add_to_wallet; `CreditFail` is its `except` clause, with the
rollback to the savepoint; `Records` writes the p2p, bill and airtime rows; `Commit` ends the outer
block (`return False` inside it commits as well); `Crash` is a lost worker. Row locks are taken by
writes, kept to the end, waited for, and a cycle of waits is broken by failing one statement, as
PostgreSQL does. READ COMMITTED is `Visible`: one's own version, else the last committed one.

**Properties.** `InRange`: no column is stored negative or too wide. `BooksUnlessSuspect`: opening
balance plus records equals balance, for every wallet no *named* hazard touched; the history variable
`suspect` collects the wallets where a row was saved over a version it was not computed from, an
unknown `balance_type` was credited, or an amount has more decimals than `Transaction.amount` keeps.
`BooksBalance` is the same without the exception, a theorem for one worker. Two workers and a receiver
that returns violate it, which the code at this commit cannot show, since its receiver raises.
`RecordsBacked`: both P2P rows or neither, and no service row without its deduction.
`RefusedLeavesNoTrace`: a request answered False, or lost, leaves no record although `return False`
commits. `EveryRequestAnswered`: lock waits end. `ImplementsSettlement`: the records refine
`Settlement`, in which an order is settled in one step or rejected. `Settlement!MayCredit` shows how
weak the promise must be: transfer_between_wallets and transfer_to_user ignore what add_to_wallet
returns (`currency_service.py` 403, 436), so their credit may be dropped while the debit is kept.

**Fairness.** Weak fairness of `Step(r)`: a worker that holds a request runs on. It is enough because
a waiting statement is either enabled again when the lock goes, or in a cycle, where `CreditFail`
breaks it. No fairness on arrivals or crashes.

**Bounds.** `wallet`: two requests at once over all sixteen operations on the wallets of three users
and two currencies, both receiver outcomes, both fee outcomes, a user without profile, an unknown
bucket; limits (4) one or two above the balances, so that overflow occurs, and a cent of two units, so
that rounding occurs. A search with three requests of seven crossing operations (a lock holder, a waiter
and an overwriter) found the same. The proofs remove these bounds for everything but liveness.

## Transaction administration and payments

**State.** `row` is each Transaction's status and the notes in its description, `dispute` its Dispute;
`seen` and `found` are the objects a handler loaded. For payments, which are named by the row they
create, `at` is where process_payment stands, `result` what came of asking the gateway, `opened` the
payments for which Paystack has opened a payment page.

**Actions.** Of a request (`TransactionAdmin`), one per query: `Load` (get_object and the handler's
checks), `LookForDispute`, `CreateDispute`, `ResolveDispute`, `SaveRow` (all columns; a deleted row is
inserted again; a description that is too long is a DataError), `DeleteRow`, `Crash`. Of a payment
(`Payments`): `Create`, `Ask`, `SaveOutcome` (all columns of the object made by `Create`), `Amend` (the
`except` clause), `Refuse`, `Lose`. `PaymentsSpec` interleaves them on the same rows: the gateway is
asked without a time limit, so anything may happen to the row meanwhile.

**Properties.** `RefundUndoneOnlyByDisputeOrOutdatedLoad`: the exact ways in which a refund can be
undone: an outdated load, a dispute resolved with 'complete', or the outcome of the payment, which may
arrive after somebody has completed and refunded the row by hand. `PaymentAccounted`: a payment nobody
else touched ends as the gateway answered, stays pending only if its worker was lost, and no provider is
asked without a row. `DisputeMarkMeansResolved`, `DisputeKept`: the order of the two saves and the
one-to-one column hold what they are meant to. No fairness: a handler waits for nothing, and nothing
ends a gateway call that hangs.

**Bounds.** One transaction that exists, or that a payment is about to create (rows do not interact),
three requests at once (loader, refunder, deleter), symmetric, every kind of task and of method, a
description that holds two notes.

## Offline queue

**State.** `queue` is what AsyncStorage holds, `online`, `processing` and `listening` are the service's
fields. A *task* is one call of an exported function until its promise settles: `got` is the array it
read, `entry` the transaction it works on as it copied it, `todo` the rest of processQueue's snapshot,
`update` the fields updateTransaction will overwrite. `executed` counts what the server carried out.

**Actions.** The calls (`QueueTransaction`, `Remove`, `ClearCompleted`, `ClearQueue`,
`RetryTransaction`, `ProcessQueue`), the listener (`Initialize`, `HandleNetworkChange`, `Cleanup`), and
the pieces between two awaits: reads (`ReadToEdit`, `ReadPending`, `Find`, `Refind`, `ReadToUpdate`),
the write of the copy (`Store`), the request and its outcomes (`Send`, `Return`, `Throw`), the loop
(`ProcessNext`, `FinishDrain`), storage errors (`StoreFails`; a failed read is logged and becomes an
empty queue, `Loads`), and `Kill`.

**Properties.** `FlagMeansDrain`: the flag is up exactly while one drain works, so there are not two
and it is not left behind. `RetriesEarned`: counts come from failed attempts although they are computed
from copies. `PaidOncePerAttempt` and `NothingForgotten` hold for every payment outside `suspect`, the
ids touched through an outdated copy of the queue (a lost update), a failed read, or a retry of a
transaction that was not at rest: one that is not 'failed' when retryTransaction resets it, or no longer
'pending' when it goes on, because a drain has taken it up in between. The last is a real double
payment: a failed payment is retried by hand just as the device reconnects, and both the retry and the
drain send it. Nothing in the request identifies it to the server as the same payment. A payment whose
answer was lost is counted as a failed attempt and sent again; the models count that in `caught`.
`CompletedMeansPaid` is violated (`offline_completed`): buyAirtime, buyDataBundle and payBill report
errors as results, which the queue ignores.

**Fairness.** None, and no liveness is claimed: nothing in the code brings a drain about except a
reconnection or a call, and an entry left in 'processing' by a kill stays there.

**Bounds.** Two payments of the kinds that throw, two calls at a time, four calls in all, two retries,
storage errors on, calls symmetric: enough for two operations to overlap, a retry beside a drain, and a drain over two
entries one of which is removed meanwhile. A search with five calls found the retry race above.

## Web session

**State.** `local`, `cookie` and `session[b]` are the browser's stores; `shown`, `default`,
`refreshing`, `signingOut` and `leaving` belong to the page in tab b; `req` are the requests with their
stage, tab, token and `_retry`; failedQueue is the set of those at "waiting". Tokens carry the number of
their login; `expired` and `lapsed` are the access and refresh tokens past their lifetime.

**Actions.** `Request`, `Judge` (the server), `Deliver`, then the 401 branches of the response
interceptor: `Wait`, `Refresh`, `GiveUp`; `Renew` is the token endpoint (no rotation, `SIMPLE_JWT` in
`core/settings.py` 248-251), `Renewed` and `RefreshFailed` are the two ends with their `finally`. `Login`, `Logout`/`SignOut` (before
and after the await), `StorageEvent`, `Load` (a new page: module variables and React state are gone),
`Expire`, `Lapse`.

**Properties.** `RefreshAlone`, `NobodyLeftWaiting`, `RequestsSettle`: the single-flight refresh.
`TokensMatch`: what localStorage keeps is of one login unless `late`, the history of a refresh that
ended after its refresh token had been replaced or removed; a logout or login in another tab while a
refresh is under way does that, and the old access token is then stored over the new one.
`SignedOutEverywhere` is violated (`web_sign_out`): logout leaves the sessionStorage that login filled.

**Fairness.** Weak fairness of `Progress(r)`: a request is answered or fails, and its handler runs.
axios' own requests have a time limit (10 s). The refresh is a bare `axios.post` without one, so that
the browser's network stack has to end it; this is assumed. Logins, reloads and expiry need not happen.

**Bounds.** `web_session`: one tab, three requests (one refreshing, one waiting, one between), one
login, one renewal. `web_tabs`: two tabs, two logins, one request, with tabs and requests symmetric (no
liveness there). Every pair of overlapping refresh and login or logout occurs.

## Mobile session

**State.** `storage` is the three items of the secure store, each named by the login it comes from;
`screen` is the next storage call of login or logout, or where the user is; `call` are the calls through
the interceptors, the one of logout among them. **Actions.** A call is sent (`Request`), answered or
refused (`Answer`), reads the refresh token (`ReadRefresh`), refreshes (`AnswerRefresh`), stores
(`StoreAccess`) or removes item by item (`Clear`). `Login`, `LoginAnswered`, `SaveItem`, and `Logout`,
`TellServer`, `ServerTold`, `DropItem` are the pieces of the store between two awaits. `WriteFails` is a
rejected write, `Restart` a kill at any point and checkAuth after it.

**Properties.** `StorageMatchesScreen`: what is stored is of the user shown, and there is none when
nobody is signed in, unless a call wrote over items that were not its own (`crossed`: a late refresh, or
one that failed and cleared the items of the next login; the app has no single flight). `OneLogin`: one
interruption, wherever it strikes, mixes no two logins. `CallsSettle`: calls and logouts end, although
the call a logout makes goes through the same interceptor. **Fairness.** Weak fairness of the store's
steps and of each call's: promises settle. The client's own calls have a time limit of 30 s
(`mobile-app/src/constants/api.ts` 3); the refresh is a bare `axios.post` (`api.ts` 48) without one, so
that its end is an assumption about the network stack, as in the web client. None for requests, logins,
logouts or restarts. **Bounds.** Two calls and that of logout, two logins, one interruption
half way; restarts without limit. With one login more a call can outlive two of them; a search of the
safety properties with three logins found the same, and the proofs hold for any number.

## Identity verification

**State.** The rows of one customer (`customer`, `document`, `submission`, `merchant`), and per worker
the next query (`at`), the request (`task`: its kind, its document, the columns it gives) and the rows in
memory (`held`). **Actions.** One per query: `LoadOwnProfile`, `LoadCustomer`, `LoadDocument`,
`LoadSubmission`, `LoadMerchantCustomer` begin a request; `StartKycProcess` (saves two columns only),
`CreateDocument`, `LoadProfileOfDocument`, `SaveDocument`, `SaveCustomer`, `DeleteDocument`,
`SaveSubmission` (twice in an escalation), `DeleteSubmission`, `LoadRelated`, `SaveMerchantCustomer`
carry it on; `FileDocument`, `EnterSubmission` and `ActivateSelected` are requests of one query; `Crash`
ends one. The comment at `Task` lists the requests. Besides the customer's endpoints and the reviews,
they are all those through which the modelled columns can be given by hand: PATCH, DELETE and the admin
forms of Customer (by its owner too), MerchantCustomer, KYCDocument and MerchantKYCSubmission, the words
bulk_decide does not check, and what merchants do (onboard, suspend, activate, submit_kyc, which stores
'pending').

**Properties.** All are action properties that name the exact ways in which something happens, because
a PATCH may give most columns any value. `FlagFollowsVerdict`: kyc_status and kyc_verified come apart
through a request that gives one of them or a row loaded while they were apart; not through a review,
nor through the two-column save of a start over a row that has changed. `VerifiedAfterReview`: somebody
becomes verified through a review that has saved its document, a request that gives kyc_verified, or a
row loaded while it was set; no sequence of uploads, completions and resubmissions does it.
`ApprovedInOrder`: a decision approves the merchant's customer after the submission and the document,
wherever decisions die and whatever is deleted meanwhile. `RejectedIsSuspended`: crossing decisions and
suspensions never mix their columns into a rejected customer who is active. `VerdictStands`: the ways a
verdict is taken back. `ResubmitsWhenAllowed` is violated (`kyc_resubmit`): resubmit_kyc tests the status
of the row it loaded ("Only allow resubmission if rejected or not started", `kyc_views.py` 171) and saves
all columns of it after a review has approved the customer. No fairness: nothing waits.

**Bounds.** One document (its key is free again after a deletion), two workers serving any number of
requests. The requests come in four `Mixes`, one to a behaviour: the customer's process with its reviews;
the same with patched profiles; decisions beside a merchant's actions, deletions and withdrawals; patched
relations and submissions. Two workers and one row of each kind suffice for every pair of overlapping
requests of a mix. The proofs hold for any mix, all requests together included.

## Exchange rates

**State.** `latest` are the committed rows with is_latest, `cache` the rates of the last update; per
worker what its transaction has cleared and added. **Actions.** set_exchange_rates clears
(`clear_first`), makes the object (`MakeRate`, which takes the timestamp), and its save clears again
(`clear`) and inserts (`insert`), each query committed; update_exchange_rates does so for every currency in one
transaction, then fills the cache. A query that meets a row another transaction has updated waits
(`Wait`) and goes on without the rows added meanwhile (`GoOn`): READ COMMITTED. `Fail` strikes at any
query, `CacheExpires` at any time.

**Properties.** `RateMissingOnlyInGap`: a currency is without a rate only between the two queries, or
after a request failed there or an update left the currency out. `LastWriteStays`: the row committed last
stays in force; two writers can leave two rates marked latest, never none. `AnswersWereStored`: no reader
is given a rate that was rolled back. No fairness. **Bounds.** Two currencies, two workers, three
new rows: two requests, two updates, or one of each, crossing; currencies and workers symmetric.

## Merchant applications and invitations

**State.** `application`, `invitation` (status, expiry), `opened` (the account made with an invitation),
`profile` (accounts with a Merchant row), `today`; per worker the row it loaded. **Actions.**
`Apply`, the two queries of a review (`SaveApplication`, `CreateInvitation`), `Invite`,
`SaveInvitation` (validate, resend, cancel), the three queries of an acceptance (`LookForUser`,
`CreateUser`, `CreateProfile`, the last in a signal), `DeleteApplication`, `NextDay` (a tick of
the clock), `Crash`. Invitations are handled through `merchants/admin_views.py`: the view set of
`merchants/views.py` under the same name has neither `queryset` nor `get_queryset`, so that its resend,
cancel, PATCH and DELETE fail before they load a row, and its creation fails for want of `expires_at`.
Applications are reviewed through both.

**Properties.** `ApprovalInvites`: an application handled by one reviewer at a time is invited exactly
once. `ClosedStaysClosed`: a cancelled invitation stays so and an expired one is never pending again,
except through a row loaded before. `ClosedOpensNoAccount`: no account is opened with an invitation
that was closed when the acceptance loaded it. The races these leave out (two reviewers, a reviewer
lost, a resend over a cancellation, an acceptance beside one) do happen in the code; the properties show
that nothing else does. No fairness. **Bounds.** One application, two invitations, one address, two
workers, three ticks of the clock and a validity of one; the history `issued` counts to two. A search with
two addresses found the same.

## Runs

| run | expected | shows |
|---|---|---|
| `wallet` | pass | types, range, books, records, refusals, refinement of `Settlement`, every request answered |
| `transaction_admin` | pass | three requests on one transaction, old or about to be created by a payment |
| `offline_queue` | pass | all functions, two at a time, with storage errors and kills |
| `offline_completed` | violation of `CompletedMeansPaid` | a failed airtime purchase is completed |
| `web_session` | pass | the single-flight refresh, and that requests end |
| `web_tabs` | pass | types, tokens of one login |
| `web_sign_out` | violation of `SignedOutEverywhere` | signed out, and shown as signed in |
| `mobile_session` | pass | refreshes without a single flight beside logins, logouts, kills and failing writes |
| `kyc` | pass | two workers, any number of requests: the two columns, the order of approvals, verdicts |
| `kyc_resubmit` | violation of `ResubmitsWhenAllowed` | an approved customer is set back to 'not_started' |
| `exchange_rates` | pass | requests and updates crossing, with waits, failures and the cache |
| `invitations` | pass | two requests at once, two invitations that run out, an application, crashes |

Deadlock is checked in every run but `invitations`, whose requests change nothing any more once the keys
of the model are used up and every row is closed. `Finished` in `Wallet` and `Payments` is the state in which all
requests have been served. Every property of a passing run is shown to depend on the code by a
mutated definition (named `\* Mutant:` in the modules), with which TLC finds it violated.

    tlc -workers 2 -config wallet.cfg MCWallet.tla
    tlapm WalletProofs.tla

## Proofs

Every invariant and every action property that a passing run checks is a theorem, for every value of
the constants under the named assumptions. These give the types of the constants and say that the
values that stand for "nothing there" (`None`, `Nothing`, `Gone`, `NoRow`, `Nobody`, `Existing`) are
none of the values proper, as null is none in the code; TLC evaluates them in the runs. The sets of
users, requests, tabs, documents and so on may be of any size, infinite ones included.

- `WalletProofs`. `TypeCorrect`: `TypeOK` with the fact that a request in hand has an operation.
  `BalancesInRange`: `InRange` alone is not inductive, because nothing locks the row between the
  comparison and the UPDATE. `RangeInv` adds that *every* version of a row, read or uncommitted, is in
  range and that at `debit_write` the amount is covered by the version that was read (`ReadEnough`): what
  is written is computed from that version, however outdated. This is also why the lost update never
  shows as a negative balance. `BooksKept`: `BooksInv` adds that row locks are exclusive, that an
  uncommitted row differs from the committed one by exactly what its holder will book
  (`BookedInFlight`), and that a row inserted for a credit is untouched until then (`FreshUntouched`),
  which is what the rollback to the savepoint relies on. `RowsBacked`, `RefusedAreTraceless` and
  `SettlesSafely` follow from `LedgerInv`, which says for each stage which records and which amounts the
  transaction holds (`Progress`: nothing, the debit, the debit and perhaps the credit, all of it), and
  that the ledger has the entries of a settled order for accepted requests and none for others
  (`Ledgered`). `SettlesSafely` is the refinement of `Settlement` without its fairness: the initial
  states map to the promise's, `Submit` places or rejects an order, an accepted `Commit` settles it, a
  refused one, a failing `Records` and a `Crash` reject it, and every other step is a stutter.
  `OneWorkerLosesNothing`: `BooksBalance`, without any exception, holds with one worker, for amounts in
  whole cents and buckets that exist. `SerialInv` says that one request is
  in hand and that the row it is about to save is computed from the one that is there.
- `PaymentsProofs`. `PaymentsTyped` from `TypeInv`: what handlers hold passed their checks, and nobody
  works on the row of a payment that has not begun. `DisputesKept` and `MarksMeanResolved` from
  `DisputeInv`: marks are sound on rows *and* in the memory of handlers that may write an outdated row
  back, and a handler about to save its mark has resolved the dispute. `PaymentsAccounted` from
  `Account`, what the row says at each place of a payment nobody else touched.
  `RefundsUndoneOnlyKnowingly` is the action property, step by step.
- `OfflineQueueProofs`. `DrainAlone`: `FlagInv` adds where a call of processQueue may stand
  (`TasksWellFormed`), so that each of its ends releases the flag. `QueueTyped` and
  `RetriesAreFailures` from `CopyInv`: every copy of a transaction, stored, read, snapshot or in hand,
  belongs to `Good`, the entries whose retries were earned, a set that only grows; and ids being queued
  are drawn apart. `PaidOnce` from `PaidInv`: of a payment outside `suspect`, at most one call is between
  its mark and its record, what is stored says 'processing' meanwhile, and the copy about to be marked is
  what is stored. `StoredStays` needs `CopyInv` only.
- `WebSessionProofs`. `OneRefreshAtATime` and `NobodyWaitsInVain` from `FlightInv`: both properties
  together, with `RequestsPlaced`. Steps are `Quiet` (a request moves without starting or ending a
  refresh), a start, or a `Release` (the refresh ends or the page is reloaded, and the waiting requests
  leave with it). `SessionTyped` and `StoredTokensMatch` from `StoreInv`, whose `Grants` says that a
  token on its way is of the login whose refresh token was sent.
- `MobileSessionProofs`. `SessionTyped`; `StorageFollows` and `NoMixture` from `Base`, which says which
  login items and calls come from (a call that clears items is of an earlier login than those it meets,
  or gave up the latest), and `Stored`: `Single` for up to one interruption, `Zero` without any.
- `KycProofs`. `KycTyped` from `TypeInv`, which says what a worker that serves a request holds as it
  comes to each query, and what it has saved before (`Ready`). `ColumnsAgree`, `VerifiedByReview`,
  `ApprovalsInOrder`, `RejectionSuspends` and `VerdictsStand` are action properties under that invariant:
  few queries write each row (`CustomerWriters`, `MerchantWriters`), and what a save writes is
  determined by the request and by what `Ready` says of the row in memory.
- `ExchangeRatesProofs`. `RatesTyped`; `OnlyStoredAnswers` from `StampInv`, by which no writer's
  timestamp is committed or another's before its row is; `MissingOnlyInGap` and `LastWriteInForce` from
  `LockInv`: a row lock is held by one worker, and whoever holds or waits for the last rate of a currency
  holds or waits for all of its rates (`Whole`), so that clearing leaves either all or none.
- `InvitationsProofs`. `InvitationsTyped`; `ApprovedOnceInvitedOnce` from `CountInv`: the invitations
  issued for an application and the reviews about to issue one add up to what an approval is due;
  `OnlyPendingOpens` from `WorkerOK`, by which what a request tested on the row it loaded still holds of
  the row in its memory queries later. `ClosedRemainsClosed` is the action property.

Where an argument is by induction over data (the greatest timestamp, the positions a filter keeps), the
lemma takes a least counterexample with WellFoundedInduction: the library's induction theorems over a
predicate cannot be instantiated by the provers.

Only model-checked: liveness under fairness (`EveryRequestAnswered`, `RequestsSettle`, `CallsSettle`,
and the fairness in `ImplementsSettlement`, of which the safety part is proved) is out of the prover's
reach, as is ENABLED, which deadlock is about; and the three violated properties, which are shown by
their counterexamples.

## Disagreements between the code and what is said about it

Three have a run of their own, named above: the offline purchase marked completed, the logout that
leaves sessionStorage, and the resubmission that resets a customer approved meanwhile. Those below were met while modelling; TLC finds
the ones marked * violated when they are stated as invariants, and the models keep the behaviour.

- *Every top-up is refused at this commit: `notifications/services.py` 59 calls
  `cls.send_email_notification` for a notification of level 'payment', and the class has only
  `send_email_notification_to_address`.
- *override_status says "Cannot change status from refunded" (`main_views.py` 992-996), and
  resolve_dispute with 'complete' (1170) leaves 'refunded'.
- *KYCViewSet decides documents without touching the customer (`users/views.py` 601-621), although
  KYCDocumentViewSet says "Keep Customer KYC status in sync for direct-customer KYC" (537): a rejected document leaves
  its customer approved.
- *get_exchange_rate answers from a cache of 15 minutes that set_exchange_rates does not empty, while
  its docstring says "Get current exchange rate between two currencies from admin-set database rates"
  (`currency_service.py` 169).
- *accept_invitation never marks an invitation accepted: the signal that follows the new User
  (`users/signals.py` 6-12) has already made the Merchant row, so the view's own insertion is an
  IntegrityError. One invitation opens any number of accounts, against "Invitation has already been
  used" (`merchants/views.py` 272).
- PaymentViewSet.create promises idempotency ("Handle payment with idempotency key", "Cache successful
  responses for 24 hours", `main_views.py` 1239 and 1260). process_payment returns the Transaction
  object, which has no `get`: after a payment that went through the view answers 400 and caches nothing,
  and a repeat with the same key pays again. `POST /payments/process/` cannot render the object either:
  the customer whose row is 'completed' is always told of an error (place "error" in `Payments`).
- A mobile money payment is 'completed' once Paystack has *opened* a payment page
  (`gateways/paystack.py` 43-65); nothing looks at whether the customer pays there.
- Two gates before a transfer read different columns (`payment_processing_service.py` 556 the status,
  `compliance_service.py` 46 kyc_verified); a completion by an approved customer makes the status
  'pending_review' and leaves kyc_verified set, so that they disagree.
  `cross_border_remittance_service.py` 385 compares the status with 'verified', which it never is.
- The administrators' KYC inbox looks for 'PENDING' (`users/views.py` 887) and uploads are stored as
  'pending'.

## Not modelled

Formatting, messages, serializers, permissions and pages; the notifications sent after a commit; the
wallet views that cannot run; the offline service's data cache (independent keys with an expiry);
registration and the Google callback. Of the components without a module:

- *Webhooks*: no handler reaches a row (a field that does not exist, placeholders, logging only).
- *Subscriptions*: the customer can PATCH the status and the cancellation flags, nothing calls
  process_billing_cycle and nothing is charged; no promise about the state is left to check.
- *Transfers and remittances*: process_transfer sets a status and moves no money; the views on
  cross_border_remittance_service have no route, and those with a route fail on unknown fields.
- *Scheduled payouts*: a TODO, and a beat task whose call always fails on its arguments.
- *USSD*: the menus have no route; the callback with a route calls an undefined method.
- *Accounts*: requests on one record of the caller, many of them placeholders; the one-time tokens of
  `PasswordResetService` and the backup codes of `accounts/mfa.py` have no caller.
- *Social payments, referrals, budgeting*: no route, and imports that do not resolve.
- *Fees, compliance, dashboards, integrations, core, pages, deployment*: no state that concurrent
  operations contend for.

Within the modelled components, `PROJECT.json` says what is left out of each.

## Plan

- Of the models: the states that subscriptions, transfers and one-time tokens of accounts get once code
  calls them (see *Not modelled*), and a third worker in `kyc` should the decisions become transactions.
- Of the proofs: the refinement of an abstract queue by `OfflineQueue` outside `suspect`, and what the
  history variables (`suspect`, `late`, `crossed`, `disturbed`, `lost`) can be under a repaired code, so
  that a repair is shown to be enough by a theorem instead of a search.
