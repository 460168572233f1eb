--------------------------- MODULE ExchangeRates ---------------------------
(***************************************************************************)
(* Which exchange rate is in force.  Writers: set_exchange_rates           *)
(* (payments/views/currency_views.py), an administrator's request in which *)
(* every query commits on its own, and CurrencyService.                    *)
(* update_exchange_rates (services/currency_service.py), a job that        *)
(* replaces all rates in one transaction and then the cache.  Reader:      *)
(* CurrencyService.get_exchange_rate.                                      *)
(*                                                                         *)
(* The database reads what is committed (READ COMMITTED): a query that     *)
(* updates rows which another transaction has updated waits for its end,   *)
(* and does not see rows added while it waited.  A row no longer marked    *)
(* is_latest is never marked again and is left out of the state.  Rates    *)
(* are from the base currency; a row is known by its timestamp.            *)
(***************************************************************************)
EXTENDS Naturals, FiniteSets

CONSTANTS
    Currencies,  \* the currencies other than the base currency
    Workers,     \* requests and jobs that run at once
    MaxRows,     \* bound: rows created in the life of the model
    None

ASSUME RatesAssumption ==
    MaxRows \in Nat /\ None \notin Currencies \cup Nat \cup {"set", "update"}

VARIABLES
    latest,   \* committed ExchangeRate rows with is_latest
    cache,    \* the rates in the cache, rows of one update, or None
    clock,    \* timestamps given out
    at,       \* the next query of each worker
    job,      \* what it does: "set", "update" or None
    todo,     \* the currencies it still has to write
    cur,      \* the currency it writes
    stamp,    \* the timestamp of the row it creates
    waited,   \* the rows a query of it saw before it had to wait
    cleared,  \* rows its transaction has cleared
    added,    \* rows its transaction, or its update, has added
    dropped,  \* history: currencies whose rate a writer took and did not replace
    last,     \* history: the last row committed for a currency
    stored    \* history: timestamps of all rows committed

database == <<latest, dropped, last, stored>>
local == <<job, todo, cur, stamp, waited, cleared, added>>
vars == <<database, cache, clock, at, local>>

Row == [cur: Currencies, stamp: 0..MaxRows]
Of(rows, c) == {r \in rows : r.cur = c}

\* initialize_exchange_rates has given every currency its first rate.
First == [cur: Currencies, stamp: {0}]

Init ==
    /\ latest = First
    /\ cache = None
    /\ clock = 0
    /\ at = [w \in Workers |-> "idle"]
    /\ job = [w \in Workers |-> None]
    /\ todo = [w \in Workers |-> {}]
    /\ cur = [w \in Workers |-> None]
    /\ stamp = [w \in Workers |-> 0]
    /\ waited = [w \in Workers |-> {}]
    /\ cleared = [w \in Workers |-> {}]
    /\ added = [w \in Workers |-> {}]
    /\ dropped = {}
    /\ last = [c \in Currencies |-> 0]
    /\ stored = {0}

GoTo(w, stage) == at' = [at EXCEPT ![w] = stage]

\* Mutant: a transaction that failed is left open.
LeaveOpen(w) ==
    /\ GoTo(w, "idle")
    /\ job' = [job EXCEPT ![w] = None]
    /\ UNCHANGED <<todo, cur, stamp, waited, cleared, added>>

\* The worker is done; what it had in memory, and an open transaction, is gone.
Forget(w) ==
    /\ GoTo(w, "idle")
    /\ job' = [job EXCEPT ![w] = None]
    /\ todo' = [todo EXCEPT ![w] = {}]
    /\ cur' = [cur EXCEPT ![w] = None]
    /\ stamp' = [stamp EXCEPT ![w] = 0]
    /\ waited' = [waited EXCEPT ![w] = {}]
    /\ cleared' = [cleared EXCEPT ![w] = {}]
    /\ added' = [added EXCEPT ![w] = {}]

Commit(rows) ==
    /\ last' = [c \in Currencies |->
                  IF Of(rows, c) = {} THEN last[c]
                  ELSE CHOOSE s \in 0..MaxRows : [cur |-> c, stamp |-> s] \in rows]
    /\ stored' = stored \cup {r.stamp : r \in rows}

-----------------------------------------------------------------------------
\* Requests and jobs begin.

SetRates(w, cs) ==
    /\ at[w] = "idle" /\ cs # {}
    /\ job' = [job EXCEPT ![w] = "set"]
    /\ todo' = [todo EXCEPT ![w] = cs]
    /\ GoTo(w, "next")
    /\ UNCHANGED <<database, cache, clock, cur, stamp, waited, cleared, added>>

\* The service has answered with the rates of some currencies.
UpdateRates(w, cs) ==
    /\ at[w] = "idle"
    /\ job' = [job EXCEPT ![w] = "update"]
    /\ todo' = [todo EXCEPT ![w] = cs]
    /\ GoTo(w, "clear_all")
    /\ UNCHANGED <<database, cache, clock, cur, stamp, waited, cleared, added>>

\* The next currency.
TakeNext(w) ==
    /\ at[w] = "next" /\ todo[w] # {}
    /\ \E c \in todo[w] :
          /\ todo' = [todo EXCEPT ![w] = todo[w] \ {c}]
          /\ cur' = [cur EXCEPT ![w] = c]
    /\ GoTo(w, IF job[w] = "set" THEN "clear_first" ELSE "make")
    /\ UNCHANGED <<database, cache, clock, job, stamp, waited, cleared, added>>

\* The ExchangeRate is made, and takes its timestamp: in a request after the first
\* query over its currency, before the one its save() runs.
MakeRate(w) ==
    /\ at[w] = "make"
    /\ clock < MaxRows
    /\ clock' = clock + 1
    /\ stamp' = [stamp EXCEPT ![w] = clock + 1]
    /\ GoTo(w, "clear")
    /\ UNCHANGED <<database, cache, job, todo, cur, waited, cleared, added>>

-----------------------------------------------------------------------------
\* UPDATE ... SET is_latest = FALSE, over all currencies or over one.

\* What the query of the worker sees: what is committed, and its own changes.
Sees(w) == (latest \cup added[w]) \ cleared[w]
Scope(w) == IF at[w] = "clear_all" THEN Sees(w) ELSE Of(Sees(w), cur[w])

Locked(w, rows) == \E v \in Workers \ {w} : cleared[v] \cap rows # {}

\* Where a worker goes after it has cleared.
AfterClear(w) ==
    CASE at[w] = "clear_all" -> "next"
      [] at[w] = "clear_first" -> "make"
      [] at[w] = "clear" -> "insert"

\* Mutant: update_exchange_rates clears outside of its transaction.
ClearCommitted(w, rows) ==
    /\ latest' = latest \ rows
    /\ UNCHANGED <<cleared, added>>

\* In the request the change is committed, in the job it is the transaction's.
Unmark(w, rows) ==
    IF job[w] = "set"
    THEN /\ latest' = latest \ rows
         /\ UNCHANGED <<cleared, added>>
    ELSE /\ cleared' = [cleared EXCEPT ![w] = cleared[w] \cup (rows \cap latest)]
         /\ added' = [added EXCEPT ![w] = added[w] \ rows]
         /\ UNCHANGED latest

Clears == {"clear_all", "clear_first", "clear"}

\* In a request: the rate of the currency is taken, its own is not there yet.
Replacing == {"make", "clear", "insert"}

Clear(w) ==
    /\ at[w] \in Clears /\ waited[w] = {}
    /\ ~Locked(w, Scope(w))
    /\ Unmark(w, Scope(w))
    /\ GoTo(w, AfterClear(w))
    /\ UNCHANGED <<cache, clock, job, todo, cur, stamp, waited, dropped, last, stored>>

\* The query finds rows another transaction has changed, and waits.
Wait(w) ==
    /\ at[w] \in Clears /\ waited[w] = {}
    /\ Locked(w, Scope(w))
    /\ waited' = [waited EXCEPT ![w] = Scope(w)]
    /\ UNCHANGED <<database, cache, clock, at, job, todo, cur, stamp, cleared, added>>

\* The other transaction has ended: the query goes on with the rows it saw, those
\* that are still there.
GoOn(w) ==
    /\ waited[w] # {}
    /\ ~Locked(w, waited[w])
    /\ Unmark(w, waited[w] \cap Sees(w))
    /\ waited' = [waited EXCEPT ![w] = {}]
    /\ GoTo(w, AfterClear(w))
    /\ UNCHANGED <<cache, clock, job, todo, cur, stamp, dropped, last, stored>>

-----------------------------------------------------------------------------
NewRow(w) == [cur |-> cur[w], stamp |-> stamp[w]]

\* Mutant: the row is inserted without is_latest.
InsertUnmarked(w) ==
    /\ at[w] = "insert" /\ job[w] = "set"
    /\ Commit({NewRow(w)})
    /\ UNCHANGED <<latest, cache, clock, job, todo, cur, stamp, waited, cleared, added, dropped>>
    /\ GoTo(w, "next")

\* The INSERT of ExchangeRate.save.
Insert(w) ==
    /\ at[w] = "insert"
    /\ IF job[w] = "set"
       THEN /\ latest' = latest \cup {NewRow(w)}
            /\ dropped' = dropped \ {cur[w]}
            /\ Commit({NewRow(w)})
            /\ UNCHANGED added
       ELSE /\ added' = [added EXCEPT ![w] = added[w] \cup {NewRow(w)}]
            /\ UNCHANGED <<latest, dropped, last, stored>>
    /\ GoTo(w, "next")
    /\ UNCHANGED <<cache, clock, job, todo, cur, stamp, waited, cleared>>

\* The request has written all its rates.
SetDone(w) ==
    /\ at[w] = "next" /\ job[w] = "set" /\ todo[w] = {}
    /\ Forget(w)
    /\ UNCHANGED <<database, cache, clock>>

\* The transaction commits.  Currencies the service did not name have lost theirs.
CommitUpdate(w) ==
    LET rows == (latest \ cleared[w]) \cup added[w] IN
    /\ at[w] = "next" /\ job[w] = "update" /\ todo[w] = {}
    /\ latest' = rows
    /\ dropped' = {c \in Currencies :
                     Of(rows, c) = {} /\ (c \in dropped \/ Of(cleared[w], c) # {})}
    /\ Commit(added[w])
    /\ cleared' = [cleared EXCEPT ![w] = {}]
    /\ GoTo(w, "cache")
    /\ UNCHANGED <<cache, clock, job, todo, cur, stamp, waited, added>>

\* Mutant: the cache is filled while the transaction is still open.
CacheEarly(w) ==
    /\ at[w] = "next" /\ job[w] = "update" /\ todo[w] = {}
    /\ cache' = added[w]
    /\ UNCHANGED <<database, clock, at, local>>

\* cache.set, after the transaction.
FillCache(w) ==
    /\ at[w] = "cache"
    /\ cache' = added[w]
    /\ Forget(w)
    /\ UNCHANGED <<database, clock>>

\* Fifteen minutes have passed.
CacheExpires ==
    /\ cache # None
    /\ cache' = None
    /\ UNCHANGED <<database, clock, at, local>>

\* The worker is lost, or a query fails: a rate of zero has no inverse, a large one
\* does not fit its column, two transactions are in a deadlock.  A transaction is
\* rolled back; queries that committed stay.
Fail(w) ==
    /\ at[w] # "idle"
    /\ dropped' = IF job[w] = "set" /\ at[w] \in Replacing /\ Of(latest, cur[w]) = {}
                  THEN dropped \cup {cur[w]} ELSE dropped
    /\ Forget(w)
    /\ UNCHANGED <<latest, last, stored, cache, clock>>

Step(w) ==
    \/ \E cs \in SUBSET Currencies : SetRates(w, cs) \/ UpdateRates(w, cs)
    \/ TakeNext(w) \/ MakeRate(w) \/ Clear(w) \/ Wait(w) \/ GoOn(w) \/ Insert(w)
    \/ SetDone(w) \/ CommitUpdate(w) \/ FillCache(w) \/ Fail(w)

Next == CacheExpires \/ \E w \in Workers : Step(w)

Spec == Init /\ [][Next]_vars

-----------------------------------------------------------------------------
\* get_exchange_rate from the base currency: the cache, then the newest row; None is
\* "no rate found".
Newest(c) ==
    IF Of(latest, c) = {} THEN None
    ELSE CHOOSE s \in 0..MaxRows : /\ [cur |-> c, stamp |-> s] \in latest
                                   /\ \A r \in Of(latest, c) : r.stamp <= s

GetExchangeRate(c) ==
    IF cache # None /\ Of(cache, c) # {}
    THEN CHOOSE s \in 0..MaxRows : [cur |-> c, stamp |-> s] \in cache
    ELSE Newest(c)
-----------------------------------------------------------------------------
(* Types.  A worker at rest has no transaction open, and only an update has rows  *)
(* that are not committed.                                                        *)
TypeOK ==
    /\ latest \subseteq Row
    /\ cache = None \/ cache \subseteq Row
    /\ clock \in 0..MaxRows
    /\ at \in [Workers -> {"idle", "next", "make", "insert", "cache"} \cup Clears]
    /\ job \in [Workers -> {"set", "update", None}]
    /\ todo \in [Workers -> SUBSET Currencies]
    /\ cur \in [Workers -> Currencies \cup {None}]
    /\ stamp \in [Workers -> 0..MaxRows]
    /\ \A w \in Workers : /\ waited[w] \cup cleared[w] \cup added[w] \subseteq Row
                          /\ job[w] # "update" => cleared[w] \cup added[w] = {}
                          /\ at[w] = "idle" => waited[w] = {}
    /\ dropped \subseteq Currencies
    /\ last \in [Currencies -> 0..MaxRows]
    /\ stored \subseteq 0..MaxRows

\* The request of an administrator has taken the rate of c and not yet put its own.
InGap(c) == \E w \in Workers :
                job[w] = "set" /\ at[w] \in Replacing /\ cur[w] = c

(* A reader finds a rate for every currency, except between the two queries with  *)
(* which set_exchange_rates replaces it, or after a writer took it for good: a    *)
(* request that failed in between, or an update whose answer does not name the    *)
(* currency.  An update that fails takes nothing.                                 *)
RateMissingOnlyInGap ==
    \A c \in Currencies : Newest(c) = None => InGap(c) \/ c \in dropped

(* Whatever the interleaving of requests and updates, the row that was committed  *)
(* last for a currency is among those in force, unless a request is about to      *)
(* replace it or one took it and failed: two writers can leave two rates marked   *)
(* is_latest, and never none.                                                     *)
LastWriteStays ==
    \A c \in Currencies \ dropped :
        InGap(c) \/ [cur |-> c, stamp |-> last[c]] \in latest

(* Readers are never given a rate that was rolled back: what get_exchange_rate       *)
(* answers, from the cache or from the table, has been committed.  It may be older     *)
(* than a rate that an administrator has set since: the cache of an update is not      *)
(* emptied by set_exchange_rates.                                                      *)
AnswersWereStored ==
    \A c \in Currencies : GetExchangeRate(c) \in stored \cup {None}
=============================================================================
