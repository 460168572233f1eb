------------------------ MODULE ExchangeRatesProofs ------------------------
(***************************************************************************)
(* Proofs about the exchange rates in force, for any number of currencies, *)
(* workers and rows: where a rate may be missing, that the last one        *)
(* written stays, and that no reader is given a rate that was rolled back. *)
(***************************************************************************)
EXTENDS ExchangeRates, WellFoundedInduction, TLAPS

\* A set of timestamps has a greatest one.
LEMMA Greatest ==
    ASSUME NEW n \in Nat, NEW S, S \subseteq 0..n, S # {}
    PROVE  \E s \in S : \A q \in S : q <= s
<1> DEFINE R == {p \in Nat \X Nat : p[1] < p[2]}
           D == {n - s : s \in S}
<1>1. IsWellFoundedOn(R, Nat)
  BY NatLessThanWellFounded DEF OpToRel
<1>2. D \subseteq Nat
  OBVIOUS
<1>3. D # {}
  <2>1. PICK s \in S : TRUE
    OBVIOUS
  <2>2. n - s \in D
    BY <2>1
  <2> QED BY <2>2
<1>4. PICK d \in D : \A e \in D : <<e, d>> \notin R
  <2> HIDE DEF R, D
  <2> QED BY <1>1, <1>2, <1>3, WFMin
<1>5. PICK s \in S : d = n - s
  OBVIOUS
<1>6. \A q \in S : ~(n - q < d)
  BY <1>2, <1>4
<1> QED BY <1>5, <1>6

-----------------------------------------------------------------------------
(* Types, and where workers stand. *)

\* Where a worker has the timestamp of its row, and where it has a currency.
Writing == {"clear", "insert"}
Chosen == {"clear_first", "make", "clear", "insert"}
Places == {"idle", "next", "make", "insert", "cache"} \cup Clears

Locals ==
    /\ at \in [Workers -> Places]
    /\ job \in [Workers -> {"set", "update", None}]
    /\ todo \in [Workers -> SUBSET Currencies]
    /\ cur \in [Workers -> Currencies \cup {None}]
    /\ stamp \in [Workers -> 0..MaxRows]
    /\ waited \in [Workers -> SUBSET Row]
    /\ cleared \in [Workers -> SUBSET Row]
    /\ added \in [Workers -> SUBSET Row]

Shared ==
    /\ latest \subseteq Row
    /\ cache = None \/ cache \subseteq Row
    /\ clock \in 0..MaxRows
    /\ dropped \subseteq Currencies
    /\ last \in [Currencies -> 0..MaxRows]
    /\ stored \subseteq 0..MaxRows

\* Only an update clears everything or fills the cache, which it does when its
\* transaction has ended; and a worker waits only where it clears.
Placed(w) ==
    /\ at[w] = "idle" => job[w] = None
    /\ at[w] \in {"next", "make", "clear", "insert"} => job[w] # None
    /\ at[w] = "clear_first" => job[w] = "set"
    /\ at[w] \in {"clear_all", "cache"} => job[w] = "update"
    /\ at[w] \in Chosen => cur[w] \in Currencies
    /\ at[w] = "cache" => cleared[w] = {}
    /\ waited[w] # {} => at[w] \in Clears
    /\ job[w] # "update" => cleared[w] = {} /\ added[w] = {}

TypeInv == Locals /\ Shared /\ \A w \in Workers : Placed(w)

\* The invariant is about the types TypeOK states.
LEMMA TypeInvTypes == TypeInv => TypeOK
<1> SUFFICES ASSUME TypeInv PROVE TypeOK
  OBVIOUS
<1>1. ASSUME NEW w \in Workers
      PROVE  /\ waited[w] \cup cleared[w] \cup added[w] \subseteq Row
             /\ job[w] # "update" => cleared[w] \cup added[w] = {}
             /\ at[w] = "idle" => waited[w] = {}
  BY DEF TypeInv, Locals, Placed, Clears
<1> QED BY <1>1 DEF TypeInv, Locals, Shared, Places, TypeOK

\* The types hold at the start.
LEMMA TypeStart == Init => TypeInv
<1> SUFFICES ASSUME Init PROVE TypeInv
  OBVIOUS
<1> USE RatesAssumption
<1>1. Locals
  BY DEF Init, Locals, Places
<1>2. Shared
  BY DEF Init, Shared, First, Row
<1>3. \A w \in Workers : Placed(w)
  BY DEF Init, Placed, Chosen
<1> QED BY <1>1, <1>2, <1>3 DEF TypeInv

\* What the other workers have in memory stays.
Others(w) == \A v \in Workers \ {w} :
    /\ at'[v] = at[v] /\ job'[v] = job[v] /\ todo'[v] = todo[v] /\ cur'[v] = cur[v]
    /\ stamp'[v] = stamp[v] /\ waited'[v] = waited[v]
    /\ cleared'[v] = cleared[v] /\ added'[v] = added[v]

\* What a query sees are rows.
LEMMA SeesRows ==
    ASSUME TypeInv, NEW w \in Workers
    PROVE  Sees(w) \subseteq Row /\ Scope(w) \subseteq Sees(w)
BY DEF TypeInv, Locals, Shared, Sees, Scope, Of

\* The committed row of a currency that is in force from now on.
LEMMA Committed ==
    ASSUME TypeInv, NEW rows \in SUBSET Row, Commit(rows)
    PROVE  /\ last' \in [Currencies -> 0..MaxRows]
           /\ \A c \in Currencies :
                 \/ Of(rows, c) = {} /\ last'[c] = last[c]
                 \/ [cur |-> c, stamp |-> last'[c]] \in rows
           /\ stored' = stored \cup {r.stamp : r \in rows}
           /\ stored' \subseteq 0..MaxRows
<1>1. ASSUME NEW c \in Currencies, Of(rows, c) # {}
      PROVE  \E s \in 0..MaxRows : [cur |-> c, stamp |-> s] \in rows
  BY <1>1 DEF Of, Row
<1>2. ASSUME NEW c \in Currencies
      PROVE  /\ last'[c] \in 0..MaxRows
             /\ \/ Of(rows, c) = {} /\ last'[c] = last[c]
                \/ [cur |-> c, stamp |-> last'[c]] \in rows
  BY <1>1 DEF Commit, TypeInv, Shared
<1>3. \A r \in rows : r.stamp \in 0..MaxRows
  BY DEF Row
<1> QED BY <1>2, <1>3 DEF Commit, TypeInv, Shared

\* A query that clears rows, at once or after it has waited.
Unmarks(w, rows) ==
    /\ at[w] \in Clears /\ rows \subseteq Sees(w) /\ ~Locked(w, rows)
    /\ rows = Scope(w) \/ (waited[w] # {} /\ rows = waited[w] \cap Sees(w))
    /\ Unmark(w, rows)
    /\ GoTo(w, AfterClear(w))
    /\ waited' = [waited EXCEPT ![w] = {}]
    /\ UNCHANGED <<cache, clock, job, todo, cur, stamp, dropped, last, stored>>

\* A clear that runs at once and one that waited do the same.
LEMMA ClearsAreUnmarks ==
    ASSUME TypeInv, NEW w \in Workers, Clear(w) \/ GoOn(w)
    PROVE  \E rows \in SUBSET Row : Unmarks(w, rows)
<1>1. CASE Clear(w)
  <2>1. Scope(w) \in SUBSET Row /\ Scope(w) \subseteq Sees(w)
    BY SeesRows
  <2>2. waited' = [waited EXCEPT ![w] = {}]
    BY <1>1 DEF Clear, TypeInv, Locals
  <2>3. Unmarks(w, Scope(w))
    BY <1>1, <2>1, <2>2 DEF Clear, Unmarks
  <2> QED BY <2>1, <2>3
<1>2. CASE GoOn(w)
  <2> DEFINE rows == waited[w] \cap Sees(w)
  <2>1. rows \in SUBSET Row /\ rows \subseteq Sees(w)
    BY SeesRows
  <2>2. at[w] \in Clears /\ waited[w] # {}
    BY <1>2 DEF GoOn, TypeInv, Placed
  <2>3. ~Locked(w, rows)
    BY <1>2 DEF GoOn, Locked
  <2>4. Unmarks(w, rows)
    BY <1>2, <2>1, <2>2, <2>3 DEF GoOn, Unmarks
  <2> QED BY <2>1, <2>4
<1> QED BY <1>1, <1>2

\* What it leaves behind: in a request the rows are gone, in an update they are locked.
LEMMA Unmarked ==
    ASSUME TypeInv, NEW w \in Workers, NEW rows \in SUBSET Row, Unmarks(w, rows)
    PROVE  /\ Locals' /\ Others(w)
           /\ at'[w] \in {"next", "make", "insert"} /\ waited'[w] = {}
           /\ at'[w] = "next" <=> at[w] = "clear_all"
           /\ at'[w] = "make" <=> at[w] = "clear_first"
           /\ at'[w] = "insert" <=> at[w] = "clear"
           /\ UNCHANGED <<job, cur, stamp>>
           /\ \/ /\ job[w] = "set" /\ latest' = latest \ rows
                 /\ UNCHANGED <<cleared, added>>
              \/ /\ job[w] = "update" /\ latest' = latest
                 /\ cleared'[w] = cleared[w] \cup (rows \cap latest)
                 /\ added'[w] = added[w] \ rows
<1>1. AfterClear(w) \in {"next", "make", "insert"}
  BY DEF Unmarks, AfterClear, Clears
<1>2. at' = [at EXCEPT ![w] = AfterClear(w)]
  BY DEF Unmarks, GoTo
<1>3. job[w] \in {"set", "update"}
  BY DEF Unmarks, TypeInv, Placed, Locals, Clears
<1>4. \/ /\ job[w] = "set" /\ latest' = latest \ rows
         /\ UNCHANGED <<cleared, added>>
      \/ /\ job[w] = "update" /\ latest' = latest
         /\ cleared' = [cleared EXCEPT ![w] = cleared[w] \cup (rows \cap latest)]
         /\ added' = [added EXCEPT ![w] = added[w] \ rows]
  BY <1>3 DEF Unmarks, Unmark
<1>5. Locals'
  <2>1. at' \in [Workers -> Places]
    BY <1>1, <1>2 DEF TypeInv, Locals, Places, Clears
  <2>2. waited' \in [Workers -> SUBSET Row] /\ UNCHANGED <<job, todo, cur, stamp>>
    BY DEF Unmarks, TypeInv, Locals
  <2>3. cleared' \in [Workers -> SUBSET Row] /\ added' \in [Workers -> SUBSET Row]
    BY <1>4 DEF TypeInv, Locals
  <2> QED BY <2>1, <2>2, <2>3 DEF TypeInv, Locals
<1>6. Others(w)
  BY <1>2, <1>4 DEF Unmarks, TypeInv, Locals, Others
<1>7. at'[w] = AfterClear(w) /\ waited'[w] = {}
  BY <1>2 DEF Unmarks, TypeInv, Locals
<1>8. /\ at'[w] = "next" <=> at[w] = "clear_all"
      /\ at'[w] = "make" <=> at[w] = "clear_first"
      /\ at'[w] = "insert" <=> at[w] = "clear"
  BY <1>7 DEF Unmarks, AfterClear, Clears
<1> QED BY <1>1, <1>4, <1>5, <1>6, <1>7, <1>8 DEF Unmarks, TypeInv, Locals

\* A worker that is done, or fails, has nothing left.
LEMMA Forgotten ==
    ASSUME TypeInv, NEW w \in Workers, Forget(w)
    PROVE  /\ Locals' /\ Others(w) /\ Placed(w)'
           /\ at'[w] = "idle" /\ job'[w] = None
           /\ waited'[w] = {} /\ cleared'[w] = {} /\ added'[w] = {}
<1>1. Locals'
  BY RatesAssumption DEF Forget, GoTo, TypeInv, Locals, Places
<1>2. Others(w)
  BY DEF Forget, GoTo, TypeInv, Locals, Others
<1>3. /\ at'[w] = "idle" /\ job'[w] = None
      /\ waited'[w] = {} /\ cleared'[w] = {} /\ added'[w] = {}
  BY DEF Forget, GoTo, TypeInv, Locals
<1> QED BY <1>1, <1>2, <1>3 DEF Placed, Chosen

Begins(w) == \E cs \in SUBSET Currencies : SetRates(w, cs) \/ UpdateRates(w, cs)

\* Steps that leave the tables alone.
LEMMA Begun ==
    ASSUME TypeInv, NEW w \in Workers, Begins(w)
    PROVE  /\ Locals' /\ Others(w) /\ Placed(w)'
           /\ at[w] = "idle" /\ at'[w] \in {"next", "clear_all"}
           /\ UNCHANGED <<database, cache, clock, cur, stamp, waited, cleared, added>>
<1>1. /\ at[w] = "idle"
      /\ UNCHANGED <<database, cache, clock, cur, stamp, waited, cleared, added>>
  BY DEF Begins, SetRates, UpdateRates
<1>2. Locals' /\ Others(w)
  BY <1>1 DEF Begins, SetRates, UpdateRates, GoTo, TypeInv, Locals, Places, Clears, Others
<1>3. \/ at'[w] = "next" /\ job'[w] = "set"
      \/ at'[w] = "clear_all" /\ job'[w] = "update"
  BY DEF Begins, SetRates, UpdateRates, GoTo, TypeInv, Locals
<1>4. waited'[w] = {} /\ cleared'[w] = {} /\ added'[w] = {}
  BY <1>1, RatesAssumption DEF TypeInv, Placed, Clears
<1>5. Placed(w)'
  BY <1>3, <1>4, RatesAssumption DEF Placed, Chosen
<1> QED BY <1>1, <1>2, <1>3, <1>5

\* The next currency: a request first clears it, an update makes its rate.
LEMMA Taken ==
    ASSUME TypeInv, NEW w \in Workers, TakeNext(w)
    PROVE  /\ Locals' /\ Others(w) /\ Placed(w)'
           /\ at[w] = "next" /\ at'[w] \in {"clear_first", "make"}
           /\ UNCHANGED <<database, cache, clock, job, stamp, waited, cleared, added>>
<1>1. /\ at[w] = "next"
      /\ UNCHANGED <<database, cache, clock, job, stamp, waited, cleared, added>>
  BY DEF TakeNext
<1>2. PICK c \in todo[w] : /\ todo' = [todo EXCEPT ![w] = todo[w] \ {c}]
                           /\ cur' = [cur EXCEPT ![w] = c]
  BY DEF TakeNext
<1>3. c \in Currencies
  BY <1>2 DEF TypeInv, Locals
<1>4. job[w] \in {"set", "update"} /\ waited[w] = {}
  BY <1>1 DEF TypeInv, Locals, Placed, Clears
<1>5. Locals' /\ Others(w)
  BY <1>1, <1>2, <1>3 DEF TakeNext, GoTo, TypeInv, Locals, Places, Clears, Others
<1>6. /\ at'[w] = IF job[w] = "set" THEN "clear_first" ELSE "make"
      /\ cur'[w] = c
  BY <1>2 DEF TakeNext, GoTo, TypeInv, Locals
<1>7. Placed(w)'
  BY <1>1, <1>3, <1>4, <1>6, RatesAssumption DEF TypeInv, Placed, Chosen
<1> QED BY <1>1, <1>5, <1>6, <1>7

\* The rate that is made gets a timestamp of its own.
LEMMA Made ==
    ASSUME TypeInv, NEW w \in Workers, MakeRate(w)
    PROVE  /\ Locals' /\ Others(w) /\ Placed(w)'
           /\ at[w] = "make" /\ at'[w] = "clear" /\ waited[w] = {}
           /\ clock' = clock + 1 /\ clock' \in 0..MaxRows /\ stamp'[w] = clock + 1
           /\ UNCHANGED <<database, cache, job, cur, waited, cleared, added>>
<1>1. /\ at[w] = "make" /\ clock' = clock + 1 /\ clock' \in 0..MaxRows
      /\ at' = [at EXCEPT ![w] = "clear"]
      /\ stamp' = [stamp EXCEPT ![w] = clock + 1]
      /\ UNCHANGED <<database, cache, job, todo, cur, waited, cleared, added>>
  BY RatesAssumption DEF MakeRate, GoTo, TypeInv, Shared
<1>2. Locals' /\ Others(w)
  BY <1>1 DEF TypeInv, Locals, Places, Clears, Others
<1>3. at'[w] = "clear" /\ stamp'[w] = clock + 1 /\ waited[w] = {}
  BY <1>1 DEF TypeInv, Locals, Placed, Clears
<1>4. Placed(w)'
  BY <1>1, <1>3 DEF TypeInv, Placed, Chosen
<1> QED BY <1>1, <1>2, <1>3, <1>4

\* A query that waits keeps what it has seen.
LEMMA Waits ==
    ASSUME TypeInv, NEW w \in Workers, Wait(w)
    PROVE  /\ Locals' /\ Others(w) /\ Placed(w)'
           /\ waited'[w] = Scope(w)
           /\ UNCHANGED <<database, cache, clock, at, job, cur, stamp, cleared, added>>
<1>1. /\ waited' = [waited EXCEPT ![w] = Scope(w)] /\ at[w] \in Clears
      /\ UNCHANGED <<database, cache, clock, at, job, todo, cur, stamp, cleared, added>>
  BY DEF Wait
<1>2. Scope(w) \in SUBSET Row
  BY SeesRows
<1> QED BY <1>1, <1>2 DEF TypeInv, Locals, Others, Placed

\* A request commits its row, an update adds it to its transaction.
LEMMA Inserted ==
    ASSUME TypeInv, NEW w \in Workers, Insert(w)
    PROVE  /\ Locals' /\ Others(w) /\ Placed(w)' /\ NewRow(w) \in Row
           /\ at[w] = "insert" /\ at'[w] = "next"
           /\ UNCHANGED <<cache, clock, job, cur, stamp, waited, cleared>>
           /\ \/ /\ job[w] = "set" /\ Commit({NewRow(w)})
                 /\ latest' = latest \cup {NewRow(w)}
                 /\ dropped' = dropped \ {cur[w]}
                 /\ added' = added
              \/ /\ job[w] = "update" /\ UNCHANGED database
                 /\ added'[w] = added[w] \cup {NewRow(w)}
<1>1. /\ at[w] = "insert" /\ at' = [at EXCEPT ![w] = "next"]
      /\ UNCHANGED <<cache, clock, job, todo, cur, stamp, waited, cleared>>
  BY DEF Insert, GoTo
<1>2. job[w] \in {"set", "update"} /\ cur[w] \in Currencies /\ waited[w] = {}
  BY <1>1 DEF TypeInv, Locals, Placed, Clears, Chosen
<1>3. NewRow(w) \in Row
  BY <1>2 DEF NewRow, Row, TypeInv, Locals
<1>4. \/ /\ job[w] = "set" /\ Commit({NewRow(w)})
         /\ latest' = latest \cup {NewRow(w)}
         /\ dropped' = dropped \ {cur[w]}
         /\ added' = added
      \/ /\ job[w] = "update" /\ UNCHANGED database
         /\ added' = [added EXCEPT ![w] = added[w] \cup {NewRow(w)}]
  BY <1>2 DEF Insert, database
<1>5. Locals' /\ Others(w)
  BY <1>1, <1>3, <1>4 DEF TypeInv, Locals, Places, Others
<1>6. at'[w] = "next" /\ (job[w] = "update" => added'[w] = added[w] \cup {NewRow(w)})
  BY <1>1, <1>4 DEF TypeInv, Locals
<1>7. Placed(w)'
  BY <1>1, <1>2, <1>4, <1>6, RatesAssumption DEF TypeInv, Placed, Chosen
<1> QED BY <1>1, <1>3, <1>4, <1>5, <1>6, <1>7

\* An update commits what it cleared and what it added in one step.
LEMMA Updated ==
    ASSUME TypeInv, NEW w \in Workers, CommitUpdate(w)
    PROVE  /\ Locals' /\ Others(w) /\ Placed(w)'
           /\ at[w] = "next" /\ at'[w] = "cache" /\ cleared'[w] = {}
           /\ UNCHANGED <<cache, clock, job, cur, stamp, waited, added>>
           /\ latest' = (latest \ cleared[w]) \cup added[w] /\ added[w] \in SUBSET Row
           /\ dropped' = {c \in Currencies :
                            Of(latest', c) = {} /\ (c \in dropped \/ Of(cleared[w], c) # {})}
           /\ Commit(added[w])
<1>1. /\ at[w] = "next" /\ job[w] = "update"
      /\ at' = [at EXCEPT ![w] = "cache"]
      /\ cleared' = [cleared EXCEPT ![w] = {}]
      /\ UNCHANGED <<cache, clock, job, todo, cur, stamp, waited, added>>
      /\ latest' = (latest \ cleared[w]) \cup added[w]
      /\ dropped' = {c \in Currencies :
                       Of(latest', c) = {} /\ (c \in dropped \/ Of(cleared[w], c) # {})}
      /\ Commit(added[w])
  BY DEF CommitUpdate, GoTo
<1>2. Locals' /\ Others(w)
  BY <1>1 DEF TypeInv, Locals, Places, Others
<1>3. at'[w] = "cache" /\ cleared'[w] = {} /\ waited[w] = {} /\ added[w] \in SUBSET Row
  BY <1>1 DEF TypeInv, Locals, Placed, Clears
<1>4. Placed(w)'
  BY <1>1, <1>3 DEF Placed, Chosen
<1> QED BY <1>1, <1>2, <1>3, <1>4

\* What a worker does to the others: nothing.
LEMMA TypeKeeps ==
    ASSUME TypeInv, NEW w \in Workers, Locals', Others(w), Shared', Placed(w)'
    PROVE  TypeInv'
<1>1. ASSUME NEW v \in Workers PROVE Placed(v)'
  BY DEF TypeInv, Others, Placed
<1> QED BY <1>1 DEF TypeInv

\* Every step keeps the types.
LEMMA TypeStep ==
    ASSUME TypeInv, NEW w \in Workers, Step(w)
    PROVE  TypeInv'
<1>1. CASE Begins(w)
  BY <1>1, Begun, TypeKeeps DEF TypeInv, Shared, database
<1>2. CASE TakeNext(w)
  BY <1>2, Taken, TypeKeeps DEF TypeInv, Shared, database
<1>8. CASE MakeRate(w)
  BY <1>8, Made, TypeKeeps DEF TypeInv, Shared, database
<1>3. CASE Clear(w) \/ GoOn(w)
  <2>1. PICK rows \in SUBSET Row : Unmarks(w, rows)
    BY <1>3, ClearsAreUnmarks
  <2>2. Shared'
    BY <2>1, Unmarked DEF Unmarks, TypeInv, Shared
  <2>3. /\ Locals' /\ Others(w) /\ at'[w] \in {"next", "make", "insert"} /\ waited'[w] = {}
        /\ job'[w] = job[w] /\ cur'[w] = cur[w]
        /\ (cleared'[w] # {} \/ added'[w] # {} => job[w] = "update")
    BY <2>1, Unmarked DEF TypeInv, Placed
  <2>4. /\ job[w] # None
        /\ at'[w] # "next" => cur[w] \in Currencies
    BY <2>1, Unmarked, RatesAssumption DEF Unmarks, TypeInv, Placed, Clears, Chosen
  <2>5. Placed(w)'
    BY <2>3, <2>4 DEF Placed, Chosen
  <2> QED BY <2>2, <2>3, <2>5, TypeKeeps
<1>4. CASE Wait(w)
  BY <1>4, Waits, TypeKeeps DEF TypeInv, Shared, database
<1>5. CASE Insert(w)
  <2>1. Shared'
    BY <1>5, Inserted, Committed DEF TypeInv, Shared, database
  <2> QED BY <1>5, <2>1, Inserted, TypeKeeps
<1>6. CASE CommitUpdate(w)
  <2>1. Shared'
    BY <1>6, Updated, Committed DEF TypeInv, Shared
  <2> QED BY <1>6, <2>1, Updated, TypeKeeps
<1>7. CASE SetDone(w) \/ FillCache(w) \/ Fail(w)
  <2>1. Forget(w)
    BY <1>7 DEF SetDone, FillCache, Fail
  <2>2. Shared'
    <3>1. CASE SetDone(w)
      BY <3>1 DEF SetDone, TypeInv, Shared, database
    <3>2. CASE FillCache(w)
      BY <3>2 DEF FillCache, TypeInv, Shared, Locals, database
    <3>3. CASE Fail(w)
      BY <3>3 DEF Fail, TypeInv, Shared, Placed, Chosen, Replacing
    <3> QED BY <1>7, <3>1, <3>2, <3>3
  <2> QED BY <2>1, <2>2, Forgotten, TypeKeeps
<1> QED BY <1>1, <1>2, <1>3, <1>4, <1>5, <1>6, <1>7, <1>8 DEF Step, Begins

\* Every step keeps the types.
LEMMA TypeNext == TypeInv /\ [Next]_vars => TypeInv'
<1> SUFFICES ASSUME TypeInv, [Next]_vars PROVE TypeInv'
  OBVIOUS
<1>1. CASE UNCHANGED <<database, clock, at, local>> /\ (cache' = None \/ cache' = cache)
  BY <1>1 DEF TypeInv, Locals, Shared, Placed, database, local
<1> QED BY <1>1, TypeStep DEF Next, CacheExpires, vars

\* Rates, workers and transactions keep their types, and a worker at rest none.
THEOREM RatesTyped == Spec => []TypeOK
BY TypeStart, TypeNext, TypeInvTypes, PTL DEF Spec

-----------------------------------------------------------------------------
(* Timestamps: no writer has one that is committed or that another has. *)

\* Worker w has not committed its row of timestamp s.
Holds(w, s) ==
    \/ at[w] # "cache" /\ \E r \in added[w] : r.stamp = s
    \/ at[w] \in Writing /\ stamp[w] = s

Fresh(w) == \A s \in 0..MaxRows : Holds(w, s) =>
    /\ s \notin stored /\ s <= clock
    /\ \A v \in Workers \ {w} : ~Holds(v, s)

\* What a worker puts into the cache has been committed, and a query that waits saw
\* nothing of what others have not.
Witnessed(w) ==
    /\ at[w] = "cache" => \A r \in added[w] : r.stamp \in stored
    /\ \A r \in waited[w] : r.stamp \in stored \/ r \in added[w]

Public ==
    /\ \A s \in stored : s <= clock
    /\ \A r \in latest : r.stamp \in stored
    /\ cache # None => \A r \in cache : r.stamp \in stored

StampInv == Public /\ \A w \in Workers : Fresh(w) /\ Witnessed(w)

\* At the start only the first rows have timestamps.
LEMMA StampStart == Init => StampInv
<1> SUFFICES ASSUME Init PROVE StampInv
  OBVIOUS
<1>1. Public
  BY DEF Init, Public, First
<1>2. \A w \in Workers : Fresh(w) /\ Witnessed(w)
  BY DEF Init, Fresh, Witnessed, Holds, Writing
<1> QED BY <1>1, <1>2 DEF StampInv

\* When the timestamps of one writer move, those of the others are still theirs.
LEMMA StampKeeps ==
    ASSUME TypeInv, StampInv, TypeInv', NEW w \in Workers, Others(w), clock <= clock',
           stored \subseteq stored',
           \A s \in stored' : s \in stored \/ Holds(w, s),
           \A s \in 0..MaxRows : Holds(w, s)' =>
               (Holds(w, s) \/ s = clock + 1) /\ s \notin stored' /\ s <= clock',
           \A r \in latest' : r.stamp \in stored',
           cache' # None => \A r \in cache' : r.stamp \in stored',
           Witnessed(w)'
    PROVE  StampInv'
<1>1. \A v \in Workers \ {w} : \A s \in 0..MaxRows : Holds(v, s)' <=> Holds(v, s)
  BY DEF Others, Holds
<1>2. stored \subseteq 0..MaxRows /\ stored' \subseteq 0..MaxRows /\ clock \in Nat /\ clock' \in Nat
  BY RatesAssumption DEF TypeInv, Shared
<1>3. Public'
  BY <1>2 DEF StampInv, Public, Fresh
<1>4. ASSUME NEW v \in Workers, NEW s \in 0..MaxRows, Holds(v, s)'
      PROVE  s \notin stored' /\ s <= clock' /\ \A u \in Workers \ {v} : ~Holds(u, s)'
  <2>1. CASE v = w
    BY <1>1, <1>2, <1>4, <2>1 DEF StampInv, Fresh
  <2>2. CASE v # w
    <3>1. Holds(v, s) /\ s \notin stored /\ s <= clock /\ \A u \in Workers \ {v} : ~Holds(u, s)
      BY <1>1, <1>4, <2>2 DEF StampInv, Fresh
    <3>2. s # clock + 1
      BY <1>2, <3>1
    <3> QED BY <1>1, <1>2, <2>2, <3>1, <3>2
  <2> QED BY <2>1, <2>2
<1>5. \A v \in Workers : Fresh(v)'
  BY <1>4 DEF Fresh
<1>6. \A v \in Workers : Witnessed(v)'
  BY DEF StampInv, Witnessed, Others
<1> QED BY <1>3, <1>5, <1>6 DEF StampInv

\* Every step of a writer keeps timestamps apart.
LEMMA StampStep ==
    ASSUME TypeInv, StampInv, NEW w \in Workers, Step(w)
    PROVE  StampInv'
<1>0. TypeInv' /\ clock \in Nat /\ Witnessed(w) /\ Fresh(w) /\ Public
  BY TypeStep, RatesAssumption DEF TypeInv, Shared, StampInv
<1>1. CASE Begins(w)
  <2>1. \A s \in 0..MaxRows : Holds(w, s)' => Holds(w, s)
    BY <1>1, Begun DEF Holds, Writing
  <2>2. Witnessed(w)'
    BY <1>0, <1>1, Begun DEF Witnessed, database
  <2> QED BY <1>0, <1>1, <2>1, <2>2, Begun, StampKeeps DEF Public, Fresh, database
<1>2. CASE TakeNext(w)
  <2>1. \A s \in 0..MaxRows : Holds(w, s)' => Holds(w, s)
    BY <1>2, Taken DEF Holds, Writing
  <2>2. Witnessed(w)'
    BY <1>0, <1>2, Taken DEF Witnessed, database
  <2> QED BY <1>0, <1>2, <2>1, <2>2, Taken, StampKeeps DEF Public, Fresh, database
<1>8. CASE MakeRate(w)
  <2>1. \A s \in 0..MaxRows : Holds(w, s)' => Holds(w, s) \/ s = clock + 1
    BY <1>8, Made DEF Holds, Writing
  <2>2. Witnessed(w)'
    BY <1>0, <1>8, Made DEF Witnessed, Writing, database
  <2>3. clock + 1 \notin stored
    BY <1>0 DEF Public
  <2>4. clock' = clock + 1 /\ UNCHANGED <<database, cache>> /\ Others(w)
    BY <1>8, Made
  <2>5. \A s \in 0..MaxRows : Holds(w, s)' => s \notin stored' /\ s <= clock'
    BY <1>0, <2>1, <2>3, <2>4 DEF Fresh, database
  <2> QED BY <1>0, <2>1, <2>2, <2>4, <2>5, StampKeeps DEF Public, database
<1>3. CASE Clear(w) \/ GoOn(w)
  <2>1. PICK rows \in SUBSET Row : Unmarks(w, rows)
    BY <1>3, ClearsAreUnmarks
  <2>2. /\ Others(w)
        /\ at'[w] \in {"next", "make", "insert"} /\ waited'[w] = {} /\ stamp' = stamp
        /\ at'[w] = "insert" <=> at[w] = "clear"
        /\ added'[w] \subseteq added[w] /\ latest' \subseteq latest
    BY <2>1, Unmarked
  <2>3. \A s \in 0..MaxRows : Holds(w, s)' => Holds(w, s)
    BY <2>1, <2>2 DEF Unmarks, Clears, Holds, Writing
  <2>4. Witnessed(w)'
    BY <2>2 DEF Witnessed
  <2> QED BY <1>0, <2>1, <2>2, <2>3, <2>4, StampKeeps DEF Unmarks, Public, Fresh
<1>4. CASE Wait(w)
  <2>1. \A s \in 0..MaxRows : Holds(w, s)' => Holds(w, s)
    BY <1>4, Waits DEF Holds
  <2>2. at[w] # "cache"
    BY <1>4 DEF Wait, Clears
  <2>3. Witnessed(w)'
    BY <1>0, <1>4, <2>2, Waits, SeesRows DEF Witnessed, Public, Sees, database
  <2> QED BY <1>0, <1>4, <2>1, <2>3, Waits, StampKeeps DEF Public, Fresh, database
<1>5. CASE Insert(w)
  <2>1. NewRow(w).stamp = stamp[w] /\ NewRow(w) \in Row /\ Holds(w, stamp[w])
    BY <1>5, Inserted DEF NewRow, Holds, Writing
  <2>2. CASE job[w] = "set"
    <3>0. /\ latest' = latest \cup {NewRow(w)} /\ Commit({NewRow(w)})
          /\ added' = added /\ waited' = waited
      BY <1>5, <2>2, Inserted
    <3>1. /\ latest' = latest \cup {NewRow(w)} /\ stored' = stored \cup {stamp[w]}
          /\ added'[w] = {} /\ waited'[w] = waited[w]
      BY <2>1, <2>2, <3>0 DEF TypeInv, Placed, Commit
    <3>2. \A s \in 0..MaxRows : ~Holds(w, s)'
      BY <1>5, <3>1, Inserted DEF Holds, Writing
    <3>3. Witnessed(w)'
      BY <1>0, <1>5, <2>2, <3>1, Inserted DEF TypeInv, Placed, Witnessed
    <3>4. \A r \in latest' : r.stamp \in stored'
      BY <1>0, <2>1, <3>1 DEF Public
    <3>5. clock' = clock /\ cache' = cache /\ Others(w)
      BY <1>5, Inserted
    <3> QED BY <1>0, <2>1, <3>1, <3>2, <3>3, <3>4, <3>5, StampKeeps DEF Public
  <2>3. CASE job[w] # "set"
    <3>1. /\ UNCHANGED <<database, cache, clock>> /\ Others(w) /\ at'[w] = "next" /\ at[w] = "insert"
          /\ added'[w] = added[w] \cup {NewRow(w)} /\ waited'[w] = waited[w]
      BY <1>5, <2>3, Inserted
    <3>2. \A s \in 0..MaxRows : Holds(w, s)' => Holds(w, s)
      BY <2>1, <3>1 DEF Holds, Writing
    <3>3. Witnessed(w)'
      BY <1>0, <3>1 DEF Witnessed, database
    <3> QED BY <1>0, <3>1, <3>2, <3>3, StampKeeps DEF Public, Fresh, database
  <2> QED BY <2>2, <2>3
<1>6. CASE CommitUpdate(w)
  <2>1. stored' = stored \cup {r.stamp : r \in added[w]}
    BY <1>6, Updated, Committed
  <2>2. \A r \in added[w] : Holds(w, r.stamp)
    BY <1>6, Updated DEF Holds
  <2>3. \A s \in 0..MaxRows : ~Holds(w, s)'
    BY <1>6, Updated DEF Holds, Writing
  <2>4. Witnessed(w)'
    BY <1>0, <1>6, <2>1, Updated DEF Witnessed
  <2>5. \A r \in latest' : r.stamp \in stored'
    BY <1>0, <1>6, <2>1, Updated DEF Public
  <2>6. clock' = clock /\ cache' = cache /\ Others(w)
    BY <1>6, Updated
  <2> QED BY <1>0, <2>1, <2>2, <2>3, <2>4, <2>5, <2>6, StampKeeps DEF Public
<1>7. CASE SetDone(w) \/ FillCache(w) \/ Fail(w)
  <2>1. Forget(w) /\ UNCHANGED <<latest, stored, clock>>
    BY <1>7 DEF SetDone, FillCache, Fail, database
  <2>2. Others(w) /\ Witnessed(w)' /\ \A s \in 0..MaxRows : ~Holds(w, s)'
    BY <2>1, Forgotten DEF Witnessed, Holds, Writing
  <2>3. cache' # None => \A r \in cache' : r.stamp \in stored'
    BY <1>0, <1>7, <2>1 DEF SetDone, FillCache, Fail, Public, Witnessed
  <2> QED BY <1>0, <2>1, <2>2, <2>3, StampKeeps DEF Public
<1> QED BY <1>1, <1>2, <1>3, <1>4, <1>5, <1>6, <1>7, <1>8 DEF Step, Begins

\* Every step keeps timestamps apart.
LEMMA StampNext == TypeInv /\ StampInv /\ [Next]_vars => StampInv'
<1> SUFFICES ASSUME TypeInv, StampInv, [Next]_vars PROVE StampInv'
  OBVIOUS
<1>1. CASE UNCHANGED <<database, clock, at, local>> /\ (cache' = None \/ cache' = cache)
  BY <1>1 DEF StampInv, Public, Fresh, Witnessed, Holds, database, local
<1> QED BY <1>1, StampStep DEF Next, CacheExpires, vars

\* The newest of the rows in force is one of them.
LEMMA NewestIsRow ==
    ASSUME TypeInv, NEW c \in Currencies, Of(latest, c) # {}
    PROVE  [cur |-> c, stamp |-> Newest(c)] \in latest /\ Newest(c) \in 0..MaxRows
<1> DEFINE S == {r.stamp : r \in Of(latest, c)}
<1>1. S \subseteq 0..MaxRows /\ S # {} /\ MaxRows \in Nat
  BY RatesAssumption DEF Of, TypeInv, Shared, Row
<1>2. PICK s \in S : \A q \in S : q <= s
  <2> HIDE DEF S
  <2> QED BY <1>1, Greatest
<1>3. \A r \in Of(latest, c) : r = [cur |-> c, stamp |-> r.stamp]
  BY DEF Of, TypeInv, Shared, Row
<1>4. [cur |-> c, stamp |-> s] \in latest /\ s \in 0..MaxRows /\ \A r \in Of(latest, c) : r.stamp <= s
  BY <1>1, <1>2, <1>3 DEF Of
<1> QED BY <1>4 DEF Newest

\* Answers come from rows and from a cache whose timestamps were committed.
LEMMA StampsStored == TypeInv /\ StampInv => AnswersWereStored
<1> SUFFICES ASSUME TypeInv, StampInv, NEW c \in Currencies
             PROVE  GetExchangeRate(c) \in stored \cup {None}
  BY DEF AnswersWereStored
<1>1. CASE cache # None /\ Of(cache, c) # {}
  <2>1. \E s \in 0..MaxRows : [cur |-> c, stamp |-> s] \in cache
    BY <1>1 DEF Of, TypeInv, Shared, Row
  <2> QED BY <1>1, <2>1 DEF GetExchangeRate, StampInv, Public
<1>2. CASE ~(cache # None /\ Of(cache, c) # {})
  <2>1. GetExchangeRate(c) = Newest(c)
    BY <1>2 DEF GetExchangeRate
  <2>2. CASE Of(latest, c) = {}
    BY <2>1, <2>2 DEF Newest
  <2>3. CASE Of(latest, c) # {}
    BY <2>1, <2>3, NewestIsRow DEF StampInv, Public
  <2> QED BY <2>2, <2>3
<1> QED BY <1>1, <1>2

\* Nobody is given a rate that was rolled back, whether by the cache or by the table.
THEOREM OnlyStoredAnswers == Spec => []AnswersWereStored
BY TypeStart, TypeNext, StampStart, StampNext, StampsStored, PTL DEF Spec

-----------------------------------------------------------------------------
(* Row locks, and the last rate written. *)

LastRow(c) == [cur |-> c, stamp |-> last[c]]

\* What a transaction has cleared is still there for the others, and locked.
Exclusive(w) ==
    /\ cleared[w] \subseteq latest
    /\ \A v \in Workers \ {w} : cleared[v] \cap cleared[w] = {}

\* Whoever takes the last rate of a currency, or waits to, takes all there are.
Whole(w, c) ==
    /\ LastRow(c) \in cleared[w] => Of(latest, c) \subseteq cleared[w]
    /\ LastRow(c) \in waited[w] => Of(latest, c) \subseteq cleared[w] \cup waited[w]

\* A query over one currency waits for rows of this currency.
Aimed(w) == at[w] # "clear_all" => \A r \in waited[w] : r.cur = cur[w]

Stands(c) == Of(latest, c) = {} \/ LastRow(c) \in latest
Accounted(c) == Of(latest, c) = {} => InGap(c) \/ c \in dropped

LockInv ==
    /\ \A w \in Workers : Exclusive(w) /\ Aimed(w) /\ \A c \in Currencies : Whole(w, c)
    /\ \A c \in Currencies : Stands(c) /\ Accounted(c)

\* Where rows are held back as a whole, a missing rate is accounted for and the last one stands.
LEMMA LockMeans == TypeInv /\ LockInv => RateMissingOnlyInGap /\ LastWriteStays
<1> SUFFICES ASSUME TypeInv, LockInv, NEW c \in Currencies
             PROVE  /\ Newest(c) = None => InGap(c) \/ c \in dropped
                    /\ c \in dropped \/ InGap(c) \/ LastRow(c) \in latest
  BY DEF RateMissingOnlyInGap, LastWriteStays, LastRow
<1>1. Of(latest, c) # {} => Newest(c) # None
  <2>1. None \notin 0..MaxRows
    BY RatesAssumption
  <2> QED BY <2>1, NewestIsRow
<1> QED BY <1>1 DEF LockInv, Stands, Accounted

\* At the start every currency has its first rate.
LEMMA LockStart == Init => LockInv
<1> SUFFICES ASSUME Init PROVE LockInv
  OBVIOUS
<1>1. \A c \in Currencies : LastRow(c) \in Of(latest, c)
  BY DEF Init, First, LastRow, Of
<1>2. \A w \in Workers : cleared[w] = {} /\ waited[w] = {}
  BY DEF Init
<1> QED BY <1>1, <1>2 DEF LockInv, Exclusive, Aimed, Whole, Stands, Accounted, Of

\* Rows that disappear were not locked by others, and a new row is one they cannot have
\* seen.
LEMMA LockKeeps ==
    ASSUME TypeInv, LockInv, NEW w \in Workers, Others(w),
           \A v \in Workers \ {w} : cleared[v] \subseteq latest',
           \A c \in Currencies :
              \/ last'[c] = last[c] /\ Of(latest', c) \subseteq Of(latest, c)
              \/ \A v \in Workers \ {w} : LastRow(c)' \notin cleared[v] \cup waited[v],
           (Exclusive(w) /\ Aimed(w) /\ \A c \in Currencies : Whole(w, c))',
           \A c \in Currencies : (Stands(c) /\ Accounted(c))'
    PROVE  LockInv'
<1> SUFFICES ASSUME NEW v \in Workers \ {w}
             PROVE  (Exclusive(v) /\ Aimed(v) /\ \A c \in Currencies : Whole(v, c))'
  BY DEF LockInv
<1>1. Exclusive(v)'
  BY DEF LockInv, Exclusive, Others
<1>2. Aimed(v)'
  BY DEF LockInv, Aimed, Others
<1>3. ASSUME NEW c \in Currencies PROVE Whole(v, c)'
  BY DEF LockInv, Whole, LastRow, Others
<1> QED BY <1>1, <1>2, <1>3

\* Steps that leave the tables and locks alone.
LEMMA LockIdle ==
    ASSUME TypeInv, LockInv, NEW w \in Workers, Others(w),
           UNCHANGED <<latest, last, cleared>>, Aimed(w)',
           waited'[w] \in {{}, waited[w]} \/ \A c \in Currencies : Whole(w, c)',
           \A c \in Currencies : Of(latest, c) = {} /\ (InGap(c) \/ c \in dropped) =>
              InGap(c)' \/ c \in dropped'
    PROVE  LockInv'
<1>1. \A c \in Currencies : last'[c] = last[c] /\ Of(latest', c) \subseteq Of(latest, c)
  OBVIOUS
<1>2. Exclusive(w)' /\ \A v \in Workers \ {w} : cleared[v] \subseteq latest'
  BY DEF LockInv, Exclusive
<1>3. \A c \in Currencies : Whole(w, c)'
  BY DEF LockInv, Whole, LastRow
<1>4. \A c \in Currencies : (Stands(c) /\ Accounted(c))'
  BY DEF LockInv, Stands, Accounted, LastRow
<1> QED BY <1>1, <1>2, <1>3, <1>4, LockKeeps

\* Another request stays in its gap.
LEMMA OthersGap ==
    ASSUME NEW w \in Workers, Others(w), NEW c \in Currencies, InGap(c),
           ~(job[w] = "set" /\ at[w] \in Replacing /\ cur[w] = c)
    PROVE  InGap(c)'
BY DEF InGap, Others

\* No other worker can have seen a row that was not committed.
LEMMA Unseen ==
    ASSUME TypeInv, StampInv, LockInv, NEW w \in Workers, NEW r \in Row, Holds(w, r.stamp),
           NEW v \in Workers \ {w}
    PROVE  r \notin cleared[v] \cup waited[v]
<1>1. r.stamp \in 0..MaxRows
  BY DEF Row
<1>2. r.stamp \notin stored /\ ~Holds(v, r.stamp)
  BY <1>1 DEF StampInv, Fresh
<1>3. r \notin cleared[v]
  BY <1>2 DEF LockInv, Exclusive, StampInv, Public
<1>4. ASSUME r \in waited[v] PROVE FALSE
  <2>1. at[v] \in Clears
    BY <1>4 DEF TypeInv, Placed
  <2>2. r.stamp \in stored \/ r \in added[v]
    BY <1>4 DEF StampInv, Witnessed
  <2> QED BY <1>2, <2>1, <2>2 DEF Holds, Clears
<1> QED BY <1>3, <1>4

\* Clearing takes all rates of a currency, which is then in the gap of its writer.
LEMMA LockUnmark ==
    ASSUME TypeInv, LockInv, NEW w \in Workers, NEW rows \in SUBSET Row, Unmarks(w, rows)
    PROVE  LockInv'
<1>1. /\ Others(w) /\ waited'[w] = {} /\ UNCHANGED <<job, cur, last, dropped>>
      /\ at'[w] \in {"next", "make", "insert"}
      /\ at'[w] = "next" <=> at[w] = "clear_all"
  BY Unmarked DEF Unmarks
<1>2. Exclusive(w) /\ \A v \in Workers \ {w} : Exclusive(v) /\ cleared[v] \cap rows = {}
  BY DEF LockInv, Unmarks, Locked
<1>3. ASSUME at[w] # "clear_all" PROVE \A r \in rows : r.cur = cur[w]
  BY <1>3 DEF Unmarks, Scope, Of, LockInv, Aimed
<1>4. ASSUME NEW c \in Currencies PROVE Of(latest, c) \cap rows # {} /\ at[w] # "clear_all" => c = cur[w]
  BY <1>3 DEF Of
<1>5. ASSUME NEW c \in Currencies, LastRow(c) \in rows
      PROVE  Of(latest, c) \subseteq cleared[w] \cup rows
  <2>1. LastRow(c).cur = c
    BY DEF LastRow
  <2>2. CASE rows = Scope(w)
    BY <1>5, <2>1, <2>2 DEF Scope, Sees, Of
  <2>3. CASE rows = waited[w] \cap Sees(w)
    BY <1>5, <2>3 DEF LockInv, Whole, Sees, Of
  <2> QED BY <2>2, <2>3 DEF Unmarks
<1>6. CASE job[w] = "set" /\ latest' = latest \ rows /\ UNCHANGED <<cleared, added>>
  <2>1. cleared[w] = {} /\ at[w] # "clear_all" /\ at'[w] \in {"make", "insert"}
    BY <1>1, <1>6 DEF TypeInv, Placed
  <2>2. (Exclusive(w) /\ Aimed(w) /\ \A c \in Currencies : Whole(w, c))'
    BY <1>1, <1>6, <2>1 DEF Exclusive, Aimed, Whole
  <2>3. ASSUME NEW c \in Currencies PROVE (Stands(c) /\ Accounted(c))'
    <3>1. Stands(c) /\ Accounted(c) /\ LastRow(c)' = LastRow(c)
      BY <1>1 DEF LockInv, LastRow
    <3>2. Stands(c)'
      BY <1>5, <1>6, <2>1, <3>1 DEF Stands, Of
    <3>3. c = cur[w] => InGap(c)'
      BY <1>1, <1>6, <2>1 DEF InGap, Replacing
    <3>4. c # cur[w] => Of(latest', c) = Of(latest, c)
      BY <1>4, <1>6, <2>1 DEF Of
    <3>5. c # cur[w] /\ InGap(c) => InGap(c)'
      BY <1>1, OthersGap
    <3> QED BY <1>1, <3>1, <3>2, <3>3, <3>4, <3>5 DEF Accounted
  <2>4. \A c \in Currencies : last'[c] = last[c] /\ Of(latest', c) \subseteq Of(latest, c)
    BY <1>1, <1>6 DEF Of
  <2>5. \A v \in Workers \ {w} : cleared[v] \subseteq latest'
    BY <1>2, <1>6 DEF Exclusive
  <2> QED BY <1>1, <2>2, <2>3, <2>4, <2>5, LockKeeps
<1>7. CASE /\ job[w] = "update" /\ latest' = latest
           /\ cleared'[w] = cleared[w] \cup (rows \cap latest)
  <2>1. Exclusive(w)'
    BY <1>1, <1>2, <1>7 DEF Exclusive, Others
  <2>2. ASSUME NEW c \in Currencies PROVE Whole(w, c)'
    BY <1>1, <1>5, <1>7 DEF LockInv, Whole, LastRow, Of
  <2>3. Aimed(w)'
    BY <1>1 DEF Aimed
  <2>4. ASSUME NEW c \in Currencies PROVE (Stands(c) /\ Accounted(c))'
    <3>1. InGap(c) => InGap(c)'
      BY <1>1, <1>7, OthersGap
    <3> QED BY <1>1, <1>7, <3>1 DEF LockInv, Stands, Accounted, LastRow
  <2>5. \A c \in Currencies : last'[c] = last[c] /\ Of(latest', c) \subseteq Of(latest, c)
    BY <1>1, <1>7
  <2>6. \A v \in Workers \ {w} : cleared[v] \subseteq latest'
    BY <1>2, <1>7 DEF Exclusive
  <2> QED BY <1>1, <2>1, <2>2, <2>3, <2>4, <2>5, <2>6, LockKeeps
<1> QED BY <1>6, <1>7, Unmarked

\* An insertion is the last row of its currency, which nobody else has seen.
LEMMA LockInsert ==
    ASSUME TypeInv, StampInv, LockInv, NEW w \in Workers, Insert(w)
    PROVE  LockInv'
<1> DEFINE new == NewRow(w)
<1>1. /\ Others(w) /\ new \in Row /\ at[w] = "insert" /\ at'[w] = "next"
      /\ UNCHANGED <<job, cur, waited, cleared>> /\ waited[w] = {}
  BY Inserted DEF TypeInv, Placed, Clears
<1>2. new.cur = cur[w] /\ new.stamp = stamp[w] /\ Holds(w, new.stamp)
  BY <1>1 DEF NewRow, Holds, Writing
<1>3. Aimed(w)'
  BY <1>1 DEF Aimed
<1>4. CASE job[w] = "set"
  <2>1. latest' = latest \cup {new} /\ dropped' = dropped \ {cur[w]} /\ Commit({new})
    BY <1>4, Inserted
  <2>2. cleared[w] = {}
    BY <1>4 DEF TypeInv, Placed
  <2> HIDE DEF new
  <2>3. ASSUME NEW c \in Currencies
        PROVE  \/ c # cur[w] /\ last'[c] = last[c] /\ Of(latest', c) = Of(latest, c)
               \/ c = cur[w] /\ LastRow(c)' = new
    <3>1. Of({new}, c) = {} <=> c # cur[w]
      BY <1>2 DEF Of
    <3>0. {new} \in SUBSET Row
      BY <1>1
    <3>2. \/ Of({new}, c) = {} /\ last'[c] = last[c]
          \/ [cur |-> c, stamp |-> last'[c]] \in {new}
      BY <2>1, <3>0, Committed
    <3> QED BY <1>2, <2>1, <3>1, <3>2 DEF LastRow, Of
  <2>4. \A v \in Workers \ {w} : new \notin cleared[v] \cup waited[v]
    BY <1>1, <1>2, Unseen
  <2>5. (Exclusive(w) /\ Aimed(w) /\ \A c \in Currencies : Whole(w, c))'
    BY <1>1, <1>3, <2>2 DEF Exclusive, Whole
  <2>6. ASSUME NEW c \in Currencies PROVE (Stands(c) /\ Accounted(c))'
    <3>1. CASE c = cur[w]
      <4>1. LastRow(c)' = new /\ new \in Of(latest', c)
        BY <1>2, <2>1, <2>3, <3>1 DEF Of
      <4> QED BY <2>1, <4>1 DEF Stands, Accounted
    <3>2. CASE c # cur[w]
      <4>1. last'[c] = last[c] /\ Of(latest', c) = Of(latest, c)
        BY <2>3, <3>2
      <4>2. InGap(c) => InGap(c)'
        BY <1>1, <3>2, OthersGap
      <4>3. Stands(c) /\ Accounted(c)
        BY DEF LockInv
      <4>4. Stands(c)'
        BY <2>1, <4>1, <4>3 DEF Stands, LastRow
      <4> QED BY <2>1, <3>2, <4>1, <4>2, <4>3, <4>4 DEF Accounted
    <3> QED BY <3>1, <3>2
  <2>7. \A v \in Workers \ {w} : cleared[v] \subseteq latest'
    BY <2>1 DEF LockInv, Exclusive
  <2> QED BY <1>1, <2>3, <2>4, <2>5, <2>6, <2>7, LockKeeps
<1>5. CASE job[w] # "set"
  <2>1. UNCHANGED database
    BY <1>5, Inserted
  <2>2. \A c \in Currencies : InGap(c) => InGap(c)'
    BY <1>1, <1>5, OthersGap
  <2> QED BY <1>1, <1>3, <2>1, <2>2, LockIdle DEF database
<1> QED BY <1>4, <1>5

\* So is each row an update commits, and what it only cleared is named dropped.
LEMMA LockCommit ==
    ASSUME TypeInv, StampInv, LockInv, NEW w \in Workers, CommitUpdate(w)
    PROVE  LockInv'
<1>1. /\ Others(w) /\ at[w] = "next" /\ cleared'[w] = {} /\ waited'[w] = waited[w]
      /\ added[w] \in SUBSET Row
      /\ latest' = (latest \ cleared[w]) \cup added[w]
      /\ dropped' = {c \in Currencies :
                       Of(latest', c) = {} /\ (c \in dropped \/ Of(cleared[w], c) # {})}
      /\ Commit(added[w])
  BY Updated
<1>2. waited[w] = {}
  BY <1>1 DEF TypeInv, Placed, Clears
<1>3. ASSUME NEW c \in Currencies
      PROVE  \/ /\ last'[c] = last[c] /\ LastRow(c)' = LastRow(c)
                /\ Of(latest', c) = Of(latest, c) \ cleared[w]
             \/ LastRow(c)' \in added[w]
  <2>1. \/ Of(added[w], c) = {} /\ last'[c] = last[c]
        \/ [cur |-> c, stamp |-> last'[c]] \in added[w]
    BY <1>1, Committed
  <2> QED BY <1>1, <2>1 DEF LastRow, Of
<1>4. \A v \in Workers \ {w} : \A r \in added[w] : r \notin cleared[v] \cup waited[v]
  <2>1. \A r \in added[w] : r \in Row /\ Holds(w, r.stamp)
    BY <1>1 DEF Holds
  <2> QED BY <2>1, Unseen
<1>5. \A v \in Workers \ {w} : cleared[v] \subseteq latest'
  BY <1>1 DEF LockInv, Exclusive
<1>6. (Exclusive(w) /\ Aimed(w) /\ \A c \in Currencies : Whole(w, c))'
  BY <1>1, <1>2 DEF Exclusive, Aimed, Whole
<1>7. ASSUME NEW c \in Currencies PROVE (Stands(c) /\ Accounted(c))'
  <2>1. Stands(c) /\ Accounted(c) /\ Whole(w, c)
    BY DEF LockInv
  <2>2. Stands(c)'
    <3>1. CASE LastRow(c)' \in added[w]
      BY <1>1, <3>1 DEF Stands
    <3>2. CASE LastRow(c)' = LastRow(c) /\ Of(latest', c) = Of(latest, c) \ cleared[w]
      <4>1. CASE LastRow(c) \in cleared[w]
        BY <2>1, <3>2, <4>1 DEF Stands, Whole
      <4>2. CASE LastRow(c) \notin cleared[w]
        BY <1>1, <2>1, <3>2, <4>2 DEF Stands
      <4> QED BY <4>1, <4>2
    <3> QED BY <1>3, <3>1, <3>2
  <2>3. InGap(c) => InGap(c)'
    BY <1>1, OthersGap DEF Replacing
  <2>4. Of(latest', c) = {} => Of(latest, c) = {} \/ Of(cleared[w], c) # {}
    BY <1>1 DEF Of
  <2>5. Accounted(c)'
    BY <1>1, <2>1, <2>3, <2>4 DEF Accounted
  <2> QED BY <2>2, <2>5
<1>8. ASSUME NEW c \in Currencies
      PROVE  \/ last'[c] = last[c] /\ Of(latest', c) \subseteq Of(latest, c)
             \/ \A v \in Workers \ {w} : LastRow(c)' \notin cleared[v] \cup waited[v]
  BY <1>3, <1>4
<1> QED BY <1>1, <1>5, <1>6, <1>7, <1>8, LockKeeps

\* Every step of a worker keeps the locks whole.
LEMMA LockStep ==
    ASSUME TypeInv, StampInv, LockInv, NEW w \in Workers, Step(w)
    PROVE  LockInv'
<1>0. Aimed(w) /\ Exclusive(w) /\ \A c \in Currencies : Whole(w, c)
  BY DEF LockInv
<1>1. CASE Begins(w) \/ TakeNext(w)
  <2>1. /\ Others(w) /\ UNCHANGED <<database, waited, cleared>>
        /\ at[w] \in {"idle", "next"}
    BY <1>1, Begun, Taken
  <2>2. waited[w] = {}
    BY <2>1 DEF TypeInv, Placed, Clears
  <2>3. Aimed(w)' /\ waited'[w] = waited[w]
    BY <2>1, <2>2 DEF Aimed
  <2>4. \A c \in Currencies : InGap(c) => InGap(c)'
    BY <2>1, OthersGap DEF Replacing
  <2> QED BY <2>1, <2>3, <2>4, LockIdle DEF database
<1>5. CASE MakeRate(w)
  <2>1. /\ Others(w) /\ UNCHANGED <<database, job, cur, waited, cleared>>
        /\ at[w] = "make" /\ at'[w] = "clear" /\ waited[w] = {}
    BY <1>5, Made
  <2>2. Aimed(w)' /\ waited'[w] = waited[w]
    BY <2>1 DEF Aimed
  <2>3. \A c \in Currencies : InGap(c) => InGap(c)'
    BY <2>1 DEF InGap, Others, Replacing
  <2> QED BY <2>1, <2>2, <2>3, LockIdle DEF database
<1>2. CASE Clear(w) \/ GoOn(w)
  BY <1>2, ClearsAreUnmarks, LockUnmark
<1>3. CASE Wait(w)
  <2>1. /\ Others(w) /\ UNCHANGED <<database, at, job, cur, cleared>>
        /\ waited'[w] = Scope(w)
    BY <1>3, Waits
  <2>2. Aimed(w)'
    BY <2>1 DEF Aimed, Scope, Of
  <2>3. ASSUME NEW c \in Currencies PROVE Whole(w, c)'
    <3>1. LastRow(c).cur = c
      BY DEF LastRow
    <3>2. LastRow(c) \in Scope(w) => Of(latest, c) \subseteq cleared[w] \cup Scope(w)
      BY <3>1 DEF Scope, Sees, Of
    <3> QED BY <1>0, <2>1, <3>2 DEF Whole, LastRow, database
  <2>4. \A c \in Currencies : InGap(c) => InGap(c)'
    BY <2>1 DEF InGap
  <2> QED BY <2>1, <2>2, <2>3, <2>4, LockIdle DEF database
<1>4. CASE SetDone(w) \/ FillCache(w) \/ Fail(w)
  <2>1. Forget(w) /\ UNCHANGED <<latest, last>>
    BY <1>4 DEF SetDone, FillCache, Fail, database
  <2>2. Others(w) /\ waited'[w] = {} /\ cleared'[w] = {}
    BY <2>1, Forgotten
  <2>3. (Exclusive(w) /\ Aimed(w) /\ \A c \in Currencies : Whole(w, c))'
    BY <2>2 DEF Exclusive, Aimed, Whole
  <2>4. ASSUME NEW c \in Currencies PROVE (Stands(c) /\ Accounted(c))'
    <3>1. Stands(c) /\ Accounted(c) /\ LastRow(c)' = LastRow(c)
      BY <2>1 DEF LockInv, LastRow
    <3>2. CASE job[w] = "set" /\ at[w] \in Replacing /\ cur[w] = c
      <4>1. Of(latest, c) = {} => c \in dropped'
        BY <1>4, <3>2 DEF SetDone, FillCache, Fail, Replacing
      <4> QED BY <2>1, <3>1, <4>1 DEF Stands, Accounted
    <3>3. CASE ~(job[w] = "set" /\ at[w] \in Replacing /\ cur[w] = c)
      <4>1. InGap(c) => InGap(c)'
        BY <2>2, <3>3, OthersGap
      <4>2. dropped \subseteq dropped'
        BY <1>4 DEF SetDone, FillCache, Fail, database
      <4> QED BY <2>1, <3>1, <4>1, <4>2 DEF Stands, Accounted
    <3> QED BY <3>2, <3>3
  <2>5. \A v \in Workers \ {w} : cleared[v] \subseteq latest'
    BY <2>1 DEF LockInv, Exclusive
  <2> QED BY <2>1, <2>2, <2>3, <2>4, <2>5, LockKeeps
<1> QED BY <1>1, <1>2, <1>3, <1>4, <1>5, LockInsert, LockCommit DEF Step, Begins

\* Every step keeps the locks whole.
LEMMA LockNext == TypeInv /\ StampInv /\ LockInv /\ [Next]_vars => LockInv'
<1> SUFFICES ASSUME TypeInv, StampInv, LockInv, [Next]_vars PROVE LockInv'
  OBVIOUS
<1>1. CASE UNCHANGED <<database, at, local>>
  BY <1>1 DEF LockInv, Exclusive, Aimed, Whole, Stands, Accounted, InGap, LastRow, database, local
<1> QED BY <1>1, LockStep DEF Next, CacheExpires, vars

\* The locks are whole throughout.
LEMMA LockAlways == Spec => [](TypeInv /\ LockInv)
BY TypeStart, TypeNext, StampStart, StampNext, LockStart, LockNext, PTL DEF Spec

\* A rate is only missing while a request replaces it, or where a writer took it.
THEOREM MissingOnlyInGap == Spec => []RateMissingOnlyInGap
BY LockAlways, LockMeans, PTL

\* The last rate written stays in force until somebody replaces it.
THEOREM LastWriteInForce == Spec => []LastWriteStays
BY LockAlways, LockMeans, PTL
=============================================================================
