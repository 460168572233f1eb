--------------------------- MODULE PaymentsProofs ---------------------------
(***************************************************************************)
(* Proofs about Transaction rows under payments and requests, for any      *)
(* number of transactions, payments, requests and workers: the types, what *)
(* becomes of disputes, what the row of a payment says, and who undoes a   *)
(* refund.                                                                 *)
(***************************************************************************)
EXTENDS Payments, TLAPS

\* What a request may be asked.
LEMMA TaskFacts ==
    ASSUME NEW k \in Tasks
    PROVE  /\ k.on \in Transactions
           /\ k.kind \in {"override", "refund", "complete", "dispute", "delete", "resolve", "edit"}
           /\ k.kind = "override" => k.arg \in Statuses
           /\ k.kind = "resolve" => k.arg \in {"refund", "complete", "close"}
           /\ k.kind = "edit" => k.arg \in {"description", "other"}
BY AdminAssumption DEF Task

\* Where a request of each kind may stand.
AtStage(stage, kind) ==
    /\ stage = "look" => kind \in {"dispute", "resolve"}
    /\ stage = "create" => kind = "dispute"
    /\ stage = "resolve" => kind = "resolve"
    /\ stage = "save" => kind \notin {"dispute", "delete"}
    /\ stage = "delete" => kind = "delete"

\* What a request holds: the row that passed its checks, and the dispute to resolve.
RequestOK(r) ==
    /\ pc[r] # "idle" => task[r] \in Tasks
    /\ Open(r) => /\ seen[r] \in Row
                  /\ MayProceed(task[r], seen[r])
                  /\ AtStage(pc[r], task[r].kind)
    /\ pc[r] = "resolve" => found[r] \in DisputeRow

RowsOK ==
    /\ row \in [Transactions -> Row \cup {Gone}]
    /\ \A t \in Transactions : row[t] # Gone => Len(row[t].notes) <= MaxNotes
    /\ dispute \in [Transactions -> DisputeRow \cup {Gone}]
    /\ deleted \subseteq Transactions

Memories ==
    /\ pc \in [Requests -> {"idle"} \cup Stages \cup Final]
    /\ task \in [Requests -> Tasks \cup {Idle}]
    /\ seen \in [Requests -> Row \cup {Gone}]
    /\ found \in [Requests -> DisputeRow \cup {Gone}]

PaymentsOK ==
    /\ at \in [Transactions -> Places]
    /\ method \in [Transactions -> Methods \cup {"none"}]
    /\ result \in [Transactions -> Successes \cup {"none", "nothing", "lost", "refused"}]
    /\ opened \subseteq {t \in Transactions : method[t] = "momo"}
    /\ \A t \in Transactions : at[t] = "gateway" => method[t] \in Methods

\* A payment that has not begun has no row, and nobody works on it.
NewIsFree ==
    \A t \in Transactions : at[t] = "new" =>
        /\ row[t] = Gone
        /\ t \notin opened
        /\ \A r \in Requests : Open(r) => T(r) # t

TypeInv ==
    /\ RowsOK
    /\ Memories
    /\ \A r \in Requests : RequestOK(r)
    /\ PaymentsOK
    /\ NewIsFree

\* The invariant is about the types TypeOK states.
LEMMA TypeInvTypes == TypeInv => PaymentsTypeOK
<1> SUFFICES ASSUME TypeInv PROVE PaymentsTypeOK
  OBVIOUS
<1>1. ASSUME NEW t \in Transactions
      PROVE  /\ row[t] # Gone => /\ row[t].status \in Statuses
                                 /\ Len(row[t].notes) <= MaxNotes
                                 /\ \A i \in DOMAIN row[t].notes : row[t].notes[i] \in Requests
             /\ dispute[t] # Gone => /\ dispute[t].by \in Requests \cup {Existing}
                                     /\ dispute[t].resolved \in Requests \cup {Nobody}
  BY DEF TypeInv, RowsOK, Row, DisputeRow
<1> QED BY <1>1 DEF TypeInv, RowsOK, Memories, PaymentsOK, TypeOK, PaymentsTypeOK

\* The types hold at the start.
LEMMA TypeStart == PaymentsInit => TypeInv
<1> SUFFICES ASSUME PaymentsInit PROVE TypeInv
  OBVIOUS
<1> USE AdminAssumption, PaymentsAssumption
<1>1. AnyRow \subseteq Row /\ \A x \in AnyRow : x.notes = <<>>
  <2>1. <<>> \in Seq(Requests)
    OBVIOUS
  <2> QED BY <2>1 DEF AnyRow, Row
<1>2. OpenDispute \in DisputeRow
  BY DEF OpenDispute, DisputeRow
<1>3. RowsOK
  <2>1. \A t \in Transactions : row[t] # Gone => Len(row[t].notes) <= MaxNotes
    BY <1>1 DEF PaymentsInit
  <2> QED BY <1>1, <1>2, <2>1 DEF PaymentsInit, NoRequests, RowsOK
<1>4. Memories /\ \A r \in Requests : RequestOK(r) /\ ~Open(r)
  BY DEF PaymentsInit, NoRequests, Memories, RequestOK, Open, Stages
<1>5. PaymentsOK
  BY DEF PaymentsInit, PaymentsOK, Places, InService
<1>6. NewIsFree
  BY <1>4 DEF PaymentsInit, NewIsFree
<1> QED BY <1>3, <1>4, <1>5, <1>6 DEF TypeInv

-----------------------------------------------------------------------------
(* The types, under the steps of requests. *)

\* Request r comes to another place, and keeps its task and row.
Goes(r, place) ==
    /\ pc' = [pc EXCEPT ![r] = place]
    /\ UNCHANGED <<task, seen>>

\* A request that goes on to a place it is fit for keeps the types.
LEMMA RequestMove ==
    ASSUME TypeInv, NEW r \in Requests, Open(r),
           NEW place \in Stages \cup Final, Goes(r, place), UNCHANGED payments,
           RowsOK', found' \in [Requests -> DisputeRow \cup {Gone}],
           \A q \in Requests \ {r} : found'[q] = found[q],
           place \in Stages => AtStage(place, task[r].kind),
           place = "resolve" => found'[r] \in DisputeRow,
           \A t \in Transactions \ {T(r)} : row'[t] = row[t]
    PROVE  TypeInv'
<1>1. Memories'
  BY DEF TypeInv, Memories, Goes
<1>2. pc'[r] = place /\ \A q \in Requests \ {r} : pc'[q] = pc[q]
  BY DEF TypeInv, Memories, Goes
<1>3. ASSUME NEW q \in Requests PROVE RequestOK(q)'
  <2>1. CASE q = r
    BY <1>2, <2>1 DEF TypeInv, RequestOK, Open, Goes, Stages, Final
  <2>2. CASE q # r
    BY <1>2, <2>2 DEF TypeInv, RequestOK, Open, Goes
  <2> QED BY <2>1, <2>2
<1>4. PaymentsOK'
  BY DEF TypeInv, PaymentsOK, payments
<1>5. NewIsFree'
  <2>1. \A q \in Requests : Open(q)' => Open(q) /\ T(q)' = T(q)
    BY <1>2 DEF Open, Goes, T
  <2> QED BY <2>1 DEF TypeInv, NewIsFree, payments
<1> QED BY <1>1, <1>3, <1>4, <1>5 DEF TypeInv

\* A handler that loads its row holds one it may proceed with.
LEMMA LoadStep ==
    ASSUME TypeInv, NEW r \in Requests, NEW k \in Tasks, Load(r, k), UNCHANGED payments
    PROVE  TypeInv'
<1>1. /\ pc[r] = "idle" /\ task' = [task EXCEPT ![r] = k] /\ seen' = [seen EXCEPT ![r] = row[k.on]]
      /\ \/ /\ row[k.on] # Gone /\ MayProceed(k, row[k.on])
            /\ pc' = [pc EXCEPT ![r] = FirstStage(k.kind)]
         \/ pc' = [pc EXCEPT ![r] = "refused"]
      /\ UNCHANGED <<row, dispute, found, deleted>>
  BY DEF Load, Answer
<1>2. FirstStage(k.kind) \in {"look", "delete", "save"} /\ AtStage(FirstStage(k.kind), k.kind)
  BY TaskFacts DEF FirstStage, AtStage
<1>3. row[k.on] \in Row \cup {Gone}
  BY TaskFacts DEF TypeInv, RowsOK
<1>4. Memories'
  BY <1>1, <1>2, <1>3 DEF TypeInv, Memories, Stages, Final
<1>5. task'[r] = k /\ seen'[r] = row[k.on]
  BY <1>1 DEF TypeInv, Memories
<1>6. /\ \A q \in Requests \ {r} : pc'[q] = pc[q] /\ task'[q] = task[q] /\ seen'[q] = seen[q]
      /\ \/ row[k.on] # Gone /\ MayProceed(k, row[k.on]) /\ pc'[r] = FirstStage(k.kind)
         \/ pc'[r] = "refused"
  BY <1>1 DEF TypeInv, Memories
<1>7. ASSUME NEW q \in Requests PROVE RequestOK(q)'
  <2>1. CASE q = r
    BY <1>2, <1>3, <1>5, <1>6, <2>1 DEF RequestOK, Open, Stages
  <2>2. CASE q # r
    BY <1>1, <1>6, <2>2 DEF TypeInv, RequestOK, Open
  <2> QED BY <2>1, <2>2
<1>8. RowsOK' /\ PaymentsOK'
  BY <1>1 DEF TypeInv, RowsOK, PaymentsOK, payments
<1>9. NewIsFree'
  <2>1. \A q \in Requests : Open(q)' => \/ Open(q) /\ T(q)' = T(q)
                                        \/ row[T(q)'] # Gone
    BY <1>5, <1>6 DEF Open, T, Stages
  <2> QED BY <1>1, <2>1 DEF TypeInv, NewIsFree, payments
<1> QED BY <1>4, <1>7, <1>8, <1>9 DEF TypeInv

\* What a handler writes has a status and notes.
LEMMA SavedRow ==
    ASSUME NEW r \in Requests, NEW k \in Tasks, NEW loaded \in Row
    PROVE  /\ NewStatus(k, loaded) \in Statuses
           /\ NewNotes(r, k, loaded) \in Seq(Requests)
<1>1. NewStatus(k, loaded) \in Statuses
  BY TaskFacts DEF NewStatus, Statuses, Row
<1>2. NewNotes(r, k, loaded) \in Seq(Requests)
  <2>1. /\ <<>> \in Seq(Requests) /\ loaded.notes \in Seq(Requests)
        /\ Append(loaded.notes, r) \in Seq(Requests)
    BY DEF Row
  <2> QED BY <2>1 DEF NewNotes
<1> QED BY <1>1, <1>2

\* Queries on disputes keep the types.
LEMMA DisputeStep ==
    ASSUME TypeInv, NEW r \in Requests, UNCHANGED payments,
           LookForDispute(r) \/ CreateDispute(r) \/ ResolveDispute(r)
    PROVE  TypeInv'
<1>0. RequestOK(r) /\ Open(r) /\ task[r] \in Tasks /\ T(r) \in Transactions
  <2>1. RequestOK(r) /\ Open(r) /\ task[r] \in Tasks
    BY DEF TypeInv, RequestOK, Open, Stages, LookForDispute, CreateDispute, ResolveDispute
  <2> QED BY <2>1, TaskFacts DEF T
<1>1. CASE LookForDispute(r)
  <2> DEFINE place == IF task[r].kind = "dispute"
                      THEN IF dispute[T(r)] = Gone THEN "create" ELSE "refused"
                      ELSE IF dispute[T(r)] = Gone THEN "refused" ELSE "resolve"
  <2>1. Goes(r, place) /\ found' = [found EXCEPT ![r] = dispute[T(r)]]
    BY <1>1 DEF LookForDispute, Answer, Goes
  <2>2. task[r].kind \in {"dispute", "resolve"}
    BY <1>0, <1>1 DEF LookForDispute, RequestOK, AtStage
  <2>3. place \in Stages \cup Final /\ (place \in Stages => AtStage(place, task[r].kind))
    BY <2>2 DEF Stages, Final, AtStage
  <2>4. /\ found' \in [Requests -> DisputeRow \cup {Gone}]
        /\ \A q \in Requests \ {r} : found'[q] = found[q]
        /\ place = "resolve" => found'[r] \in DisputeRow
    BY <1>0, <2>1 DEF TypeInv, RowsOK, Memories
  <2>5. RowsOK' /\ row' = row
    BY <1>1 DEF TypeInv, RowsOK, LookForDispute
  <2> HIDE DEF place
  <2> QED BY <1>0, <2>1, <2>3, <2>4, <2>5, RequestMove
<1>2. CASE CreateDispute(r)
  <2>1. PICK place \in Final : Goes(r, place)
    BY <1>2 DEF CreateDispute, Answer, Goes, Final
  <2>2. RowsOK' /\ row' = row /\ found' = found
    <3>1. [by |-> r, resolved |-> Nobody] \in DisputeRow
      BY DEF DisputeRow
    <3>2. dispute' \in [Transactions -> DisputeRow \cup {Gone}]
      BY <1>2, <3>1 DEF CreateDispute, TypeInv, RowsOK
    <3> QED BY <1>2, <3>2 DEF CreateDispute, TypeInv, RowsOK
  <2>3. place \notin Stages
    BY <2>1 DEF Stages, Final
  <2>4. found' \in [Requests -> DisputeRow \cup {Gone}] /\ place # "resolve"
    BY <2>2, <2>3 DEF TypeInv, Memories, Stages
  <2> QED BY <1>0, <2>1, <2>2, <2>3, <2>4, RequestMove
<1>3. CASE ResolveDispute(r)
  <2>1. PICK place \in {"save", "refused"} : Goes(r, place)
    BY <1>3 DEF ResolveDispute, Answer, Goes
  <2>2. found[r] \in DisputeRow /\ task[r].kind = "resolve"
    BY <1>0, <1>3 DEF RequestOK, ResolveDispute, AtStage
  <2>3. RowsOK' /\ row' = row /\ found' = found
    <3>1. [by |-> found[r].by, resolved |-> r] \in DisputeRow
      BY <2>2 DEF DisputeRow
    <3>2. dispute' \in [Transactions -> DisputeRow \cup {Gone}]
      BY <1>3, <3>1 DEF ResolveDispute, TypeInv, RowsOK
    <3> QED BY <1>3, <3>2 DEF ResolveDispute, TypeInv, RowsOK
  <2>4. /\ place \in Stages \cup Final /\ place # "resolve"
        /\ place \in Stages => AtStage(place, task[r].kind)
        /\ found' \in [Requests -> DisputeRow \cup {Gone}]
    BY <2>2, <2>3 DEF Stages, Final, AtStage, TypeInv, Memories
  <2> QED BY <1>0, <2>1, <2>3, <2>4, RequestMove
<1> QED BY <1>1, <1>2, <1>3

\* Queries on rows keep the types.
LEMMA RowStep ==
    ASSUME TypeInv, NEW r \in Requests, UNCHANGED payments,
           SaveRow(r) \/ DeleteRow(r) \/ Crash(r)
    PROVE  TypeInv'
<1>0. RequestOK(r) /\ Open(r) /\ task[r] \in Tasks /\ T(r) \in Transactions
  <2>1. RequestOK(r) /\ Open(r) /\ task[r] \in Tasks
    BY DEF TypeInv, RequestOK, Open, Stages, SaveRow, DeleteRow, Crash
  <2> QED BY <2>1, TaskFacts DEF T
<1>1. PICK place \in Final : Goes(r, place)
  BY DEF SaveRow, DeleteRow, Crash, Answer, Goes, Final
<1>2. place \notin Stages /\ place # "resolve"
  BY <1>1 DEF Stages, Final
<1>3. found' = found /\ found' \in [Requests -> DisputeRow \cup {Gone}]
  BY DEF SaveRow, DeleteRow, Crash, TypeInv, Memories
<1>4. \A t \in Transactions \ {T(r)} : row'[t] = row[t]
  BY DEF SaveRow, DeleteRow, Crash, TypeInv, RowsOK
<1>5. RowsOK'
  <2>1. CASE SaveRow(r)
    <3> DEFINE status == NewStatus(task[r], seen[r])
               notes == NewNotes(r, task[r], seen[r])
               new == [status |-> status, notes |-> notes]
    <3>1. seen[r] \in Row
      BY <1>0 DEF RequestOK
    <3>2. new \in Row /\ new.notes = notes
      BY <1>0, <3>1, SavedRow DEF Row
    <3>3. UNCHANGED <<dispute, deleted>> /\ \/ row' = row
                                            \/ Len(notes) <= MaxNotes /\ row' = [row EXCEPT ![T(r)] = new]
      BY <2>1 DEF SaveRow
    <3> HIDE DEF new
    <3>4. CASE row' = row
      BY <3>3, <3>4 DEF TypeInv, RowsOK
    <3>5. CASE Len(notes) <= MaxNotes /\ row' = [row EXCEPT ![T(r)] = new]
      BY <1>0, <3>2, <3>3, <3>5 DEF TypeInv, RowsOK
    <3> QED BY <3>3, <3>4, <3>5
  <2>2. CASE DeleteRow(r)
    BY <1>0, <2>2 DEF TypeInv, RowsOK, DeleteRow
  <2>3. CASE Crash(r)
    BY <2>3 DEF TypeInv, RowsOK, Crash
  <2> QED BY <2>1, <2>2, <2>3
<1> QED BY <1>0, <1>1, <1>2, <1>3, <1>4, <1>5, RequestMove

-----------------------------------------------------------------------------
(* The types, under the steps of payments. *)

\* What a payment saves.
Saved == [status: {"pending", "completed", "failed"}, notes: {<<>>}]

\* Steps of a payment keep the types.
LEMMA PayStep ==
    ASSUME TypeInv, NEW t \in Transactions, Pay(t)
    PROVE  TypeInv'
<1> USE AdminAssumption, PaymentsAssumption
<1>1. UNCHANGED <<dispute, pc, task, seen, found, deleted>>
  BY DEF Pay, Refuse, Create, Ask, SaveOutcome, Amend, Lose, vars
<1>2. Memories' /\ \A r \in Requests : RequestOK(r)' /\ Open(r)' = Open(r) /\ T(r)' = T(r)
  BY <1>1 DEF TypeInv, Memories, RequestOK, Open, T
<1>3. row' = row \/ \E new \in Saved : row' = [row EXCEPT ![t] = new]
  BY DEF Pay, Refuse, Create, Ask, SaveOutcome, Outcome, Amend, Lose, vars, Saved
<1>4. RowsOK'
  <2>1. \A new \in Saved : new \in Row /\ Len(new.notes) <= MaxNotes
    <3>1. <<>> \in Seq(Requests) /\ Len(<<>>) = 0
      OBVIOUS
    <3>2. \A new \in Saved : new \in Row /\ new.notes = <<>>
      BY <3>1 DEF Saved, Row, Statuses
    <3> QED BY <3>1, <3>2
  <2> QED BY <1>1, <1>3, <2>1 DEF TypeInv, RowsOK
<1>5. at' \in [Transactions -> Places] /\ at'[t] # "new" /\ \A u \in Transactions \ {t} : at'[u] = at[u]
  BY DEF TypeInv, PaymentsOK, Pay, Refuse, Create, Ask, SaveOutcome, Amend, Lose, Move, Places, InService
<1>6. PaymentsOK'
  <2>1. CASE Refuse(t)
    BY <1>5, <2>1 DEF TypeInv, PaymentsOK, Refuse, Move
  <2>2. CASE \E m \in Methods : Create(t, m)
    BY <1>5, <2>2 DEF TypeInv, PaymentsOK, NewIsFree, Create, Move
  <2>3. CASE Ask(t)
    <3>1. method[t] \in Methods
      BY <2>3 DEF TypeInv, PaymentsOK, Ask
    <3>2. \A a \in GatewayResults(method[t]) :
             /\ a \in Successes \cup {"none", "nothing", "lost", "refused"}
             /\ a \in {"opened", "lost"} => method[t] = "momo"
      BY <3>1 DEF GatewayResults, Successes
    <3>3. at'[t] = "save"
      BY <2>3 DEF TypeInv, PaymentsOK, Ask, Move
    <3> QED BY <1>5, <2>3, <3>2, <3>3 DEF TypeInv, PaymentsOK, Ask
  <2>4. CASE SaveOutcome(t) \/ Amend(t)
    <3>1. at'[t] # "gateway"
      BY <2>4 DEF TypeInv, PaymentsOK, SaveOutcome, Amend, Move
    <3> QED BY <1>5, <2>4, <3>1 DEF TypeInv, PaymentsOK, SaveOutcome, Amend
  <2>5. CASE Lose(t)
    <3>1. at'[t] # "gateway"
      BY <2>5 DEF TypeInv, PaymentsOK, Lose, Move
    <3>2. opened' \subseteq opened \cup {t} /\ (opened' # opened => method[t] = "momo")
      BY <2>5 DEF TypeInv, PaymentsOK, Lose, GatewayResults
    <3> QED BY <1>5, <2>5, <3>1, <3>2 DEF TypeInv, PaymentsOK, Lose
  <2> QED BY <2>1, <2>2, <2>3, <2>4, <2>5 DEF Pay
<1>7. NewIsFree'
  <2>1. opened' \subseteq opened \cup {t}
    BY DEF Pay, Refuse, Create, Ask, SaveOutcome, Amend, Lose
  <2>2. \A u \in Transactions \ {t} : row'[u] = row[u]
    BY <1>3 DEF TypeInv, RowsOK
  <2> QED BY <1>2, <1>5, <2>1, <2>2 DEF TypeInv, NewIsFree
<1> QED BY <1>2, <1>4, <1>6, <1>7 DEF TypeInv

\* Every step keeps the types.
LEMMA TypeStep == TypeInv /\ [PaymentsNext]_allVars => TypeInv'
<1> SUFFICES ASSUME TypeInv, [PaymentsNext]_allVars PROVE TypeInv'
  OBVIOUS
<1>1. CASE UNCHANGED allVars
  BY <1>1 DEF TypeInv, RowsOK, Memories, RequestOK, Open, T, PaymentsOK, NewIsFree, allVars, vars, payments
<1>2. CASE Next /\ UNCHANGED payments
  BY <1>2, LoadStep, DisputeStep, RowStep DEF Next, Step
<1> QED BY <1>1, <1>2, PayStep DEF PaymentsNext, Finished

\* The types hold throughout.
LEMMA TypeAlways == PaymentsSpec => []TypeInv
BY TypeStart, TypeStep, PTL DEF PaymentsSpec

\* The rows of the two tables, and what requests and payments know.
THEOREM PaymentsTyped == PaymentsSpec => []PaymentsTypeOK
BY TypeAlways, TypeInvTypes, PTL

-----------------------------------------------------------------------------
(* Disputes. *)

ResolvedAt(t) == dispute[t] # Gone /\ dispute[t].resolved # Nobody

\* A request that marked the row of t to resolve its dispute has resolved it.
MarkedBy(q, t) ==
    /\ pc[q] # "idle"
    /\ t \notin deleted /\ task[q].kind = "resolve" => ResolvedAt(t)

Marked(x, t) == \A i \in DOMAIN x.notes : MarkedBy(x.notes[i], t)

\* The marks on rows are sound, so are those a handler has in memory, and the mark it
\* is about to add.
DisputeInv ==
    /\ DisputeKept
    /\ \A t \in Transactions : row[t] # Gone => Marked(row[t], t)
    /\ \A r \in Requests : Open(r) => Marked(seen[r], T(r))
    /\ \A r \in Requests :
          pc[r] = "save" /\ task[r].kind = "resolve" /\ T(r) \notin deleted => ResolvedAt(T(r))

\* A sound mark is what the property asks for.
LEMMA DisputeInvMarks == TypeInv /\ DisputeInv => DisputeMarkMeansResolved
BY DEF DisputeInv, Marked, MarkedBy, ResolvedAt, DisputeMarkMeansResolved

\* What a request is stays, and so do a dispute and its resolution unless the row is
\* deleted.
PastStays ==
    /\ \A q \in Requests : pc[q] # "idle" => pc'[q] # "idle" /\ task'[q] = task[q]
    /\ deleted \subseteq deleted'
    /\ \A t \in Transactions \ deleted' :
          /\ ResolvedAt(t) => ResolvedAt(t)'
          /\ dispute[t] # Gone => dispute'[t] # Gone /\ dispute'[t].by = dispute[t].by

\* Marks stay sound as time goes on.
LEMMA MarkedStays ==
    ASSUME PastStays, NEW x \in Row, NEW t \in Transactions, Marked(x, t)
    PROVE  Marked(x, t)'
<1> SUFFICES ASSUME NEW i \in DOMAIN x.notes PROVE MarkedBy(x.notes[i], t)'
  BY DEF Marked
<1>1. x.notes[i] \in Requests
  BY DEF Row
<1> QED BY <1>1 DEF PastStays, Marked, MarkedBy

\* At the start there is no mark.
LEMMA DisputeStart == PaymentsInit => DisputeInv
<1> SUFFICES ASSUME PaymentsInit PROVE DisputeInv
  OBVIOUS
<1>1. \A r \in Requests : pc[r] = "idle"
  BY DEF PaymentsInit, NoRequests
<1>2. \A t \in Transactions : row[t] # Gone => Marked(row[t], t)
  BY DEF PaymentsInit, AnyRow, Marked
<1> QED BY <1>1, <1>2 DEF DisputeInv, DisputeKept, Open, Stages

\* What a step must leave alone for the invariant to stand: the rows come from rows
\* that were sound, and the requests keep theirs.
LEMMA DisputeKeeps ==
    ASSUME TypeInv, DisputeInv, PastStays, TypeInv',
           \A t \in Transactions :
              row'[t] # Gone => row'[t] = row[t] \/ Marked(row[t], t)',
           \A r \in Requests : Open(r)' =>
              \/ Open(r) /\ seen'[r] = seen[r] /\ T(r)' = T(r)
              \/ row[T(r)'] # Gone /\ seen'[r] = row[T(r)'],
           \A r \in Requests :
              pc'[r] = "save" /\ task'[r].kind = "resolve" /\ T(r)' \notin deleted' => ResolvedAt(T(r))',
           DisputeKept'
    PROVE  DisputeInv'
<1>1. ASSUME NEW t \in Transactions, row'[t] # Gone PROVE Marked(row[t], t)'
  <2>1. CASE row'[t] = row[t]
    <3>1. PICK x \in Row : row'[t] = x /\ Marked(x, t)
      BY <1>1, <2>1 DEF TypeInv, RowsOK, DisputeInv
    <3>2. Marked(x, t)'
      BY <3>1, MarkedStays
    <3> QED BY <3>1, <3>2 DEF Marked
  <2> QED BY <1>1, <2>1
<1>2. ASSUME NEW r \in Requests, Open(r)' PROVE Marked(seen[r], T(r))'
  <2>0. T(r)' \in Transactions
    BY <1>2, TaskFacts DEF TypeInv, RequestOK, Open, T, Stages
  <2>1. PICK x \in Row : seen'[r] = x /\ Marked(x, T(r)')
    BY <1>2, <2>0 DEF TypeInv, RowsOK, RequestOK, DisputeInv
  <2> QED BY <2>0, <2>1, MarkedStays DEF Marked, MarkedBy
<1> QED BY <1>1, <1>2 DEF DisputeInv

\* An open request that is not about to load goes on, the others stand.
LEMMA OthersStand ==
    ASSUME TypeInv, NEW r \in Requests, Step(r) \/ Crash(r)
    PROVE  /\ Open(r) /\ task[r] \in Tasks /\ T(r) \in Transactions /\ pc'[r] \in Stages \cup Final
           /\ \A q \in Requests \ {r} : pc'[q] = pc[q]
           /\ UNCHANGED <<task, seen>>
           /\ \A t \in Transactions \ {T(r)} : row'[t] = row[t] /\ dispute'[t] = dispute[t]
<1>1. Open(r) /\ task[r] \in Tasks
  BY DEF TypeInv, RequestOK, Open, Stages, Step, LookForDispute, CreateDispute, ResolveDispute,
     SaveRow, DeleteRow, Crash
<1>2. T(r) \in Transactions
  BY <1>1, TaskFacts DEF T
<1>3. UNCHANGED <<task, seen>>
  BY DEF Step, LookForDispute, CreateDispute, ResolveDispute, SaveRow, DeleteRow, Crash
<1>4. \E place \in Stages \cup Final : pc' = [pc EXCEPT ![r] = place]
  BY DEF Step, LookForDispute, CreateDispute, ResolveDispute, SaveRow, DeleteRow, Crash,
     Answer, Stages, Final
<1>5. \A t \in Transactions \ {T(r)} : row'[t] = row[t] /\ dispute'[t] = dispute[t]
  BY DEF TypeInv, RowsOK, Step, LookForDispute, CreateDispute, ResolveDispute, SaveRow,
     DeleteRow, Crash
<1> QED BY <1>1, <1>2, <1>3, <1>4, <1>5 DEF TypeInv, Memories

\* A handler loads sound marks.
LEMMA PastLoad ==
    ASSUME TypeInv, DisputeInv, NEW r \in Requests, NEW k \in Tasks, Load(r, k),
           UNCHANGED payments
    PROVE  DisputeInv'
<1>1. /\ pc[r] = "idle" /\ pc'[r] # "accepted" /\ pc'[r] # "idle"
      /\ \A q \in Requests \ {r} : pc'[q] = pc[q] /\ task'[q] = task[q] /\ seen'[q] = seen[q]
      /\ task'[r] = k /\ seen'[r] = row[k.on]
      /\ Open(r)' => row[k.on] # Gone
      /\ pc'[r] = "save" => k.kind # "resolve"
      /\ UNCHANGED <<row, dispute, deleted>>
  <2>1. pc' = [pc EXCEPT ![r] = FirstStage(k.kind)] \/ pc' = [pc EXCEPT ![r] = "refused"]
    BY DEF Load, Answer
  <2>2. FirstStage(k.kind) \in {"look", "delete", "save"} /\ (k.kind = "resolve" => FirstStage(k.kind) = "look")
    BY TaskFacts DEF FirstStage
  <2>3. row[k.on] = Gone => pc'[r] = "refused"
    BY DEF Load, Answer, TypeInv, Memories
  <2> QED BY <2>1, <2>2, <2>3 DEF Load, TypeInv, Memories, Open, Stages
<1>2. PastStays
  BY <1>1 DEF PastStays, ResolvedAt
<1>3. DisputeKept'
  BY <1>1 DEF DisputeInv, DisputeKept, T
<1>4. \A q \in Requests : Open(q)' => \/ Open(q) /\ seen'[q] = seen[q] /\ T(q)' = T(q)
                                      \/ row[T(q)'] # Gone /\ seen'[q] = row[T(q)']
  BY <1>1 DEF Open, T
<1>5. \A q \in Requests :
          pc'[q] = "save" /\ task'[q].kind = "resolve" /\ T(q)' \notin deleted' => ResolvedAt(T(q))'
  BY <1>1 DEF DisputeInv, T, ResolvedAt
<1>6. TypeInv'
  BY LoadStep
<1> QED BY <1>1, <1>2, <1>3, <1>4, <1>5, <1>6, DisputeKeeps

\* A handler that saves the row adds to it its own mark at most.
LEMMA AddedNotes ==
    ASSUME NEW r \in Requests, NEW k \in Tasks, NEW loaded \in Row,
           NEW i \in DOMAIN NewNotes(r, k, loaded)
    PROVE  \/ NewNotes(r, k, loaded)[i] = r
           \/ i \in DOMAIN loaded.notes /\ NewNotes(r, k, loaded)[i] = loaded.notes[i]
<1> DEFINE notes == NewNotes(r, k, loaded)
<1>1. loaded.notes \in Seq(Requests)
  BY DEF Row
<1>2. notes = <<>> \/ notes = loaded.notes \/ notes = Append(loaded.notes, r)
  BY TaskFacts DEF NewNotes
<1>3. i \in DOMAIN notes
  OBVIOUS
<1> HIDE DEF notes
<1>4. (notes[i] = r) \/ (i \in DOMAIN loaded.notes /\ notes[i] = loaded.notes[i])
  <2>1. CASE notes = <<>>
    BY <1>3, <2>1
  <2>2. CASE notes = loaded.notes
    BY <1>3, <2>2
  <2>3. CASE notes = Append(loaded.notes, r)
    BY <1>1, <1>3, <2>3
  <2> QED BY <1>2, <2>1, <2>2, <2>3
<1> QED BY <1>4 DEF notes

\* A handler saves the marks it loaded and its own.
LEMMA SavedMarks ==
    ASSUME TypeInv, DisputeInv, PastStays, NEW r \in Requests, SaveRow(r),
           row'[T(r)] # row[T(r)]
    PROVE  Marked(row[T(r)], T(r))'
<1>0. RequestOK(r) /\ task[r] \in Tasks /\ seen[r] \in Row /\ T(r) \in Transactions
  BY OthersStand DEF TypeInv, RequestOK, Step
<1> DEFINE notes == NewNotes(r, task[r], seen[r])
<1>1. PICK t \in Transactions : t = T(r) /\ t = T(r)'
  BY <1>0 DEF SaveRow, T
<1>2. row'[t].notes = notes
  BY <1>0, <1>1 DEF SaveRow, TypeInv, RowsOK
<1>3. Marked(seen[r], t) /\ Open(r) /\ task' = task /\ pc[r] = "save" /\ pc'[r] # "idle"
  BY <1>1, OthersStand DEF DisputeInv, Step, SaveRow, Stages, Final
<1>4. MarkedBy(r, t)'
  <2>1. task[r].kind = "resolve" /\ t \notin deleted => ResolvedAt(t)
    BY <1>1, <1>3 DEF DisputeInv
  <2> QED BY <1>3, <2>1 DEF MarkedBy, PastStays
<1>5. PICK x \in Row : seen[r] = x /\ Marked(x, t)
  BY <1>0, <1>3
<1>6. Marked(x, t)'
  BY <1>5, MarkedStays
<1>7. ASSUME NEW i \in DOMAIN row'[t].notes PROVE MarkedBy(row[t].notes[i], t)'
  <2>1. (row'[t].notes[i] = r) \/ (i \in DOMAIN x.notes /\ row'[t].notes[i] = x.notes[i])
    BY <1>0, <1>2, <1>5, AddedNotes
  <2>2. i \in DOMAIN x.notes => MarkedBy(x.notes[i], t)'
    BY <1>6 DEF Marked
  <2> QED BY <1>4, <2>1, <2>2 DEF MarkedBy
<1> QED BY <1>1, <1>7 DEF Marked

\* A request that goes on leaves the past as it is.  It is only when it has resolved a
\* dispute that it comes to save, and only when it has created one that it is answered
\* 201.
LEMMA PastStep ==
    ASSUME TypeInv, NEW r \in Requests, Step(r) \/ Crash(r)
    PROVE  /\ PastStays
           /\ pc'[r] = "accepted" /\ task[r].kind = "dispute" =>
                 dispute'[T(r)] # Gone /\ dispute'[T(r)].by = r
           /\ pc'[r] = "save" => ResolvedAt(T(r))'
           /\ row'[T(r)] \notin {Gone, row[T(r)]} => SaveRow(r)
<1>0. /\ RequestOK(r) /\ Open(r) /\ task[r] \in Tasks /\ T(r) \in Transactions
      /\ pc'[r] # "idle" /\ task' = task
      /\ \A q \in Requests \ {r} : pc'[q] = pc[q]
  BY OthersStand DEF TypeInv, Stages, Final
<1>1. PICK t \in Transactions : t = T(r) /\ t = T(r)'
  BY <1>0 DEF T
<1>2. CASE UNCHANGED <<dispute, deleted>> /\ pc'[r] # "save" /\ (pc'[r] = "accepted" => SaveRow(r))
  <2>1. PastStays
    BY <1>0, <1>2 DEF PastStays, ResolvedAt
  <2>2. SaveRow(r) => task[r].kind # "dispute"
    BY <1>0 DEF RequestOK, AtStage, SaveRow
  <2>3. row'[t] \notin {Gone, row[t]} => SaveRow(r)
    BY <1>1, <1>2 DEF Step, LookForDispute, CreateDispute, ResolveDispute, DeleteRow, Crash, TypeInv, RowsOK
  <2> QED BY <1>1, <1>2, <2>1, <2>2, <2>3
<1>3. CASE LookForDispute(r) \/ SaveRow(r) \/ Crash(r)
  <2>1. UNCHANGED <<dispute, deleted>>
    BY <1>3 DEF LookForDispute, SaveRow, Crash
  <2>2. pc'[r] # "save" /\ (pc'[r] = "accepted" => SaveRow(r))
    BY <1>3 DEF LookForDispute, SaveRow, Crash, Answer, TypeInv, Memories
  <2> QED BY <1>2, <2>1, <2>2
<1>4. CASE CreateDispute(r)
  <2> DEFINE new == [by |-> r, resolved |-> Nobody]
  <2>1. new \in DisputeRow /\ new # Gone /\ new.by = r
    BY AdminAssumption DEF DisputeRow
  <2>2. /\ deleted' = deleted /\ row' = row /\ pc'[r] # "save"
        /\ \/ dispute' = dispute /\ pc'[r] = "refused"
           \/ dispute[t] = Gone /\ dispute' = [dispute EXCEPT ![t] = new]
    BY <1>1, <1>4 DEF CreateDispute, Answer, TypeInv, Memories
  <2> HIDE DEF new
  <2>3. \A u \in Transactions : dispute[u] # Gone => dispute'[u] = dispute[u]
    BY <2>2 DEF TypeInv, RowsOK
  <2>4. PastStays
    BY <1>0, <2>2, <2>3 DEF PastStays, ResolvedAt
  <2>5. pc'[r] = "accepted" => dispute'[t] # Gone /\ dispute'[t].by = r
    BY <2>1, <2>2 DEF TypeInv, RowsOK
  <2> QED BY <1>1, <2>2, <2>4, <2>5
<1>5. CASE ResolveDispute(r)
  <2> DEFINE new == [by |-> found[r].by, resolved |-> r]
  <2>1. found[r] \in DisputeRow
    BY <1>0, <1>5 DEF RequestOK, ResolveDispute
  <2>2. new \in DisputeRow /\ new # Gone /\ new.by = found[r].by /\ new.resolved # Nobody
    BY <2>1, AdminAssumption DEF DisputeRow
  <2>3. /\ deleted' = deleted /\ row' = row /\ pc'[r] # "accepted"
        /\ \/ dispute' = dispute /\ pc'[r] = "refused"
           \/ /\ dispute[t] = Gone \/ dispute[t].by = new.by
              /\ dispute' = [dispute EXCEPT ![t] = new]
    BY <1>1, <1>5 DEF ResolveDispute, Answer, TypeInv, Memories
  <2> HIDE DEF new
  <2>4. \A u \in Transactions :
           \/ dispute'[u] = dispute[u]
           \/ dispute'[u] = new /\ u = t /\ (dispute[u] = Gone \/ dispute[u].by = new.by)
    BY <2>3 DEF TypeInv, RowsOK
  <2>5. PastStays
    BY <1>0, <2>2, <2>3, <2>4 DEF PastStays, ResolvedAt
  <2>6. pc'[r] = "save" => ResolvedAt(t)'
    BY <2>2, <2>3 DEF TypeInv, RowsOK, ResolvedAt
  <2> QED BY <1>1, <2>3, <2>5, <2>6 DEF ResolvedAt
<1>6. CASE DeleteRow(r)
  <2>1. deleted' = deleted \cup {t} /\ \A u \in Transactions \ {t} : dispute'[u] = dispute[u]
    BY <1>1, <1>6 DEF DeleteRow, TypeInv, RowsOK
  <2>2. PastStays
    BY <1>0, <2>1 DEF PastStays, ResolvedAt
  <2>3. task[r].kind # "dispute" /\ pc'[r] = "accepted"
    BY <1>0, <1>6 DEF RequestOK, AtStage, DeleteRow, Answer, TypeInv, Memories
  <2>4. row'[t] = Gone
    BY <1>1, <1>6 DEF DeleteRow, TypeInv, RowsOK
  <2> QED BY <1>1, <2>2, <2>3, <2>4
<1> QED BY <1>3, <1>4, <1>5, <1>6 DEF Step

\* Every step of a request keeps marks sound and disputes in place.
LEMMA PastGoesOn ==
    ASSUME TypeInv, DisputeInv, NEW r \in Requests, Step(r) \/ Crash(r), UNCHANGED payments
    PROVE  DisputeInv'
<1>0. TypeInv'
  BY DisputeStep, RowStep DEF Step
<1>1. /\ Open(r) /\ T(r) \in Transactions /\ UNCHANGED <<task, seen>>
      /\ \A q \in Requests \ {r} : pc'[q] = pc[q]
      /\ \A t \in Transactions \ {T(r)} : row'[t] = row[t]
  BY OthersStand
<1>2. PastStays
  BY PastStep
<1>3. \A t \in Transactions : row'[t] # Gone => row'[t] = row[t] \/ Marked(row[t], t)'
  <2> SUFFICES ASSUME NEW t \in Transactions, row'[t] # Gone, row'[t] # row[t]
               PROVE  Marked(row[t], t)'
    OBVIOUS
  <2>1. t = T(r) /\ t = T(r)' /\ SaveRow(r)
    BY <1>1, PastStep DEF T
  <2>2. Marked(row[T(r)], T(r))'
    BY <1>2, <2>1, SavedMarks
  <2> QED BY <2>1, <2>2
<1>4. \A q \in Requests : Open(q)' => Open(q) /\ seen'[q] = seen[q] /\ T(q)' = T(q)
  BY <1>1 DEF Open, T
<1>5. \A q \in Requests :
          pc'[q] = "save" /\ task'[q].kind = "resolve" /\ T(q)' \notin deleted' => ResolvedAt(T(q))'
  <2> SUFFICES ASSUME NEW q \in Requests, pc'[q] = "save", task'[q].kind = "resolve",
                      T(q)' \notin deleted'
               PROVE  ResolvedAt(T(q))'
    OBVIOUS
  <2>1. CASE q = r
    BY <2>1, PastStep
  <2>2. CASE q # r
    <3>1. pc[q] = "save" /\ task[q].kind = "resolve" /\ T(q) \notin deleted /\ T(q)' = T(q)
      BY <1>1, <1>2, <2>2 DEF T, PastStays
    <3>2. ResolvedAt(T(q))
      BY <3>1 DEF DisputeInv
    <3>3. PICK t \in Transactions : t = T(q) /\ t = T(q)'
      BY <3>1, TaskFacts DEF T, TypeInv, RequestOK
    <3> QED BY <3>2, <3>3, <1>2 DEF PastStays, ResolvedAt
  <2> QED BY <2>1, <2>2
<1>6. DisputeKept'
  <2> SUFFICES ASSUME NEW q \in Requests, pc'[q] = "accepted", task'[q].kind = "dispute",
                      T(q)' \notin deleted'
               PROVE  dispute'[T(q)'] # Gone /\ dispute'[T(q)'].by = q
    BY DEF DisputeKept
  <2>1. CASE q = r
    BY <1>1, <2>1, PastStep DEF T
  <2>2. CASE q # r
    <3>1. pc[q] = "accepted" /\ task[q].kind = "dispute" /\ T(q) \notin deleted /\ T(q)' = T(q)
      BY <1>1, <1>2, <2>2 DEF T, PastStays
    <3>2. dispute[T(q)] # Gone /\ dispute[T(q)].by = q
      BY <3>1 DEF DisputeInv, DisputeKept
    <3>3. T(q) \in Transactions
      BY <3>1, TaskFacts DEF T, TypeInv, RequestOK
    <3> QED BY <3>1, <3>2, <3>3, <1>2 DEF PastStays
  <2> QED BY <2>1, <2>2
<1> QED BY <1>0, <1>2, <1>3, <1>4, <1>5, <1>6, DisputeKeeps

\* A payment saves no notes, and asks nothing of disputes.
LEMMA PastPay ==
    ASSUME TypeInv, DisputeInv, NEW t \in Transactions, Pay(t)
    PROVE  DisputeInv'
<1>0. TypeInv' /\ UNCHANGED <<dispute, pc, task, seen, found, deleted>>
  BY PayStep DEF Pay, Refuse, Create, Ask, SaveOutcome, Amend, Lose, vars
<1>1. PastStays
  BY <1>0 DEF PastStays, ResolvedAt
<1>2. row' = row \/ \E new \in Saved : row' = [row EXCEPT ![t] = new]
  BY DEF Pay, Refuse, Create, Ask, SaveOutcome, Outcome, Amend, Lose, vars, Saved
<1>3. \A u \in Transactions : row'[u] # Gone => row'[u] = row[u] \/ Marked(row[u], u)'
  <2>1. \A u \in Transactions : row'[u] = row[u] \/ row'[u].notes = <<>>
    BY <1>2 DEF TypeInv, RowsOK, Saved
  <2> QED BY <2>1 DEF Marked
<1>4. \A q \in Requests : Open(q)' => Open(q) /\ seen'[q] = seen[q] /\ T(q)' = T(q)
  BY <1>0 DEF Open, T
<1>5. \A q \in Requests :
          pc'[q] = "save" /\ task'[q].kind = "resolve" /\ T(q)' \notin deleted' => ResolvedAt(T(q))'
  BY <1>0 DEF DisputeInv, T, ResolvedAt
<1>6. DisputeKept'
  BY <1>0 DEF DisputeInv, DisputeKept, T
<1> QED BY <1>0, <1>1, <1>3, <1>4, <1>5, <1>6, DisputeKeeps

\* Marks are sound throughout.
LEMMA PastAlways == PaymentsSpec => [](TypeInv /\ DisputeInv)
<1>1. TypeInv /\ DisputeInv /\ [PaymentsNext]_allVars => DisputeInv'
  <2> SUFFICES ASSUME TypeInv, DisputeInv, [PaymentsNext]_allVars PROVE DisputeInv'
    OBVIOUS
  <2>1. CASE UNCHANGED allVars
    BY <2>1 DEF allVars, vars, DisputeInv, DisputeKept, Marked, MarkedBy, ResolvedAt, Open, T
  <2>2. CASE Next /\ UNCHANGED payments
    BY <2>2, PastLoad, PastGoesOn DEF Next
  <2> QED BY <2>1, <2>2, PastPay DEF PaymentsNext, Finished
<1> QED BY <1>1, DisputeStart, TypeStart, TypeStep, PTL DEF PaymentsSpec

\* A dispute that was created stays: the column is unique, whoever looked first.
THEOREM DisputesKept == PaymentsSpec => []DisputeKept
<1>1. DisputeInv => DisputeKept
  BY DEF DisputeInv
<1> QED BY <1>1, PastAlways, PTL

\* A mark that a dispute was resolved is only found on a row whose dispute is.
THEOREM MarksMeanResolved == PaymentsSpec => []DisputeMarkMeansResolved
BY PastAlways, DisputeInvMarks, PTL

-----------------------------------------------------------------------------
(* Refunds. *)

\* A handler that loaded a refunded row, and does not resolve a dispute in favour of
\* completion, saves a refunded row.
LEMMA RefundedStays ==
    ASSUME NEW k \in Tasks, NEW loaded \in Row, MayProceed(k, loaded),
           loaded.status = "refunded", ~(k.kind = "resolve" /\ k.arg = "complete")
    PROVE  NewStatus(k, loaded) = "refunded"
BY TaskFacts DEF MayProceed, NewStatus

\* Every step leaves refunds alone but in the ways the property names.
LEMMA RefundStep ==
    TypeInv /\ [PaymentsNext]_allVars => [\A t \in Transactions : RefundStands(t)]_allVars
<1> SUFFICES ASSUME TypeInv, [PaymentsNext]_allVars, NEW t \in Transactions,
                    StatusOf(t) = "refunded", StatusOf(t)' \notin {"refunded", "gone"}
             PROVE  UndoneByRequest(t) \/ UndoneByPayment(t)
  BY DEF RefundStands
<1>0. row[t] # Gone /\ row'[t] # Gone /\ row'[t] # row[t] /\ row'[t].status # "refunded"
  BY DEF StatusOf
<1>1. ASSUME NEW r \in Requests, Step(r) \/ Crash(r) PROVE UndoneByRequest(t)
  <2>1. T(r) = t /\ SaveRow(r)
    BY <1>0, <1>1, OthersStand, PastStep
  <2>2. RequestOK(r) /\ task[r] \in Tasks /\ seen[r] \in Row /\ MayProceed(task[r], seen[r])
    BY <1>1, OthersStand DEF TypeInv, RequestOK
  <2>3. row'[t].status = NewStatus(task[r], seen[r])
    BY <1>0, <2>1 DEF SaveRow, TypeInv, RowsOK
  <2>4. pc[r] = "save" /\ pc'[r] = "accepted"
    BY <1>0, <2>1 DEF SaveRow, SaveRaises, Answer, TypeInv, RowsOK, Memories
  <2> QED BY <1>0, <2>1, <2>2, <2>3, <2>4, RefundedStays DEF UndoneByRequest
<1>2. ASSUME NEW u \in Transactions, Pay(u) PROVE UndoneByPayment(t)
  <2>1. u = t /\ (SaveOutcome(t) \/ Amend(t))
    BY <1>0, <1>2 DEF Pay, Refuse, Create, Ask, SaveOutcome, Amend, Lose, vars,
       TypeInv, RowsOK, NewIsFree
  <2> QED BY <2>1 DEF UndoneByPayment, SaveOutcome, Amend, Move, TypeInv, PaymentsOK
<1> QED BY <1>0, <1>1, <1>2 DEF PaymentsNext, Next, Load, Finished, allVars, vars

\* A refund is undone by a dispute resolved in favour of completion, by a request that
\* loaded the row before the refund, or by the payment that made the row.
THEOREM RefundsUndoneOnlyKnowingly ==
    PaymentsSpec => RefundUndoneOnlyByDisputeOrOutdatedLoad
BY TypeAlways, RefundStep, PTL DEF PaymentsSpec, RefundUndoneOnlyByDisputeOrOutdatedLoad

-----------------------------------------------------------------------------
(* What the row of a payment says. *)

\* Where a payment stands tells which row it has, if nobody else touched it; its save
\* never fails then, so that it is never amended.
Account(t) == at[t] # "none" /\ Untouched(t) =>
    /\ at[t] # "amend"
    /\ at[t] = "new" => row[t] = Gone /\ t \notin opened
    /\ at[t] \in {"gateway", "save", "lost"} => StatusOf(t) = "pending"
    /\ at[t] = "failure" => \/ row[t] = Gone /\ t \notin opened
                            \/ StatusOf(t) = "failed" /\ result[t] \notin Successes
    /\ at[t] = "error" => StatusOf(t) = Outcome(t)

\* The account of a payment at its end is what the property asks for.
LEMMA AccountTells == TypeInv /\ (\A t \in Transactions : Account(t)) => PaymentAccounted
<1> SUFFICES ASSUME TypeInv, NEW t \in Transactions, Account(t), at[t] # "none", Untouched(t)
             PROVE  /\ StatusOf(t) = "completed" => at[t] = "error" /\ result[t] \in Successes
                    /\ StatusOf(t) = "pending" => at[t] \in {"gateway", "save", "lost"}
                    /\ StatusOf(t) = "failed" => at[t] \in {"failure", "error"} /\ result[t] \notin Successes
                    /\ StatusOf(t) = "gone" => at[t] \in {"new", "failure"} /\ t \notin opened
  BY DEF PaymentAccounted
<1>1. StatusOf(t) = "gone" <=> row[t] = Gone
  BY DEF StatusOf, TypeInv, RowsOK, Row, Statuses
<1>2. at[t] \in {"new", "failure", "error", "lost", "gateway", "save"}
  BY DEF TypeInv, PaymentsOK, Places, InService, Account
<1> QED BY <1>1, <1>2 DEF Account, StatusOf, Outcome

\* At the start no payment has begun.
LEMMA AccountStart == PaymentsInit => \A t \in Transactions : Account(t)
BY DEF PaymentsInit, Account

\* Whoever asks for something on t has touched it; the others leave its row alone.
LEMMA UntouchedBefore ==
    ASSUME TypeInv, Next, NEW t \in Transactions, Untouched(t)'
    PROVE  Untouched(t) /\ row'[t] = row[t]
<1>1. ASSUME NEW r \in Requests, NEW k \in Tasks, Load(r, k)
      PROVE  Untouched(t) /\ row'[t] = row[t]
  BY <1>1 DEF Load, Answer, Untouched, T, TypeInv, Memories
<1>2. ASSUME NEW r \in Requests, Step(r) \/ Crash(r)
      PROVE  Untouched(t) /\ row'[t] = row[t]
  <2>1. /\ pc'[r] # "idle" /\ task' = task
        /\ \A q \in Requests \ {r} : pc'[q] = pc[q]
        /\ \A u \in Transactions \ {T(r)} : row'[u] = row[u]
    BY <1>2, OthersStand DEF Stages, Final
  <2> QED BY <2>1 DEF Untouched, T
<1> QED BY <1>1, <1>2 DEF Next

\* A step of one payment keeps the account of every payment.
LEMMA AccountPay ==
    ASSUME TypeInv, NEW t \in Transactions, NEW u \in Transactions, Account(t), Pay(u)
    PROVE  Account(t)'
<1>0. (Untouched(t)' <=> Untouched(t))
  BY DEF Pay, Refuse, Create, Ask, SaveOutcome, Amend, Lose, vars, Untouched, T
<1>1. CASE u # t
  <2>1. /\ at'[t] = at[t] /\ row'[t] = row[t] /\ result'[t] = result[t]
        /\ t \in opened' <=> t \in opened
    BY <1>1 DEF Pay, Refuse, Create, Ask, SaveOutcome, Amend, Lose, Move, vars,
       TypeInv, RowsOK, PaymentsOK
  <2> QED BY <1>0, <2>1 DEF Account, StatusOf, Outcome
<1>2. CASE u = t
  <2> SUFFICES ASSUME Untouched(t) PROVE Account(t)'
    BY <1>0 DEF Account
  <2>0. Pay(t)
    BY <1>2
  <2>1. CASE Refuse(t)
    BY <2>1 DEF Account, Refuse, Move, vars, TypeInv, PaymentsOK
  <2>2. CASE \E m \in Methods : Create(t, m)
    <3> DEFINE new == [status |-> "pending", notes |-> <<>>]
    <3>1. new \in Row /\ new.status = "pending"
      <4>1. <<>> \in Seq(Requests)
        OBVIOUS
      <4> QED BY <4>1 DEF Row, Statuses
    <3>2. at'[t] = "gateway" /\ row'[t] = new
      BY <2>2 DEF Create, Move, TypeInv, RowsOK, PaymentsOK
    <3> HIDE DEF new
    <3>3. StatusOf(t)' = "pending"
      BY <3>1, <3>2, AdminAssumption DEF StatusOf
    <3> QED BY <3>2, <3>3 DEF Account
  <2>3. CASE Ask(t) \/ Lose(t)
    <3>1. at[t] \in InService /\ at'[t] \in {"save", "lost"} /\ row' = row
      BY <2>3 DEF Ask, Lose, Move, vars, InService, TypeInv, PaymentsOK
    <3>2. StatusOf(t) = "pending"
      BY <3>1 DEF Account, InService
    <3> QED BY <3>1, <3>2 DEF Account, StatusOf
  <2>4. CASE SaveOutcome(t)
    <3> DEFINE new == [status |-> Outcome(t), notes |-> <<>>]
    <3>1. new \in Row /\ new.status = Outcome(t)
      <4>1. <<>> \in Seq(Requests)
        OBVIOUS
      <4> QED BY <4>1 DEF Row, Statuses, Outcome
    <3>2. StatusOf(t) = "pending"
      BY <2>4 DEF SaveOutcome, Account
    <3>3. row[t] # Gone
      BY <3>2 DEF StatusOf
    <3>4. /\ row'[t] = new /\ UNCHANGED <<result, opened>>
          /\ at'[t] = IF result[t] = "nothing" THEN "failure" ELSE "error"
      BY <2>4, <3>3 DEF SaveOutcome, SaveRaises, Move, TypeInv, RowsOK, PaymentsOK
    <3> HIDE DEF new
    <3>5. StatusOf(t)' = Outcome(t) /\ Outcome(t)' = Outcome(t)
      BY <3>1, <3>4, AdminAssumption DEF StatusOf, Outcome
    <3>6. result[t] = "nothing" => Outcome(t) = "failed" /\ result'[t] \notin Successes
      BY <3>4 DEF Outcome, Successes
    <3> QED BY <3>4, <3>5, <3>6 DEF Account
  <2>5. ~Amend(t)
    BY DEF Amend, Account
  <2> QED BY <2>0, <2>1, <2>2, <2>3, <2>4, <2>5 DEF Pay
<1> QED BY <1>1, <1>2

\* Every step keeps the accounts.
LEMMA AccountStep ==
    TypeInv /\ (\A t \in Transactions : Account(t)) /\ [PaymentsNext]_allVars
        => (\A t \in Transactions : Account(t))'
<1> SUFFICES ASSUME TypeInv, [PaymentsNext]_allVars, NEW t \in Transactions, Account(t)
             PROVE  Account(t)'
  OBVIOUS
<1>1. CASE UNCHANGED allVars
  BY <1>1 DEF Account, Untouched, T, StatusOf, Outcome, allVars, vars, payments
<1>2. CASE Next /\ UNCHANGED payments
  BY <1>2, UntouchedBefore DEF Account, StatusOf, Outcome, payments
<1> QED BY <1>1, <1>2, AccountPay DEF PaymentsNext, Finished

\* The row of a payment that nobody else touched says what became of it.
THEOREM PaymentsAccounted == PaymentsSpec => []PaymentAccounted
BY AccountStart, AccountStep, AccountTells, TypeStart, TypeStep, PTL DEF PaymentsSpec
=============================================================================
