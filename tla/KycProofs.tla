----------------------------- MODULE KycProofs -----------------------------
(***************************************************************************)
(* Proofs about the identity verification of a customer, for any number of *)
(* documents, of requests at once and of mixes of them: the types, that    *)
(* the two columns come apart by hand only, that approvals come in order,  *)
(* and that verdicts stand.                                                *)
(***************************************************************************)
EXTENDS Kyc, TLAPS

Decisions == {"decide", "bulk"}
OnSubmission == Decisions \cup {"amend", "withdraw"}
OnDocument == {"review", "mark", "edit", "delete"}
OnRelation == RelationKinds \cup {"relate"}
Stages == {"idle", "start", "create", "save_customer", "load_customer", "save_document",
           "delete", "save_submission", "save_escalated", "withdraw", "load_related",
           "save_merchant"}
Held == [customer: Loaded(CustomerRow), document: Loaded(DocumentStatuses),
         submission: Loaded(SubmissionStatuses), merchant: Loaded(MerchantRow),
         done: SUBSET {"submission", "document"}]

\* What a request names and gives.
LEMMA TaskFacts ==
    ASSUME NEW k \in Task
    PROVE  /\ k.kind \in OwnKinds \cup OnRelation \cup OnDocument \cup OnSubmission
                           \cup {"profile", "file", "enter", "select"}
           /\ k.kind \in OnDocument \cup OnSubmission \cup {"enter"} => k.on \in Documents
           /\ k.kind \in {"review", "mark"} => k.arg \in Verdicts
           /\ k.kind = "edit" => k.arg \in DocumentChoices \cup {Nothing}
           /\ k.kind = "file" => k.arg \in DocumentChoices
           /\ k.kind = "enter" => k.arg \in SubmissionChoices
           /\ k.kind = "decide" => k.arg \in {"escalated"} \cup Verdicts
           /\ k.kind = "bulk" => k.arg \in SubmissionStatuses
           /\ k.kind = "amend" => k.arg \in SubmissionChoices \cup {Nothing}
           /\ k.kind \in {"profile", "relate"} => k.arg \in KycStatuses \cup {Nothing}
           /\ k.kind = "relate" => k.also \in MerchantStatuses \cup {Nothing}
BY DEF Task, OwnKinds, RelationKinds, OnRelation, OnDocument, OnSubmission, Decisions

\* What a worker that serves request k holds as it comes to a stage, and what it
\* saved before.
Ready(stage, k, h) ==
    /\ stage = "idle" => k = Nothing
    /\ stage # "idle" => k \in Task
    /\ stage \in {"start", "create", "save_customer"} => h.customer \in CustomerRow
    /\ stage = "start" => k.kind \in OwnKinds \ {"resubmit"} /\ h.customer.status = "not_started"
    /\ stage = "create" => k.kind = "upload"
    /\ stage = "save_customer" =>
          /\ k.kind \in OwnKinds \cup {"review", "profile"}
          /\ k.kind = "resubmit" => h.customer.status \in {"rejected", "not_started"}
          /\ k.kind = "review" => "document" \in h.done
    /\ stage = "load_customer" => k.kind = "review" /\ "document" \in h.done
    /\ stage = "save_document" =>
          /\ k.kind \in {"review", "mark", "edit"} \cup Decisions
          /\ h.document \in DocumentStatuses
    /\ stage = "delete" => k.kind = "delete"
    /\ stage = "withdraw" => k.kind = "withdraw"
    /\ stage = "save_submission" =>
          /\ k.kind \in Decisions \cup {"amend"}
          /\ k.kind = "decide" => h.document \in DocumentStatuses /\ h.merchant \in MerchantRow
          /\ k.kind = "amend" => h.submission \in SubmissionStatuses
    /\ stage = "save_escalated" => k.kind \in Decisions
    /\ stage = "load_related" => k.kind = "bulk" /\ "submission" \in h.done
    /\ stage = "save_merchant" =>
          /\ k.kind \in Decisions \cup OnRelation
          /\ h.merchant \in MerchantRow
          /\ k.kind \in Decisions => k.arg \in Verdicts /\ h.done = {"submission", "document"}
    /\ stage = "save_document" /\ k.kind \in Decisions =>
          k.arg \in Verdicts /\ h.merchant \in MerchantRow /\ "submission" \in h.done

RowsOK ==
    /\ customer \in CustomerRow
    /\ document \in [Documents -> DocumentStatuses \cup {Gone}]
    /\ submission \in [Documents -> SubmissionStatuses \cup {Gone}]
    /\ merchant \in MerchantRow
    /\ \A d \in Documents : submission[d] # Gone => Exists(d)

Memories ==
    /\ mix \in Mixes
    /\ at \in [Workers -> Stages]
    /\ task \in [Workers -> Task \cup {Nothing}]
    /\ held \in [Workers -> Held]

TypeInv ==
    /\ RowsOK
    /\ Memories
    /\ \A w \in Workers : Ready(at[w], task[w], held[w])

\* The invariant is about the types TypeOK states.
LEMMA TypeInvTypes == TypeInv => TypeOK
<1> SUFFICES ASSUME TypeInv PROVE TypeOK
  OBVIOUS
<1> USE KycAssumption
<1>1. ASSUME NEW w \in Workers
      PROVE  /\ at[w] = "idle" <=> task[w] = Nothing
             /\ at[w] \in {"start", "save_customer"} => held[w].customer # Nothing
             /\ at[w] = "save_document" => held[w].document # Nothing
             /\ at[w] = "save_merchant" => held[w].merchant # Nothing
  <2>1. Ready(at[w], task[w], held[w])
    BY DEF TypeInv
  <2> QED BY <2>1 DEF Ready
<1> QED BY <1>1 DEF TypeInv, RowsOK, Memories, Held, TypeOK

-----------------------------------------------------------------------------
(* The types. *)

\* One worker moves, and the memory of the others is as it was.
Moves(w) ==
    /\ Memories'
    /\ \A v \in Workers \ {w} : at'[v] = at[v] /\ task'[v] = task[v] /\ held'[v] = held[v]

\* A worker that moves with what its next query needs keeps the types.
LEMMA MoveKeeps ==
    ASSUME TypeInv, NEW w \in Workers, Moves(w), RowsOK',
           Ready(at'[w], task'[w], held'[w])
    PROVE  TypeInv'
BY DEF TypeInv, Moves

\* A worker may hold nothing.
LEMMA EmptyHeld == Empty \in Held
BY DEF Empty, Held, Loaded

\* Answering ends the request and lets go of its rows.
LEMMA AnswerMoves ==
    ASSUME TypeInv, NEW w \in Workers, Answer(w)
    PROVE  Moves(w) /\ Ready(at'[w], task'[w], held'[w])
<1>1. at'[w] = "idle" /\ task'[w] = Nothing
  BY DEF TypeInv, Memories, Answer
<1>2. Moves(w)
  BY EmptyHeld DEF TypeInv, Memories, Moves, Answer, Stages
<1> QED BY <1>1, <1>2 DEF Ready

\* Going on to a stage that is fit for what is held.
LEMMA GoToMoves ==
    ASSUME TypeInv, NEW w \in Workers, NEW s \in Stages, GoTo(w, s),
           NEW h \in Held, held' = [held EXCEPT ![w] = h], Ready(s, task[w], h)
    PROVE  Moves(w) /\ Ready(at'[w], task'[w], held'[w])
<1>1. Moves(w) /\ at'[w] = s /\ task'[w] = task[w] /\ held'[w] = h
  BY DEF TypeInv, Memories, Moves, GoTo
<1> QED BY <1>1

\* Going on, or answering where there is nothing more to do.
LEMMA GoOnMoves ==
    ASSUME TypeInv, NEW w \in Workers, NEW s \in Stages, NEW h \in Held, GoOn(w, s, h),
           s # "idle" => Ready(s, task[w], h)
    PROVE  Moves(w) /\ Ready(at'[w], task'[w], held'[w])
BY AnswerMoves, GoToMoves DEF GoOn

\* Taking a request up.
LEMMA ServeMoves ==
    ASSUME TypeInv, NEW w \in Workers, NEW k, NEW s \in Stages, NEW h \in Held,
           Serve(w, k, s, h), Ready(s, k, h)
    PROVE  TypeInv'
<1>1. Moves(w) /\ at'[w] = s /\ task'[w] = k /\ held'[w] = h
  BY DEF TypeInv, Memories, Moves, Serve, Ready
<1>2. RowsOK'
  BY DEF TypeInv, RowsOK, Serve, rows, Exists
<1> QED BY <1>1, <1>2, MoveKeeps

\* A column given by hand is one of its choices.
LEMMA GivenIsChoice ==
    ASSUME NEW S, NEW value \in S \cup {Nothing}, NEW old \in S
    PROVE  Given(value, old) \in S
BY DEF Given

\* The types hold at the start.
LEMMA TypeStart == Init => TypeInv
<1> SUFFICES ASSUME Init PROVE TypeInv
  OBVIOUS
<1> USE KycAssumption
<1>1. RowsOK
  BY DEF Init, RowsOK, CustomerRow, KycStatuses, MerchantRow, MerchantStatuses
<1>2. Memories
  BY EmptyHeld DEF Init, Memories, Stages
<1>3. \A w \in Workers : Ready(at[w], task[w], held[w])
  BY DEF Init, Ready
<1> QED BY <1>1, <1>2, <1>3 DEF TypeInv

\* Loading keeps the types.
LEMMA LoadStep ==
    ASSUME TypeInv, NEW w \in Workers, NEW k \in mix, Load(w, k)
    PROVE  TypeInv'
<1> USE KycAssumption
<1>0. k \in Task
  BY DEF TypeInv, Memories
<1>1. CASE LoadOwnProfile(w, k)
  <2> DEFINE s == IF k.kind # "resubmit" /\ customer.status = "not_started"
                  THEN "start" ELSE AfterStart(k.kind)
             h == [Empty EXCEPT !.customer = customer]
  <2>1. h \in Held /\ h.customer = customer /\ customer \in CustomerRow
    BY DEF TypeInv, RowsOK, Empty, Held, Loaded
  <2>2. s \in Stages /\ Ready(s, k, h)
    BY <1>0, <1>1, <2>1 DEF LoadOwnProfile, AfterStart, Ready, Stages, OwnKinds
  <2>3. Serve(w, k, s, h)
    BY <1>1 DEF LoadOwnProfile
  <2> HIDE DEF s, h
  <2> QED BY <2>1, <2>2, <2>3, ServeMoves
<1>2. CASE LoadCustomer(w, k)
  <2> DEFINE h == [Empty EXCEPT !.customer = customer]
  <2>1. h \in Held /\ h.customer = customer /\ customer \in CustomerRow
    BY DEF TypeInv, RowsOK, Empty, Held, Loaded
  <2>2. "save_customer" \in Stages /\ Ready("save_customer", k, h)
    BY <1>0, <1>2, <2>1 DEF LoadCustomer, Ready, Stages
  <2>3. Serve(w, k, "save_customer", h)
    BY <1>2 DEF LoadCustomer
  <2> HIDE DEF h
  <2> QED BY <2>1, <2>2, <2>3, ServeMoves
<1>3. CASE LoadDocument(w, k)
  <2> DEFINE s == IF k.kind = "delete" THEN "delete" ELSE "save_document"
             h == [Empty EXCEPT !.document = document[k.on]]
  <2>1. document[k.on] \in DocumentStatuses
    BY <1>0, <1>3, TaskFacts DEF TypeInv, RowsOK, LoadDocument, Exists, OnDocument
  <2>2. h \in Held /\ h.document = document[k.on]
    BY <2>1 DEF Empty, Held, Loaded
  <2>3. s \in Stages /\ Ready(s, k, h)
    BY <1>0, <1>3, <2>1, <2>2 DEF LoadDocument, Ready, Stages, Decisions
  <2>4. Serve(w, k, s, h)
    BY <1>3 DEF LoadDocument
  <2> HIDE DEF s, h
  <2> QED BY <2>2, <2>3, <2>4, ServeMoves
<1>4. CASE LoadSubmission(w, k)
  <2> DEFINE s == IF k.kind = "withdraw" THEN "withdraw" ELSE "save_submission"
             h == CASE k.kind = "decide" ->
                          [Empty EXCEPT !.document = document[k.on], !.merchant = merchant]
                    [] k.kind = "amend" -> [Empty EXCEPT !.submission = submission[k.on]]
                    [] OTHER -> Empty
  <2>1. /\ document[k.on] \in DocumentStatuses /\ merchant \in MerchantRow
        /\ submission[k.on] \in SubmissionStatuses
    BY <1>0, <1>4, TaskFacts DEF TypeInv, RowsOK, LoadSubmission, Exists, OnSubmission, Decisions
  <2>2. /\ h \in Held
        /\ k.kind = "decide" => h.document = document[k.on] /\ h.merchant = merchant
        /\ k.kind = "amend" => h.submission = submission[k.on]
    BY <2>1 DEF Empty, Held, Loaded
  <2>3. k.kind \in {"decide", "bulk", "amend", "withdraw"}
    BY <1>4 DEF LoadSubmission
  <2>4. Serve(w, k, s, h)
    BY <1>4 DEF LoadSubmission
  <2> HIDE DEF h
  <2>5. s \in Stages /\ Ready(s, k, h)
    BY <1>0, <2>1, <2>2, <2>3 DEF Ready, Stages, Decisions
  <2> HIDE DEF s
  <2> QED BY <2>2, <2>4, <2>5, ServeMoves
<1>5. CASE LoadMerchantCustomer(w, k)
  <2> DEFINE h == [Empty EXCEPT !.merchant = merchant]
  <2>1. h \in Held /\ h.merchant = merchant /\ merchant \in MerchantRow
    BY DEF TypeInv, RowsOK, Empty, Held, Loaded
  <2>2. "save_merchant" \in Stages /\ Ready("save_merchant", k, h)
    BY <1>0, <1>5, <2>1 DEF LoadMerchantCustomer, Ready, Stages, Decisions, OnRelation,
       RelationKinds
  <2>3. Serve(w, k, "save_merchant", h)
    BY <1>5 DEF LoadMerchantCustomer
  <2> HIDE DEF h
  <2> QED BY <2>1, <2>2, <2>3, ServeMoves
<1> QED BY <1>1, <1>2, <1>3, <1>4, <1>5 DEF Load

\* The queries on the customer.
LEMMA CustomerStep ==
    ASSUME TypeInv, NEW w \in Workers,
           \/ StartKycProcess(w) \/ CreateDocument(w) \/ SaveCustomer(w)
           \/ LoadProfileOfDocument(w)
    PROVE  TypeInv'
<1>0. Ready(at[w], task[w], held[w]) /\ held[w] \in Held
  BY DEF TypeInv, Memories
<1>1. CASE StartKycProcess(w)
  <2> DEFINE h == [held[w] EXCEPT !.customer = [@ EXCEPT !.status = "in_progress"]]
  <2>1. held[w].customer \in CustomerRow /\ task[w].kind \in OwnKinds \ {"resubmit"} /\ task[w] \in Task
    BY <1>0, <1>1 DEF StartKycProcess, Ready
  <2>2. h \in Held /\ h.customer \in CustomerRow
    BY <1>0, <2>1 DEF Held, Loaded, CustomerRow, KycStatuses
  <2>3. held' = [held EXCEPT ![w] = h]
    BY <1>1 DEF StartKycProcess, TypeInv, Memories
  <2>4. /\ AfterStart(task[w].kind) \in Stages
        /\ Ready(AfterStart(task[w].kind), task[w], h)
    BY <2>1, <2>2 DEF AfterStart, Stages, Ready, OwnKinds
  <2>5. RowsOK'
    BY <1>1 DEF TypeInv, RowsOK, StartKycProcess, CustomerRow, KycStatuses, Exists
  <2>6. GoTo(w, AfterStart(task[w].kind))
    BY <1>1 DEF StartKycProcess
  <2> HIDE DEF h
  <2>7. Moves(w) /\ Ready(at'[w], task'[w], held'[w])
    BY <2>2, <2>3, <2>4, <2>6, GoToMoves
  <2> QED BY <2>5, <2>7, MoveKeeps
<1>2. CASE CreateDocument(w)
  <2>1. held' = [held EXCEPT ![w] = held[w]]
    BY <1>2 DEF CreateDocument, TypeInv, Memories
  <2>2. "save_customer" \in Stages /\ Ready("save_customer", task[w], held[w])
    BY <1>0, <1>2 DEF CreateDocument, Stages, Ready, OwnKinds
  <2>3. RowsOK'
    BY <1>2, KycAssumption DEF TypeInv, RowsOK, CreateDocument, Fresh, Exists, DocumentStatuses,
       DocumentChoices
  <2>4. Moves(w) /\ Ready(at'[w], task'[w], held'[w])
    BY <1>0, <1>2, <2>1, <2>2, GoToMoves DEF CreateDocument
  <2> QED BY <2>3, <2>4, MoveKeeps
<1>3. CASE SaveCustomer(w)
  <2>1. /\ held[w].customer \in CustomerRow /\ task[w] \in Task
        /\ task[w].kind \in OwnKinds \cup {"review", "profile"}
    BY <1>0, <1>3 DEF SaveCustomer, Ready
  <2>2. SavedCustomer(held[w].customer, task[w]) \in CustomerRow
    <3>1. CASE task[w].kind = "profile"
      <4>1. Given(task[w].arg, held[w].customer.status) \in KycStatuses
        BY <2>1, <3>1, TaskFacts, GivenIsChoice DEF CustomerRow
      <4> QED BY <3>1, <4>1 DEF SavedCustomer, CustomerRow
    <3>2. CASE task[w].kind # "profile"
      <4>1. task[w].kind = "review" => task[w].arg \in KycStatuses
        BY <2>1, TaskFacts DEF KycStatuses
      <4>2. {"pending_review", "not_started"} \subseteq KycStatuses
        BY DEF KycStatuses
      <4> QED BY <2>1, <3>2, <4>1, <4>2 DEF SavedCustomer, UpdateKycStatus, CustomerRow
    <3> QED BY <3>1, <3>2
  <2>3. RowsOK'
    BY <1>3, <2>2 DEF TypeInv, RowsOK, SaveCustomer, Exists
  <2> QED BY <1>3, <2>3, AnswerMoves, MoveKeeps DEF SaveCustomer
<1>4. CASE LoadProfileOfDocument(w)
  <2> DEFINE h == [held[w] EXCEPT !.customer = customer]
  <2>1. /\ customer \in CustomerRow /\ h \in Held /\ h.customer = customer
        /\ h.done = held[w].done
    BY <1>0 DEF TypeInv, RowsOK, Held, Loaded
  <2>2. held' = [held EXCEPT ![w] = h]
    BY <1>4 DEF LoadProfileOfDocument, TypeInv, Memories
  <2>3. "save_customer" \in Stages /\ Ready("save_customer", task[w], h)
    BY <1>0, <1>4, <2>1 DEF LoadProfileOfDocument, Stages, Ready
  <2>4. RowsOK'
    BY <1>4 DEF TypeInv, RowsOK, LoadProfileOfDocument, rows, Exists
  <2>5. GoTo(w, "save_customer")
    BY <1>4 DEF LoadProfileOfDocument
  <2> HIDE DEF h
  <2>6. Moves(w) /\ Ready(at'[w], task'[w], held'[w])
    BY <2>1, <2>2, <2>3, <2>5, GoToMoves
  <2> QED BY <2>4, <2>6, MoveKeeps
<1> QED BY <1>1, <1>2, <1>3, <1>4

\* The queries on documents.
LEMMA DocumentStep ==
    ASSUME TypeInv, NEW w \in Workers, SaveDocument(w) \/ DeleteDocument(w)
    PROVE  TypeInv'
<1>0. Ready(at[w], task[w], held[w]) /\ held[w] \in Held
  BY DEF TypeInv, Memories
<1>1. CASE SaveDocument(w)
  <2> DEFINE k == task[w]
             h == [held[w] EXCEPT !.document = Nothing, !.done = @ \cup {"document"}]
             s == CASE k.kind = "review" -> "load_customer"
                    [] k.kind \in {"decide", "bulk"} -> "save_merchant"
                    [] OTHER -> "idle"
  <2>1. /\ k \in Task /\ held[w].document \in DocumentStatuses
        /\ k.kind \in {"review", "mark", "edit"} \cup Decisions
        /\ k.kind \in Decisions => /\ k.arg \in Verdicts /\ held[w].merchant \in MerchantRow
                                   /\ "submission" \in held[w].done
    BY <1>0, <1>1 DEF SaveDocument, Ready
  <2>2. k.on \in Documents /\ DocumentVerdict(held[w].document, k) \in DocumentStatuses
    <3>1. k.on \in Documents /\ (k.kind = "edit" => k.arg \in DocumentStatuses \cup {Nothing})
      BY <2>1, TaskFacts DEF DocumentStatuses, OnDocument, OnSubmission, Decisions
    <3>2. Given(k.arg, held[w].document) \in DocumentStatuses \/ k.kind # "edit"
      BY <2>1, <3>1, GivenIsChoice
    <3> QED BY <3>1, <3>2 DEF DocumentVerdict, DocumentStatuses
  <2>3. RowsOK'
    BY <1>1, <2>2, KycAssumption DEF TypeInv, RowsOK, SaveDocument, Exists
  <2>4. /\ h \in Held /\ h.merchant = held[w].merchant
        /\ h.done = held[w].done \cup {"document"} /\ held[w].done \subseteq {"submission", "document"}
    BY <1>0 DEF Held, Loaded
  <2>6. GoOn(w, s, h)
    BY <1>1 DEF SaveDocument
  <2> HIDE DEF h
  <2>5. s \in Stages /\ (s # "idle" => Ready(s, k, h))
    BY <2>1, <2>4 DEF Stages, Ready, Decisions
  <2> HIDE DEF s
  <2>7. Moves(w) /\ Ready(at'[w], task'[w], held'[w])
    BY <2>4, <2>5, <2>6, GoOnMoves
  <2> QED BY <2>3, <2>7, MoveKeeps
<1>2. CASE DeleteDocument(w)
  <2>1. RowsOK'
    BY <1>2 DEF TypeInv, RowsOK, DeleteDocument, Exists
  <2> QED BY <1>2, <2>1, AnswerMoves, MoveKeeps DEF DeleteDocument
<1> QED BY <1>1, <1>2

\* The queries on submissions.
LEMMA SubmissionStep ==
    ASSUME TypeInv, NEW w \in Workers, SaveSubmission(w) \/ DeleteSubmission(w)
    PROVE  TypeInv'
<1>0. Ready(at[w], task[w], held[w]) /\ held[w] \in Held
  BY DEF TypeInv, Memories
<1>1. CASE SaveSubmission(w)
  <2> DEFINE k == task[w]
             h == [held[w] EXCEPT !.done = @ \cup {"submission"}]
             s == IF at[w] = "save_escalated" \/ k.kind = "amend" THEN "idle"
                  ELSE IF k.kind = "bulk" THEN "load_related" ELSE AfterDecision(k)
  <2>1. /\ k \in Task /\ k.kind \in Decisions \cup {"amend"}
        /\ k.kind = "amend" => held[w].submission \in SubmissionStatuses
        /\ at[w] = "save_submission" /\ k.kind = "decide" =>
              held[w].document \in DocumentStatuses /\ held[w].merchant \in MerchantRow
    BY <1>0, <1>1 DEF SaveSubmission, Ready, Decisions
  <2>2. /\ k.on \in Documents
        /\ k.kind = "decide" => k.arg \in {"escalated"} \cup Verdicts
        /\ k.kind \in Decisions => k.arg \in SubmissionStatuses
        /\ k.kind = "amend" => k.arg \in SubmissionStatuses \cup {Nothing}
    BY <2>1, TaskFacts DEF OnSubmission, Decisions, SubmissionStatuses, SubmissionChoices
  <2>3. CASE ~Exists(k.on)
    <3>1. RowsOK' /\ Answer(w)
      BY <1>1, <2>3 DEF TypeInv, RowsOK, SaveSubmission, Exists
    <3> QED BY <3>1, AnswerMoves, MoveKeeps
  <2>4. CASE Exists(k.on)
    <3>1. RowsOK'
      <4>1. /\ submission' = [submission EXCEPT ![k.on] = Given(k.arg, held[w].submission)]
            /\ UNCHANGED <<customer, document, merchant>>
        BY <1>1, <2>4 DEF SaveSubmission
      <4>2. Given(k.arg, held[w].submission) \in SubmissionStatuses
        <5>1. CASE k.kind = "amend"
          BY <2>1, <2>2, <5>1, GivenIsChoice
        <5>2. CASE k.kind \in Decisions
          BY <2>2, <5>2, KycAssumption DEF Given
        <5> QED BY <2>1, <5>1, <5>2
      <4> DEFINE v == Given(k.arg, held[w].submission)
      <4> HIDE DEF k, v
      <4> QED BY <2>2, <2>4, <4>1, <4>2 DEF TypeInv, RowsOK, Exists, v
    <3>2. /\ h \in Held /\ h.merchant = held[w].merchant /\ h.document = held[w].document
          /\ "submission" \in h.done
      BY <1>0 DEF Held
    <3>3. GoOn(w, s, h)
      BY <1>1, <2>4 DEF SaveSubmission
    <3>4. at[w] \in {"save_submission", "save_escalated"}
      BY <1>1 DEF SaveSubmission
    <3> HIDE DEF h
    <3>5. s \in Stages /\ (s # "idle" => Ready(s, k, h))
      <4>1. CASE at[w] = "save_escalated" \/ k.kind = "amend"
        BY <4>1 DEF Stages
      <4>2. CASE at[w] = "save_submission" /\ k.kind = "bulk"
        BY <2>1, <3>2, <4>2 DEF Stages, Ready, Decisions
      <4>3. CASE at[w] = "save_submission" /\ k.kind = "decide"
        BY <2>1, <2>2, <3>2, <4>3 DEF Stages, Ready, Decisions, AfterDecision
      <4> QED BY <2>1, <3>4, <4>1, <4>2, <4>3 DEF Decisions
    <3> HIDE DEF s
    <3>6. Moves(w) /\ Ready(at'[w], task'[w], held'[w])
      BY <3>2, <3>3, <3>5, GoOnMoves
    <3> QED BY <3>1, <3>6, MoveKeeps
  <2> QED BY <2>3, <2>4
<1>2. CASE DeleteSubmission(w)
  <2>1. RowsOK'
    BY <1>2 DEF TypeInv, RowsOK, DeleteSubmission, Exists
  <2> QED BY <1>2, <2>1, AnswerMoves, MoveKeeps DEF DeleteSubmission
<1> QED BY <1>1, <1>2

\* What bulk_decide loads.
LEMMA RelatedStep ==
    ASSUME TypeInv, NEW w \in Workers, LoadRelated(w)
    PROVE  TypeInv'
<1> DEFINE k == task[w]
<1>0. Ready(at[w], task[w], held[w]) /\ held[w] \in Held
  BY DEF TypeInv, Memories
<1>1. k \in Task /\ k.kind = "bulk" /\ k.on \in Documents /\ "submission" \in held[w].done
  BY <1>0, TaskFacts DEF LoadRelated, Ready, OnSubmission, Decisions
<1>2. RowsOK'
  BY DEF TypeInv, RowsOK, LoadRelated, rows, Exists
<1>3. CASE held[w].merchant = Nothing
  <2> DEFINE h == [held[w] EXCEPT !.merchant = merchant]
  <2>1. h \in Held /\ h.done = held[w].done
    BY <1>0 DEF Held, Loaded, TypeInv, RowsOK
  <2>2. GoOn(w, "load_related", h)
    BY <1>3 DEF LoadRelated
  <2> HIDE DEF h
  <2>3. "load_related" \in Stages /\ Ready("load_related", k, h)
    BY <1>1, <2>1 DEF Ready, Decisions, Stages
  <2>4. Moves(w) /\ Ready(at'[w], task'[w], held'[w])
    BY <2>1, <2>2, <2>3, GoOnMoves
  <2> QED BY <1>2, <2>4, MoveKeeps
<1>4. CASE held[w].merchant # Nothing /\ Exists(k.on)
  <2> DEFINE h == [held[w] EXCEPT !.document = document[k.on]]
  <2>1. document[k.on] \in DocumentStatuses
    BY <1>1, <1>4 DEF TypeInv, RowsOK, Exists
  <2>2. /\ h \in Held /\ h.document = document[k.on] /\ h.merchant \in MerchantRow
        /\ h.done = held[w].done
    BY <1>0, <1>4, <2>1 DEF Held, Loaded
  <2>3. GoOn(w, AfterDecision(k), h)
    BY <1>4 DEF LoadRelated
  <2> HIDE DEF h
  <2>4. AfterDecision(k) \in Stages /\ (AfterDecision(k) # "idle" => Ready(AfterDecision(k), k, h))
    BY <1>1, <2>1, <2>2 DEF Stages, Ready, Decisions, AfterDecision
  <2>5. Moves(w) /\ Ready(at'[w], task'[w], held'[w])
    BY <2>2, <2>3, <2>4, GoOnMoves
  <2> QED BY <1>2, <2>5, MoveKeeps
<1>5. CASE held[w].merchant # Nothing /\ ~Exists(k.on)
  BY <1>2, <1>5, AnswerMoves, MoveKeeps DEF LoadRelated
<1> QED BY <1>3, <1>4, <1>5

\* The row of the merchant's customer that is saved is one.
LEMMA MerchantRowStays ==
    ASSUME NEW row \in MerchantRow, NEW k \in Task, k.kind \in Decisions \cup OnRelation
    PROVE  UpdateMerchantCustomer(row, k) \in MerchantRow
<1>1. CASE k.kind = "relate"
  <2>1. row.status \in MerchantStatuses /\ row.kyc \in KycStatuses \cup {"pending"}
    BY DEF MerchantRow
  <2>2. /\ k.also \in MerchantStatuses \cup {Nothing}
        /\ k.arg \in (KycStatuses \cup {"pending"}) \cup {Nothing}
    BY <1>1, TaskFacts
  <2>3. Given(k.also, row.status) \in MerchantStatuses
    BY <2>1, <2>2, GivenIsChoice
  <2>4. Given(k.arg, row.kyc) \in KycStatuses \cup {"pending"}
    BY <2>1, <2>2, GivenIsChoice
  <2> QED BY <1>1, <2>3, <2>4 DEF UpdateMerchantCustomer, MerchantRow
<1>2. CASE k.kind # "relate"
  <2>1. {"active", "suspended"} \subseteq MerchantStatuses /\ {"approved", "rejected"} \subseteq KycStatuses
    BY DEF MerchantStatuses, KycStatuses, Verdicts
  <2> QED BY <1>2, <2>1 DEF UpdateMerchantCustomer, MerchantRow
<1> QED BY <1>1, <1>2

\* The queries on the merchant's customer.
LEMMA MerchantStep ==
    ASSUME TypeInv, NEW w \in Workers, SaveMerchantCustomer(w)
    PROVE  TypeInv'
<1>1. Ready(at[w], task[w], held[w])
  BY DEF TypeInv
<1>2. merchant' \in MerchantRow
  BY <1>1, MerchantRowStays DEF SaveMerchantCustomer, Ready
<1>3. RowsOK'
  BY <1>2 DEF TypeInv, RowsOK, SaveMerchantCustomer, Exists
<1> QED BY <1>3, AnswerMoves, MoveKeeps DEF SaveMerchantCustomer

\* The requests of one query.
LEMMA FormStep ==
    ASSUME TypeInv, NEW k \in mix, FileDocument(k) \/ EnterSubmission(k) \/ ActivateSelected(k)
    PROVE  TypeInv'
<1>0. k \in Task
  BY KycAssumption DEF TypeInv, Memories
<1>1. CASE FileDocument(k)
  <2>1. k.arg \in DocumentStatuses
    BY <1>0, <1>1, TaskFacts DEF FileDocument, DocumentStatuses
  <2>2. RowsOK'
    BY <1>1, <2>1, KycAssumption DEF TypeInv, RowsOK, FileDocument, Fresh, Exists
  <2> QED BY <1>1, <2>2 DEF TypeInv, Memories, FileDocument
<1>2. CASE EnterSubmission(k)
  <2>1. k.arg \in SubmissionStatuses
    BY <1>0, <1>2, TaskFacts DEF EnterSubmission, SubmissionStatuses
  <2>2. RowsOK'
    BY <1>2, <2>1 DEF TypeInv, RowsOK, EnterSubmission, Exists
  <2> QED BY <1>2, <2>2 DEF TypeInv, Memories, EnterSubmission
<1>3. CASE ActivateSelected(k)
  <2>1. RowsOK'
    BY <1>3 DEF TypeInv, RowsOK, ActivateSelected, Exists, MerchantRow, MerchantStatuses
  <2> QED BY <1>3, <2>1 DEF TypeInv, Memories, ActivateSelected
<1> QED BY <1>1, <1>2, <1>3

\* Every step keeps the types.
LEMMA TypeStep == TypeInv /\ [Next]_vars => TypeInv'
<1> SUFFICES ASSUME TypeInv, [Next]_vars PROVE TypeInv'
  OBVIOUS
<1>1. CASE UNCHANGED vars
  BY <1>1 DEF TypeInv, RowsOK, Memories, vars, rows, Exists
<1>2. ASSUME NEW w \in Workers, Crash(w) PROVE TypeInv'
  <2>1. RowsOK'
    BY <1>2 DEF TypeInv, RowsOK, Crash, rows, Exists
  <2> QED BY <1>2, <2>1, AnswerMoves, MoveKeeps DEF Crash
<1> QED
  BY <1>1, <1>2, LoadStep, CustomerStep, DocumentStep, SubmissionStep, RelatedStep, MerchantStep,
     FormStep DEF Next, Step

\* The types hold throughout.
LEMMA TypeAlways == Spec => []TypeInv
BY TypeStart, TypeStep, PTL DEF Spec

\* The rows, and that a worker holds the row it is about to save.
THEOREM KycTyped == Spec => []TypeOK
BY TypeAlways, TypeInvTypes, PTL

-----------------------------------------------------------------------------
(* Who writes the statuses. *)

\* Two queries write the customer.
LEMMA CustomerWriters ==
    ASSUME Next, customer' # customer
    PROVE  \E w \in Workers : StartKycProcess(w) \/ SaveCustomer(w)
BY DEF Next, Step, FileDocument, EnterSubmission, ActivateSelected, Load, LoadOwnProfile,
   LoadCustomer, LoadDocument, LoadSubmission, LoadMerchantCustomer, Serve, CreateDocument,
   LoadProfileOfDocument, SaveDocument, DeleteDocument, SaveSubmission, DeleteSubmission,
   LoadRelated, SaveMerchantCustomer, Crash, rows

\* A save, and an admin action, write the merchant's customer.
LEMMA MerchantWriters ==
    ASSUME Next, merchant' # merchant
    PROVE  \/ \E k \in mix : ActivateSelected(k)
           \/ \E w \in Workers : SaveMerchantCustomer(w)
BY DEF Next, Step, FileDocument, EnterSubmission, Load, LoadOwnProfile,
   LoadCustomer, LoadDocument, LoadSubmission, LoadMerchantCustomer, Serve, CreateDocument,
   StartKycProcess, SaveCustomer, LoadProfileOfDocument, SaveDocument, DeleteDocument,
   SaveSubmission, DeleteSubmission, LoadRelated, Crash, rows

\* What a worker that saves the customer holds, and serves.
LEMMA SaverOfCustomer ==
    ASSUME TypeInv, NEW w \in Workers, SaveCustomer(w)
    PROVE  /\ at[w] = "save_customer" /\ held[w].customer \in CustomerRow
           /\ customer' = SavedCustomer(held[w].customer, task[w])
           /\ task[w] \in Task /\ task[w].kind \in OwnKinds \cup {"review", "profile"}
           /\ task[w].kind = "resubmit" => held[w].customer.status \in {"rejected", "not_started"}
           /\ task[w].kind = "review" => task[w].arg \in Verdicts /\ "document" \in held[w].done
<1>1. Ready(at[w], task[w], held[w]) /\ at[w] = "save_customer"
  BY DEF TypeInv, SaveCustomer
<1> QED BY <1>1, TaskFacts DEF Ready, SaveCustomer

\* The process starts from a row that was not_started, and writes its status.
LEMMA StarterOfProcess ==
    ASSUME TypeInv, NEW w \in Workers, StartKycProcess(w)
    PROVE  /\ at[w] = "start" /\ held[w].customer.status = "not_started"
           /\ customer'.status = "in_progress" /\ customer'.verified = customer.verified
BY DEF TypeInv, RowsOK, Ready, StartKycProcess, CustomerRow

\* kyc_status and kyc_verified come apart only by hand, or by a row loaded while they
\* were apart.
THEOREM ColumnsAgree == Spec => FlagFollowsVerdict
<1> DEFINE ByHand(w) ==
              /\ at[w] = "save_customer" /\ task[w].kind \in {"personal", "profile"}
              /\ \/ task[w].kind = "profile" /\ (task[w].arg # Nothing \/ task[w].also # Nothing)
                 \/ ~Agree(held[w].customer)
<1>1. TypeInv /\ [Next]_vars =>
         [Agree(customer) /\ ~Agree(customer') => \E w \in Workers : ByHand(w)]_vars
  <2> SUFFICES ASSUME TypeInv, Next, Agree(customer), ~Agree(customer')
               PROVE  \E w \in Workers : ByHand(w)
    OBVIOUS
  <2>1. customer' # customer
    BY DEF Agree
  <2>2. PICK w \in Workers : StartKycProcess(w) \/ SaveCustomer(w)
    BY <2>1, CustomerWriters
  <2>3. ~StartKycProcess(w)
    BY StarterOfProcess DEF Agree
  <2> DEFINE row == held[w].customer
             k == task[w]
  <2>4. /\ at[w] = "save_customer" /\ row \in CustomerRow /\ customer' = SavedCustomer(row, k)
        /\ k.kind \in OwnKinds \cup {"review", "profile"}
        /\ k.kind = "review" => k.arg \in Verdicts
    BY <2>2, <2>3, SaverOfCustomer
  <2> HIDE DEF row, k
  <2>5. k.kind \in {"personal", "profile"}
    <3>1. ASSUME NEW new, new \in {"pending_review", "not_started"} \cup Verdicts
          PROVE  Agree(UpdateKycStatus(row, new))
      BY <3>1 DEF Agree, UpdateKycStatus, Verdicts
    <3>2. k.kind \notin {"personal", "profile"} =>
             \E new \in {"pending_review", "not_started"} \cup Verdicts :
                customer' = UpdateKycStatus(row, new)
      BY <2>4 DEF SavedCustomer, OwnKinds
    <3> QED BY <3>1, <3>2
  <2>6. CASE k.kind = "personal"
    <3>1. customer' = row
      BY <2>4, <2>6 DEF SavedCustomer
    <3> QED BY <2>4, <2>6, <3>1 DEF row, k
  <2>7. CASE k.kind = "profile" /\ k.arg = Nothing /\ k.also = Nothing
    <3>1. Nothing # "verified"
      BY KycAssumption
    <3>2. customer'.status = row.status /\ (customer'.verified <=> row.verified)
      BY <2>4, <2>7, <3>1 DEF SavedCustomer, Given
    <3>3. ~Agree(row)
      BY <3>2 DEF Agree
    <3> QED BY <2>4, <2>7, <3>3 DEF row, k
  <2> QED BY <2>4, <2>5, <2>6, <2>7 DEF row, k
<1> QED BY <1>1, TypeAlways, PTL DEF Spec, FlagFollowsVerdict

\* A customer becomes verified by the review of a document, by hand, or by a row
\* loaded while it was verified.
THEOREM VerifiedByReview == Spec => VerifiedAfterReview
<1>1. TypeInv /\ [Next]_vars =>
         [~customer.verified /\ customer'.verified =>
             \E w \in Workers : at[w] = "save_customer" /\ Verifies(w)]_vars
  <2> SUFFICES ASSUME TypeInv, Next, ~customer.verified, customer'.verified
               PROVE  \E w \in Workers : at[w] = "save_customer" /\ Verifies(w)
    OBVIOUS
  <2>1. customer' # customer
    OBVIOUS
  <2>2. PICK w \in Workers : StartKycProcess(w) \/ SaveCustomer(w)
    BY <2>1, CustomerWriters
  <2>3. ~StartKycProcess(w)
    BY StarterOfProcess
  <2> DEFINE row == held[w].customer
             k == task[w]
  <2>4. /\ at[w] = "save_customer" /\ row \in CustomerRow /\ customer' = SavedCustomer(row, k)
        /\ k.kind \in OwnKinds \cup {"review", "profile"}
        /\ k.kind = "review" => k.arg \in Verdicts /\ "document" \in held[w].done
    BY <2>2, <2>3, SaverOfCustomer
  <2> HIDE DEF row, k
  <2>5. CASE k.kind = "review"
    <3>1. customer' = UpdateKycStatus(row, k.arg)
      BY <2>4, <2>5 DEF SavedCustomer
    <3>2. k.arg = "approved"
      <4>1. customer'.verified = (k.arg = "approved" \/ (k.arg # "rejected" /\ row.verified))
        BY <3>1 DEF UpdateKycStatus
      <4>2. k.arg \in {"approved", "rejected"}
        BY <2>4, <2>5 DEF Verdicts
      <4> QED BY <4>1, <4>2
    <3> QED BY <2>4, <2>5, <3>2 DEF Verifies, k
  <2>6. CASE k.kind = "profile"
    <3>1. k.also = "verified" \/ row.verified
      BY <2>4, <2>6 DEF SavedCustomer
    <3> QED BY <2>4, <2>6, <3>1 DEF Verifies, row, k
  <2>7. CASE k.kind \in OwnKinds
    <3>1. \/ customer' = row
          \/ \E new \in {"pending_review", "not_started"} : customer' = UpdateKycStatus(row, new)
      BY <2>4, <2>7 DEF SavedCustomer, OwnKinds
    <3>2. row.verified
      <4>1. ASSUME NEW new \in {"pending_review", "not_started"},
                   customer' = UpdateKycStatus(row, new)
            PROVE  row.verified
        <5>1. customer'.verified = (new = "approved" \/ (new # "rejected" /\ row.verified))
          BY <4>1 DEF UpdateKycStatus
        <5>2. new # "approved"
          OBVIOUS
        <5> QED BY <5>1, <5>2
      <4> QED BY <3>1, <4>1
    <3> QED BY <2>4, <2>7, <3>2 DEF Verifies, row, k, OwnKinds
  <2> QED BY <2>4, <2>5, <2>6, <2>7
<1> QED BY <1>1, TypeAlways, PTL DEF Spec, VerifiedAfterReview

\* What a worker that saves the merchant's customer holds, and serves.
LEMMA SaverOfMerchant ==
    ASSUME TypeInv, NEW w \in Workers, SaveMerchantCustomer(w)
    PROVE  /\ at[w] = "save_merchant" /\ held[w].merchant \in MerchantRow
           /\ merchant' = UpdateMerchantCustomer(held[w].merchant, task[w])
           /\ task[w].kind \in Decisions \cup OnRelation
           /\ task[w].kind \in Decisions =>
                 task[w].arg \in Verdicts /\ held[w].done = {"submission", "document"}
<1>1. Ready(at[w], task[w], held[w]) /\ at[w] = "save_merchant"
  BY DEF TypeInv, SaveMerchantCustomer
<1> QED BY <1>1 DEF Ready, SaveMerchantCustomer

\* The merchant's customer is approved last, wherever decisions die and rows vanish.
THEOREM ApprovalsInOrder == Spec => ApprovedInOrder
<1>1. TypeInv /\ [Next]_vars =>
         [merchant.kyc # "approved" /\ merchant'.kyc = "approved" =>
             \E w \in Workers : at[w] = "save_merchant" /\ Approves(w)]_vars
  <2> SUFFICES ASSUME TypeInv, Next, merchant.kyc # "approved", merchant'.kyc = "approved"
               PROVE  \E w \in Workers : at[w] = "save_merchant" /\ Approves(w)
    OBVIOUS
  <2>1. ASSUME NEW k \in mix, ActivateSelected(k) PROVE FALSE
    BY <2>1 DEF ActivateSelected, TypeInv, RowsOK, MerchantRow
  <2>2. merchant' # merchant
    OBVIOUS
  <2>3. PICK w \in Workers : SaveMerchantCustomer(w)
    BY <2>1, <2>2, MerchantWriters
  <2> DEFINE row == held[w].merchant
             k == task[w]
  <2>4. /\ at[w] = "save_merchant" /\ row \in MerchantRow
        /\ merchant' = UpdateMerchantCustomer(row, k)
        /\ k.kind \in Decisions \cup OnRelation
        /\ k.kind \in Decisions =>
              k.arg \in Verdicts /\ held[w].done = {"submission", "document"}
    BY <2>3, SaverOfMerchant
  <2> HIDE DEF row, k
  <2>5. CASE k.kind \in Decisions
    <3>1. k.arg = "approved"
      BY <2>4, <2>5 DEF UpdateMerchantCustomer, Decisions
    <3> QED BY <2>4, <2>5, <3>1 DEF Approves, Decisions, k
  <2>6. CASE k.kind = "relate"
    <3>1. Given(k.arg, row.kyc) = "approved"
      BY <2>4, <2>6 DEF UpdateMerchantCustomer
    <3>2. k.arg = "approved" \/ row.kyc = "approved"
      BY <3>1 DEF Given
    <3> QED BY <2>4, <2>6, <3>2 DEF Approves, row, k
  <2>7. CASE k.kind \in RelationKinds
    <3>1. k.kind # "submit" /\ row.kyc = "approved"
      BY <2>4, <2>7 DEF UpdateMerchantCustomer, RelationKinds, MerchantRow
    <3> QED BY <2>4, <2>7, <3>1 DEF Approves, row, k, RelationKinds
  <2> QED BY <2>4, <2>5, <2>6, <2>7 DEF OnRelation
<1> QED BY <1>1, TypeAlways, PTL DEF Spec, ApprovedInOrder

\* A rejected customer of a merchant is let in by an activation or by hand, and by no
\* crossing of decisions and suspensions.
THEOREM RejectionSuspends == Spec => RejectedIsSuspended
<1>1. TypeInv /\ [Next]_vars =>
         [~LetIn(merchant) /\ LetIn(merchant') =>
             \/ merchant.kyc = "rejected" /\ held' = held
             \/ \E w \in Workers : at[w] = "save_merchant" /\ Admits(w)]_vars
  <2> SUFFICES ASSUME TypeInv, Next, ~LetIn(merchant), LetIn(merchant'),
                      ~(merchant.kyc = "rejected" /\ held' = held)
               PROVE  \E w \in Workers : at[w] = "save_merchant" /\ Admits(w)
    OBVIOUS
  <2>1. ASSUME NEW k \in mix, ActivateSelected(k) PROVE FALSE
    BY <2>1 DEF ActivateSelected, TypeInv, RowsOK, MerchantRow, LetIn
  <2>2. merchant' # merchant
    BY DEF LetIn
  <2>3. PICK w \in Workers : SaveMerchantCustomer(w)
    BY <2>1, <2>2, MerchantWriters
  <2> DEFINE row == held[w].merchant
             k == task[w]
  <2>4. /\ at[w] = "save_merchant" /\ row \in MerchantRow
        /\ merchant' = UpdateMerchantCustomer(row, k)
        /\ k.kind \in Decisions \cup OnRelation
        /\ k.kind \in Decisions => k.arg \in Verdicts
    BY <2>3, SaverOfMerchant
  <2>5. merchant'.kyc = "rejected" /\ merchant'.status = "active"
    BY DEF LetIn
  <2> HIDE DEF row, k
  <2>6. k.kind \in {"activate", "relate"}
    BY <2>4, <2>5 DEF UpdateMerchantCustomer, Decisions, OnRelation, RelationKinds, MerchantRow
  <2>7. CASE k.kind = "activate"
    <3>1. row.kyc = "rejected"
      BY <2>4, <2>5, <2>7 DEF UpdateMerchantCustomer, MerchantRow
    <3> QED BY <2>4, <2>7, <3>1 DEF Admits, row, k
  <2>8. CASE k.kind = "relate"
    <3>1. Given(k.arg, row.kyc) = "rejected" /\ Given(k.also, row.status) = "active"
      BY <2>4, <2>5, <2>8 DEF UpdateMerchantCustomer
    <3>2. k.arg = "rejected" \/ k.also = "active" \/ LetIn(row)
      BY <3>1 DEF Given, LetIn
    <3> QED BY <2>4, <2>8, <3>2 DEF Admits, row, k
  <2> QED BY <2>6, <2>7, <2>8
<1> QED BY <1>1, TypeAlways, PTL DEF Spec, RejectedIsSuspended

\* A verdict on the customer is taken back on purpose, by hand, or by a save of a row
\* loaded before it, for any number of requests at once.
THEOREM VerdictsStand == Spec => VerdictStands
<1>1. TypeInv /\ [Next]_vars =>
         [customer.status \in Verdicts /\ customer'.status # customer.status =>
             \E w \in Workers : TakesBack(w)]_vars
  <2> SUFFICES ASSUME TypeInv, Next, customer.status \in Verdicts,
                      customer'.status # customer.status
               PROVE  \E w \in Workers : TakesBack(w)
    OBVIOUS
  <2>1. PICK w \in Workers : StartKycProcess(w) \/ SaveCustomer(w)
    BY CustomerWriters
  <2>2. CASE StartKycProcess(w)
    BY <2>2, StarterOfProcess DEF TakesBack, Verdicts
  <2>3. CASE SaveCustomer(w)
    <3>1. /\ at[w] = "save_customer"
          /\ customer' = SavedCustomer(held[w].customer, task[w])
          /\ task[w].kind \in OwnKinds \cup {"review", "profile"}
          /\ task[w].kind = "resubmit" => held[w].customer.status \in {"rejected", "not_started"}
      BY <2>3, SaverOfCustomer
    <3>2. CASE task[w].kind = "personal"
      <4>1. customer' = held[w].customer
        BY <3>1, <3>2 DEF SavedCustomer
      <4> QED BY <3>1, <4>1 DEF TakesBack
    <3>3. CASE task[w].kind = "profile" /\ task[w].arg = Nothing
      <4>1. customer'.status = held[w].customer.status
        BY <3>1, <3>3 DEF SavedCustomer, Given
      <4> QED BY <3>1, <4>1 DEF TakesBack
    <3>4. CASE task[w].kind = "resubmit"
      BY <3>1, <3>4 DEF TakesBack, Verdicts
    <3> QED BY <3>1, <3>2, <3>3, <3>4 DEF TakesBack, OwnKinds
  <2> QED BY <2>1, <2>2, <2>3
<1> QED BY <1>1, TypeAlways, PTL DEF Spec, VerdictStands
=============================================================================
