------------------------- MODULE OfflineQueueProofs -------------------------
(***************************************************************************)
(* For any number of payments, calls, kills and storage errors:            *)
(*  - the flag _processingQueue is up exactly while one call of            *)
(*    processQueue is at work (FlagInv);                                   *)
(*  - what calls hold and what is stored are copies of transactions whose  *)
(*    retries were earned (CopyInv);                                       *)
(*  - a payment of which no outdated copy was used is attempted by one     *)
(*    call at a time, from a copy that is what is stored (PaidInv), and    *)
(*    stays stored.                                                        *)
(***************************************************************************)
EXTENDS OfflineQueue, WellFoundedInduction, TLAPS

\* What a task consists of, and where a call of processQueue may stand: it is
\* never at a stage whose next step ends a call without releasing the flag.
Fields == {"at", "call", "id", "got", "entry", "todo", "update"}

DrainStages == {"drain_read", "next", "mark_read", "mark_write", "send",
                "executed", "unexecuted", "record_read", "record_write"}

TasksWellFormed ==
    /\ DOMAIN task = Tasks
    /\ \A t \in Tasks :
          /\ DOMAIN task[t] = Fields
          /\ task[t].call = "processQueue" => task[t].at \in DrainStages

FlagInv ==
    /\ TasksWellFormed
    /\ processing \in BOOLEAN
    /\ FlagMeansDrain

\* A step of one task that keeps its function, or ends a call of another function
\* than processQueue, and leaves the flag alone.
Harmless(t) ==
    /\ DOMAIN task' = Tasks
    /\ \A u \in Tasks \ {t} : task'[u] = task[u]
    /\ DOMAIN task'[t] = Fields
    /\ task'[t].call = task[t].call \/ (task[t].call # "processQueue" /\ task'[t].call # "processQueue")
    /\ task'[t].call = "processQueue" => task'[t].at \in DrainStages
    /\ processing' = processing

\* A harmless step keeps the flag right.
LEMMA HarmlessKeeps ==
    ASSUME FlagInv, NEW t \in Tasks, Harmless(t)
    PROVE  FlagInv'
BY DEF FlagInv, Harmless, TasksWellFormed, FlagMeansDrain

\* A call that has ended belongs to no function.
LEMMA IdleShape == DOMAIN Idle = Fields /\ Idle.call = "none"
BY DEF Idle, Fields

\* The end of a call of another function is harmless.
LEMMA EndHarmless ==
    ASSUME FlagInv, NEW t \in Tasks, End(t), task[t].call # "processQueue",
           processing' = processing
    PROVE  Harmless(t)
BY IdleShape DEF FlagInv, Harmless, TasksWellFormed, End

\* updateTransaction returns: a call of processQueue goes on.
LEMMA AfterUpdateHarmless ==
    ASSUME FlagInv, NEW t \in Tasks, AfterUpdate(t), processing' = processing
    PROVE  Harmless(t)
<1>1. ASSUME NEW stage, Resume(t, stage), stage \in DrainStages \/ task[t].call # "processQueue"
      PROVE  Harmless(t)
  BY <1>1 DEF FlagInv, TasksWellFormed, Harmless, Fields, Resume
<1>2. CASE task[t].at \in {"reset_read", "reset_write"} /\ Resume(t, "refind")
  <2>1. task[t].call # "processQueue"
    BY <1>2 DEF FlagInv, TasksWellFormed, DrainStages
  <2> QED BY <1>1, <1>2, <2>1
<1>3. CASE Resume(t, "send") \/ (task[t].call = "processQueue" /\ Resume(t, "next"))
  BY <1>1, <1>3 DEF DrainStages
<1>4. CASE task[t].call # "processQueue" /\ End(t)
  BY <1>4, EndHarmless
<1> QED BY <1>2, <1>3, <1>4 DEF AfterUpdate

\* A call is made on an idle task; only StartDrain names it processQueue.
LEMMA CallHarmless ==
    ASSUME FlagInv, NEW t \in Tasks, NEW function, NEW x, NEW stage,
           Call(t, function, x, stage), function # "processQueue", processing' = processing
    PROVE  Harmless(t)
BY IdleShape DEF FlagInv, TasksWellFormed, Harmless, Call, Fields

\* A drain starts only while the flag is down, that is while there is none.
LEMMA StartKeeps ==
    ASSUME FlagInv, NEW t \in Tasks, StartDrain(t), ~processing
    PROVE  FlagInv'
<1>1. /\ DOMAIN task' = Tasks
      /\ DOMAIN task'[t] = Fields
      /\ task'[t].call = "processQueue" /\ task'[t].at = "drain_read"
      /\ \A u \in Tasks \ {t} : task'[u] = task[u]
  BY DEF FlagInv, TasksWellFormed, Fields, StartDrain, Call
<1>2. processing' = TRUE
  BY DEF StartDrain
<1>3. \A u \in Tasks : task[u].call # "processQueue"
  BY DEF FlagInv, FlagMeansDrain
<1>4. TasksWellFormed'
  BY <1>1 DEF FlagInv, TasksWellFormed, DrainStages
<1>5. FlagMeansDrain'
  BY <1>1, <1>2, <1>3 DEF FlagMeansDrain
<1> QED BY <1>2, <1>4, <1>5 DEF FlagInv

\* A reconnection starts a drain only while the flag is down.
LEMMA DrainIfKeeps ==
    ASSUME FlagInv, NEW connected \in BOOLEAN, DrainIf(connected)
    PROVE  FlagInv'
<1>1. CASE connected /\ ~processing
  BY <1>1, StartKeeps DEF DrainIf
<1>2. CASE ~(connected /\ ~processing)
  BY <1>2 DEF DrainIf, FlagInv, TasksWellFormed, FlagMeansDrain
<1> QED BY <1>1, <1>2

\* A call ends and, if it was the drain, takes the flag with it.
LEMMA ReleaseKeeps ==
    ASSUME FlagInv, NEW t \in Tasks, ReleaseFlag(t), End(t)
    PROVE  FlagInv'
<1>1. CASE task[t].call # "processQueue"
  <2>1. processing' = processing
    BY <1>1 DEF ReleaseFlag, FlagInv
  <2> QED BY <1>1, <2>1, EndHarmless, HarmlessKeeps
<1>2. CASE task[t].call = "processQueue"
  <2>1. /\ DOMAIN task' = Tasks
        /\ task'[t] = Idle
        /\ \A u \in Tasks \ {t} : task'[u] = task[u]
    BY DEF End, FlagInv, TasksWellFormed
  <2>2. processing' = FALSE
    BY <1>2 DEF ReleaseFlag, FlagInv
  <2>3. \A u \in Tasks : task'[u].call # "processQueue"
    BY <1>2, <2>1, IdleShape DEF FlagInv, FlagMeansDrain
  <2>4. TasksWellFormed'
    BY <2>1, <2>3, IdleShape DEF FlagInv, TasksWellFormed
  <2> QED BY <2>2, <2>3, <2>4 DEF FlagInv, FlagMeansDrain
<1> QED BY <1>1, <1>2

\* At the start the flag is down.
LEMMA InitFlag == Init => FlagInv
BY IdleShape DEF Init, FlagInv, TasksWellFormed, FlagMeansDrain

\* Every step of a task, action by action.
LEMMA StepKeeps ==
    ASSUME FlagInv, NEW t \in Tasks, Step(t)
    PROVE  FlagInv'
<1>0. TasksWellFormed
  BY DEF FlagInv
<1>1. CASE ReadToEdit(t)
  <2>1. PICK q \in Loads :
          task' = [task EXCEPT ![t].got = q,
                               ![t].at = IF @ = "add_read" THEN "add_write" ELSE "remove_write"]
    BY <1>1 DEF ReadToEdit
  <2>2. Harmless(t)
    BY <1>0, <1>1, <2>1 DEF ReadToEdit, TasksWellFormed, Fields, DrainStages, Harmless, service
  <2> QED BY <2>2, HarmlessKeeps
<1>2. CASE ReadPending(t)
  <2>1. PICK q \in Loads : task' = [task EXCEPT ![t].at = "next", ![t].todo = Pending(q)]
    BY <1>2 DEF ReadPending
  <2>2. Harmless(t)
    BY <1>0, <1>2, <2>1 DEF ReadPending, TasksWellFormed, Fields, DrainStages, Harmless, service
  <2> QED BY <2>2, HarmlessKeeps
<1>3. CASE ProcessNext(t)
  <2>1. DOMAIN Process(t, Head(task[t].todo)) = Fields
        /\ Process(t, Head(task[t].todo)).call = task[t].call
        /\ Process(t, Head(task[t].todo)).at = "mark_read"
    BY <1>0 DEF Process, TasksWellFormed, Fields
  <2>2. Harmless(t)
    BY <1>0, <1>3, <2>1 DEF ProcessNext, TasksWellFormed, Fields, DrainStages, Harmless, service
  <2> QED BY <2>2, HarmlessKeeps
<1>4. CASE FinishDrain(t)
  BY <1>4, ReleaseKeeps DEF FinishDrain
<1>5. CASE Find(t)
  <2>1. processing' = processing /\ task[t].call # "processQueue"
    BY <1>0, <1>5 DEF Find, TasksWellFormed, DrainStages, service
  <2>2. CASE End(t)
    BY <2>1, <2>2, EndHarmless, HarmlessKeeps
  <2>3. CASE task' = [task EXCEPT ![t].at = "reset_read", ![t].entry = Fresh(task[t].id),
                        ![t].update = [status |-> "pending", retryCount |-> 0]]
    <3>1. Harmless(t)
      BY <1>0, <2>1, <2>3 DEF TasksWellFormed, Fields, Harmless
    <3> QED BY <3>1, HarmlessKeeps
  <2> QED BY <1>5, <2>2, <2>3 DEF Find
<1>6. CASE Refind(t)
  <2>1. processing' = processing /\ task[t].call # "processQueue"
    BY <1>0, <1>6 DEF Refind, TasksWellFormed, DrainStages, service
  <2>2. CASE End(t)
    BY <2>1, <2>2, EndHarmless, HarmlessKeeps
  <2>3. ASSUME NEW e, task' = [task EXCEPT ![t] = Process(t, e)]
        PROVE  FlagInv'
    <3>1. DOMAIN Process(t, e) = Fields /\ Process(t, e).call = task[t].call
      BY <1>0 DEF Process, TasksWellFormed, Fields
    <3>2. Harmless(t)
      BY <1>0, <2>1, <2>3, <3>1 DEF TasksWellFormed, Harmless
    <3> QED BY <3>2, HarmlessKeeps
  <2> QED BY <1>6, <2>2, <2>3 DEF Refind
<1>7. CASE ReadToUpdate(t)
  <2>1. processing' = processing
    BY <1>7 DEF ReadToUpdate, service
  <2>2. CASE AfterUpdate(t)
    BY <2>1, <2>2, AfterUpdateHarmless, HarmlessKeeps
  <2>3. ASSUME NEW q,
               task' = [task EXCEPT ![t].got = q,
                          ![t].at = CASE task[t].at = "reset_read" -> "reset_write"
                                      [] task[t].at = "mark_read" -> "mark_write"
                                      [] task[t].at = "record_read" -> "record_write"],
               task[t].at \in {"reset_read", "mark_read", "record_read"}
        PROVE  FlagInv'
    <3>1. Harmless(t)
      BY <1>0, <2>1, <2>3 DEF TasksWellFormed, Fields, DrainStages, Harmless
    <3> QED BY <3>1, HarmlessKeeps
  <2> QED BY <1>7, <2>2, <2>3 DEF ReadToUpdate
<1>8. CASE Store(t)
  <2>1. processing' = processing
    BY <1>8 DEF Store, service
  <2>2. CASE AfterUpdate(t)
    BY <2>1, <2>2, AfterUpdateHarmless, HarmlessKeeps
  <2>3. CASE task[t].at \in {"add_write", "remove_write"} /\ End(t)
    <3>1. task[t].call # "processQueue"
      BY <1>0, <2>3 DEF TasksWellFormed, DrainStages
    <3> QED BY <2>1, <2>3, <3>1, EndHarmless, HarmlessKeeps
  <2> QED BY <1>8, <2>2, <2>3 DEF Store
<1>9. CASE Clear(t)
  <2>1. processing' = processing /\ task[t].call # "processQueue"
    BY <1>0, <1>9 DEF Clear, TasksWellFormed, DrainStages, service
  <2> QED BY <1>9, <2>1, EndHarmless, HarmlessKeeps DEF Clear
<1>10. CASE Send(t)
  <2>1. \E stage \in {"executed", "unexecuted"} : task' = [task EXCEPT ![t].at = stage]
    BY <1>10 DEF Send
  <2>2. Harmless(t)
    BY <1>0, <1>10, <2>1 DEF Send, TasksWellFormed, Fields, DrainStages, Harmless, service
  <2> QED BY <2>2, HarmlessKeeps
<1>11. CASE Return(t)
  <2>1. Harmless(t)
    BY <1>0, <1>11 DEF Return, TasksWellFormed, Fields, DrainStages, Harmless, service
  <2> QED BY <2>1, HarmlessKeeps
<1>12. ASSUME Catch(t), processing' = processing
       PROVE  FlagInv'
  <2>1. Harmless(t)
    BY <1>0, <1>12 DEF Catch, TasksWellFormed, Fields, DrainStages, Harmless
  <2> QED BY <2>1, HarmlessKeeps
<1>13. CASE Throw(t)
  BY <1>12, <1>13 DEF Throw, service
<1>14. CASE StoreFails(t)
  BY <1>12, <1>14, ReleaseKeeps DEF StoreFails
<1> QED BY <1>1, <1>2, <1>3, <1>4, <1>5, <1>6, <1>7, <1>8, <1>9, <1>10, <1>11, <1>13, <1>14
    DEF Step

\* Every step keeps the flag right.
LEMMA NextKeeps == FlagInv /\ [Next]_vars => FlagInv'
<1> SUFFICES ASSUME FlagInv, [Next]_vars PROVE FlagInv'
  OBVIOUS
<1>1. ASSUME NEW t \in Tasks, NEW x \in Payments,
             QueueTransaction(t, x) \/ Remove(t, x) \/ RetryTransaction(t, x)
      PROVE  FlagInv'
  <2>1. Harmless(t)
    BY <1>1, CallHarmless DEF QueueTransaction, Remove, RetryTransaction, service
  <2> QED BY <2>1, HarmlessKeeps
<1>2. ASSUME NEW t \in Tasks, ClearCompleted(t) \/ ClearQueue(t)
      PROVE  FlagInv'
  <2>1. Harmless(t)
    BY <1>2, CallHarmless DEF ClearCompleted, ClearQueue, service
  <2> QED BY <2>1, HarmlessKeeps
<1>3. ASSUME NEW t \in Tasks, ProcessQueue(t) PROVE FlagInv'
  BY <1>3, StartKeeps DEF ProcessQueue
<1>4. ASSUME NEW connected \in BOOLEAN,
             Initialize(connected) \/ HandleNetworkChange(connected)
      PROVE  FlagInv'
  <2>1. CASE Initialize(connected)
    BY <2>1, DrainIfKeeps DEF Initialize
  <2>2. CASE HandleNetworkChange(connected)
    <3>1. online \in BOOLEAN => (~online /\ connected) \in BOOLEAN
      OBVIOUS
    <3> QED BY <2>2, DrainIfKeeps DEF HandleNetworkChange
  <2> QED BY <1>4, <2>1, <2>2
<1>5. CASE Kill
  <2>1. TasksWellFormed'
    BY <1>5, IdleShape DEF Kill, TasksWellFormed
  <2>2. FlagMeansDrain'
    BY <1>5, IdleShape DEF Kill, FlagMeansDrain
  <2> QED BY <1>5, <2>1, <2>2 DEF Kill, FlagInv
<1>6. CASE Cleanup \/ UNCHANGED vars
  BY <1>6 DEF Cleanup, vars, service, FlagInv, TasksWellFormed, FlagMeansDrain
<1> QED BY <1>1, <1>2, <1>3, <1>4, <1>5, <1>6, StepKeeps DEF Next

\* A call of processQueue is at work exactly while _processingQueue is up, and
\* there is never a second one, so that no error, disconnection or restart leaves
\* the queue blocked or lets two calls send the same payments
\* (offlineService.ts:238-257).
THEOREM DrainAlone == Spec => []FlagMeansDrain
<1>1. FlagInv => FlagMeansDrain
  BY DEF FlagInv
<1> QED BY <1>1, InitFlag, NextKeeps, PTL DEF Spec

-----------------------------------------------------------------------------
(* Filtering a sequence.                                                   *)

\* A set of numbers has a least element.
LEMMA Least ==
    ASSUME NEW S, S \subseteq Nat, S # {}
    PROVE  \E n \in S : \A m \in S : n <= m
<1> DEFINE R == {p \in Nat \X Nat : p[1] < p[2]}
<1>1. IsWellFoundedOn(R, Nat)
  BY NatLessThanWellFounded DEF OpToRel
<1>2. PICK n \in S : \A m \in S : <<m, n>> \notin R
  <2> HIDE DEF R
  <2> QED BY <1>1, WFMin
<1>3. \A m \in S : ~(m < n)
  BY <1>2
<1> QED BY <1>3

\* The function by which Keep is defined, up to n.
Extends(f, s, T, n) ==
    f = [i \in 0..n |-> IF i = 0 THEN <<>>
                        ELSE IF s[i] \in T THEN Append(f[i - 1], s[i]) ELSE f[i - 1]]

\* The positions Keep picks can be enumerated.
LEMMA KeepExists ==
    ASSUME NEW s, NEW T, NEW len \in Nat
    PROVE  \E f : Extends(f, s, T, len)
<1> DEFINE Bad == {n \in Nat : ~\E f : Extends(f, s, T, n)}
<1> SUFFICES ASSUME Bad # {} PROVE FALSE
  OBVIOUS
<1>1. PICK n \in Bad : \A m \in Bad : n <= m
  <2>1. Bad \subseteq Nat
    OBVIOUS
  <2> HIDE DEF Bad
  <2> QED BY <2>1, Least
<1>2. CASE n = 0
  <2>1. Extends([i \in 0..0 |-> <<>>], s, T, 0)
    BY DEF Extends
  <2> QED BY <1>1, <1>2, <2>1
<1>3. CASE n # 0
  <2>1. n - 1 \in Nat /\ n - 1 \notin Bad
    BY <1>1, <1>3
  <2>2. PICK f : Extends(f, s, T, n - 1)
    BY <2>1
  <2> DEFINE last == IF s[n] \in T THEN Append(f[n - 1], s[n]) ELSE f[n - 1]
             g == [i \in 0..n |-> IF i = n THEN last ELSE f[i]]
  <2>3. \A i \in 0..(n - 1) : g[i] = f[i]
    BY <1>1
  <2>4. \A i \in 0..n : g[i] = IF i = 0 THEN <<>>
                               ELSE IF s[i] \in T THEN Append(g[i - 1], s[i]) ELSE g[i - 1]
    <3> SUFFICES ASSUME NEW i \in 0..n
                 PROVE  g[i] = IF i = 0 THEN <<>>
                               ELSE IF s[i] \in T THEN Append(g[i - 1], s[i]) ELSE g[i - 1]
      OBVIOUS
    <3>1. CASE i = n
      <4>1. g[n] = last /\ g[n - 1] = f[n - 1] /\ n # 0
        BY <1>1, <1>3, <2>3
      <4> HIDE DEF g
      <4> QED BY <3>1, <4>1
    <3>2. CASE i # n
      <4>1. i \in 0..(n - 1)
        BY <1>1, <3>2
      <4>2. f[i] = IF i = 0 THEN <<>> ELSE IF s[i] \in T THEN Append(f[i - 1], s[i]) ELSE f[i - 1]
        BY <2>2, <4>1 DEF Extends
      <4>3. g[i] = f[i] /\ (i # 0 => g[i - 1] = f[i - 1])
        BY <2>3, <4>1
      <4> HIDE DEF g
      <4> QED BY <4>2, <4>3
    <3> QED BY <3>1, <3>2
  <2>5. Extends(g, s, T, n)
    BY <2>4 DEF Extends
  <2> QED BY <1>1, <2>5
<1> QED BY <1>2, <1>3

\* No transaction is there twice.
Distinct(q) == \A i, j \in DOMAIN q : q[i].id = q[j].id => i = j

\* Filtering keeps exactly what is wanted, and no element twice.
LEMMA KeepMeans ==
    ASSUME NEW S, NEW s \in Seq(S), NEW T
    PROVE  /\ Keep(s, T) \in Seq(S)
           /\ \A k \in DOMAIN Keep(s, T) : \E i \in DOMAIN s : Keep(s, T)[k] = s[i] /\ s[i] \in T
           /\ \A i \in DOMAIN s : s[i] \in T => \E k \in DOMAIN Keep(s, T) : Keep(s, T)[k] = s[i]
           /\ Distinct(s) => Distinct(Keep(s, T))
<1>1. PICK f : Extends(f, s, T, Len(s)) /\ Keep(s, T) = f[Len(s)]
  <2> DEFINE g == CHOOSE f : Extends(f, s, T, Len(s))
  <2>1. Keep(s, T) = g[Len(s)]
    BY DEF Keep, Extends
  <2>2. Extends(g, s, T, Len(s))
    BY KeepExists
  <2> QED BY <2>1, <2>2
<1> DEFINE Right(n) ==
       /\ f[n] \in Seq(S)
       /\ \A k \in 1..Len(f[n]) : \E i \in 1..n : f[n][k] = s[i] /\ s[i] \in T
       /\ \A i \in 1..n : s[i] \in T => \E k \in 1..Len(f[n]) : f[n][k] = s[i]
       /\ Distinct(s) => Distinct(f[n])
     Bad == {n \in 0..Len(s) : ~Right(n)}
<1>2. ASSUME NEW n \in Bad, \A m \in Bad : n <= m PROVE FALSE
  <2>1. CASE n = 0
    <3>1. f[0] = <<>> /\ <<>> \in Seq(S)
      BY <1>1 DEF Extends
    <3>2. Right(0)
      BY <3>1 DEF Distinct
    <3> QED BY <2>1, <3>2
  <2>2. CASE n # 0
    <3>0. n \in 1..Len(s) /\ n - 1 \in 0..Len(s) /\ s[n] \in S
      BY <2>2
    <3>1. /\ n - 1 \notin Bad /\ \A i \in 1..n : i = n \/ i \in 1..(n - 1)
          /\ f[n] = IF s[n] \in T THEN Append(f[n - 1], s[n]) ELSE f[n - 1]
      <4> HIDE DEF Bad
      <4>1. n - 1 \notin Bad
        BY <1>2, <3>0
      <4>2. \A i \in 1..n : i = n \/ i \in 1..(n - 1)
        BY <3>0
      <4>3. f[n] = IF s[n] \in T THEN Append(f[n - 1], s[n]) ELSE f[n - 1]
        <5>1. n \in 0..Len(s) /\ n # 0
          BY <3>0
        <5>2. f[n] = IF n = 0 THEN <<>> ELSE IF s[n] \in T THEN Append(f[n - 1], s[n]) ELSE f[n - 1]
          BY <1>1, <5>1 DEF Extends
        <5> QED BY <5>1, <5>2
      <4> QED BY <4>1, <4>2, <4>3
    <3>2. Right(n - 1)
      BY <3>0, <3>1
    <3> DEFINE g == f[n - 1]
    <3>3. /\ g \in Seq(S)
          /\ \A k \in 1..Len(g) : \E i \in 1..(n - 1) : g[k] = s[i] /\ s[i] \in T
          /\ \A i \in 1..(n - 1) : s[i] \in T => \E k \in 1..Len(g) : g[k] = s[i]
          /\ Distinct(s) => Distinct(g)
      BY <3>2
    <3>4. CASE s[n] \notin T
      <4>1. f[n] = g
        BY <3>1, <3>4
      <4>2. Right(n)
        <5> HIDE DEF g
        <5> QED BY <3>0, <3>1, <3>3, <3>4, <4>1
      <4> QED BY <4>2
    <3>5. CASE s[n] \in T
      <4>1. f[n] = Append(g, s[n])
        BY <3>1, <3>5
      <4> HIDE DEF g
      <4>2. /\ f[n] \in Seq(S) /\ Len(f[n]) = Len(g) + 1 /\ f[n][Len(g) + 1] = s[n]
            /\ \A k \in 1..Len(g) : f[n][k] = g[k]
        BY <3>0, <3>3, <4>1
      <4>3. \A k \in 1..Len(f[n]) : \E i \in 1..n : f[n][k] = s[i] /\ s[i] \in T
        BY <3>0, <3>1, <3>3, <3>5, <4>2
      <4>4. \A i \in 1..n : s[i] \in T => \E k \in 1..Len(f[n]) : f[n][k] = s[i]
        <5> SUFFICES ASSUME NEW i \in 1..n, s[i] \in T
                     PROVE  \E k \in 1..Len(f[n]) : f[n][k] = s[i]
          OBVIOUS
        <5>1. CASE i = n
          <6>1. Len(g) + 1 \in 1..Len(f[n])
            BY <3>3, <4>2
          <6> QED BY <4>2, <5>1, <6>1
        <5>2. CASE i \in 1..(n - 1)
          <6>1. PICK k \in 1..Len(g) : g[k] = s[i]
            BY <3>3, <5>2
          <6>2. k \in 1..Len(f[n]) /\ f[n][k] = s[i]
            BY <3>3, <4>2, <6>1
          <6> QED BY <6>2
        <5> QED BY <3>1, <5>1, <5>2
      <4>5. ASSUME Distinct(s) PROVE Distinct(f[n])
        <5>1. ASSUME NEW k \in 1..Len(g) PROVE g[k].id # s[n].id
          <6>1. PICK i \in 1..(n - 1) : g[k] = s[i]
            BY <3>3
          <6> QED BY <3>0, <3>1, <4>5, <6>1 DEF Distinct
        <5>2. DOMAIN f[n] = 1..(Len(g) + 1) /\ DOMAIN g = 1..Len(g) /\ Len(g) \in Nat
          BY <3>3, <4>2
        <5>3. \A k \in DOMAIN f[n] : k \in 1..Len(g) \/ k = Len(g) + 1
          BY <5>2
        <5> QED BY <3>3, <4>2, <4>5, <5>1, <5>2, <5>3 DEF Distinct
      <4> QED BY <4>2, <4>3, <4>4, <4>5
    <3> QED BY <3>4, <3>5
  <2> QED BY <2>1, <2>2
<1>3. Bad \subseteq Nat
  OBVIOUS
<1>4. Bad = {}
  <2> HIDE DEF Bad
  <2> QED BY <1>2, <1>3, Least
<1>5. Right(Len(s))
  BY <1>4
<1>6. DOMAIN s = 1..Len(s) /\ DOMAIN f[Len(s)] = 1..Len(f[Len(s)])
  BY <1>5
<1>7. /\ f[Len(s)] \in Seq(S)
      /\ \A k \in DOMAIN f[Len(s)] : \E i \in DOMAIN s : f[Len(s)][k] = s[i] /\ s[i] \in T
      /\ \A i \in DOMAIN s : s[i] \in T => \E k \in DOMAIN f[Len(s)] : f[Len(s)][k] = s[i]
      /\ Distinct(s) => Distinct(f[Len(s)])
  BY <1>5, <1>6
<1> QED
  <2> HIDE DEF Right, Bad
  <2> QED BY <1>1, <1>7

-----------------------------------------------------------------------------
(* What the three writes make of a queue.  G holds the transactions it may  *)
(* consist of.                                                              *)

\* What a stored transaction consists of.
LEMMA EntryShape ==
    /\ \A e \in Entry : /\ e.id \in Payments /\ e.status \in Statuses /\ e.retryCount \in Nat
                        /\ e = [id |-> e.id, status |-> e.status, retryCount |-> e.retryCount]
    /\ \A x \in Payments : Fresh(x) \in Entry /\ Fresh(x).id = x
BY DEF Entry, Entries, Fresh, Statuses

\* Where the entries of a transaction are.
LEMMA Storing ==
    \A q, e, x : e \in Stored(q, x) <=> \E i \in DOMAIN q : e = q[i] /\ q[i].id = x
BY DEF Stored

\* What appending a transaction does to the list.
LEMMA AppendShape ==
    ASSUME NEW G, NEW q \in Seq(G), NEW x
    PROVE  LET r == Append(q, Fresh(x)) IN
           /\ r \in Seq(G \cup {Fresh(x)}) /\ Len(q) \in Nat
           /\ DOMAIN r = 1..(Len(q) + 1) /\ DOMAIN q = 1..Len(q)
           /\ r[Len(q) + 1] = Fresh(x) /\ \A i \in 1..Len(q) : r[i] = q[i]
           /\ \A i \in DOMAIN r : i \in 1..Len(q) \/ i = Len(q) + 1
<1>1. q \in Seq(G \cup {Fresh(x)}) /\ Fresh(x) \in G \cup {Fresh(x)}
  OBVIOUS
<1> QED BY <1>1

\* Appending a transaction that is not there keeps the list one without repetition.
LEMMA AppendMeans ==
    ASSUME NEW G, NEW q \in Seq(G), Distinct(q), NEW x, x \notin Ids(q)
    PROVE  Append(q, Fresh(x)) \in Seq(G \cup {Fresh(x)}) /\ Distinct(Append(q, Fresh(x)))
<1> DEFINE r == Append(q, Fresh(x))
<1>1. Fresh(x).id = x
  BY DEF Fresh
<1>2. /\ r \in Seq(G \cup {Fresh(x)}) /\ Len(q) \in Nat
      /\ DOMAIN r = 1..(Len(q) + 1) /\ DOMAIN q = 1..Len(q)
      /\ r[Len(q) + 1] = Fresh(x) /\ \A i \in 1..Len(q) : r[i] = q[i]
      /\ \A i \in DOMAIN r : i \in 1..Len(q) \/ i = Len(q) + 1
  BY AppendShape
<1> HIDE DEF r
<1>3. \A i \in 1..Len(q) : q[i].id # x
  BY <1>2 DEF Ids
<1> QED BY <1>1, <1>2, <1>3 DEF Distinct, r

\* And what is stored of each transaction then.
LEMMA AppendStored ==
    ASSUME NEW q \in Seq(Entry), NEW x, NEW y
    PROVE  Stored(Append(q, Fresh(x)), y) = Stored(q, y) \cup {e \in {Fresh(x)} : y = x}
<1> DEFINE r == Append(q, Fresh(x))
<1>1. Fresh(x).id = x
  BY DEF Fresh
<1>2. /\ Len(q) \in Nat /\ DOMAIN r = 1..(Len(q) + 1) /\ DOMAIN q = 1..Len(q)
      /\ r[Len(q) + 1] = Fresh(x) /\ \A i \in 1..Len(q) : r[i] = q[i]
      /\ \A i \in DOMAIN r : i \in 1..Len(q) \/ i = Len(q) + 1
  BY AppendShape
<1> HIDE DEF r
<1>3. Len(q) + 1 \in DOMAIN r /\ \A i \in DOMAIN q : i \in DOMAIN r
  BY <1>2
<1>4. \A e : e \in Stored(r, y) <=> e \in Stored(q, y) \/ (e = Fresh(x) /\ y = x)
  BY <1>1, <1>2, <1>3, Storing
<1> QED BY <1>4 DEF r

\* Removing transactions by id leaves the others as they are.
LEMMA KeepStored ==
    ASSUME NEW G, G \subseteq Entry, NEW q \in Seq(G), Distinct(q), NEW gone
    PROVE  LET r == Keep(q, Entries(Payments \ gone, Statuses)) IN
           /\ r \in Seq(G) /\ Distinct(r)
           /\ \A y : Stored(r, y) = {e \in Stored(q, y) : y \notin gone}
<1> DEFINE S == Entries(Payments \ gone, Statuses)
           r == Keep(q, S)
<1>1. /\ r \in Seq(G) /\ Distinct(r)
      /\ \A k \in DOMAIN r : \E i \in DOMAIN q : r[k] = q[i] /\ q[i] \in S
      /\ \A i \in DOMAIN q : q[i] \in S => \E k \in DOMAIN r : r[k] = q[i]
  <2> HIDE DEF S
  <2> QED BY KeepMeans
<1>2. \A i \in DOMAIN q : q[i] \in S <=> q[i].id \notin gone
  <2> SUFFICES ASSUME NEW i \in DOMAIN q PROVE q[i] \in S <=> q[i].id \notin gone
    OBVIOUS
  <2>1. q[i] \in Entry
    OBVIOUS
  <2> QED BY <2>1, EntryShape DEF Entries
<1> HIDE DEF r, S
<1>3. ASSUME NEW y, NEW e
      PROVE  e \in Stored(r, y) <=> e \in Stored(q, y) /\ y \notin gone
  <2>1. ASSUME e \in Stored(r, y) PROVE e \in Stored(q, y) /\ y \notin gone
    <3>1. PICK k \in DOMAIN r : e = r[k] /\ r[k].id = y
      BY <2>1, Storing
    <3>2. PICK i \in DOMAIN q : r[k] = q[i] /\ q[i] \in S
      BY <1>1
    <3> QED BY <1>2, <3>1, <3>2, Storing
  <2>2. ASSUME e \in Stored(q, y), y \notin gone PROVE e \in Stored(r, y)
    <3>1. PICK i \in DOMAIN q : e = q[i] /\ q[i].id = y
      BY <2>2, Storing
    <3>2. PICK k \in DOMAIN r : r[k] = q[i]
      BY <1>1, <1>2, <2>2, <3>1
    <3> QED BY <3>1, <3>2, Storing
  <2> QED BY <2>1, <2>2
<1>4. \A y : Stored(r, y) = {e \in Stored(q, y) : y \notin gone}
  BY <1>3
<1> QED BY <1>1, <1>4 DEF r, S

\* Spreading an update over an entry overwrites its fields.
LEMMA MergeMeans ==
    ASSUME NEW e \in Entry
    PROVE  /\ \A s : Merge(e, [status |-> s]) = [id |-> e.id, status |-> s, retryCount |-> e.retryCount]
           /\ \A s, n : Merge(e, [status |-> s, retryCount |-> n]) = [id |-> e.id, status |-> s, retryCount |-> n]
BY DEF Merge, Entry, Entries

\* The updates updateTransaction is called with.
Updates == [status: Statuses] \cup [status: Statuses, retryCount: Nat]

\* It is still an entry of the same transaction.
LEMMA MergeKeepsId ==
    ASSUME NEW e \in Entry, NEW u \in Updates
    PROVE  Merge(e, u) \in Entry /\ Merge(e, u).id = e.id /\ Merge(e, u).status = u.status
<1>1. CASE u \in [status: Statuses]
  <2>1. PICK s \in Statuses : u = [status |-> s]
    BY <1>1
  <2>2. Merge(e, u) = [id |-> e.id, status |-> s, retryCount |-> e.retryCount]
    BY <2>1, MergeMeans
  <2> QED BY <2>1, <2>2, EntryShape DEF Entry, Entries
<1>2. CASE u \in [status: Statuses, retryCount: Nat]
  <2>1. PICK s \in Statuses, n \in Nat : u = [status |-> s, retryCount |-> n]
    BY <1>2
  <2>2. Merge(e, u) = [id |-> e.id, status |-> s, retryCount |-> n]
    BY <2>1, MergeMeans
  <2> QED BY <2>1, <2>2, EntryShape DEF Entry, Entries
<1> QED BY <1>1, <1>2 DEF Updates

\* What updating a transaction does to the list.
LEMMA UpdateShape ==
    ASSUME NEW q \in Seq(Entry), NEW x, NEW u \in Updates
    PROVE  LET r == Updated(q, x, u) IN
           /\ DOMAIN r = DOMAIN q
           /\ \A i \in DOMAIN q : /\ r[i] = IF q[i].id = x THEN Merge(q[i], u) ELSE q[i]
                                  /\ r[i].id = q[i].id
<1> DEFINE r == Updated(q, x, u)
<1>1. \A i \in DOMAIN q : q[i] \in Entry
  OBVIOUS
<1>2. /\ DOMAIN r = DOMAIN q
      /\ \A i \in DOMAIN q : r[i] = IF q[i].id = x THEN Merge(q[i], u) ELSE q[i]
  BY DEF Updated
<1>3. \A i \in DOMAIN q : r[i].id = q[i].id
  BY <1>1, <1>2, MergeKeepsId
<1> QED BY <1>2, <1>3

\* It keeps the list one without repetition.
LEMMA UpdateMeans ==
    ASSUME NEW G, G \subseteq Entry, NEW q \in Seq(G), Distinct(q), NEW x, NEW u \in Updates
    PROVE  LET r == Updated(q, x, u) IN
           r \in Seq(G \cup {Merge(e, u) : e \in Stored(q, x)}) /\ Distinct(r)
<1> DEFINE r == Updated(q, x, u)
           H == G \cup {Merge(e, u) : e \in Stored(q, x)}
<1>1. /\ DOMAIN q = 1..Len(q) /\ Len(q) \in Nat /\ \A i \in DOMAIN q : q[i] \in G
      /\ q \in Seq(Entry)
  OBVIOUS
<1>2. /\ DOMAIN r = DOMAIN q
      /\ \A i \in DOMAIN q : /\ r[i] = IF q[i].id = x THEN Merge(q[i], u) ELSE q[i]
                             /\ r[i].id = q[i].id
  BY <1>1, UpdateShape
<1>3. \A i \in DOMAIN q : r[i] \in H
  BY <1>1, <1>2, Storing
<1>4. r \in Seq(H)
  <2>1. r = [i \in 1..Len(q) |-> r[i]]
    BY <1>1, <1>2 DEF Updated
  <2> HIDE DEF r, H
  <2> QED BY <1>1, <1>2, <1>3, <2>1
<1> HIDE DEF r
<1>5. Distinct(r)
  BY <1>2 DEF Distinct
<1> QED BY <1>4, <1>5 DEF r

\* And what is stored of each transaction then.
LEMMA UpdateStored ==
    ASSUME NEW q \in Seq(Entry), NEW x, NEW u \in Updates, NEW y
    PROVE  Stored(Updated(q, x, u), y) =
              IF y = x THEN {Merge(e, u) : e \in Stored(q, x)} ELSE Stored(q, y)
<1> DEFINE r == Updated(q, x, u)
<1>1. /\ DOMAIN r = DOMAIN q
      /\ \A i \in DOMAIN q : /\ r[i] = IF q[i].id = x THEN Merge(q[i], u) ELSE q[i]
                             /\ r[i].id = q[i].id
  BY UpdateShape
<1> HIDE DEF r
<1>2. CASE y # x
  <2>1. Stored(r, y) = Stored(q, y)
    BY <1>1, <1>2 DEF Stored
  <2> QED BY <1>2, <2>1 DEF r
<1>3. CASE y = x
  <2>1. ASSUME NEW e PROVE e \in Stored(r, x) <=> \E i \in DOMAIN q : q[i].id = x /\ e = Merge(q[i], u)
    BY <1>1, Storing
  <2>2. ASSUME NEW e
        PROVE e \in {Merge(d, u) : d \in Stored(q, x)} <=> \E i \in DOMAIN q : q[i].id = x /\ e = Merge(q[i], u)
    BY Storing
  <2>3. Stored(r, x) = {Merge(d, u) : d \in Stored(q, x)}
    BY <2>1, <2>2
  <2> QED BY <1>3, <2>3 DEF r
<1> QED BY <1>2, <1>3

-----------------------------------------------------------------------------
(* What tasks hold. *)

Functions == {"none", "queueTransaction", "removeTransaction", "clearCompletedTransactions",
              "clearQueue", "retryTransaction", "processQueue"}

Marking == {"mark_read", "mark_write"}
Resetting == {"reset_read", "reset_write"}
Recording == {"record_read", "record_write"}
Trying == {"send", "executed", "unexecuted"} \cup Recording
Working == Marking \cup Resetting \cup Trying

Mark == [status |-> "processing"]
Done == [status |-> "completed"]
Reset == [status |-> "pending", retryCount |-> 0]

\* A call that will store a transaction nobody has seen yet.
Adds(k) == k.call = "queueTransaction"

\* The transactions that have been stored, or never will be.
Born == {x \in created : \A t \in Tasks : Adds(task[t]) => task[t].id # x}

\* Entries that may be stored: every retry used up is a failed attempt, and those that
\* are given up have none left.
Good == {e \in Entry : /\ e.id \in Born /\ e.retryCount <= caught[e.id]
                       /\ e.status = "failed" => e.retryCount >= MaxRetries}

Job(G) == [at: Stages \cup {"idle"}, call: Functions, id: Payments \cup {None}, got: Seq(G),
           entry: G \cup {None}, todo: Seq(G), update: Updates \cup {None}]

\* The outcome of an attempt, for a copy of the transaction x.
Outcome(u, x, G) ==
    \/ u = Done
    \/ \E s \in {"pending", "failed"}, n \in Nat :
          u = [status |-> s, retryCount |-> n] /\ [id |-> x, status |-> s, retryCount |-> n] \in G

JobOK(k, G) ==
    /\ k \in Job(G) /\ Distinct(k.got)
    /\ k.at = "idle" => k = Idle
    /\ k.at \in Working => k.entry \in G
    /\ k.at \in {"add_read", "add_write"} <=> Adds(k)
    /\ k.call \in {"queueTransaction", "removeTransaction", "retryTransaction"} => k.id \in Payments
    /\ k.at \in Marking => k.update = Mark
    /\ k.at \in Resetting => k.update = Reset
    /\ k.at \in Recording => Outcome(k.update, k.entry.id, G)
    /\ k.at \notin Marking \cup Resetting \cup Recording => k.update = None
    /\ k.at \in Marking \cup Trying => k.call \in {"processQueue", "retryTransaction"}
    /\ k.at \in Resetting \cup {"find", "refind"} => k.call = "retryTransaction"
    /\ k.at \in {"drain_read", "next"} => k.call = "processQueue"
    /\ k.at = "mark_read" /\ k.call = "processQueue" => k.entry.status = "pending"
    /\ \A i \in DOMAIN k.todo : k.todo[i].status = "pending"

Shared ==
    /\ queue \in Seq(Good) /\ Distinct(queue)
    /\ created \subseteq Payments /\ kept \subseteq Born /\ suspect \subseteq Payments
    /\ executed \in [Payments -> Nat] /\ caught \in [Payments -> Nat]
    /\ \A x \in Payments \ Born : executed[x] = 0

\* Calls of queueTransaction store different transactions, whose ids are drawn.
Draws ==
    \A t \in Tasks : Adds(task[t]) =>
        /\ task[t].id \in created
        /\ \A u \in Tasks : Adds(task[u]) /\ task[u].id = task[t].id => u = t

CopyInv ==
    /\ Shared /\ Draws /\ DOMAIN task = Tasks /\ task = [t \in Tasks |-> task[t]]
    /\ \A t \in Tasks : JobOK(task[t], Good)

\* Entries that may be stored are entries.
LEMMA GoodFacts == Good \subseteq Entry /\ \A G : G \subseteq Entry => Job(G) \subseteq Job(Entry)
  <1>1. Good \subseteq Entry
    BY DEF Good
  <1>2. ASSUME NEW G, G \subseteq Entry PROVE Job(G) \subseteq Job(Entry)
    <2>1. Seq(G) \subseteq Seq(Entry)
      BY <1>2
    <2> QED BY <1>2, <2>1 DEF Job
  <1> QED BY <1>1, <1>2

\* Nothing becomes bad.
LEMMA JobStays ==
    ASSUME NEW G, NEW H, G \subseteq H, NEW k, JobOK(k, G)
    PROVE  JobOK(k, H)
<1>1. Seq(G) \subseteq Seq(H)
  OBVIOUS
<1>2. k \in Job(H)
  BY <1>1 DEF JobOK, Job
<1>3. \A u, x : Outcome(u, x, G) => Outcome(u, x, H)
  BY DEF Outcome
<1> QED BY <1>2, <1>3 DEF JobOK

\* A call that has ended holds nothing wrong.
LEMMA IdleOK ==
    ASSUME NEW G
    PROVE  JobOK(Idle, G) /\ ~Adds(Idle)
<1>1. <<>> \in Seq(G) /\ Distinct(<<>>) /\ DOMAIN <<>> = {}
  BY DEF Distinct
<1>2. Idle \in Job(G)
  BY <1>1 DEF Idle, Job, Functions
<1> QED BY <1>1, <1>2 DEF Idle, JobOK, Adds, Working, Marking, Resetting, Recording, Trying

\* What may be stored may be stored later.
LEMMA BornGrows ==
    ASSUME CopyInv, created \subseteq created',
           \A t \in Tasks : Adds(task[t])' =>
               \/ Adds(task[t]) /\ task'[t].id = task[t].id
               \/ task'[t].id \notin created,
           \A x \in Payments : caught'[x] \in Nat /\ caught'[x] >= caught[x]
    PROVE  Born \subseteq Born' /\ Good \subseteq Good'
<1>1. Born \subseteq Born'
  BY DEF Born
<1>2. ASSUME NEW e \in Good PROVE e \in Good'
  <2>1. caught'[e.id] \in Nat /\ caught'[e.id] >= caught[e.id] /\ caught[e.id] \in Nat /\ e.retryCount \in Nat
    BY EntryShape DEF Good, CopyInv, Shared
  <2>3. /\ e \in Entry /\ e.id \in Born /\ e.retryCount <= caught[e.id]
        /\ e.status = "failed" => e.retryCount >= MaxRetries
    BY DEF Good
  <2>4. e.retryCount <= caught'[e.id]
    BY <2>1, <2>3
  <2> QED BY <1>1, <2>3, <2>4 DEF Good
<1> QED BY <1>1, <1>2

\* A task moves on, and does not begin to store a transaction.
Moves(t, k) ==
    /\ task' = [task EXCEPT ![t] = k] /\ created' = created
    /\ Adds(k) => Adds(task[t]) /\ k.id = task[t].id
    /\ \A x \in Payments : caught'[x] \in Nat /\ caught'[x] >= caught[x]

\* The same for a step of one call.
LEMMA MoveGrows ==
    ASSUME CopyInv, NEW t \in Tasks, NEW k, Moves(t, k)
    PROVE  /\ task'[t] = k /\ \A u \in Tasks \ {t} : task'[u] = task[u]
           /\ Born \subseteq Born' /\ Good \subseteq Good'
<1>1. task'[t] = k /\ \A u \in Tasks \ {t} : task'[u] = task[u]
  BY DEF CopyInv, Moves
<1>2. \A u \in Tasks : Adds(task[u])' => Adds(task[u]) /\ task'[u].id = task[u].id
  BY <1>1 DEF Moves, Adds
<1> QED BY <1>1, <1>2, BornGrows DEF Moves

\* A call that moves to something well formed keeps all calls so.
LEMMA MoveKeeps ==
    ASSUME CopyInv, NEW t \in Tasks, NEW k, Moves(t, k), Shared', JobOK(k, Good')
    PROVE  CopyInv'
<1>1. /\ task'[t] = k /\ \A u \in Tasks \ {t} : task'[u] = task[u]
      /\ Good \subseteq Good'
  BY MoveGrows
<1>2. DOMAIN task' = Tasks /\ task' = [u \in Tasks |-> task'[u]]
  BY DEF CopyInv, Moves
<1>3. \A u \in Tasks : JobOK(task[u]', Good')
  BY <1>1, JobStays DEF CopyInv
<1>4. Draws'
  <2>1. \A u \in Tasks : Adds(task[u])' => Adds(task[u]) /\ task'[u].id = task[u].id
    BY <1>1 DEF Moves, Adds
  <2> QED BY <2>1 DEF CopyInv, Draws, Moves
<1> QED BY <1>2, <1>3, <1>4 DEF CopyInv

\* What is shared stays well formed while the queue stands.
LEMMA SharedStays ==
    ASSUME CopyInv, Born \subseteq Born', Good \subseteq Good', created' \subseteq Payments,
           UNCHANGED <<queue, kept>>, suspect' \subseteq Payments,
           executed' \in [Payments -> Nat], caught' \in [Payments -> Nat],
           \A x \in Payments : executed'[x] = executed[x] \/ x \in Born
    PROVE  Shared'
<1>1. Seq(Good) \subseteq Seq(Good')
  OBVIOUS
<1>2. queue' \in Seq(Good') /\ Distinct(queue)'
  BY <1>1 DEF CopyInv, Shared, Distinct
<1> QED BY <1>2 DEF CopyInv, Shared

\* A step of one task that changes nothing else.
LEMMA QuietKeeps ==
    ASSUME CopyInv, NEW t \in Tasks, NEW k, task' = [task EXCEPT ![t] = k],
           Adds(k) => Adds(task[t]) /\ k.id = task[t].id, JobOK(k, Good),
           UNCHANGED <<queue, created, executed, caught, kept>>, suspect' \subseteq Payments
    PROVE  CopyInv'
<1>1. Moves(t, k)
  BY DEF Moves, CopyInv, Shared
<1>2. Born \subseteq Born' /\ Good \subseteq Good'
  BY <1>1, MoveGrows
<1>3. Shared'
  BY <1>2, SharedStays DEF CopyInv, Shared
<1>4. JobOK(k, Good')
  BY <1>2, JobStays
<1> QED BY <1>1, <1>3, <1>4, MoveKeeps

\* Ending a call keeps the invariant.
LEMMA EndKeeps ==
    ASSUME CopyInv, NEW t \in Tasks, End(t),
           UNCHANGED <<queue, created, executed, caught, kept>>, suspect' \subseteq Payments
    PROVE  CopyInv'
BY IdleOK, QuietKeeps DEF End

-----------------------------------------------------------------------------
(* The steps of a task that only change the task. *)

\* What a read gives is the queue, or nothing where it failed.
LEMMA LoadsOK ==
    ASSUME CopyInv, NEW q \in Loads
    PROVE  q \in Seq(Good) /\ Distinct(q) /\ \A x : Stored(q, x) \subseteq Stored(queue, x)
<1>1. CASE q = queue
  BY <1>1 DEF CopyInv, Shared
<1>2. CASE q = <<>>
  <2>1. q \in Seq(Good) /\ DOMAIN q = {}
    BY <1>2
  <2> QED BY <2>1 DEF Distinct, Stored
<1> QED BY <1>1, <1>2 DEF Loads

\* Reading the queue to edit it.
LEMMA StepEdit ==
    ASSUME CopyInv, NEW t \in Tasks, ReadToEdit(t)
    PROVE  CopyInv'
<1>1. PICK q \in Loads :
        task' = [task EXCEPT ![t].got = q,
                             ![t].at = IF @ = "add_read" THEN "add_write" ELSE "remove_write"]
  BY DEF ReadToEdit
<1> DEFINE st == IF task[t].at = "add_read" THEN "add_write" ELSE "remove_write"
           k == [task[t] EXCEPT !.got = q, !.at = st]
<1>2. task' = [task EXCEPT ![t] = k]
  BY <1>1 DEF CopyInv
<1>3. JobOK(task[t], Good) /\ q \in Seq(Good) /\ Distinct(q)
  BY LoadsOK DEF CopyInv
<1>4. st \in {"add_write", "remove_write"} /\ (st = "add_write" <=> task[t].at = "add_read")
      /\ task[t].at \in {"add_read", "remove_read"}
  BY DEF ReadToEdit
<1>5. /\ k \in Job(Good) /\ k.at = st /\ k.got = q /\ k.call = task[t].call /\ k.id = task[t].id
      /\ k.entry = task[t].entry /\ k.todo = task[t].todo /\ k.update = task[t].update
  <2> HIDE DEF st
  <2> QED BY <1>3, <1>4 DEF JobOK, Job, Stages
<1> HIDE DEF st, k
<1>6. JobOK(k, Good)
  BY <1>3, <1>4, <1>5 DEF JobOK, Adds, Working, Marking, Resetting, Recording, Trying
<1>7. Adds(k) => Adds(task[t]) /\ k.id = task[t].id
  BY <1>5 DEF Adds
<1> QED BY <1>2, <1>6, <1>7, QuietKeeps DEF ReadToEdit, history, CopyInv, Shared

\* A snapshot of pending transactions consists of pending transactions.
LEMMA PendingMeans ==
    ASSUME NEW G, G \subseteq Entry, NEW q \in Seq(G)
    PROVE  /\ Pending(q) \in Seq(G)
           /\ \A i \in DOMAIN Pending(q) : Pending(q)[i].status = "pending"
<1> DEFINE S == Entries(Payments, {"pending"})
<1>1. Pending(q) = Keep(q, S)
  BY DEF Pending
<1>2. \A e \in S : e.status = "pending"
  BY DEF Entries
<1> HIDE DEF S
<1> QED BY <1>1, <1>2, KeepMeans

\* Reading the snapshot of a drain.
LEMMA StepPending ==
    ASSUME CopyInv, NEW t \in Tasks, ReadPending(t)
    PROVE  CopyInv'
<1>1. PICK q \in Loads : task' = [task EXCEPT ![t].at = "next", ![t].todo = Pending(q)]
  BY DEF ReadPending
<1> DEFINE k == [task[t] EXCEPT !.at = "next", !.todo = Pending(q)]
<1>2. task' = [task EXCEPT ![t] = k]
  BY <1>1 DEF CopyInv
<1>3. JobOK(task[t], Good) /\ task[t].at = "drain_read"
  BY DEF CopyInv, ReadPending
<1>4. Pending(q) \in Seq(Good) /\ \A i \in DOMAIN Pending(q) : Pending(q)[i].status = "pending"
  BY LoadsOK, PendingMeans, GoodFacts
<1>5. /\ k \in Job(Good) /\ k.at = "next" /\ k.got = task[t].got /\ k.call = task[t].call
      /\ k.id = task[t].id /\ k.entry = task[t].entry /\ k.todo = Pending(q)
      /\ k.update = task[t].update
  BY <1>3, <1>4 DEF JobOK, Job, Stages
<1> HIDE DEF k
<1>6. JobOK(k, Good) /\ (Adds(k) => Adds(task[t]) /\ k.id = task[t].id)
  BY <1>3, <1>4, <1>5 DEF JobOK, Adds, Working, Marking, Resetting, Recording, Trying
<1> QED BY <1>2, <1>6, QuietKeeps DEF ReadPending, history, CopyInv, Shared

\* processTransaction begins.
LEMMA ProcessOK ==
    ASSUME CopyInv, NEW t \in Tasks, NEW e \in Good, task[t].at \in {"next", "refind"},
           task[t].call \in {"processQueue", "retryTransaction"},
           task[t].call = "processQueue" => e.status = "pending"
    PROVE  /\ JobOK(Process(t, e), Good) /\ ~Adds(Process(t, e))
           /\ Process(t, e).todo = task[t].todo /\ Process(t, e).at = "mark_read"
<1> DEFINE k == Process(t, e)
<1>1. JobOK(task[t], Good)
  BY DEF CopyInv
<1>2. [status |-> "processing"] \in Updates
  BY DEF Updates, Statuses
<1>3. /\ k \in Job(Good) /\ k.at = "mark_read" /\ k.got = task[t].got /\ k.call = task[t].call
      /\ k.id = task[t].id /\ k.entry = e /\ k.todo = task[t].todo /\ k.update = Mark
  BY <1>1, <1>2 DEF JobOK, Job, Stages, Process, Mark
<1> HIDE DEF k
<1>4. JobOK(k, Good) /\ ~Adds(k)
  BY <1>1, <1>3 DEF JobOK, Adds, Working, Marking, Resetting, Recording, Trying
<1> QED BY <1>3, <1>4 DEF k

\* Taking up the next transaction of a drain.
LEMMA StepNext ==
    ASSUME CopyInv, NEW t \in Tasks, ProcessNext(t)
    PROVE  CopyInv'
<1> DEFINE j == IF online THEN Process(t, Head(task[t].todo)) ELSE task[t]
           k == [j EXCEPT !.todo = Tail(@)]
<1>1. task' = [task EXCEPT ![t] = k]
  BY DEF ProcessNext
<1>2. JobOK(task[t], Good) /\ task[t].at = "next" /\ task[t].todo # <<>>
  BY DEF CopyInv, ProcessNext
<1>3. /\ Head(task[t].todo) \in Good /\ Head(task[t].todo).status = "pending"
      /\ Tail(task[t].todo) \in Seq(Good)
      /\ \A i \in DOMAIN Tail(task[t].todo) : Tail(task[t].todo)[i].status = "pending"
  <2>1. task[t].todo \in Seq(Good) /\ \A i \in DOMAIN task[t].todo : task[t].todo[i].status = "pending"
    BY <1>2 DEF JobOK, Job
  <2> QED BY <1>2, <2>1
<1>4. /\ JobOK(j, Good) /\ j.at \in {"next", "mark_read"} /\ j.todo = task[t].todo
      /\ Adds(j) => Adds(task[t]) /\ j.id = task[t].id
  <2>1. CASE online
    <3>1. task[t].call = "processQueue"
      BY <1>2 DEF JobOK
    <3> QED BY <1>2, <1>3, <2>1, <3>1, ProcessOK
  <2>2. CASE ~online
    BY <1>2, <2>2
  <2> QED BY <2>1, <2>2
<1> HIDE DEF j
<1>5. /\ k \in Job(Good) /\ k.at = j.at /\ k.got = j.got /\ k.call = j.call
      /\ k.id = j.id /\ k.entry = j.entry /\ k.todo = Tail(task[t].todo) /\ k.update = j.update
  BY <1>3, <1>4 DEF JobOK, Job
<1> HIDE DEF k
<1>6. JobOK(k, Good) /\ (Adds(k) => Adds(task[t]) /\ k.id = task[t].id)
  <2> QED BY <1>3, <1>4, <1>5 DEF JobOK, Adds, Working, Marking, Resetting, Recording, Trying
<1> QED BY <1>1, <1>6, QuietKeeps DEF ProcessNext, history, CopyInv, Shared

\* Looking for the transaction to retry.
LEMMA StepFind ==
    ASSUME CopyInv, NEW t \in Tasks, Find(t)
    PROVE  CopyInv'
<1>0. JobOK(task[t], Good) /\ task[t].at = "find" /\ task[t].call = "retryTransaction"
  BY DEF CopyInv, Find, JobOK
<1>1. CASE End(t)
  BY <1>1, EndKeeps DEF Find, history, CopyInv, Shared
<1>2. ASSUME NEW q \in Loads, task[t].id \in Ids(q),
             task' = [task EXCEPT ![t].at = "reset_read", ![t].entry = Fresh(task[t].id),
                                  ![t].update = [status |-> "pending", retryCount |-> 0]]
      PROVE  CopyInv'
  <2> DEFINE k == [task[t] EXCEPT !.at = "reset_read", !.entry = Fresh(task[t].id), !.update = Reset]
  <2>1. task' = [task EXCEPT ![t] = k]
    BY <1>2 DEF CopyInv, Reset
  <2>2. PICK i \in DOMAIN q : q[i].id = task[t].id
    BY <1>2 DEF Ids
  <2>3. q[i] \in Good
    BY LoadsOK
  <2>4. Fresh(task[t].id) \in Good
    <3>1. task[t].id \in Born /\ task[t].id \in Payments
      BY <2>2, <2>3, EntryShape DEF Good
    <3>2. 0 <= caught[task[t].id]
      BY <3>1 DEF CopyInv, Shared
    <3>3. Fresh(task[t].id) \in Entry
      BY <3>1, EntryShape
    <3>4. /\ Fresh(task[t].id).id = task[t].id /\ Fresh(task[t].id).retryCount = 0
          /\ Fresh(task[t].id).status # "failed"
      BY DEF Fresh
    <3> QED BY <3>1, <3>2, <3>3, <3>4 DEF Good
  <2>5. Reset \in Updates
    BY DEF Reset, Updates, Statuses
  <2>6. /\ k \in Job(Good) /\ k.at = "reset_read" /\ k.got = task[t].got /\ k.call = task[t].call
        /\ k.id = task[t].id /\ k.entry = Fresh(task[t].id) /\ k.todo = task[t].todo /\ k.update = Reset
    BY <1>0, <2>4, <2>5 DEF JobOK, Job, Stages
  <2> HIDE DEF k
  <2>7. JobOK(k, Good) /\ ~Adds(k)
    BY <1>0, <2>4, <2>6 DEF JobOK, Adds, Working, Marking, Resetting, Recording, Trying
  <2> QED BY <2>1, <2>7, QuietKeeps DEF Find, history, CopyInv, Shared
<1> QED BY <1>1, <1>2 DEF Find

\* Looking for it again.
LEMMA StepRefind ==
    ASSUME CopyInv, NEW t \in Tasks, Refind(t)
    PROVE  CopyInv'
<1>0. JobOK(task[t], Good) /\ task[t].at = "refind" /\ task[t].call = "retryTransaction"
  BY DEF CopyInv, Refind, JobOK
<1>1. CASE End(t)
  BY <1>1, EndKeeps DEF Refind, history, CopyInv, Shared
<1>2. ASSUME NEW q \in Loads, NEW e \in Stored(q, task[t].id), task' = [task EXCEPT ![t] = Process(t, e)]
      PROVE  CopyInv'
  <2>1. e \in Good
    BY LoadsOK DEF Stored
  <2>2. JobOK(Process(t, e), Good) /\ ~Adds(Process(t, e))
    BY <1>0, <2>1, ProcessOK
  <2> QED BY <1>2, <2>2, QuietKeeps DEF Refind, history, CopyInv, Shared
<1> QED BY <1>1, <1>2 DEF Refind

\* updateTransaction returns.
ResumeAt(t, stage) == [task[t] EXCEPT !.at = stage, !.got = <<>>, !.update = None]

\* After an update a call goes on well formed.
LEMMA ResumeOK ==
    ASSUME CopyInv, NEW t \in Tasks, NEW stage \in {"refind", "send", "next"},
           stage = "refind" => task[t].at \in Resetting,
           stage = "send" => task[t].at \in Marking,
           stage = "next" => task[t].call = "processQueue"
    PROVE  LET k == ResumeAt(t, stage) IN
           /\ JobOK(k, Good) /\ ~Adds(k) /\ k.at = stage /\ k.entry = task[t].entry
           /\ k.call = task[t].call /\ k.todo = task[t].todo
<1> DEFINE k == ResumeAt(t, stage)
<1>0. JobOK(task[t], Good)
  BY DEF CopyInv
<1>1. <<>> \in Seq(Good) /\ Distinct(<<>>)
  BY DEF Distinct
<1>2. /\ k \in Job(Good) /\ k.at = stage /\ k.got = <<>> /\ k.call = task[t].call
      /\ k.id = task[t].id /\ k.entry = task[t].entry /\ k.todo = task[t].todo /\ k.update = None
  BY <1>0, <1>1 DEF JobOK, Job, Stages, ResumeAt
<1> HIDE DEF k
<1>3. JobOK(k, Good) /\ ~Adds(k)
  BY <1>0, <1>1, <1>2 DEF JobOK, Adds, Working, Marking, Resetting, Recording, Trying
<1> QED BY <1>2, <1>3 DEF k

\* Where a task may stand after updateTransaction.
LEMMA AfterUpdateDoes ==
    ASSUME CopyInv, NEW t \in Tasks, AfterUpdate(t)
    PROVE  \E k : /\ task' = [task EXCEPT ![t] = k] /\ JobOK(k, Good) /\ ~Adds(k)
                  /\ \/ k = Idle
                     \/ k.at = "refind"
                     \/ k.at = "next"
                     \/ k.at = "send" /\ task[t].at \in Marking /\ k.entry = task[t].entry
<1>1. CASE End(t)
  BY <1>1, IdleOK DEF End
<1>2. ASSUME NEW stage \in {"refind", "send", "next"}, Resume(t, stage),
             stage = "refind" => task[t].at \in Resetting,
             stage = "send" => task[t].at \in Marking,
             stage = "next" => task[t].call = "processQueue"
      PROVE  \E k : /\ task' = [task EXCEPT ![t] = k] /\ JobOK(k, Good) /\ ~Adds(k)
                    /\ \/ k = Idle
                       \/ k.at = "refind"
                       \/ k.at = "next"
                       \/ k.at = "send" /\ task[t].at \in Marking /\ k.entry = task[t].entry
  <2>1. task' = [task EXCEPT ![t] = ResumeAt(t, stage)]
    BY <1>2 DEF Resume, ResumeAt, CopyInv
  <2>2. /\ JobOK(ResumeAt(t, stage), Good) /\ ~Adds(ResumeAt(t, stage))
        /\ ResumeAt(t, stage).at = stage /\ ResumeAt(t, stage).entry = task[t].entry
    BY <1>2, ResumeOK
  <2> QED BY <1>2, <2>1, <2>2
<1>3. \/ End(t)
      \/ Resume(t, "refind") /\ task[t].at \in Resetting
      \/ Resume(t, "send") /\ task[t].at \in Marking
      \/ Resume(t, "next") /\ task[t].call = "processQueue"
  BY DEF AfterUpdate, Resetting, Marking
<1> QED BY <1>1, <1>2, <1>3

\* And keeps the invariant.
LEMMA AfterUpdateKeeps ==
    ASSUME CopyInv, NEW t \in Tasks, AfterUpdate(t),
           UNCHANGED <<queue, created, executed, caught, kept>>, suspect' \subseteq Payments
    PROVE  CopyInv'
BY AfterUpdateDoes, QuietKeeps

\* updateTransaction has found the transaction in what it read.
FoundAt(t, q) ==
    [task[t] EXCEPT !.got = q,
                    !.at = CASE task[t].at = "reset_read" -> "reset_write"
                             [] task[t].at = "mark_read" -> "mark_write"
                             [] task[t].at = "record_read" -> "record_write"]

\* A call that has read the queue to update it is well formed.
LEMMA FoundOK ==
    ASSUME CopyInv, NEW t \in Tasks, NEW q \in Loads,
           task[t].at \in {"reset_read", "mark_read", "record_read"}
    PROVE  LET k == FoundAt(t, q) IN
           /\ JobOK(k, Good) /\ ~Adds(k) /\ k.got = q /\ k.entry = task[t].entry
           /\ k.update = task[t].update /\ k.call = task[t].call
           /\ \/ task[t].at = "reset_read" /\ k.at = "reset_write"
              \/ task[t].at = "mark_read" /\ k.at = "mark_write"
              \/ task[t].at = "record_read" /\ k.at = "record_write"
<1> DEFINE k == FoundAt(t, q)
           st == CASE task[t].at = "reset_read" -> "reset_write"
                   [] task[t].at = "mark_read" -> "mark_write"
                   [] task[t].at = "record_read" -> "record_write"
<1>0. JobOK(task[t], Good) /\ q \in Seq(Good) /\ Distinct(q)
  BY LoadsOK DEF CopyInv
<1>1. \/ task[t].at = "reset_read" /\ st = "reset_write"
      \/ task[t].at = "mark_read" /\ st = "mark_write"
      \/ task[t].at = "record_read" /\ st = "record_write"
  OBVIOUS
<1>2. k = [task[t] EXCEPT !.got = q, !.at = st]
  BY DEF FoundAt
<1> HIDE DEF st, k
<1>3. /\ k \in Job(Good) /\ k.at = st /\ k.got = q /\ k.call = task[t].call
      /\ k.id = task[t].id /\ k.entry = task[t].entry /\ k.todo = task[t].todo
      /\ k.update = task[t].update
  BY <1>0, <1>1, <1>2 DEF JobOK, Job, Stages
<1>4. JobOK(k, Good) /\ ~Adds(k)
  BY <1>0, <1>1, <1>3 DEF JobOK, Adds, Working, Marking, Resetting, Recording, Trying
<1> QED BY <1>1, <1>3, <1>4 DEF k

\* Reading the queue to update a transaction.
LEMMA StepUpdate ==
    ASSUME CopyInv, NEW t \in Tasks, ReadToUpdate(t)
    PROVE  CopyInv'
<1>1. task[t].at \in {"reset_read", "mark_read", "record_read"} /\ JobOK(task[t], Good)
  BY DEF ReadToUpdate, CopyInv
<1>2. /\ UNCHANGED <<queue, created, executed, caught, kept>>
      /\ suspect' \subseteq suspect \cup {task[t].entry.id}
  BY DEF ReadToUpdate
<1>3. suspect' \subseteq Payments
  <2>1. task[t].entry.id \in Payments
    BY <1>1, GoodFacts, EntryShape DEF JobOK, Working, Marking, Resetting, Recording, Trying
  <2> QED BY <1>2, <2>1 DEF CopyInv, Shared
<1>4. CASE AfterUpdate(t)
  BY <1>2, <1>3, <1>4, AfterUpdateKeeps
<1>5. ASSUME NEW q \in Loads, task' = [task EXCEPT ![t] = FoundAt(t, q)]
      PROVE  CopyInv'
  BY <1>1, <1>2, <1>3, <1>5, FoundOK, QuietKeeps
<1>6. AfterUpdate(t) \/ \E q \in Loads : task' = [task EXCEPT ![t] = FoundAt(t, q)]
  <2>1. PICK q \in Loads :
          \/ AfterUpdate(t)
          \/ task' = [task EXCEPT ![t].got = q,
                         ![t].at = CASE task[t].at = "reset_read" -> "reset_write"
                                     [] task[t].at = "mark_read" -> "mark_write"
                                     [] task[t].at = "record_read" -> "record_write"]
    BY DEF ReadToUpdate
  <2> DEFINE st == CASE task[t].at = "reset_read" -> "reset_write"
                     [] task[t].at = "mark_read" -> "mark_write"
                     [] task[t].at = "record_read" -> "record_write"
  <2>2. FoundAt(t, q) = [task[t] EXCEPT !.got = q, !.at = st]
    BY DEF FoundAt
  <2>3. AfterUpdate(t) \/ task' = [task EXCEPT ![t].got = q, ![t].at = st]
    BY <2>1
  <2> HIDE DEF st
  <2>4. [task EXCEPT ![t].got = q, ![t].at = st] = [task EXCEPT ![t] = FoundAt(t, q)]
    BY <2>2 DEF CopyInv
  <2> QED BY <2>3, <2>4
<1> QED BY <1>4, <1>5, <1>6

\* The task leaves, whatever becomes of the queue.
LEMMA EndMoves ==
    ASSUME CopyInv, NEW t \in Tasks, End(t), UNCHANGED <<created, caught>>
    PROVE  Moves(t, Idle)
<1>1. caught \in [Payments -> Nat]
  BY DEF CopyInv, Shared
<1>2. \A x \in Payments : caught'[x] \in Nat /\ caught'[x] >= caught[x]
  BY <1>1
<1> QED BY <1>2, IdleOK DEF Moves, End

\* Clearing the queue.
LEMMA StepClear ==
    ASSUME CopyInv, NEW t \in Tasks, Clear(t)
    PROVE  CopyInv'
<1>1. Moves(t, Idle)
  BY EndMoves DEF Clear
<1>2. Born \subseteq Born' /\ Good \subseteq Good'
  BY <1>1, MoveGrows
<1>3. <<>> \in Seq(Good') /\ Distinct(<<>>)
  BY DEF Distinct
<1>4. Shared'
  BY <1>2, <1>3 DEF Clear, CopyInv, Shared, Distinct
<1> QED BY <1>1, <1>4, IdleOK, MoveKeeps

\* The transaction an attempt is about has been stored.
LEMMA EntryBorn ==
    ASSUME CopyInv, NEW t \in Tasks, task[t].at \in Working
    PROVE  /\ JobOK(task[t], Good) /\ task[t].entry \in Good /\ task[t].entry \in Entry
           /\ task[t].entry.id \in Born /\ task[t].entry.id \in Payments
BY EntryShape DEF CopyInv, JobOK, Good

\* Sending a payment: the server may carry it out.
LEMMA StepSend ==
    ASSUME CopyInv, NEW t \in Tasks, Send(t)
    PROVE  CopyInv'
<1>1. task[t].at = "send" /\ UNCHANGED <<queue, created, caught, kept, suspect>>
  BY DEF Send
<1>2. /\ JobOK(task[t], Good) /\ task[t].entry \in Good
      /\ task[t].entry.id \in Born /\ task[t].entry.id \in Payments
  BY <1>1, EntryBorn DEF Working, Trying
<1>3. PICK stage \in {"executed", "unexecuted"} : task' = [task EXCEPT ![t].at = stage]
  BY DEF Send
<1> DEFINE k == [task[t] EXCEPT !.at = stage]
<1>4. task' = [task EXCEPT ![t] = k]
  BY <1>3 DEF CopyInv
<1>5. /\ k \in Job(Good) /\ k.at = stage /\ k.got = task[t].got /\ k.call = task[t].call
      /\ k.id = task[t].id /\ k.entry = task[t].entry /\ k.todo = task[t].todo
      /\ k.update = task[t].update
  BY <1>2 DEF JobOK, Job, Stages
<1> HIDE DEF k
<1>6. JobOK(k, Good) /\ (Adds(k) => Adds(task[t]) /\ k.id = task[t].id)
  BY <1>1, <1>2, <1>5 DEF JobOK, Adds, Working, Marking, Resetting, Recording, Trying
<1>7. Moves(t, k)
  BY <1>1, <1>4, <1>6 DEF Moves, CopyInv, Shared
<1>8. Born \subseteq Born' /\ Good \subseteq Good'
  BY <1>7, MoveGrows
<1>9. /\ executed' \in [Payments -> Nat]
      /\ \A x \in Payments : executed'[x] = executed[x] \/ x \in Born
  <2>1. CASE executed' = executed
    BY <2>1 DEF CopyInv, Shared
  <2>2. CASE executed' = [executed EXCEPT ![task[t].entry.id] = @ + 1]
    BY <1>2, <2>2 DEF CopyInv, Shared
  <2> QED BY <2>1, <2>2 DEF Send
<1>10. Shared'
  BY <1>1, <1>8, <1>9, SharedStays DEF CopyInv, Shared
<1>11. JobOK(k, Good')
  BY <1>6, <1>8, JobStays
<1> QED BY <1>7, <1>10, <1>11, MoveKeeps

\* A payment that went through is to be marked so.
LEMMA StepReturn ==
    ASSUME CopyInv, NEW t \in Tasks, Return(t)
    PROVE  CopyInv'
<1>1. /\ task[t].at \in {"executed", "unexecuted"}
      /\ UNCHANGED <<queue, created, executed, caught, kept, suspect>>
  BY DEF Return, history
<1>2. JobOK(task[t], Good) /\ task[t].entry \in Good
  BY <1>1, EntryBorn DEF Working, Trying
<1> DEFINE k == [task[t] EXCEPT !.at = "record_read", !.update = Done]
<1>3. task' = [task EXCEPT ![t] = k]
  BY DEF Return, CopyInv, Done
<1>4. Done \in Updates
  BY DEF Done, Updates, Statuses
<1>5. /\ k \in Job(Good) /\ k.at = "record_read" /\ k.got = task[t].got /\ k.call = task[t].call
      /\ k.id = task[t].id /\ k.entry = task[t].entry /\ k.todo = task[t].todo
      /\ k.update = Done
  BY <1>2, <1>4 DEF JobOK, Job, Stages
<1> HIDE DEF k
<1>6. JobOK(k, Good) /\ (Adds(k) => Adds(task[t]) /\ k.id = task[t].id)
  BY <1>1, <1>2, <1>5 DEF JobOK, Adds, Working, Marking, Resetting, Recording, Trying, Outcome
<1> QED BY <1>1, <1>3, <1>6, QuietKeeps DEF CopyInv, Shared

\* A failed attempt: one more is counted, and the copy's count is one more too.
LEMMA CatchKeeps ==
    ASSUME CopyInv, NEW t \in Tasks, Catch(t), task[t].at \in {"executed", "unexecuted", "record_write"},
           UNCHANGED <<queue, created, executed, kept, suspect>>
    PROVE  CopyInv'
<1>1. /\ JobOK(task[t], Good) /\ task[t].entry \in Good /\ task[t].entry \in Entry
      /\ task[t].entry.id \in Born /\ task[t].entry.id \in Payments
  BY EntryBorn DEF Working, Trying, Recording
<1> DEFINE x == task[t].entry.id
           n == task[t].entry.retryCount + 1
           s == IF GiveUp(n) THEN "failed" ELSE "pending"
           u == [status |-> s, retryCount |-> n]
           k == [task[t] EXCEPT !.at = "record_read", !.update = u]
<1>2. task' = [task EXCEPT ![t] = k] /\ caught' = [caught EXCEPT ![x] = @ + 1]
  BY DEF Catch, CopyInv
<1>3. /\ n \in Nat /\ s \in {"pending", "failed"} /\ s \in Statuses
      /\ s = "failed" => n >= MaxRetries
      /\ task[t].entry.retryCount <= caught[x] /\ caught[x] \in Nat
  BY <1>1, EntryShape DEF GiveUp, Good, CopyInv, Shared, Statuses
<1>4. n <= caught'[x] /\ caught' \in [Payments -> Nat]
      /\ \A y \in Payments : caught'[y] \in Nat /\ caught'[y] >= caught[y]
  <2>1. caught \in [Payments -> Nat] /\ x \in Payments
    BY <1>1 DEF CopyInv, Shared
  <2>2. caught'[x] = caught[x] + 1 /\ \A y \in Payments \ {x} : caught'[y] = caught[y]
    BY <1>2, <2>1
  <2>3. n <= caught[x] + 1
    BY <1>1, <1>3, EntryShape
  <2>4. caught' \in [Payments -> Nat]
    BY <1>2, <2>1
  <2> HIDE DEF n, x
  <2>5. \A y \in Payments : caught'[y] >= caught[y]
    BY <2>1, <2>2
  <2> QED BY <2>2, <2>3, <2>4, <2>5
<1>5. u \in Updates
  <2> HIDE DEF s, n
  <2> QED BY <1>3 DEF Updates
<1>6. /\ k \in Job(Good) /\ k.at = "record_read" /\ k.got = task[t].got /\ k.call = task[t].call
      /\ k.id = task[t].id /\ k.entry = task[t].entry /\ k.todo = task[t].todo
      /\ k.update = u
  <2> HIDE DEF u
  <2> QED BY <1>1, <1>5 DEF JobOK, Job, Stages
<1> HIDE DEF k
<1>7. ~Adds(k)
  BY <1>1, <1>6 DEF JobOK, Adds
<1>8. Moves(t, k)
  BY <1>2, <1>4, <1>7 DEF Moves, CopyInv, Shared
<1>9. Born \subseteq Born' /\ Good \subseteq Good'
  BY <1>8, MoveGrows
<1>10. [id |-> x, status |-> s, retryCount |-> n] \in Good'
  <2> HIDE DEF n, s
  <2>1. [id |-> x, status |-> s, retryCount |-> n] \in Entry
    BY <1>1, <1>3 DEF Entry, Entries
  <2>2. x \in Born'
    BY <1>1, <1>9
  <2> HIDE DEF x
  <2> QED BY <1>3, <1>4, <2>1, <2>2 DEF Good
<1>11. Outcome(u, x, Good')
  <2> HIDE DEF n, s, x
  <2> QED BY <1>3, <1>10 DEF Outcome
<1>12. JobOK(k, Good')
  <2>1. JobOK(task[t], Good') /\ Good' = Good'
    BY <1>1, <1>9, JobStays
  <2>2. k \in Job(Good')
    BY <1>6, <1>9 DEF Job
  <2>3. task[t].entry \in Good' /\ task[t].call \in {"processQueue", "retryTransaction"}
    BY <1>1, <1>9 DEF JobOK, Trying, Recording
  <2> HIDE DEF u
  <2> QED BY <1>6, <1>7, <1>11, <2>1, <2>2, <2>3
        DEF JobOK, Adds, Working, Marking, Resetting, Recording, Trying
<1>13. Shared'
  BY <1>4, <1>9, SharedStays DEF CopyInv, Shared
<1> QED BY <1>8, <1>12, <1>13, MoveKeeps

\* Only the outcome of an attempt completes a transaction.
LEMMA OnlyRecords ==
    ASSUME CopyInv, NEW t \in Tasks, StoreFails(t), task[t].update = Done
    PROVE  task[t].at = "record_write"
<1>1. JobOK(task[t], Good)
  BY DEF CopyInv
<1>2. Done # None /\ Done # Mark /\ Done # Reset
  BY OfflineAssumption DEF Done, Mark, Reset
<1> QED BY <1>1, <1>2 DEF JobOK, StoreFails, Marking, Resetting, Recording

\* A write that fails.
LEMMA StepFails ==
    ASSUME CopyInv, NEW t \in Tasks, StoreFails(t)
    PROVE  CopyInv'
<1>1. CASE task[t].update = Done
  <2>1. task[t].at = "record_write"
    BY <1>1, OnlyRecords
  <2>2. Catch(t) /\ UNCHANGED <<queue, created, executed, kept, suspect>>
    BY <1>1 DEF StoreFails, Done
  <2> QED BY <2>1, <2>2, CatchKeeps
<1>2. CASE task[t].update # Done
  BY <1>2, EndKeeps DEF StoreFails, Done, CopyInv, Shared
<1> QED BY <1>1, <1>2

\* A new transaction is stored.
LEMMA StoreAdds ==
    ASSUME CopyInv, NEW t \in Tasks, task[t].at = "add_write", Store(t)
    PROVE  CopyInv'
<1> DEFINE x == task[t].id
<1>1. JobOK(task[t], Good) /\ Adds(task[t]) /\ x \in created /\ x \in Payments
  BY DEF CopyInv, Shared, JobOK, Draws
<1>2. x \notin Born
  BY <1>1 DEF Born
<1>3. task[t].got \in Seq(Good) /\ Distinct(task[t].got)
  BY <1>1 DEF JobOK, Job
<1>4. x \notin Ids(task[t].got)
  BY <1>2, <1>3 DEF Ids, Good
<1>5. queue' = Append(task[t].got, Fresh(x)) /\ End(t)
  BY DEF Store, ToStore
<1>6. /\ UNCHANGED <<created, executed, caught>> /\ suspect' \subseteq Payments
      /\ kept' \subseteq kept \cup {x}
  BY DEF Store, CopyInv, Shared
<1>7. Moves(t, Idle)
  BY <1>5, <1>6, EndMoves
<1>8. /\ task'[t] = Idle /\ \A u \in Tasks \ {t} : task'[u] = task[u]
      /\ Born \subseteq Born' /\ Good \subseteq Good'
  BY <1>7, MoveGrows
<1>9. x \in Born'
  <2>1. \A u \in Tasks : Adds(task[u])' => task'[u].id # x
    BY <1>1, <1>8, IdleOK DEF CopyInv, Draws, Adds
  <2> QED BY <1>1, <1>6, <2>1 DEF Born
<1>10. Fresh(x) \in Good'
  <2>1. caught'[x] \in Nat
    BY <1>1, <1>6 DEF CopyInv, Shared
  <2> QED BY <1>1, <1>9, <2>1, EntryShape DEF Good, Fresh
<1>11. queue' \in Seq(Good') /\ Distinct(queue)'
  <2>1. queue' \in Seq(Good \cup {Fresh(x)}) /\ Distinct(queue')
    <3> HIDE DEF x
    <3> QED BY <1>3, <1>4, <1>5, AppendMeans
  <2>2. Seq(Good \cup {Fresh(x)}) \subseteq Seq(Good')
    BY <1>8, <1>10
  <2> QED BY <2>1, <2>2 DEF Distinct
<1>12. Shared'
  <2> HIDE DEF x
  <2> QED BY <1>6, <1>8, <1>9, <1>11 DEF CopyInv, Shared
<1> QED BY <1>7, <1>12, IdleOK, MoveKeeps

\* Storing the list without removed transactions.
LEMMA StoreRemoves ==
    ASSUME CopyInv, NEW t \in Tasks, task[t].at = "remove_write", Store(t)
    PROVE  CopyInv'
<1>1. task[t].got \in Seq(Good) /\ Distinct(task[t].got)
  BY DEF CopyInv, JobOK, Job
<1>2. queue' = Keep(task[t].got, Entries(Payments \ Removed(t), Statuses)) /\ End(t)
  BY DEF Store, ToStore
<1>3. UNCHANGED <<created, executed, caught>> /\ suspect' \subseteq Payments /\ kept' \subseteq kept
  BY DEF Store, CopyInv, Shared
<1>4. queue' \in Seq(Good) /\ Distinct(queue')
  BY <1>1, <1>2, KeepStored, GoodFacts
<1>5. Moves(t, Idle)
  BY <1>2, <1>3, EndMoves
<1>6. Born \subseteq Born' /\ Good \subseteq Good'
  BY <1>5, MoveGrows
<1>7. queue' \in Seq(Good') /\ Distinct(queue)'
  BY <1>4, <1>6 DEF Distinct
<1>8. Shared'
  BY <1>3, <1>6, <1>7 DEF CopyInv, Shared
<1> QED BY <1>5, <1>8, IdleOK, MoveKeeps

\* Every update makes an entry that may be stored of one.
LEMMA MergedGood ==
    ASSUME CopyInv, NEW t \in Tasks, task[t].at \in {"reset_write", "mark_write", "record_write"},
           NEW e \in Good, e.id = task[t].entry.id
    PROVE  Merge(e, task[t].update) \in Good
<1>1. JobOK(task[t], Good) /\ e \in Entry /\ e.id \in Born /\ e.id \in Payments /\ e.retryCount \in Nat
      /\ e.retryCount <= caught[e.id] /\ caught[e.id] \in Nat
  BY EntryShape DEF CopyInv, Shared, Good
<1>2. ASSUME NEW s \in {"processing", "completed"}, task[t].update = [status |-> s]
      PROVE  Merge(e, task[t].update) \in Good
  <2> DEFINE m == [id |-> e.id, status |-> s, retryCount |-> e.retryCount]
  <2>1. Merge(e, task[t].update) = m
    BY <1>1, <1>2, MergeMeans
  <2>2. m \in Entry /\ m.id = e.id /\ m.status # "failed" /\ m.retryCount = e.retryCount
    BY <1>1 DEF Entry, Entries, Statuses
  <2> HIDE DEF m
  <2> QED BY <1>1, <2>1, <2>2 DEF Good
<1>3. CASE task[t].update = Reset
  <2> DEFINE m == [id |-> e.id, status |-> "pending", retryCount |-> 0]
  <2>1. Merge(e, task[t].update) = m
    BY <1>1, <1>3, MergeMeans DEF Reset
  <2>2. m \in Entry /\ m.id = e.id /\ m.status # "failed" /\ m.retryCount = 0
    BY <1>1 DEF Entry, Entries, Statuses
  <2> HIDE DEF m
  <2> QED BY <1>1, <2>1, <2>2 DEF Good
<1>4. CASE Outcome(task[t].update, task[t].entry.id, Good)
  <2>1. CASE task[t].update = Done
    BY <1>2, <2>1 DEF Done
  <2>2. ASSUME NEW s \in {"pending", "failed"}, NEW n \in Nat, task[t].update = [status |-> s, retryCount |-> n],
               [id |-> task[t].entry.id, status |-> s, retryCount |-> n] \in Good
        PROVE  Merge(e, task[t].update) \in Good
    BY <1>1, <2>2, MergeMeans
  <2> QED BY <1>4, <2>1, <2>2 DEF Outcome
<1>5. CASE task[t].update = Mark
  BY <1>2, <1>5 DEF Mark
<1> QED BY <1>1, <1>3, <1>4, <1>5 DEF JobOK, Marking, Resetting, Recording

\* A call about to store an update has one.
LEMMA UpdateIs ==
    ASSUME CopyInv, NEW t \in Tasks, task[t].at \in {"reset_write", "mark_write", "record_write"}
    PROVE  task[t].update \in Updates
<1>1. JobOK(task[t], Good)
  BY DEF CopyInv
<1>2. Mark \in Updates /\ Reset \in Updates /\ Done \in Updates
  BY DEF Mark, Reset, Done, Updates, Statuses
<1>3. ASSUME NEW u, NEW x, Outcome(u, x, Good) PROVE u \in Updates
  <2>1. ASSUME NEW s \in {"pending", "failed"}, NEW n \in Nat, u = [status |-> s, retryCount |-> n]
        PROVE  u \in Updates
    BY <2>1 DEF Updates, Statuses
  <2> QED BY <1>2, <1>3, <2>1 DEF Outcome
<1> QED BY <1>1, <1>2, <1>3 DEF JobOK, Marking, Resetting, Recording

\* Storing the list with an updated transaction.
LEMMA StoreUpdates ==
    ASSUME CopyInv, NEW t \in Tasks, task[t].at \in {"reset_write", "mark_write", "record_write"}, Store(t)
    PROVE  CopyInv'
<1> DEFINE x == task[t].entry.id
           u == task[t].update
<1>1. task[t].got \in Seq(Good) /\ Distinct(task[t].got)
  BY DEF CopyInv, JobOK, Job
<1>2. queue' = Updated(task[t].got, x, u) /\ AfterUpdate(t)
  BY DEF Store, ToStore
<1>3. UNCHANGED <<created, executed, caught>> /\ suspect' \subseteq Payments /\ kept' \subseteq kept
  BY DEF Store, CopyInv, Shared
<1>4. u \in Updates
  BY UpdateIs
<1>5. \A e \in Stored(task[t].got, x) : Merge(e, u) \in Good
  BY <1>1, MergedGood DEF Stored
<1>6. queue' \in Seq(Good) /\ Distinct(queue')
  <2> DEFINE H == Good \cup {Merge(e, u) : e \in Stored(task[t].got, x)}
  <2>1. H = Good
    BY <1>5
  <2>2. queue' \in Seq(H) /\ Distinct(queue')
    <3>1. Good \subseteq Entry
      BY GoodFacts
    <3> DEFINE q == task[t].got
    <3>2. q \in Seq(Good) /\ Distinct(q) /\ queue' = Updated(q, x, u)
      BY <1>1, <1>2
    <3> HIDE DEF x, u, q, H
    <3>3. Updated(q, x, u) \in Seq(Good \cup {Merge(e, u) : e \in Stored(q, x)}) /\ Distinct(Updated(q, x, u))
      BY <1>4, <3>1, <3>2, UpdateMeans
    <3> QED BY <3>2, <3>3 DEF H, q
  <2> HIDE DEF H
  <2> QED BY <2>1, <2>2
<1>7. PICK k : task' = [task EXCEPT ![t] = k] /\ JobOK(k, Good) /\ ~Adds(k)
  BY <1>2, AfterUpdateDoes
<1>8. Moves(t, k)
  BY <1>3, <1>7 DEF Moves, CopyInv, Shared
<1>9. Born \subseteq Born' /\ Good \subseteq Good'
  BY <1>8, MoveGrows
<1>10. queue' \in Seq(Good') /\ Distinct(queue)'
  BY <1>6, <1>9 DEF Distinct
<1>11. Shared' /\ JobOK(k, Good')
  <2>1. Shared'
    BY <1>3, <1>9, <1>10 DEF CopyInv, Shared
  <2> QED BY <1>7, <1>9, <2>1, JobStays
<1> QED BY <1>8, <1>11, MoveKeeps

\* Storing a list.
LEMMA StepStore ==
    ASSUME CopyInv, NEW t \in Tasks, Store(t)
    PROVE  CopyInv'
BY StoreAdds, StoreRemoves, StoreUpdates DEF Store

-----------------------------------------------------------------------------
(* Calls, kills, and the invariant of all steps. *)

Called(function, x, stage) == [Idle EXCEPT !.at = stage, !.call = function, !.id = x]

\* What a call that begins holds.
LEMMA CallDoes ==
    ASSUME CopyInv, NEW t \in Tasks, NEW function \in Functions, NEW x \in Payments \cup {None},
           NEW stage \in Stages, Call(t, function, x, stage)
    PROVE  LET k == Called(function, x, stage) IN
           /\ task' = [task EXCEPT ![t] = k] /\ k \in Job(Good)
           /\ k.at = stage /\ k.call = function /\ k.id = x /\ k.got = <<>> /\ k.entry = None
           /\ k.todo = <<>> /\ k.update = None
<1>1. task[t] = Idle /\ task' = [task EXCEPT ![t].at = stage, ![t].call = function, ![t].id = x]
  BY DEF Call
<1>2. task' = [task EXCEPT ![t] = Called(function, x, stage)]
  BY <1>1 DEF Called, CopyInv
<1>3. <<>> \in Seq(Good)
  OBVIOUS
<1> QED BY <1>2, <1>3 DEF Called, Idle, Job

\* A call that does not add a transaction.
LEMMA CallKeeps ==
    ASSUME CopyInv, NEW t \in Tasks, NEW x \in Payments \cup {None},
           \/ Call(t, "removeTransaction", x, "remove_read") /\ x \in Payments
           \/ Call(t, "clearCompletedTransactions", x, "remove_read")
           \/ Call(t, "clearQueue", x, "clear")
           \/ Call(t, "retryTransaction", x, "find") /\ x \in Payments
           \/ Call(t, "processQueue", x, "drain_read"),
           UNCHANGED <<queue, history>>
    PROVE  CopyInv'
<1> SUFFICES ASSUME NEW function \in Functions \ {"none", "queueTransaction"},
                    NEW stage \in {"remove_read", "clear", "find", "drain_read"},
                    Call(t, function, x, stage),
                    function \in {"removeTransaction", "retryTransaction"} => x \in Payments,
                    stage = "find" => function = "retryTransaction",
                    stage = "drain_read" => function = "processQueue"
             PROVE  CopyInv'
  BY DEF Functions
<1> DEFINE k == Called(function, x, stage)
<1>1. /\ task' = [task EXCEPT ![t] = k] /\ k \in Job(Good)
      /\ k.at = stage /\ k.call = function /\ k.id = x /\ k.got = <<>> /\ k.entry = None
      /\ k.todo = <<>> /\ k.update = None
  BY CallDoes DEF Stages
<1>2. Distinct(<<>>) /\ DOMAIN <<>> = {}
  BY DEF Distinct
<1> HIDE DEF k
<1>3. ~Adds(k)
  BY <1>1 DEF Adds
<1>4. JobOK(k, Good)
  BY <1>1, <1>2, <1>3 DEF JobOK, Working, Marking, Resetting, Recording, Trying
<1> QED BY <1>1, <1>3, <1>4, QuietKeeps DEF history, CopyInv, Shared

\* Queueing draws an id nobody has.
LEMMA QueueKeeps ==
    ASSUME CopyInv, NEW t \in Tasks, NEW x \in Payments, QueueTransaction(t, x)
    PROVE  CopyInv'
<1> DEFINE k == Called("queueTransaction", x, "add_read")
<1>1. /\ task' = [task EXCEPT ![t] = k] /\ k \in Job(Good)
      /\ k.at = "add_read" /\ k.call = "queueTransaction" /\ k.id = x /\ k.got = <<>>
      /\ k.entry = None /\ k.todo = <<>> /\ k.update = None
  BY CallDoes DEF QueueTransaction, Functions, Stages
<1>2. Distinct(<<>>) /\ DOMAIN <<>> = {}
  BY DEF Distinct
<1> HIDE DEF k
<1>3. JobOK(k, Good)
  BY <1>1, <1>2 DEF JobOK, Working, Marking, Resetting, Recording, Trying, Adds
<1>4. /\ task'[t] = k /\ \A u \in Tasks \ {t} : task'[u] = task[u]
      /\ DOMAIN task' = Tasks /\ task' = [u \in Tasks |-> task'[u]]
  BY <1>1 DEF CopyInv
<1>5. /\ x \notin created /\ created' = created \cup {x}
      /\ UNCHANGED <<queue, executed, caught, kept, suspect>>
  BY DEF QueueTransaction
<1>6. Born \subseteq Born' /\ Good \subseteq Good'
  <2>1. \A u \in Tasks : Adds(task[u])' =>
          \/ Adds(task[u]) /\ task'[u].id = task[u].id
          \/ task'[u].id \notin created
    BY <1>1, <1>4, <1>5 DEF Adds
  <2>2. \A y \in Payments : caught'[y] \in Nat /\ caught'[y] >= caught[y]
    <3>1. caught \in [Payments -> Nat]
      BY DEF CopyInv, Shared
    <3> QED BY <1>5, <3>1
  <2> QED BY <1>5, <2>1, <2>2, BornGrows
<1>7. Shared'
  BY <1>5, <1>6, SharedStays DEF CopyInv, Shared
<1>8. Draws'
  <2>1. \A u \in Tasks : Adds(task[u]) => task[u].id \in created
    BY DEF CopyInv, Draws
  <2>2. \A u \in Tasks \ {t} : task'[u] = task[u]
    BY <1>4
  <2>3. \A u, v \in Tasks \ {t} : Adds(task[u]) /\ Adds(task[v]) /\ task[u].id = task[v].id => u = v
    BY DEF CopyInv, Draws
  <2> QED BY <1>1, <1>4, <1>5, <2>1, <2>2, <2>3 DEF Draws, Adds
<1>9. \A u \in Tasks : JobOK(task[u]', Good')
  BY <1>3, <1>4, <1>6, JobStays DEF CopyInv
<1> QED BY <1>4, <1>7, <1>8, <1>9 DEF CopyInv

\* A kill ends all calls and keeps the queue.
LEMMA KillKeeps == CopyInv /\ Kill => CopyInv'
<1> SUFFICES ASSUME CopyInv, Kill PROVE CopyInv'
  OBVIOUS
<1>1. /\ task' = [t \in Tasks |-> Idle]
      /\ UNCHANGED <<queue, created, executed, caught, kept, suspect>>
  BY DEF Kill, history
<1>2. \A t \in Tasks : task'[t] = Idle /\ ~Adds(task[t])'
  BY <1>1, IdleOK DEF Adds
<1>3. Born \subseteq Born' /\ Good \subseteq Good'
  <2>1. \A y \in Payments : caught'[y] \in Nat /\ caught'[y] >= caught[y]
    <3>1. caught \in [Payments -> Nat]
      BY DEF CopyInv, Shared
    <3> QED BY <1>1, <3>1
  <2> QED BY <1>1, <1>2, <2>1, BornGrows
<1>4. Shared'
  BY <1>1, <1>3, SharedStays DEF CopyInv, Shared
<1>5. Draws'
  BY <1>2 DEF Draws
<1> QED BY <1>1, <1>2, <1>4, <1>5, IdleOK DEF CopyInv

\* At the start nothing is stored and nobody calls.
LEMMA InitCopy == Init => CopyInv
<1> SUFFICES ASSUME Init PROVE CopyInv
  OBVIOUS
<1>1. /\ task = [t \in Tasks |-> Idle] /\ \A t \in Tasks : task[t] = Idle
      /\ DOMAIN task = Tasks
  BY DEF Init
<1>2. queue = <<>> /\ queue \in Seq(Good) /\ Distinct(queue)
  BY DEF Init, Distinct
<1>3. Shared
  BY <1>2 DEF Init, Shared
<1>4. Draws /\ \A t \in Tasks : JobOK(task[t], Good)
  BY <1>1, IdleOK DEF Draws
<1> QED BY <1>1, <1>3, <1>4 DEF CopyInv

\* A step that touches neither.
LEMMA StandKeeps == CopyInv /\ UNCHANGED <<queue, task, history>> => CopyInv'
BY DEF CopyInv, Shared, Draws, Born, Good, Distinct, Adds, history

\* A reconnection that may start a drain.
LEMMA DrainKeeps ==
    ASSUME CopyInv, NEW connected, DrainIf(connected), UNCHANGED <<queue, history>>
    PROVE  CopyInv'
<1>1. ASSUME NEW t \in Tasks, StartDrain(t) PROVE CopyInv'
  BY <1>1, CallKeeps DEF StartDrain
<1>2. CASE task' = task
  BY <1>2, StandKeeps
<1> QED BY <1>1, <1>2 DEF DrainIf

\* Every step keeps copies well formed.
LEMMA CopyKeeps == CopyInv /\ [Next]_vars => CopyInv'
<1> SUFFICES ASSUME CopyInv, [Next]_vars PROVE CopyInv'
  OBVIOUS
<1>1. ASSUME NEW t \in Tasks, NEW x \in Payments,
             QueueTransaction(t, x) \/ Remove(t, x) \/ RetryTransaction(t, x)
      PROVE  CopyInv'
  BY <1>1, QueueKeeps, CallKeeps DEF Remove, RetryTransaction
<1>2. ASSUME NEW t \in Tasks, ClearCompleted(t) \/ ClearQueue(t) \/ ProcessQueue(t)
      PROVE  CopyInv'
  BY <1>2, CallKeeps DEF ClearCompleted, ClearQueue, ProcessQueue, StartDrain
<1>3. ASSUME NEW t \in Tasks, Step(t) PROVE CopyInv'
  <2>1. CASE FinishDrain(t)
    BY <2>1, EndKeeps DEF FinishDrain, history, CopyInv, Shared
  <2>2. CASE Throw(t)
    BY <2>2, CatchKeeps DEF Throw
  <2> QED BY <1>3, <2>1, <2>2, StepEdit, StepPending, StepNext, StepFind, StepRefind, StepUpdate,
             StepStore, StepClear, StepSend, StepReturn, StepFails DEF Step
<1>4. ASSUME NEW connected \in BOOLEAN, Initialize(connected) \/ HandleNetworkChange(connected)
      PROVE  CopyInv'
  BY <1>4, DrainKeeps DEF Initialize, HandleNetworkChange
<1>5. CASE Cleanup \/ UNCHANGED vars
  BY <1>5, StandKeeps DEF Cleanup, vars
<1> QED BY <1>1, <1>2, <1>3, <1>4, <1>5, KillKeeps DEF Next

BoolInv == online \in BOOLEAN /\ listening \in BOOLEAN

\* The fields of the service are switches.
LEMMA BoolKeeps == BoolInv /\ [Next]_vars => BoolInv'
<1> SUFFICES ASSUME BoolInv, [Next]_vars PROVE BoolInv'
  OBVIOUS
<1>1. ASSUME NEW t \in Tasks, Step(t) PROVE UNCHANGED <<online, listening>>
  BY <1>1 DEF Step, ReadToEdit, ReadPending, ProcessNext, FinishDrain, Find, Refind, ReadToUpdate,
              Store, Clear, Send, Return, Throw, StoreFails, service
<1> QED BY <1>1 DEF BoolInv, Next, QueueTransaction, Remove, RetryTransaction, ClearCompleted, ClearQueue,
                    ProcessQueue, Initialize, HandleNetworkChange, Cleanup, Kill, vars, service

-----------------------------------------------------------------------------
(* Payments of which no outdated copy was used.                            *)

\* A task that has marked the transaction x and has not recorded how its attempt ended;
\* one whose attempt was not carried out or is counted as failed.
Tries(k, x) == k.at \in Trying /\ k.entry.id = x
Unpaid(k) == k.at \in {"send", "unexecuted"} \/ (k.at \in Recording /\ k.update # Done)

\* A task whose copy of the transaction x matters for what comes next.
Concerned(k, x) == k.at \in Trying \cup {"mark_write", "reset_write"} /\ k.entry.id = x

PaidOne(x) ==
    /\ executed[x] <= caught[x] + 1
    /\ \A e \in Stored(queue, x) : e.status \in {"pending", "failed"} => executed[x] <= caught[x]
    /\ \A e \in Stored(queue, x), t \in Tasks : Tries(task[t], x) => e.status = "processing"
    /\ \A t, u \in Tasks : Tries(task[t], x) /\ Tries(task[u], x) => t = u
    /\ \A t \in Tasks : Tries(task[t], x) /\ Unpaid(task[t]) => executed[x] <= caught[x]
    /\ \A t \in Tasks : task[t].at = "mark_write" /\ task[t].entry.id = x =>
          Stored(task[t].got, x) = {task[t].entry} /\ task[t].entry.status = "pending"
    /\ \A t \in Tasks : task[t].at = "reset_write" /\ task[t].entry.id = x =>
          \A e \in Stored(task[t].got, x) : e.status = "failed"

PaidInv == \A x \in Payments \ suspect : PaidOne(x)

Others(t) == \A u \in Tasks \ {t} : task'[u] = task[u]

\* Counts are naturals.
LEMMA Counts ==
    ASSUME CopyInv, NEW x \in Payments
    PROVE  executed[x] \in Nat /\ caught[x] \in Nat
BY DEF CopyInv, Shared

\* The task has nothing to do with x afterwards, and x is not stored anew.
LEMMA PaidQuiet ==
    ASSUME CopyInv, NEW x \in Payments, PaidOne(x), NEW t \in Tasks, Others(t),
           ~Concerned(task'[t], x), Stored(queue', x) \subseteq Stored(queue, x),
           executed'[x] = executed[x], caught'[x] \in Nat, caught'[x] >= caught[x]
    PROVE  PaidOne(x)'
<1>1. /\ executed'[x] <= caught'[x] + 1
      /\ executed[x] <= caught[x] => executed'[x] <= caught'[x]
  BY Counts DEF PaidOne
<1>2. \A u \in Tasks : u = t \/ task'[u] = task[u]
  BY DEF Others
<1>3. /\ ~Tries(task'[t], x) /\ ~(task'[t].at = "mark_write" /\ task'[t].entry.id = x)
      /\ ~(task'[t].at = "reset_write" /\ task'[t].entry.id = x)
  BY DEF Concerned, Tries
<1>4. /\ \A e \in Stored(queue', x) : e.status \in {"pending", "failed"} => executed'[x] <= caught'[x]
      /\ \A e \in Stored(queue', x), u \in Tasks : Tries(task'[u], x) => e.status = "processing"
  BY <1>1, <1>2, <1>3 DEF PaidOne
<1>5. /\ \A u, v \in Tasks : Tries(task'[u], x) /\ Tries(task'[v], x) => u = v
      /\ \A u \in Tasks : Tries(task'[u], x) /\ Unpaid(task'[u]) => executed'[x] <= caught'[x]
  BY <1>1, <1>2, <1>3 DEF PaidOne
<1>6. /\ \A u \in Tasks : task'[u].at = "mark_write" /\ task'[u].entry.id = x =>
            Stored(task'[u].got, x) = {task'[u].entry} /\ task'[u].entry.status = "pending"
      /\ \A u \in Tasks : task'[u].at = "reset_write" /\ task'[u].entry.id = x =>
            \A e \in Stored(task'[u].got, x) : e.status = "failed"
  BY <1>2, <1>3 DEF PaidOne
<1> QED BY <1>1, <1>4, <1>5, <1>6 DEF PaidOne

\* The only attempt at x goes on.
LEMMA PaidTries ==
    ASSUME CopyInv, NEW x \in Payments, PaidOne(x), NEW t \in Tasks, Others(t),
           Tries(task[t], x), Tries(task'[t], x), Stored(queue', x) \subseteq Stored(queue, x),
           executed'[x] <= caught'[x] + 1, Unpaid(task'[t]) => executed'[x] <= caught'[x]
    PROVE  PaidOne(x)'
<1>1. \A u \in Tasks : u = t \/ (task'[u] = task[u] /\ ~Tries(task[u], x))
  BY DEF Others, PaidOne
<1>2. /\ ~(task'[t].at = "mark_write" /\ task'[t].entry.id = x)
      /\ ~(task'[t].at = "reset_write" /\ task'[t].entry.id = x)
  BY DEF Tries, Trying, Recording
<1>3. \A e \in Stored(queue', x) : e.status = "processing"
  BY DEF PaidOne
<1>4. /\ \A u, v \in Tasks : Tries(task'[u], x) /\ Tries(task'[v], x) => u = v
      /\ \A u \in Tasks : Tries(task'[u], x) /\ Unpaid(task'[u]) => executed'[x] <= caught'[x]
  BY <1>1
<1>5. /\ \A u \in Tasks : task'[u].at = "mark_write" /\ task'[u].entry.id = x =>
            Stored(task'[u].got, x) = {task'[u].entry} /\ task'[u].entry.status = "pending"
      /\ \A u \in Tasks : task'[u].at = "reset_write" /\ task'[u].entry.id = x =>
            \A e \in Stored(task'[u].got, x) : e.status = "failed"
  BY <1>1, <1>2 DEF PaidOne
<1> QED BY <1>3, <1>4, <1>5 DEF PaidOne

\* A call that ends is no longer concerned with any transaction.
LEMMA EndQuiet ==
    ASSUME CopyInv, NEW t \in Tasks, End(t), NEW x
    PROVE  Others(t) /\ ~Concerned(task'[t], x) /\ task'[t] = Idle
BY DEF End, Others, Concerned, Idle, CopyInv, Trying, Recording

\* A call that begins is not concerned yet.
LEMMA CallQuiet ==
    ASSUME CopyInv, TasksWellFormed, NEW t \in Tasks, NEW function, NEW y, NEW x,
           NEW stage \in {"add_read", "remove_read", "clear", "find", "drain_read"},
           Call(t, function, y, stage)
    PROVE  Others(t) /\ ~Concerned(task'[t], x)
<1>1. task'[t].at = stage
  BY DEF Call, TasksWellFormed, Fields
<1> QED BY <1>1 DEF Call, Others, Concerned, TasksWellFormed, Trying, Recording

\* The steps that leave the task at a stage that does not concern x.
LEMMA PaidAside ==
    ASSUME CopyInv, TasksWellFormed, NEW t \in Tasks, NEW x \in Payments, PaidOne(x),
           ReadToEdit(t) \/ ReadPending(t) \/ ProcessNext(t) \/ FinishDrain(t) \/ Find(t) \/ Refind(t)
    PROVE  PaidOne(x)'
<1>1. UNCHANGED <<queue, executed, caught>>
  BY DEF ReadToEdit, ReadPending, ProcessNext, FinishDrain, Find, Refind, history
<1>2. Stored(queue', x) \subseteq Stored(queue, x) /\ executed'[x] = executed[x]
      /\ caught'[x] \in Nat /\ caught'[x] >= caught[x]
  BY <1>1, Counts
<1> SUFFICES Others(t) /\ ~Concerned(task'[t], x)
  BY <1>2, PaidQuiet
<1>3. ASSUME Others(t), task'[t].at \in {"add_write", "remove_write", "next", "mark_read", "reset_read"}
      PROVE  Others(t) /\ ~Concerned(task'[t], x)
  BY <1>3 DEF Concerned, Trying, Recording
<1>4. CASE ReadToEdit(t)
  BY <1>3, <1>4 DEF ReadToEdit, Others, TasksWellFormed, Fields
<1>5. CASE ReadPending(t)
  BY <1>3, <1>5 DEF ReadPending, Others, TasksWellFormed, Fields
<1>6. CASE ProcessNext(t)
  <2>1. DOMAIN Process(t, Head(task[t].todo)) = Fields
        /\ Process(t, Head(task[t].todo)).at = "mark_read"
    BY DEF Process, TasksWellFormed, Fields
  <2>2. task'[t].at \in {"next", "mark_read"} /\ Others(t)
    BY <1>6, <2>1 DEF ProcessNext, TasksWellFormed, Fields, Others
  <2> QED BY <1>3, <2>2
<1>7. CASE FinishDrain(t)
  BY <1>7, EndQuiet DEF FinishDrain
<1>8. CASE Find(t)
  <2>1. CASE End(t)
    BY <2>1, EndQuiet
  <2>2. ASSUME NEW e, NEW v, task' = [task EXCEPT ![t].at = "reset_read", ![t].entry = e, ![t].update = v]
        PROVE  Others(t) /\ ~Concerned(task'[t], x)
    BY <1>3, <2>2 DEF Others, TasksWellFormed, Fields
  <2> QED BY <1>8, <2>1, <2>2 DEF Find
<1>9. CASE Refind(t)
  <2>1. CASE End(t)
    BY <2>1, EndQuiet
  <2>2. ASSUME NEW e, task' = [task EXCEPT ![t] = Process(t, e)]
        PROVE  Others(t) /\ ~Concerned(task'[t], x)
    <3>1. Process(t, e).at = "mark_read"
      BY DEF Process, TasksWellFormed, Fields
    <3> QED BY <1>3, <2>2, <3>1 DEF Others, TasksWellFormed
  <2> QED BY <1>9, <2>1, <2>2 DEF Refind
<1> QED BY <1>4, <1>5, <1>6, <1>7, <1>8, <1>9

\* updateTransaction returns: only a marked transaction is attempted next.
LEMMA AfterQuiet ==
    ASSUME CopyInv, NEW t \in Tasks, AfterUpdate(t), NEW x
    PROVE  /\ Others(t)
           /\ \/ ~Concerned(task'[t], x)
              \/ task[t].at \in Marking /\ task[t].entry.id = x /\ task'[t].at = "send"
                 /\ task'[t].entry = task[t].entry
<1>1. PICK k : /\ task' = [task EXCEPT ![t] = k]
               /\ \/ k = Idle
                  \/ k.at = "refind"
                  \/ k.at = "next"
                  \/ k.at = "send" /\ task[t].at \in Marking /\ k.entry = task[t].entry
  BY AfterUpdateDoes
<1>2. Others(t) /\ task'[t] = k
  BY <1>1 DEF Others, CopyInv
<1> QED BY <1>1, <1>2 DEF Concerned, Idle, Trying, Recording

\* Reading the queue to update a transaction: the copy is what is stored, or outdated.
LEMMA PaidUpdate ==
    ASSUME CopyInv, TasksWellFormed, NEW t \in Tasks, NEW x \in Payments, x \notin suspect', PaidOne(x),
           ReadToUpdate(t)
    PROVE  PaidOne(x)'
<1> DEFINE at == task[t].at
<1>1. /\ UNCHANGED <<queue, executed, caught>> /\ at \in {"reset_read", "mark_read", "record_read"}
      /\ JobOK(task[t], Good)
  BY DEF ReadToUpdate, CopyInv
<1>2. Stored(queue', x) \subseteq Stored(queue, x) /\ executed'[x] = executed[x]
      /\ caught'[x] \in Nat /\ caught'[x] >= caught[x]
  BY <1>1, Counts
<1>3. PICK q \in Loads :
        /\ IF task[t].entry.id \in Ids(q) THEN task' = [task EXCEPT ![t] = FoundAt(t, q)]
           ELSE AfterUpdate(t)
        /\ task[t].entry.id = x =>
              /\ q = queue
              /\ at = "mark_read" => Stored(queue, x) = {task[t].entry}
              /\ at = "mark_read" /\ task[t].call = "retryTransaction" => task[t].entry.status = "pending"
              /\ at = "reset_read" => \A e \in Stored(queue, x) : e.status = "failed"
  <2>1. PICK q \in Loads :
          /\ IF task[t].entry.id \in Ids(q)
             THEN task' = [task EXCEPT ![t].got = q,
                             ![t].at = CASE at = "reset_read" -> "reset_write"
                                         [] at = "mark_read" -> "mark_write"
                                         [] at = "record_read" -> "record_write"]
             ELSE AfterUpdate(t)
          /\ suspect' = suspect \cup
               IF \/ q # queue
                  \/ at = "mark_read" /\ Stored(queue, task[t].entry.id) # {task[t].entry}
                  \/ at = "mark_read" /\ task[t].call = "retryTransaction"
                                      /\ task[t].entry.status # "pending"
                  \/ at = "reset_read" /\ \E e \in Stored(queue, task[t].entry.id) : e.status # "failed"
               THEN {task[t].entry.id} ELSE {}
    BY DEF ReadToUpdate
  <2> DEFINE st == CASE at = "reset_read" -> "reset_write"
                     [] at = "mark_read" -> "mark_write"
                     [] at = "record_read" -> "record_write"
  <2>2. FoundAt(t, q) = [task[t] EXCEPT !.got = q, !.at = st]
    BY DEF FoundAt
  <2>3. task[t].entry.id \in Ids(q) => task' = [task EXCEPT ![t].got = q, ![t].at = st]
    BY <2>1
  <2>4. [task EXCEPT ![t].got = q, ![t].at = st] = [task EXCEPT ![t] = FoundAt(t, q)]
    <3> HIDE DEF st
    <3> QED BY <2>2 DEF CopyInv
  <2> QED BY <2>1, <2>3, <2>4
<1>4. CASE task[t].entry.id \notin Ids(q)
  <2>1. ~(at \in Marking /\ task[t].entry.id = x)
    <3> SUFFICES ASSUME at \in Marking, task[t].entry.id = x PROVE FALSE
      OBVIOUS
    <3>1. task[t].entry \in Stored(q, x)
      BY <1>1, <1>3 DEF Marking
    <3>2. x \in Ids(q)
      BY <3>1, Storing DEF Ids
    <3> QED BY <1>4, <3>2
  <2>2. Others(t) /\ ~Concerned(task'[t], x)
    BY <1>3, <1>4, <2>1, AfterQuiet
  <2> QED BY <1>2, <2>2, PaidQuiet
<1>5. CASE task[t].entry.id \in Ids(q)
  <2> DEFINE k == FoundAt(t, q)
  <2>1. /\ task'[t] = k /\ Others(t) /\ k.got = q /\ k.entry = task[t].entry /\ k.update = task[t].update
        /\ \/ at = "reset_read" /\ k.at = "reset_write"
           \/ at = "mark_read" /\ k.at = "mark_write"
           \/ at = "record_read" /\ k.at = "record_write"
    BY <1>1, <1>3, <1>5, FoundOK DEF CopyInv, Others
  <2> HIDE DEF k
  <2>2. CASE task[t].entry.id # x
    <3>1. ~Concerned(task'[t], x)
      BY <2>1, <2>2 DEF Concerned
    <3> QED BY <1>2, <2>1, <3>1, PaidQuiet
  <2>3. CASE task[t].entry.id = x /\ at = "record_read"
    <3>1. Tries(task[t], x) /\ Tries(task'[t], x)
      BY <2>1, <2>3 DEF Tries, Trying, Recording
    <3>2. Unpaid(task'[t]) => Unpaid(task[t])
      BY <2>1, <2>3 DEF Unpaid, Recording
    <3>3. executed'[x] <= caught'[x] + 1 /\ (Unpaid(task'[t]) => executed'[x] <= caught'[x])
      BY <1>1, <3>1, <3>2 DEF PaidOne
    <3> QED BY <1>2, <2>1, <3>1, <3>3, PaidTries
  <2>4. CASE task[t].entry.id = x /\ at \in {"mark_read", "reset_read"}
    <3>1. at = "mark_read" => Stored(q, x) = {task[t].entry} /\ task[t].entry.status = "pending"
      BY <1>1, <1>3, <2>4 DEF JobOK, Marking
    <3>2. at = "reset_read" => \A e \in Stored(q, x) : e.status = "failed"
      BY <1>3, <2>4
    <3>3. ~Tries(task[t], x) /\ ~Tries(task'[t], x)
      BY <2>1, <2>4 DEF Tries, Trying, Recording
    <3>4. \A u \in Tasks : u = t \/ task'[u] = task[u]
      BY <2>1 DEF Others
    <3>5. /\ \A u \in Tasks : task'[u].at = "mark_write" /\ task'[u].entry.id = x =>
                Stored(task'[u].got, x) = {task'[u].entry} /\ task'[u].entry.status = "pending"
          /\ \A u \in Tasks : task'[u].at = "reset_write" /\ task'[u].entry.id = x =>
                \A e \in Stored(task'[u].got, x) : e.status = "failed"
      BY <2>1, <3>1, <3>2, <3>4 DEF PaidOne
    <3>6. /\ \A u \in Tasks : Tries(task'[u], x) => Tries(task[u], x) /\ task'[u] = task[u]
      BY <3>3, <3>4
    <3> QED BY <1>1, <3>5, <3>6 DEF PaidOne
  <2> QED BY <1>1, <2>2, <2>3, <2>4
<1> QED BY <1>4, <1>5

\* Sending a payment.
LEMMA PaidSend ==
    ASSUME CopyInv, TasksWellFormed, NEW t \in Tasks, NEW x \in Payments, PaidOne(x), Send(t)
    PROVE  PaidOne(x)'
<1>1. PICK stage \in {"executed", "unexecuted"} :
        /\ task' = [task EXCEPT ![t].at = stage]
        /\ executed' = IF stage = "executed" THEN [executed EXCEPT ![task[t].entry.id] = @ + 1] ELSE executed
  BY DEF Send
<1>2. /\ task'[t].at = stage /\ task'[t].entry = task[t].entry /\ Others(t)
      /\ task[t].at = "send" /\ UNCHANGED <<queue, caught>>
  BY <1>1 DEF Send, TasksWellFormed, Fields, Others
<1>3. Stored(queue', x) \subseteq Stored(queue, x) /\ caught'[x] \in Nat /\ caught'[x] >= caught[x]
  BY <1>2, Counts
<1>4. CASE task[t].entry.id # x
  <2>1. ~Concerned(task'[t], x)
    BY <1>2, <1>4 DEF Concerned
  <2>2. executed'[x] = executed[x]
    BY <1>1, <1>4 DEF CopyInv, Shared
  <2> QED BY <1>2, <1>3, <2>1, <2>2, PaidQuiet
<1>5. CASE task[t].entry.id = x
  <2>1. Tries(task[t], x) /\ Tries(task'[t], x) /\ Unpaid(task[t])
    BY <1>2, <1>5 DEF Tries, Unpaid, Trying
  <2>2. executed[x] <= caught[x]
    BY <2>1 DEF PaidOne
  <2>3. executed'[x] = IF stage = "executed" THEN executed[x] + 1 ELSE executed[x]
    BY <1>1, <1>5 DEF CopyInv, Shared
  <2>4. Unpaid(task'[t]) => stage = "unexecuted"
    BY <1>2 DEF Unpaid, Recording
  <2>5. executed'[x] <= caught'[x] + 1 /\ (Unpaid(task'[t]) => executed'[x] <= caught'[x])
    BY <1>2, <2>2, <2>3, <2>4, Counts
  <2> QED BY <1>2, <1>3, <2>1, <2>5, PaidTries
<1> QED BY <1>4, <1>5

\* A payment that went through.
LEMMA PaidReturn ==
    ASSUME CopyInv, TasksWellFormed, NEW t \in Tasks, NEW x \in Payments, PaidOne(x), Return(t)
    PROVE  PaidOne(x)'
<1>1. /\ task'[t].at = "record_read" /\ task'[t].update = Done /\ task'[t].entry = task[t].entry
      /\ Others(t) /\ task[t].at \in {"executed", "unexecuted"} /\ UNCHANGED <<queue, executed, caught>>
  BY DEF Return, TasksWellFormed, Fields, Others, Done, history
<1>2. Stored(queue', x) \subseteq Stored(queue, x) /\ executed'[x] = executed[x]
      /\ caught'[x] \in Nat /\ caught'[x] >= caught[x]
  BY <1>1, Counts
<1>3. CASE task[t].entry.id # x
  <2>1. ~Concerned(task'[t], x)
    BY <1>1, <1>3 DEF Concerned
  <2> QED BY <1>1, <1>2, <2>1, PaidQuiet
<1>4. CASE task[t].entry.id = x
  <2>1. Tries(task[t], x) /\ Tries(task'[t], x) /\ ~Unpaid(task'[t])
    BY <1>1, <1>4 DEF Tries, Unpaid, Trying, Recording
  <2>2. executed'[x] <= caught'[x] + 1
    BY <1>1 DEF PaidOne
  <2> QED BY <1>1, <1>2, <2>1, <2>2, PaidTries
<1> QED BY <1>3, <1>4

\* A failure pays for the attempt, whether it was carried out or not.
LEMMA PaidCatch ==
    ASSUME CopyInv, TasksWellFormed, NEW t \in Tasks, NEW x \in Payments, PaidOne(x), Catch(t),
           task[t].at \in {"executed", "unexecuted", "record_write"}, UNCHANGED <<queue, executed>>
    PROVE  PaidOne(x)'
<1>1. task'[t].at = "record_read" /\ task'[t].entry = task[t].entry /\ Others(t)
  BY DEF Catch, TasksWellFormed, Fields, Others
<1>2. /\ caught'[x] \in Nat /\ caught'[x] >= caught[x]
      /\ task[t].entry.id = x => caught'[x] = caught[x] + 1
  <2>1. caught \in [Payments -> Nat] /\ caught' = [caught EXCEPT ![task[t].entry.id] = @ + 1]
    BY DEF Catch, CopyInv, Shared
  <2>2. caught'[x] = caught[x] \/ caught'[x] = caught[x] + 1
    BY <2>1
  <2>3. task[t].entry.id = x => caught'[x] = caught[x] + 1
    BY <2>1
  <2> QED BY <2>2, <2>3, Counts
<1>3. Stored(queue', x) \subseteq Stored(queue, x) /\ executed'[x] = executed[x]
  OBVIOUS
<1>4. CASE task[t].entry.id # x
  <2>1. ~Concerned(task'[t], x)
    BY <1>1, <1>4 DEF Concerned
  <2> QED BY <1>1, <1>2, <1>3, <2>1, PaidQuiet
<1>5. CASE task[t].entry.id = x
  <2>1. Tries(task[t], x) /\ Tries(task'[t], x)
    BY <1>1, <1>5 DEF Tries, Trying, Recording
  <2>2. executed'[x] <= caught'[x]
    BY <1>2, <1>3, <1>5, Counts DEF PaidOne
  <2>3. executed'[x] <= caught'[x] + 1
    BY <1>2, <1>3, <2>2, Counts
  <2> QED BY <1>1, <1>3, <2>1, <2>2, <2>3, PaidTries
<1> QED BY <1>4, <1>5

\* A call ends.
LEMMA PaidEnd ==
    ASSUME CopyInv, NEW t \in Tasks, NEW x \in Payments, PaidOne(x), End(t),
           Stored(queue', x) \subseteq Stored(queue, x), UNCHANGED <<executed, caught>>
    PROVE  PaidOne(x)'
BY Counts, EndQuiet, PaidQuiet

\* A write that fails.
LEMMA PaidFails ==
    ASSUME CopyInv, TasksWellFormed, NEW t \in Tasks, NEW x \in Payments, PaidOne(x), StoreFails(t)
    PROVE  PaidOne(x)'
<1>1. CASE task[t].update = Done
  <2>1. task[t].at = "record_write"
    BY <1>1, OnlyRecords
  <2>2. Catch(t) /\ UNCHANGED <<queue, executed>>
    BY <1>1 DEF StoreFails, Done
  <2> QED BY <2>1, <2>2, PaidCatch
<1>2. CASE task[t].update # Done
  <2>1. End(t) /\ UNCHANGED <<queue, executed, caught>>
    BY <1>2 DEF StoreFails, Done
  <2> QED BY <2>1, PaidEnd
<1> QED BY <1>1, <1>2

\* What a write makes of a transaction of which it does not store an outdated copy.
LEMMA StoreMeans ==
    ASSUME CopyInv, NEW t \in Tasks, Store(t), NEW x \in Payments, x \notin suspect'
    PROVE  /\ UNCHANGED <<executed, caught>> /\ Stored(task[t].got, x) = Stored(queue, x)
           /\ \/ /\ task[t].at = "add_write" /\ End(t) /\ task[t].id \notin Born
                 /\ Stored(queue', x) = Stored(queue, x) \cup {e \in {Fresh(task[t].id)} : x = task[t].id}
                 /\ kept' = kept \cup {task[t].id}
              \/ /\ task[t].at = "remove_write" /\ End(t)
                 /\ Stored(queue', x) = {e \in Stored(queue, x) : x \notin Removed(t)}
                 /\ kept' = kept \ Removed(t)
              \/ /\ task[t].at \in {"reset_write", "mark_write", "record_write"} /\ AfterUpdate(t)
                 /\ Stored(queue', x) = IF x = task[t].entry.id
                                        THEN {Merge(e, task[t].update) : e \in Stored(queue, x)}
                                        ELSE Stored(queue, x)
                 /\ kept' = kept
<1>1. UNCHANGED <<executed, caught>> /\ Stored(task[t].got, x) = Stored(queue, x)
  BY DEF Store
<1>2. /\ task[t].got \in Seq(Good) /\ Distinct(task[t].got) /\ JobOK(task[t], Good)
      /\ Good \subseteq Entry
  BY GoodFacts DEF CopyInv, JobOK, Job
<1>3. CASE task[t].at = "add_write"
  <2>1. task[t].id \notin Born
    BY <1>2, <1>3 DEF Born, JobOK
  <2>2. task[t].id \notin Ids(task[t].got)
    BY <1>2, <2>1 DEF Ids, Good
  <2>3. queue' = Append(task[t].got, Fresh(task[t].id)) /\ kept' = kept \cup {task[t].id} /\ End(t)
    BY <1>3 DEF Store, ToStore, Removed
  <2>4. Stored(queue', x) = Stored(task[t].got, x) \cup {e \in {Fresh(task[t].id)} : x = task[t].id}
    <3>1. task[t].got \in Seq(Entry)
      BY <1>2
    <3> QED BY <2>3, <3>1, AppendStored
  <2> QED BY <1>1, <1>3, <2>1, <2>3, <2>4
<1>4. CASE task[t].at = "remove_write"
  <2>1. /\ queue' = Keep(task[t].got, Entries(Payments \ Removed(t), Statuses))
        /\ kept' = kept \ Removed(t) /\ End(t)
    BY <1>4 DEF Store, ToStore
  <2>2. Stored(queue', x) = {e \in Stored(task[t].got, x) : x \notin Removed(t)}
    BY <1>2, <2>1, KeepStored
  <2> QED BY <1>1, <1>4, <2>1, <2>2
<1>5. CASE task[t].at \in {"reset_write", "mark_write", "record_write"}
  <2>1. /\ queue' = Updated(task[t].got, task[t].entry.id, task[t].update)
        /\ kept' = kept /\ AfterUpdate(t)
    BY <1>5 DEF Store, ToStore, Removed
  <2>2. task[t].update \in Updates
    BY <1>5, UpdateIs
  <2>3. Stored(queue', x) = IF x = task[t].entry.id
                            THEN {Merge(e, task[t].update) : e \in Stored(task[t].got, task[t].entry.id)}
                            ELSE Stored(task[t].got, x)
    <3> DEFINE q == task[t].got
               y == task[t].entry.id
               u == task[t].update
    <3>1. q \in Seq(Entry) /\ u \in Updates /\ queue' = Updated(q, y, u)
      BY <1>2, <2>1, <2>2
    <3> HIDE DEF q, y, u
    <3>2. Stored(Updated(q, y, u), x) = IF x = y THEN {Merge(e, u) : e \in Stored(q, y)} ELSE Stored(q, x)
      BY <3>1, UpdateStored
    <3> QED BY <3>1, <3>2 DEF q, y, u
  <2> QED BY <1>1, <1>5, <2>1, <2>3
<1> QED BY <1>3, <1>4, <1>5 DEF Store

\* Storing a list.
LEMMA PaidStore ==
    ASSUME CopyInv, TasksWellFormed, NEW t \in Tasks, NEW x \in Payments, x \notin suspect', PaidOne(x),
           Store(t)
    PROVE  PaidOne(x)'
<1>1. /\ UNCHANGED <<executed, caught>> /\ Stored(task[t].got, x) = Stored(queue, x)
      /\ executed'[x] = executed[x] /\ caught'[x] \in Nat /\ caught'[x] >= caught[x]
      /\ executed[x] \in Nat /\ caught[x] \in Nat /\ JobOK(task[t], Good)
  BY StoreMeans, Counts DEF CopyInv
<1>2. CASE End(t) /\ Stored(queue', x) \subseteq Stored(queue, x)
  BY <1>1, <1>2, PaidEnd
<1>3. CASE /\ task[t].at = "add_write" /\ End(t) /\ task[t].id = x /\ x \notin Born
           /\ Stored(queue', x) = Stored(queue, x) \cup {Fresh(x)}
  <2>1. executed'[x] = 0
    BY <1>1, <1>3 DEF CopyInv, Shared
  <2>2. Stored(queue, x) = {}
    <3>1. \A i \in DOMAIN queue : queue[i].id # x
      BY <1>3 DEF CopyInv, Shared, Good
    <3> QED BY <3>1 DEF Stored
  <2>3. \A u \in Tasks : ~Concerned(task[u], x)
    BY <1>3, EntryBorn DEF Concerned, Working, Marking, Resetting, Trying
  <2>4. \A u \in Tasks : ~Concerned(task'[u], x)
    BY <1>3, <2>3, EndQuiet DEF Others
  <2>5. /\ \A u \in Tasks : ~Tries(task'[u], x)
        /\ \A u \in Tasks : ~(task'[u].at = "mark_write" /\ task'[u].entry.id = x)
        /\ \A u \in Tasks : ~(task'[u].at = "reset_write" /\ task'[u].entry.id = x)
    BY <2>4 DEF Concerned, Tries
  <2>6. executed'[x] <= caught'[x] /\ executed'[x] <= caught'[x] + 1
    BY <1>1, <2>1
  <2> QED BY <2>5, <2>6 DEF PaidOne
<1>4. ASSUME /\ task[t].at \in {"reset_write", "mark_write", "record_write"} /\ AfterUpdate(t)
             /\ Stored(queue', x) = IF x = task[t].entry.id
                                     THEN {Merge(e, task[t].update) : e \in Stored(queue, x)}
                                     ELSE Stored(queue, x)
      PROVE  PaidOne(x)'
  <2>1. CASE task[t].entry.id # x
    BY <1>1, <1>4, <2>1, AfterQuiet, PaidQuiet
  <2> SUFFICES ASSUME task[t].entry.id = x PROVE PaidOne(x)'
    BY <2>1
  <2>2. /\ \A e \in Stored(queue', x) : e.status = task[t].update.status
        /\ Stored(queue', x) # {} => Stored(queue, x) # {}
    <3>1. \A e \in Stored(queue, x) : e \in Entry
      BY Storing, GoodFacts DEF CopyInv, Shared
    <3> QED BY <1>4, <3>1, MergeKeepsId, UpdateIs
  <2>3. Others(t) /\ \A u \in Tasks : u = t \/ task'[u] = task[u]
    BY <1>4, AfterQuiet DEF Others
  <2>4. CASE task[t].at = "mark_write"
    <3>1. Stored(queue, x) = {task[t].entry} /\ task[t].entry.status = "pending" /\ task[t].update = Mark
      BY <1>1, <2>4 DEF PaidOne, JobOK, Marking
    <3>2. executed[x] <= caught[x] /\ \A u \in Tasks : ~Tries(task[u], x)
      BY <3>1 DEF PaidOne
    <3>3. \A e \in Stored(queue', x) : e.status = "processing"
      BY <2>2, <3>1 DEF Mark
    <3>4. \/ ~Concerned(task'[t], x)
          \/ task'[t].at = "send" /\ task'[t].entry = task[t].entry
      BY <1>4, AfterQuiet
    <3>5. /\ ~(task'[t].at = "mark_write" /\ task'[t].entry.id = x)
          /\ ~(task'[t].at = "reset_write" /\ task'[t].entry.id = x)
      BY <3>4 DEF Concerned
    <3>6. /\ \A u \in Tasks : task'[u].at = "mark_write" /\ task'[u].entry.id = x =>
                Stored(task'[u].got, x) = {task'[u].entry} /\ task'[u].entry.status = "pending"
          /\ \A u \in Tasks : task'[u].at = "reset_write" /\ task'[u].entry.id = x =>
                \A e \in Stored(task'[u].got, x) : e.status = "failed"
      BY <2>3, <3>5 DEF PaidOne
    <3>7. \A u, v \in Tasks : Tries(task'[u], x) /\ Tries(task'[v], x) => u = v
      BY <2>3, <3>2
    <3>8. executed'[x] <= caught'[x] /\ executed'[x] <= caught'[x] + 1
      BY <1>1, <3>2
    <3> QED BY <3>3, <3>6, <3>7, <3>8 DEF PaidOne
  <2>5. CASE task[t].at \in {"reset_write", "record_write"}
    <3>1. ~Concerned(task'[t], x)
      BY <1>4, <2>5, AfterQuiet DEF Marking
    <3>2. \A u \in Tasks : ~Tries(task'[u], x) \/ Stored(queue', x) = {}
      <4>1. CASE task[t].at = "reset_write"
        <5>1. \A e \in Stored(queue, x) : e.status = "failed"
          BY <1>1, <4>1 DEF PaidOne
        <5>2. Stored(queue, x) = {} \/ \A u \in Tasks : ~Tries(task[u], x)
          BY <5>1 DEF PaidOne
        <5> QED BY <2>2, <2>3, <3>1, <5>2 DEF Concerned, Tries
      <4>2. CASE task[t].at = "record_write"
        <5>1. Tries(task[t], x)
          BY <4>2 DEF Tries, Trying, Recording
        <5>2. \A u \in Tasks : Tries(task[u], x) => u = t
          BY <5>1 DEF PaidOne
        <5> QED BY <2>3, <3>1, <5>2 DEF Concerned, Tries
      <4> QED BY <2>5, <4>1, <4>2
    <3>3. ASSUME NEW e \in Stored(queue', x), e.status \in {"pending", "failed"}
          PROVE  executed'[x] <= caught'[x]
      <4>1. CASE task[t].at = "reset_write"
        <5>1. \E d \in Stored(queue, x) : d.status = "failed"
          BY <1>1, <2>2, <4>1 DEF PaidOne
        <5> QED BY <1>1, <5>1 DEF PaidOne
      <4>2. CASE task[t].at = "record_write"
        <5>1. Tries(task[t], x)
          BY <4>2 DEF Tries, Trying, Recording
        <5>2. task[t].update.status # "completed"
          BY <2>2, <3>3
        <5>3. Unpaid(task[t])
          BY <4>2, <5>2 DEF Unpaid, Done, Recording
        <5> QED BY <1>1, <5>1, <5>3 DEF PaidOne
      <4> QED BY <2>5, <4>1, <4>2
    <3>4. /\ executed'[x] <= caught'[x] + 1
          /\ executed[x] <= caught[x] => executed'[x] <= caught'[x]
      BY <1>1 DEF PaidOne
    <3>5. ~Tries(task'[t], x)
          /\ ~(task'[t].at = "mark_write" /\ task'[t].entry.id = x)
          /\ ~(task'[t].at = "reset_write" /\ task'[t].entry.id = x)
      BY <3>1 DEF Concerned, Tries
    <3>6. /\ \A u \in Tasks : task'[u].at = "mark_write" /\ task'[u].entry.id = x =>
                Stored(task'[u].got, x) = {task'[u].entry} /\ task'[u].entry.status = "pending"
          /\ \A u \in Tasks : task'[u].at = "reset_write" /\ task'[u].entry.id = x =>
                \A e \in Stored(task'[u].got, x) : e.status = "failed"
      BY <2>3, <3>5 DEF PaidOne
    <3>7. /\ \A u, v \in Tasks : Tries(task'[u], x) /\ Tries(task'[v], x) => u = v
          /\ \A u \in Tasks : Tries(task'[u], x) /\ Unpaid(task'[u]) => executed'[x] <= caught'[x]
      BY <2>3, <3>4, <3>5 DEF PaidOne
    <3> QED BY <3>2, <3>3, <3>4, <3>6, <3>7 DEF PaidOne
  <2> QED BY <1>4, <2>4, <2>5
<1> QED BY <1>2, <1>3, <1>4, StoreMeans

\* A payment stays suspect.
LEMMA SuspectGrows == [Next]_vars => suspect \subseteq suspect'
<1> SUFFICES ASSUME [Next]_vars PROVE suspect \subseteq suspect'
  OBVIOUS
<1>1. ASSUME NEW t \in Tasks, Step(t) PROVE suspect \subseteq suspect'
  BY <1>1 DEF Step, ReadToEdit, ReadPending, ProcessNext, FinishDrain, Find, Refind, ReadToUpdate,
              Store, Clear, Send, Return, Throw, StoreFails, history
<1> QED BY <1>1 DEF Next, QueueTransaction, Remove, RetryTransaction, ClearCompleted, ClearQueue,
                    ProcessQueue, Initialize, HandleNetworkChange, Cleanup, Kill, vars, history

\* Every step of a call.
LEMMA PaidStep ==
    ASSUME CopyInv, TasksWellFormed, NEW t \in Tasks, Step(t),
           NEW x \in Payments, x \notin suspect', PaidOne(x)
    PROVE  PaidOne(x)'
<1>1. CASE Clear(t)
  <2>1. Stored(queue', x) \subseteq Stored(queue, x)
    BY <1>1 DEF Clear, Stored
  <2> QED BY <1>1, <2>1, PaidEnd DEF Clear
<1>2. CASE Throw(t)
  BY <1>2, PaidCatch DEF Throw
<1> QED BY <1>1, <1>2, PaidAside, PaidUpdate, PaidStore, PaidSend, PaidReturn, PaidFails DEF Step

\* Every call that begins.
LEMMA PaidCall ==
    ASSUME CopyInv, TasksWellFormed, NEW t \in Tasks, NEW function, NEW y,
           NEW stage \in {"add_read", "remove_read", "clear", "find", "drain_read"},
           Call(t, function, y, stage), UNCHANGED <<queue, executed, caught>>,
           NEW x \in Payments, PaidOne(x)
    PROVE  PaidOne(x)'
BY Counts, CallQuiet, PaidQuiet

\* A step that touches no call and no list.
LEMMA PaidStands ==
    ASSUME NEW x, PaidOne(x), UNCHANGED <<queue, task, executed, caught>>
    PROVE  PaidOne(x)'
BY DEF PaidOne

\* Every step keeps payments paid once.
LEMMA PaidKeeps == CopyInv /\ FlagInv /\ PaidInv /\ [Next]_vars => PaidInv'
<1> SUFFICES ASSUME CopyInv, FlagInv, PaidInv, [Next]_vars, NEW x \in Payments, x \notin suspect'
             PROVE  PaidOne(x)'
  BY DEF PaidInv
<1>1. PaidOne(x) /\ TasksWellFormed
  BY SuspectGrows DEF PaidInv, FlagInv
<1>2. ASSUME NEW t \in Tasks, NEW y \in Payments,
             QueueTransaction(t, y) \/ Remove(t, y) \/ RetryTransaction(t, y)
      PROVE  PaidOne(x)'
  BY <1>1, <1>2, PaidCall DEF QueueTransaction, Remove, RetryTransaction, history
<1>3. ASSUME NEW t \in Tasks, ClearCompleted(t) \/ ClearQueue(t) \/ ProcessQueue(t)
      PROVE  PaidOne(x)'
  BY <1>1, <1>3, PaidCall DEF ClearCompleted, ClearQueue, ProcessQueue, StartDrain, history
<1>4. ASSUME NEW t \in Tasks, Step(t) PROVE PaidOne(x)'
  BY <1>1, <1>4, PaidStep
<1>5. ASSUME NEW connected, DrainIf(connected), UNCHANGED <<queue, executed, caught>>
      PROVE  PaidOne(x)'
  <2>1. ASSUME NEW t \in Tasks, StartDrain(t) PROVE PaidOne(x)'
    BY <1>1, <1>5, <2>1, PaidCall DEF StartDrain
  <2>2. CASE task' = task
    BY <1>1, <1>5, <2>2, PaidStands
  <2> QED BY <1>5, <2>1, <2>2 DEF DrainIf
<1>6. ASSUME NEW connected \in BOOLEAN, Initialize(connected) \/ HandleNetworkChange(connected)
      PROVE  PaidOne(x)'
  BY <1>5, <1>6 DEF Initialize, HandleNetworkChange, history
<1>7. CASE Kill
  <2>1. UNCHANGED <<queue, executed, caught>> /\ \A u \in Tasks : task'[u] = Idle
    BY <1>7 DEF Kill, history
  <2>2. /\ ~Tries(Idle, x) /\ Idle.at # "mark_write" /\ Idle.at # "reset_write"
    BY DEF Tries, Idle, Trying, Recording
  <2> QED BY <1>1, <2>1, <2>2 DEF PaidOne
<1>8. CASE Cleanup \/ UNCHANGED vars
  BY <1>1, <1>8, PaidStands DEF Cleanup, vars, history
<1> QED BY <1>2, <1>3, <1>4, <1>6, <1>7, <1>8 DEF Next

\* At the start nothing is paid.
LEMMA InitPaid == Init => PaidInv
<1> SUFFICES ASSUME Init, NEW x \in Payments PROVE PaidOne(x)
  BY DEF PaidInv
<1>1. executed[x] = 0 /\ caught[x] = 0 /\ Stored(queue, x) = {} /\ \A u \in Tasks : task[u] = Idle
  BY DEF Init, Stored
<1>2. ~Tries(Idle, x) /\ Idle.at # "mark_write" /\ Idle.at # "reset_write"
  BY DEF Tries, Idle, Trying, Recording
<1> QED BY <1>1, <1>2 DEF PaidOne

-----------------------------------------------------------------------------
\* An id is in the list exactly if something is stored under it.
LEMMA IdsStored == \A q, x : x \in Ids(q) <=> Stored(q, x) # {}
BY DEF Ids, Stored

\* What is neither stored nor removed, nor cleared, leaves the queue as it is.
LEMMA QueueWrites ==
    ASSUME [Next]_vars
    PROVE  \/ UNCHANGED <<queue, kept>>
           \/ kept' = {}
           \/ \E t \in Tasks : Store(t)
<1>1. ASSUME NEW t \in Tasks, Step(t)
      PROVE  UNCHANGED <<queue, kept>> \/ kept' = {} \/ Store(t)
  BY <1>1 DEF Step, ReadToEdit, ReadPending, ProcessNext, FinishDrain, Find, Refind, ReadToUpdate,
              Clear, Send, Return, Throw, StoreFails, history
<1> QED BY <1>1 DEF Next, QueueTransaction, Remove, RetryTransaction, ClearCompleted, ClearQueue,
                    ProcessQueue, Initialize, HandleNetworkChange, Cleanup, Kill, vars, history

\* Every step keeps what was stored.
LEMMA KeptKeeps == CopyInv /\ NothingForgotten /\ [Next]_vars => NothingForgotten'
<1> SUFFICES ASSUME CopyInv, NothingForgotten, [Next]_vars, NEW x \in kept', x \notin suspect'
             PROVE  x \in Ids(queue')
  BY DEF NothingForgotten
<1>1. x \in kept => Stored(queue, x) # {}
  BY SuspectGrows, IdsStored DEF NothingForgotten
<1>2. CASE UNCHANGED <<queue, kept>>
  BY <1>1, <1>2, IdsStored
<1>3. ASSUME NEW t \in Tasks, Store(t) PROVE x \in Ids(queue')
  <2>1. x \in Payments
    <3>1. kept \subseteq Payments
      BY DEF CopyInv, Shared, Born
    <3>2. task[t].at = "add_write" => task[t].id \in Payments
      BY DEF CopyInv, JobOK, Adds
    <3> QED BY <1>3, <3>1, <3>2 DEF Store
  <2>2. Stored(queue', x) # {}
    BY <1>1, <1>3, <2>1, StoreMeans
  <2> QED BY <2>2, IdsStored
<1> QED BY <1>2, <1>3, QueueWrites

\* At the start nothing is to be kept.
LEMMA InitKept == Init => NothingForgotten
BY DEF Init, NothingForgotten

\* The switches at the start.
LEMMA InitBool == Init => BoolInv
BY DEF Init, BoolInv

\* What is stored has earned its retries.
LEMMA GoodEarned == CopyInv => RetriesEarned
<1> SUFFICES ASSUME CopyInv, NEW i \in DOMAIN queue
             PROVE  /\ queue[i].retryCount <= caught[queue[i].id]
                    /\ queue[i].status = "failed" => queue[i].retryCount >= MaxRetries
  BY DEF RetriesEarned
<1>1. queue[i] \in Good
  BY DEF CopyInv, Shared
<1> QED BY <1>1 DEF Good

-----------------------------------------------------------------------------
\* Whatever the interleaving, the storage errors and the kills, the stored queue is
\* a list of transactions in which none is there twice, although every call stores
\* a copy it read earlier (offlineService.ts:148-226).
THEOREM QueueTyped == Spec => []TypeOK
<1>1. CopyInv /\ FlagInv /\ BoolInv => TypeOK
  <2> SUFFICES ASSUME CopyInv, FlagInv, BoolInv PROVE TypeOK
    OBVIOUS
  <2>1. \A i \in DOMAIN queue : queue[i] \in Entry
    BY GoodFacts DEF CopyInv, Shared
  <2>2. \A t \in Tasks : task[t] = Idle \/ task[t].at \in Stages
    BY DEF CopyInv, JobOK, Job
  <2>3. kept \subseteq created
    BY DEF CopyInv, Shared, Born
  <2> QED BY <2>1, <2>2, <2>3 DEF TypeOK, CopyInv, Shared, Distinct, FlagInv, BoolInv
<1> QED BY <1>1, InitCopy, CopyKeeps, InitFlag, NextKeeps, InitBool, BoolKeeps, PTL DEF Spec

\* A retry that a stored transaction has used up is an attempt that ended in the
\* catch of processTransaction, and a transaction is given up only when all of its
\* retries are used up: storing outdated copies may lose counts, never invent them
\* (offlineService.ts:310-328).
THEOREM RetriesAreFailures == Spec => []RetriesEarned
BY GoodEarned, InitCopy, CopyKeeps, PTL DEF Spec

\* A payment is carried out at most once more than attempts at it failed, for every
\* payment of which no outdated copy was used and that was retried at rest only: a
\* drain, a retry, a removal, a disconnection and a kill between any two awaits
\* never send it twice (offlineService.ts:238-357).
THEOREM PaidOnce == Spec => []PaidOncePerAttempt
<1>1. PaidInv => PaidOncePerAttempt
  BY DEF PaidInv, PaidOne, PaidOncePerAttempt
<1> QED BY <1>1, InitCopy, CopyKeeps, InitFlag, NextKeeps, InitPaid, PaidKeeps, PTL DEF Spec

\* A stored transaction stays until it is removed, unless an outdated copy of the
\* queue was stored over it (offlineService.ts:148-226).
THEOREM StoredStays == Spec => []NothingForgotten
BY InitCopy, CopyKeeps, InitKept, KeptKeeps, PTL DEF Spec
=============================================================================
