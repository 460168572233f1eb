---------------------------- MODULE OfflineQueue ----------------------------
(***************************************************************************)
(* The mobile app's queue of payments made while offline:                  *)
(* mobile-app/src/services/offlineService.ts.                              *)
(*                                                                         *)
(* The queue is one JSON value in AsyncStorage.  Every operation reads it, *)
(* changes its copy and stores the copy, with an await in between, so that *)
(* calls interleave although JavaScript runs one at a time.  A task is one *)
(* call of an exported function, running until its promise settles; its    *)
(* steps are the pieces between two awaits.  Killing the app loses the     *)
(* tasks and the service's fields and keeps the storage.                   *)
(***************************************************************************)
EXTENDS Naturals, Sequences

CONSTANTS
    Payments,      \* ids generateQueueId may draw
    Kind,          \* the type each of them is queued with
    Tasks,         \* calls that may be unsettled at once
    MaxCalls,      \* bound: calls in the life of the model
    MaxRetries,    \* maxRetries of a queued transaction
    StorageFails,  \* may AsyncStorage reject an operation?
    None           \* no transaction, no update

Kinds == {"send_money", "airtime", "data_bundle", "bill_payment", "remittance"}

\* mobileMoneyService and billPaymentService turn every error into a result with
\* success: false, which the queue does not look at; paymentService throws.
Swallows(x) == Kind[x] \in {"airtime", "data_bundle", "bill_payment"}

ASSUME OfflineAssumption ==
    /\ Kind \in [Payments -> Kinds]
    /\ MaxCalls \in Nat /\ MaxRetries \in Nat \ {0}
    /\ StorageFails \in BOOLEAN
    /\ None # [status |-> "completed"]

VARIABLES
    queue,       \* the stored queue
    online,      \* _isOnline
    processing,  \* _processingQueue
    listening,   \* initialize has subscribed to network changes
    task,        \* the calls under way
    calls,       \* calls made so far
    created,     \* ids drawn so far
    executed,    \* how often the server carried the payment out
    caught,      \* how often an attempt ended in processTransaction's catch
    kept,        \* history: ids stored and not removed on request
    suspect      \* history: ids touched through an outdated copy or a careless retry

service == <<online, processing, listening>>
history == <<created, executed, caught, kept, suspect>>
vars == <<queue, service, task, calls, history>>

Statuses == {"pending", "processing", "failed", "completed"}
Entries(ids, statuses) == [id: ids, status: statuses, retryCount: Nat]
Entry == Entries(Payments, Statuses)
Fresh(x) == [id |-> x, status |-> "pending", retryCount |-> 0]

Stages == {"add_read", "add_write", "remove_read", "remove_write", "clear",
           "drain_read", "next", "find", "refind",
           "reset_read", "reset_write", "mark_read", "mark_write", "send",
           "executed", "unexecuted", "record_read", "record_write"}

\* A task: where it stands, the function it runs, the id it was called with, the
\* queue as it last read it, the transaction it works on as it copied it, the
\* rest of processQueue's snapshot, and the fields updateTransaction overwrites.
Idle == [at |-> "idle", call |-> "none", id |-> None, got |-> <<>>,
         entry |-> None, todo |-> <<>>, update |-> None]

Ids(q) == {q[i].id : i \in DOMAIN q}
Stored(q, x) == {q[i] : i \in {j \in DOMAIN q : q[j].id = x}}

\* s.filter: what is in S, in the same order.
Keep(s, S) ==
    LET upTo[i \in 0..Len(s)] ==
            IF i = 0 THEN <<>>
            ELSE IF s[i] \in S THEN Append(upTo[i - 1], s[i]) ELSE upTo[i - 1]
    IN upTo[Len(s)]

\* Mutant: transactions left in processing are taken up too.
PendingOrProcessing(q) == Keep(q, Entries(Payments, {"pending", "processing"}))

Pending(q) == Keep(q, Entries(Payments, {"pending"}))

\* { ...queue[index], ...updates }
Merge(e, u) == [f \in DOMAIN e |-> IF f \in DOMAIN u THEN u[f] ELSE e[f]]

\* Mutant: the updated copy is pushed and the old one stays.
PushUpdated(q, x, u) == IF \E e \in Stored(q, x) : Merge(e, u) # e
                        THEN Append(q, CHOOSE f \in {Merge(e, u) : e \in Stored(q, x)} : TRUE)
                        ELSE q

Updated(q, x, u) == [i \in DOMAIN q |-> IF q[i].id = x THEN Merge(q[i], u) ELSE q[i]]

Init ==
    /\ queue = <<>>
    /\ online = TRUE /\ processing = FALSE /\ listening = FALSE
    /\ task = [t \in Tasks |-> Idle]
    /\ calls = 0
    /\ created = {} /\ kept = {} /\ suspect = {}
    /\ executed = [x \in Payments |-> 0]
    /\ caught = [x \in Payments |-> 0]

End(t) == task' = [task EXCEPT ![t] = Idle]

-----------------------------------------------------------------------------
\* Calls.
Call(t, function, x, stage) ==
    /\ task[t] = Idle
    /\ calls < MaxCalls
    /\ calls' = calls + 1
    /\ task' = [task EXCEPT ![t].at = stage, ![t].call = function, ![t].id = x]

QueueTransaction(t, x) ==
    /\ x \notin created
    /\ created' = created \cup {x}
    /\ Call(t, "queueTransaction", x, "add_read")
    /\ UNCHANGED <<queue, service, executed, caught, kept, suspect>>

\* The functions that read the queue and take transactions out of it, or all.
Remove(t, x) ==
    /\ x \in created
    /\ Call(t, "removeTransaction", x, "remove_read")
    /\ UNCHANGED <<queue, service, history>>

ClearCompleted(t) ==
    /\ Call(t, "clearCompletedTransactions", None, "remove_read")
    /\ UNCHANGED <<queue, service, history>>

ClearQueue(t) ==
    /\ Call(t, "clearQueue", None, "clear")
    /\ UNCHANGED <<queue, service, history>>

RetryTransaction(t, x) ==
    /\ x \in created
    /\ Call(t, "retryTransaction", x, "find")
    /\ UNCHANGED <<queue, service, history>>

\* processQueue returns at once while the queue is processed or the device offline.
StartDrain(t) ==
    /\ Call(t, "processQueue", None, "drain_read")
    /\ processing' = TRUE

ProcessQueue(t) ==
    /\ ~processing /\ online
    /\ StartDrain(t)
    /\ UNCHANGED <<queue, online, listening, history>>

DrainIf(connected) ==
    IF connected /\ ~processing
    THEN \E t \in Tasks : StartDrain(t)
    ELSE UNCHANGED <<processing, task, calls>>

Initialize(connected) ==
    /\ ~listening
    /\ listening' = TRUE
    /\ online' = connected
    /\ DrainIf(connected)
    /\ UNCHANGED <<queue, history>>

HandleNetworkChange(connected) ==
    /\ listening
    /\ online' = connected
    /\ DrainIf(~online /\ connected)
    /\ UNCHANGED <<queue, listening, history>>

Cleanup ==
    /\ listening
    /\ listening' = FALSE
    /\ UNCHANGED <<queue, online, processing, task, calls, history>>

-----------------------------------------------------------------------------
\* getQueue: what a read may return; an error is logged and becomes [].
Loads == {queue} \cup (IF StorageFails THEN {<<>>} ELSE {})

ReadToEdit(t) ==
    /\ task[t].at \in {"add_read", "remove_read"}
    /\ \E q \in Loads :
          task' = [task EXCEPT ![t].got = q,
                               ![t].at = IF @ = "add_read" THEN "add_write" ELSE "remove_write"]
    /\ UNCHANGED <<queue, service, calls, history>>

\* The snapshot processQueue works through.
ReadPending(t) ==
    /\ task[t].at = "drain_read"
    /\ \E q \in Loads : task' = [task EXCEPT ![t].at = "next", ![t].todo = Pending(q)]
    /\ UNCHANGED <<queue, service, calls, history>>

\* What processTransaction starts with.
Process(t, e) ==
    [task[t] EXCEPT !.at = "mark_read", !.entry = e, !.update = [status |-> "processing"]]

\* The loop of processQueue; processTransaction does nothing while offline.
ProcessNext(t) ==
    /\ task[t].at = "next"
    /\ task[t].todo # <<>>
    /\ task' = [task EXCEPT ![t] =
                 [(IF online THEN Process(t, Head(task[t].todo)) ELSE task[t])
                    EXCEPT !.todo = Tail(@)]]
    /\ UNCHANGED <<queue, service, calls, history>>

\* Mutant: only the end of the loop resets the flag.
NotAfterError(t) == processing' = (processing /\ task[t].at # "next")

\* The finally clause of processQueue.
ReleaseFlag(t) == processing' = (processing /\ task[t].call # "processQueue")

FinishDrain(t) ==
    /\ task[t].at = "next"
    /\ task[t].todo = <<>>
    /\ ReleaseFlag(t)
    /\ End(t)
    /\ UNCHANGED <<queue, online, listening, calls, history>>

\* retryTransaction looks the transaction up and resets it whatever its status is,
Find(t) ==
    /\ task[t].at = "find"
    /\ \E q \in Loads :
          IF task[t].id \in Ids(q)
          THEN task' = [task EXCEPT ![t].at = "reset_read", ![t].entry = Fresh(task[t].id),
                                    ![t].update = [status |-> "pending", retryCount |-> 0]]
          ELSE End(t)
    /\ UNCHANGED <<queue, service, calls, history>>

\* then looks it up again and processes what it found.
Refind(t) ==
    /\ task[t].at = "refind"
    /\ \E q \in Loads :
          IF task[t].id \in Ids(q) /\ online
          THEN \E e \in Stored(q, task[t].id) : task' = [task EXCEPT ![t] = Process(t, e)]
          ELSE End(t)
    /\ UNCHANGED <<queue, service, calls, history>>

Resume(t, stage) == task' = [task EXCEPT ![t].at = stage, ![t].got = <<>>, ![t].update = None]

\* Where a task goes on when updateTransaction returns.
AfterUpdate(t) ==
    \/ task[t].at \in {"reset_read", "reset_write"} /\ Resume(t, "refind")
    \/ task[t].at \in {"mark_read", "mark_write"} /\ Resume(t, "send")
    \/ /\ task[t].at \in {"record_read", "record_write"}
       /\ IF task[t].call = "processQueue" THEN Resume(t, "next") ELSE End(t)

\* updateTransaction up to the lookup.  History: the read failed, processing starts
\* from a copy that is not what is stored, or a retry resets a transaction that has
\* not failed or goes on with one that a drain has taken up since.
ReadToUpdate(t) ==
    LET x == task[t].entry.id
        at == task[t].at IN
    /\ at \in {"reset_read", "mark_read", "record_read"}
    /\ \E q \in Loads :
          /\ IF x \in Ids(q)
             THEN task' = [task EXCEPT ![t].got = q,
                             ![t].at = CASE at = "reset_read" -> "reset_write"
                                         [] at = "mark_read" -> "mark_write"
                                         [] at = "record_read" -> "record_write"]
             ELSE AfterUpdate(t)
          /\ suspect' = suspect \cup
               IF \/ q # queue
                  \/ at = "mark_read" /\ Stored(queue, x) # {task[t].entry}
                  \/ at = "mark_read" /\ task[t].call = "retryTransaction"
                                      /\ task[t].entry.status # "pending"
                  \/ at = "reset_read" /\ \E e \in Stored(queue, x) : e.status # "failed"
               THEN {x} ELSE {}
    /\ UNCHANGED <<queue, service, calls, created, executed, caught, kept>>

\* What a task takes out of its copy.
Removed(t) ==
    IF task[t].at # "remove_write" THEN {}
    ELSE IF task[t].call = "removeTransaction" THEN {task[t].id}
    ELSE {task[t].got[i].id : i \in {j \in DOMAIN task[t].got :
                                       task[t].got[j].status \in {"failed", "completed"}}}

\* Mutant: clearing what is done takes what is being processed along.
StorePendingOnly(t) ==
    CASE task[t].at = "add_write" -> Append(task[t].got, Fresh(task[t].id))
      [] task[t].at = "remove_write" ->
            Keep(task[t].got, Entries(Payments \ Removed(t), Statuses \ {"processing"}))
      [] OTHER -> Updated(task[t].got, task[t].entry.id, task[t].update)

\* What a write stores.
ToStore(t) ==
    CASE task[t].at = "add_write" -> Append(task[t].got, Fresh(task[t].id))
      [] task[t].at = "remove_write" -> Keep(task[t].got, Entries(Payments \ Removed(t), Statuses))
      [] OTHER -> Updated(task[t].got, task[t].entry.id, task[t].update)

\* setItem stores the task's copy, whatever was stored since it was read.
Store(t) ==
    LET edit == task[t].at \in {"add_write", "remove_write"} IN
    /\ edit \/ task[t].at \in {"reset_write", "mark_write", "record_write"}
    /\ queue' = ToStore(t)
    /\ kept' = (kept \cup {x \in {task[t].id} : task[t].at = "add_write"}) \ Removed(t)
    /\ suspect' = suspect \cup {x \in Payments : Stored(task[t].got, x) # Stored(queue, x)}
    /\ IF edit THEN End(t) ELSE AfterUpdate(t)
    /\ UNCHANGED <<service, calls, created, executed, caught>>

Clear(t) ==
    /\ task[t].at = "clear"
    /\ queue' = <<>>
    /\ kept' = {}
    /\ End(t)
    /\ UNCHANGED <<service, calls, created, executed, caught, suspect>>

\* The request leaves; the server carries it out or not.
Send(t) ==
    /\ task[t].at = "send"
    /\ \/ /\ executed' = [executed EXCEPT ![task[t].entry.id] = @ + 1]
          /\ task' = [task EXCEPT ![t].at = "executed"]
       \/ /\ task' = [task EXCEPT ![t].at = "unexecuted"]
          /\ UNCHANGED executed
    /\ UNCHANGED <<queue, service, calls, created, caught, kept, suspect>>

\* Mutant: the last retry is taken away.
GiveUpEarly(n) == n + 1 >= MaxRetries

GiveUp(n) == n >= MaxRetries

\* The catch clause of processTransaction, with the count of its copy.
Catch(t) ==
    LET n == task[t].entry.retryCount + 1 IN
    /\ caught' = [caught EXCEPT ![task[t].entry.id] = @ + 1]
    /\ task' = [task EXCEPT ![t].at = "record_read",
                            ![t].update = [status |-> IF GiveUp(n) THEN "failed" ELSE "pending",
                                           retryCount |-> n]]

\* The call returns,
Return(t) ==
    /\ \/ task[t].at = "executed"
       \/ task[t].at = "unexecuted" /\ Swallows(task[t].entry.id)
    /\ task' = [task EXCEPT ![t].at = "record_read", ![t].update = [status |-> "completed"]]
    /\ UNCHANGED <<queue, service, calls, history>>

\* or throws: refused, timed out, or answered when nobody listened any more.
Throw(t) ==
    /\ task[t].at \in {"executed", "unexecuted"} /\ ~Swallows(task[t].entry.id)
    /\ Catch(t)
    /\ UNCHANGED <<queue, service, calls, created, executed, kept, suspect>>

\* setItem or removeItem rejects.  Marking as completed is inside the try;
\* everywhere else the exception ends the call, and processQueue's finally runs.
StoreFails(t) ==
    /\ StorageFails
    /\ task[t].at \in {"add_write", "remove_write", "clear",
                       "reset_write", "mark_write", "record_write"}
    /\ IF task[t].update = [status |-> "completed"]
       THEN Catch(t) /\ UNCHANGED processing
       ELSE ReleaseFlag(t) /\ End(t) /\ UNCHANGED caught
    /\ UNCHANGED <<queue, online, listening, calls, created, executed, kept, suspect>>

\* The system or the user kills the app.
Kill ==
    /\ task' = [t \in Tasks |-> Idle]
    /\ online' = TRUE /\ processing' = FALSE /\ listening' = FALSE
    /\ UNCHANGED <<queue, calls, history>>

Step(t) ==
    \/ ReadToEdit(t) \/ ReadPending(t) \/ ProcessNext(t) \/ FinishDrain(t)
    \/ Find(t) \/ Refind(t) \/ ReadToUpdate(t) \/ Store(t) \/ Clear(t)
    \/ Send(t) \/ Return(t) \/ Throw(t) \/ StoreFails(t)

Next ==
    \/ \E t \in Tasks, x \in Payments :
          QueueTransaction(t, x) \/ Remove(t, x) \/ RetryTransaction(t, x)
    \/ \E t \in Tasks : ClearCompleted(t) \/ ClearQueue(t) \/ ProcessQueue(t) \/ Step(t)
    \/ \E connected \in BOOLEAN : Initialize(connected) \/ HandleNetworkChange(connected)
    \/ Cleanup
    \/ Kill

Spec == Init /\ [][Next]_vars

-----------------------------------------------------------------------------
\* Types, and no transaction is stored twice.
TypeOK ==
    /\ \A i \in DOMAIN queue : queue[i] \in Entry
    /\ \A i, j \in DOMAIN queue : queue[i].id = queue[j].id => i = j
    /\ \A t \in Tasks : task[t] = Idle \/ task[t].at \in Stages
    /\ online \in BOOLEAN /\ processing \in BOOLEAN /\ listening \in BOOLEAN
    /\ created \subseteq Payments /\ kept \subseteq created /\ suspect \subseteq Payments

\* The flag is up exactly while a call of processQueue is at work, through
\* storage errors, disconnections and kills: the queue is neither processed twice
\* at once nor blocked for ever by a flag left behind.
FlagMeansDrain ==
    /\ processing <=> \E t \in Tasks : task[t].call = "processQueue"
    /\ \A t, u \in Tasks : task[t].call = "processQueue" /\ task[u].call = "processQueue" => t = u

\* Every retry a stored transaction has used up is an attempt that failed, and it
\* is given up only when all have been used, though the counts come from copies.
RetriesEarned ==
    \A i \in DOMAIN queue :
        /\ queue[i].retryCount <= caught[queue[i].id]
        /\ queue[i].status = "failed" => queue[i].retryCount >= MaxRetries

\* A payment is carried out once for every failed attempt and once more, unless
\* an outdated copy of it was used or it was retried while it was not at rest.
PaidOncePerAttempt ==
    \A x \in Payments \ suspect : executed[x] <= caught[x] + 1

\* A transaction that was stored stays until somebody removes it, unless an
\* outdated copy of the queue was stored over it.
NothingForgotten == kept \ suspect \subseteq Ids(queue)

\* PRODUCTION_READINESS.md:41 ("Offline transaction queue", ready) and the status
\* 'completed': a transaction shown as completed has been carried out.
CompletedMeansPaid ==
    \A i \in DOMAIN queue : queue[i].status = "completed" => executed[queue[i].id] > 0
=============================================================================
