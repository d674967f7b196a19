---------------------------- MODULE WritePipeline ----------------------------
(***************************************************************************)
(* How the Firestore client gets its writes to the backend: SyncEngine,     *)
(* LocalStore with the mutation queues, and the write half of RemoteStore   *)
(* with its stream (ios/Pods/FirebaseFirestore/Firestore/core/src).        *)
(*                                                                         *)
(* All of it runs on one worker queue: an action is one task of that queue, *)
(* or a step of the backend or the network.  The i-th document written is   *)
(* named i.  A batch is a document and its batch id, which LocalStore gives *)
(* out again from the largest one on disk after each start of a queue.     *)
(*                                                                         *)
(* What the backend does with the requests of a stream after that stream    *)
(* broke, it may as well have done before: the client cannot tell.         *)
(***************************************************************************)
EXTENDS Integers, Sequences, SequencesExt, FiniteSetsExt, FirestoreStream

CONSTANTS
    Users,              \* account ids
    MaxOrders,          \* bound: documents written
    MaxPendingWrites,   \* kMaxPendingWrites, the size of the pipeline
    MaxWaiters,         \* bound: calls of waitForPendingWrites()
    MaxFaults,          \* bound: broken streams, network and user changes
    MaxOvertakes        \* bound: failed sends that overtake an answer

ASSUME WritePipelineAssumption ==
    /\ MaxOrders \in Nat
    /\ MaxPendingWrites \in Nat \ {0}
    /\ {MaxWaiters, MaxFaults, MaxOvertakes} \subseteq Nat

VARIABLES
    placed,             \* Seq of the owners of the documents, in order
    mutationQueue,      \* mutationQueue[u]: the batches of u on disk
    nextBatchId,        \* next_batch_id_ of the current queue
    mutationCallbacks,  \* mutation_callbacks_: [user, id, doc]
    futures,            \* what the callers of add() see
    waiters,            \* the calls of waitForPendingWrites()
    user,               \* current_user_
    rs,                 \* RemoteStore and its write stream
    server,             \* the documents the backend holds
    rejected,           \* the documents the client gave up
    bad,                \* the documents the backend's rules refuse
    faults,             \* how many faults there were
    overtaken           \* how many failed sends overtook an answer

diskVars == <<placed, mutationQueue>>
syncVars == <<nextBatchId, mutationCallbacks, futures, waiters>>
netVars == <<bad, faults, overtaken>>
vars == <<placed, mutationQueue, nextBatchId, mutationCallbacks, futures,
          waiters, user, rs, server, rejected, bad, faults, overtaken>>

Batch == [id : 1..MaxOrders, doc : 1..MaxOrders]

(* A message of the backend on the write stream.                           *)
Response == [kind : {"handshake", "result", "refusal"}, doc : 0..MaxOrders]

(* A request is the number of the document written; the handshake is 0.    *)
Handshake == 0

Docs(batches) == [i \in 1..Len(batches) |-> batches[i].doc]

RemoteStore ==
    [enabled : BOOLEAN,             \* is_network_enabled_
     pipeline : Seq(Batch),         \* write_pipeline_
     stream : Stream,               \* write_stream_
     handshake : BOOLEAN,           \* handshake_complete_
     requests : Seq(0..MaxOrders),  \* sent and not yet processed
     responses : Seq(Response),     \* not yet read
     ok : BOOLEAN]                  \* no HARD_ASSERT failed

NewRemoteStore ==
    [enabled |-> TRUE, pipeline |-> <<>>, stream |-> NewStream,
     handshake |-> FALSE, requests |-> <<>>, responses |-> <<>>, ok |-> TRUE]

-----------------------------------------------------------------------------
(* The rows of a mutation queue, in the order of their keys, the batch ids.  *)

(* What NextMutationBatchAfterBatchId() finds, called again and again.       *)
BatchesAfter(q, id) ==
    LET after == {i \in 1..Len(q) : q[i].id > id} IN
    IF after = {} THEN <<>> ELSE SubSeq(q, Min(after), Len(q))

RemoveMutationBatch(q, b) ==
    LET at == {i \in 1..Len(q) : q[i].id = b.id} IN
    IF at = {} THEN q ELSE RemoveAt(q, Min(at))

(* AddMutationBatch(): a row of the same id would be overwritten.          *)
AddMutationBatch(q, b) == Append(RemoveMutationBatch(q, b), b)

-----------------------------------------------------------------------------
(* RemoteStore: each operator gives the record after the call.             *)

ShouldStartWriteStream(r) ==
    r.enabled /\ ~IsStarted(r.stream) /\ r.pipeline # <<>>

StartWriteStream(r) ==
    [r EXCEPT !.stream = IF ShouldStartWriteStream(r) THEN Start(@) ELSE @]

(* Mutant: the batches are sent before the handshake is complete.          *)
FillEagerly(r, q) ==
    LET last == IF r.pipeline = <<>> THEN 0 ELSE Last(r.pipeline).id
        next == BatchesAfter(q, last)
        room == IF r.enabled THEN MaxPendingWrites - Len(r.pipeline) ELSE 0
        added == SubSeq(next, 1, Min({room, Len(next)}))
    IN  StartWriteStream(
            [r EXCEPT !.pipeline = @ \o added,
                      !.requests = IF IsOpen(r.stream) THEN @ \o Docs(added)
                                                       ELSE @])

(* FillWritePipeline(): takes batches from queue q in order while there is  *)
(* room, sends them if the handshake is complete, marks the stream idle if  *)
(* there is nothing to send and starts it if it is needed.                 *)
FillWritePipeline(r, q) ==
    LET last == IF r.pipeline = <<>> THEN 0 ELSE Last(r.pipeline).id
        next == BatchesAfter(q, last)
        room == IF r.enabled THEN MaxPendingWrites - Len(r.pipeline) ELSE 0
        added == SubSeq(next, 1, Min({room, Len(next)}))
        sends == added # <<>> /\ IsOpen(r.stream) /\ r.handshake
    IN  StartWriteStream(
            [r EXCEPT
                !.pipeline = @ \o added,
                !.requests = IF sends THEN @ \o Docs(added) ELSE @,
                !.stream = IF sends THEN Write(@)
                           ELSE IF room > 0 /\ r.pipeline \o added = <<>>
                                THEN MarkIdle(@) ELSE @])

(* The stream is closed and takes its connection with it.                  *)
Disconnected(r, s) ==
    [r EXCEPT !.stream = s, !.handshake = FALSE, !.requests = <<>>,
              !.responses = <<>>]

(* Stop() and OnWriteStreamClose() with an OK status.                      *)
StopWriteStream(r) ==
    LET stopped == Disconnected(r, Stop(r.stream)) IN
    [stopped EXCEPT !.ok = @ /\ (IsStarted(r.stream) =>
                                    ~ShouldStartWriteStream(stopped))]

(* OnWriteStreamClose() with a transient error, or before the handshake:    *)
(* the writes stay in the pipeline and the stream is started again.        *)
WriteStreamFailed(r) ==
    StartWriteStream(Disconnected(r, Close(r.stream, FALSE)))

(* DisableNetworkInternal(), as far as it concerns the writes.             *)
NetworkDisabled(r) ==
    [StopWriteStream([r EXCEPT !.enabled = FALSE]) EXCEPT !.pipeline = <<>>]

(* EnableNetwork().                                                        *)
NetworkEnabled(r, q) == FillWritePipeline([r EXCEPT !.enabled = TRUE], q)

(* RestartNetwork(): q is the queue of the user from now on.               *)
RestartNetwork(r, q) ==
    LET off == NetworkDisabled(r) IN
    NetworkEnabled([off EXCEPT !.stream = InhibitBackoff(@),
                               !.ok = @ /\ ~IsStarted(off.stream)], q)

-----------------------------------------------------------------------------
(* LocalStore and SyncEngine.                                              *)

(* Mutant: the ids start again from one.                                   *)
CountFromOne(queues) == 1

(* LoadNextBatchIdFromDb(): one more than the largest id of all the users.  *)
LoadNextBatchId(queues) ==
    1 + Max({0} \cup {b.id : b \in UNION {ToSet(queues[u]) : u \in Users}})

(* NotifyUser(): completes the future whose callback is registered for the  *)
(* current user under this batch id, if there is one.                      *)
NotifyUser(id, status) ==
    LET found == {c \in mutationCallbacks : c.user = user /\ c.id = id} IN
    /\ mutationCallbacks' = mutationCallbacks \ found
    /\ futures' = {IF \E c \in found : c.doc = f.order
                   THEN [f EXCEPT !.status = status] ELSE f : f \in futures}

(* TriggerPendingWriteCallbacks().                                         *)
TriggerPendingWriteCallbacks(id) ==
    waiters' = {IF w.id = id /\ w.status = "waiting"
                THEN [w EXCEPT !.status = "ok"] ELSE w : w \in waiters}

(* FailOutstandingPendingWriteCallbacks().                                 *)
FailOutstandingPendingWriteCallbacks ==
    waiters' = {IF w.status = "waiting"
                THEN [w EXCEPT !.status = "cancelled"] ELSE w : w \in waiters}

(* A batch of the current user leaves the queue: its future completes, then *)
(* the waiters; RemoveMutationBatch() asserts that it was there.  `r' is     *)
(* the RemoteStore before the pipeline is filled again.                    *)
Settle(b, status, r) ==
    LET q == RemoveMutationBatch(mutationQueue[user], b) IN
    /\ mutationQueue' = [mutationQueue EXCEPT ![user] = q]
    /\ NotifyUser(b.id, status)
    /\ TriggerPendingWriteCallbacks(b.id)
    /\ rs' = FillWritePipeline(
                [r EXCEPT !.ok = @ /\ b \in ToSet(mutationQueue[user])], q)

-----------------------------------------------------------------------------
Init ==
    /\ placed = <<>>
    /\ mutationQueue = [u \in Users |-> <<>>]
    /\ nextBatchId = 1
    /\ mutationCallbacks = {}
    /\ futures = {}
    /\ waiters = {}
    /\ user \in Users
    /\ rs = NewRemoteStore
    /\ server = {}
    /\ rejected = {}
    /\ bad \in SUBSET (1..MaxOrders)
    /\ faults = 0
    /\ overtaken = 0

(* WriteMutations(): on disk first, then into the pipeline.                *)
WriteMutations ==
    LET doc == Len(placed) + 1
        b == [id |-> nextBatchId, doc |-> doc]
        q == AddMutationBatch(mutationQueue[user], b)
    IN  /\ doc <= MaxOrders
        /\ placed' = Append(placed, user)
        /\ mutationQueue' = [mutationQueue EXCEPT ![user] = q]
        /\ nextBatchId' = nextBatchId + 1
        /\ mutationCallbacks' = mutationCallbacks \cup
                {[user |-> user, id |-> nextBatchId, doc |-> doc]}
        /\ futures' = futures \cup
                {[order |-> doc, inst |-> 0, status |-> "waiting"]}
        /\ rs' = FillWritePipeline(rs, q)
        /\ UNCHANGED <<waiters, user, server, rejected, netVars>>

(* Mutant: the waiter looks at the pipeline instead of the queue.          *)
RegisterForPipeline ==
    LET pending == rs.pipeline IN
    /\ Cardinality(waiters) < MaxWaiters
    /\ waiters' = waiters \cup
        {[call |-> Cardinality(waiters) + 1,
          docs |-> ToSet(Docs(mutationQueue[user])), user |-> user,
          id |-> IF pending = <<>> THEN 0 ELSE Last(pending).id,
          status |-> IF pending = <<>> THEN "ok" ELSE "waiting"]}
    /\ UNCHANGED <<diskVars, nextBatchId, mutationCallbacks, futures, user, rs,
                   server, rejected, netVars>>

(* RegisterPendingWritesCallback(): waits for the largest id of the queue,   *)
(* or for nothing.  `docs' remembers what was pending.                     *)
RegisterPendingWritesCallback ==
    LET pending == mutationQueue[user] IN
    /\ Cardinality(waiters) < MaxWaiters
    /\ waiters' = waiters \cup
        {[call |-> Cardinality(waiters) + 1,
          docs |-> ToSet(Docs(pending)), user |-> user,
          id |-> IF pending = <<>> THEN 0 ELSE Last(pending).id,
          status |-> IF pending = <<>> THEN "ok" ELSE "waiting"]}
    /\ UNCHANGED <<diskVars, nextBatchId, mutationCallbacks, futures, user, rs,
                   server, rejected, netVars>>

(* A step that concerns only the RemoteStore.                              *)
RemoteStep(r) ==
    /\ rs' = r
    /\ UNCHANGED <<diskVars, syncVars, user, server, rejected, bad, overtaken>>

(* The credentials arrive and the stream opens: the handshake is written.   *)
CredentialsArrive ==
    /\ rs.stream.state = "Starting"
    /\ RemoteStep([rs EXCEPT !.stream = Write(ResumeStart(@)),
                             !.requests = <<Handshake>>,
                             !.ok = @ /\ ~rs.handshake])
    /\ UNCHANGED faults

(* There are none to be had: the stream ends with an error.                *)
CredentialsFail ==
    /\ rs.stream.state = "Starting"
    /\ faults < MaxFaults
    /\ faults' = faults + 1
    /\ RemoteStep(WriteStreamFailed(rs))

(* The answer to a request of before a Close(): it is dropped.             *)
StaleCredentialsArrive ==
    /\ rs.stream.stale
    /\ RemoteStep([rs EXCEPT !.stream.stale = FALSE])
    /\ UNCHANGED faults

BackoffTimer ==
    /\ rs.stream.state = "Backoff"
    /\ RemoteStep([rs EXCEPT !.stream = BackoffElapsed(@)])
    /\ UNCHANGED faults

(* Nothing was written for a minute: the stream is stopped.                *)
IdleTimer ==
    /\ rs.stream.idle
    /\ RemoteStep(StopWriteStream(rs))
    /\ UNCHANGED faults

-----------------------------------------------------------------------------
(* The stream has been ended by the backend, which reads no more of it.    *)
Ended == rs.responses # <<>> /\ Last(rs.responses).kind = "refusal"

(* The backend processes the next request of the stream: it answers the     *)
(* handshake, commits a write or ends the stream with a permanent status.  *)
ServerProcesses ==
    /\ rs.requests # <<>>
    /\ ~Ended
    /\ LET d == Head(rs.requests)
           kind == IF d = Handshake THEN "handshake"
                   ELSE IF d \in bad THEN "refusal" ELSE "result"
       IN  /\ rs' = [rs EXCEPT !.requests = Tail(@),
                               !.responses = Append(@, [kind |-> kind, doc |-> d])]
           /\ server' = IF kind = "result" THEN server \cup {d} ELSE server
    /\ UNCHANGED <<diskVars, syncVars, user, rejected, netVars>>

(* OnWriteStreamHandshakeComplete(): the whole pipeline is sent.           *)
ReadHandshake ==
    /\ rs.responses # <<>>
    /\ Head(rs.responses).kind = "handshake"
    /\ RemoteStep([rs EXCEPT
            !.responses = Tail(@), !.handshake = TRUE,
            !.requests = Docs(rs.pipeline),
            !.stream = IF rs.pipeline = <<>> THEN @ ELSE Write(@)])
    /\ UNCHANGED faults

(* Mutant: a result frees a slot and nobody fills it.                      *)
ResultLeavesSlot(rest) ==
    LET b == Head(rs.pipeline) IN
    /\ mutationQueue' = [mutationQueue EXCEPT ![user] = RemoveMutationBatch(@, b)]
    /\ NotifyUser(b.id, "ok")
    /\ TriggerPendingWriteCallbacks(b.id)
    /\ rs' = [rs EXCEPT !.pipeline = Tail(@), !.responses = rest]
    /\ UNCHANGED <<placed, nextBatchId, user, server, rejected, bad, faults>>

(* OnWriteStreamMutationResult(): the result is taken for the first batch   *)
(* of the pipeline.  `rest' is what is left to be read.                    *)
OnWriteStreamMutationResult(rest) ==
    /\ Settle(Head(rs.pipeline), "ok",
              [rs EXCEPT !.pipeline = Tail(@), !.responses = rest])
    /\ UNCHANGED <<placed, nextBatchId, user, server, rejected, bad, faults>>

ReadResult ==
    /\ rs.responses # <<>>
    /\ Head(rs.responses).kind = "result"
    /\ OnWriteStreamMutationResult(Tail(rs.responses))
    /\ UNCHANGED overtaken

(* A write fails because the backend has ended the stream.  Its completion   *)
(* comes after the answer that was being read and before those that were    *)
(* not: FastFinishCompletionsBlocking() drops them, and the status is next. *)
ReadResultThenSendFails ==
    /\ overtaken < MaxOvertakes
    /\ Ended
    /\ rs.requests # <<>>
    /\ Len(rs.responses) > 2
    /\ Head(rs.responses).kind = "result"
    /\ OnWriteStreamMutationResult(<<Last(rs.responses)>>)
    /\ overtaken' = overtaken + 1

(* HandleWriteError() with a permanent error: the first batch of the        *)
(* pipeline is taken to be the cause; no backoff.                          *)
ReadRefusal ==
    /\ rs.responses # <<>>
    /\ Head(rs.responses).kind = "refusal"
    /\ LET b == Head(rs.pipeline)
           s == InhibitBackoff(Close(rs.stream, FALSE))
       IN  /\ rejected' = rejected \cup {b.doc}
           /\ Settle(b, "error",
                     Disconnected([rs EXCEPT !.pipeline = Tail(@)], s))
    /\ UNCHANGED <<placed, nextBatchId, user, server, netVars>>

(* Mutant: every error is taken for the fault of the first write.          *)
LossRejects ==
    /\ IsOpen(rs.stream)
    /\ rs.handshake /\ rs.pipeline # <<>>
    /\ faults < MaxFaults
    /\ faults' = faults + 1
    /\ rejected' = rejected \cup {Head(rs.pipeline).doc}
    /\ Settle(Head(rs.pipeline), "error",
              Disconnected([rs EXCEPT !.pipeline = Tail(@)],
                           InhibitBackoff(Close(rs.stream, FALSE))))
    /\ UNCHANGED <<placed, nextBatchId, user, server, bad, overtaken>>

(* The connection breaks: what was not read is lost.                       *)
ConnectionLost ==
    /\ IsOpen(rs.stream)
    /\ faults < MaxFaults
    /\ faults' = faults + 1
    /\ RemoteStep(WriteStreamFailed(rs))

-----------------------------------------------------------------------------
DisableNetwork ==
    /\ rs.enabled
    /\ faults < MaxFaults
    /\ faults' = faults + 1
    /\ RemoteStep(NetworkDisabled(rs))

EnableNetwork ==
    /\ RemoteStep(NetworkEnabled(rs, mutationQueue[user]))
    /\ UNCHANGED faults

(* The connectivity monitor reports a network: the streams are restarted.   *)
ConnectivityChanged ==
    /\ rs.enabled
    /\ faults < MaxFaults
    /\ faults' = faults + 1
    /\ RemoteStep(RestartNetwork(rs, mutationQueue[user]))

(* HandleCredentialChange(): the other user's queue takes the place of the   *)
(* current one.                                                            *)
HandleCredentialChange(u) ==
    /\ faults < MaxFaults
    /\ faults' = faults + 1
    /\ user' = u
    /\ IF u = user
       THEN UNCHANGED <<waiters, nextBatchId>>
       ELSE /\ FailOutstandingPendingWriteCallbacks
            /\ nextBatchId' = LoadNextBatchId(mutationQueue)
    /\ rs' = IF rs.enabled THEN RestartNetwork(rs, mutationQueue[u]) ELSE rs
    /\ UNCHANGED <<diskVars, mutationCallbacks, futures, server, rejected, bad,
                   overtaken>>

(* The process dies and starts again with what is on disk.                 *)
Restart ==
    /\ faults < MaxFaults
    /\ faults' = faults + 1
    /\ nextBatchId' = LoadNextBatchId(mutationQueue)
    /\ mutationCallbacks' = {}
    /\ futures' = {}
    /\ waiters' = {}
    /\ rs' = NetworkEnabled(NewRemoteStore, mutationQueue[user])
    /\ UNCHANGED <<diskVars, user, server, rejected, bad, overtaken>>

(* The steps that the client, the network and the backend owe.             *)
Progress ==
    \/ CredentialsArrive
    \/ BackoffTimer
    \/ ServerProcesses
    \/ ReadHandshake
    \/ ReadResult
    \/ ReadRefusal

Next ==
    \/ WriteMutations
    \/ RegisterPendingWritesCallback
    \/ Progress
    \/ CredentialsFail
    \/ StaleCredentialsArrive
    \/ IdleTimer
    \/ ReadResultThenSendFails
    \/ ConnectionLost
    \/ DisableNetwork
    \/ EnableNetwork
    \/ ConnectivityChanged
    \/ \E u \in Users : HandleCredentialChange(u)
    \/ Restart

Spec == Init /\ [][Next]_vars

(* The credentials provider answers, timers fire, the backend answers what   *)
(* it is sent and what arrives is read.  Faults are finitely many (MaxFaults) *)
(* as in a stretch of time with a working network.                         *)
FairSpec == Spec /\ WF_vars(Progress)

-----------------------------------------------------------------------------
Waiter == [call : 1..MaxWaiters, docs : SUBSET (1..MaxOrders), user : Users,
           id : 0..MaxOrders, status : {"waiting", "ok", "cancelled"}]

TypeOK ==
    /\ placed \in Seq(Users) /\ Len(placed) <= MaxOrders
    /\ mutationQueue \in [Users -> Seq(Batch)]
    /\ nextBatchId \in 1..(MaxOrders + 1)
    /\ mutationCallbacks \subseteq
            [user : Users, id : 1..MaxOrders, doc : 1..MaxOrders]
    /\ futures \subseteq [order : 1..MaxOrders, inst : {0},
                          status : {"waiting", "ok", "error"}]
    /\ waiters \subseteq Waiter
    /\ user \in Users
    /\ rs \in RemoteStore
    /\ server \subseteq 1..MaxOrders
    /\ rejected \subseteq 1..MaxOrders
    /\ bad \subseteq 1..MaxOrders
    /\ faults \in 0..MaxFaults
    /\ overtaken \in 0..MaxOvertakes

(* No HARD_ASSERT fails: a stream is never stopped gracefully while it is    *)
(* needed, credentials of an earlier start never open a stream, no batch is  *)
(* settled twice.                                                          *)
NoAssertionFails == rs.ok

(* Once the handshake is complete, the answers to be read followed by the    *)
(* requests to be processed are the pipeline, batch for batch: only so can   *)
(* an answer without a name be taken for the first batch.                  *)
AnswersCorrelate ==
    rs.handshake /\ overtaken = 0 =>
        Docs(rs.pipeline) = Docs(rs.responses) \o rs.requests

(* The pipeline holds the first batches of the current user's queue, none    *)
(* left out, up to its limit.                                              *)
PipelineIsPrefix ==
    rs.enabled => rs.pipeline = SubSeq(mutationQueue[user], 1,
                        Min({MaxPendingWrites, Len(mutationQueue[user])}))

(* The pipeline is in step with the queue on disk and with the stream.      *)
PipelineInStep == TypeOK /\ NoAssertionFails /\ PipelineIsPrefix

(* Document d waits in the queue of user u.                                *)
Pending(u, d) == \E b \in ToSet(mutationQueue[u]) : b.doc = d

(* A write is on disk, on the server or was rejected, and what the caller of  *)
(* add() is told is what the backend did with this document, as far as no     *)
(* failed send overtook an answer.                                         *)
FuturesTruthful ==
    /\ \A d \in 1..Len(placed) : Pending(placed[d], d) \/ d \in server \cup rejected
    /\ \A f \in futures :
        /\ f.status = "ok" => f.order \in server
        /\ f.status = "error" /\ overtaken = 0 => f.order \in bad

(* waitForPendingWrites() completes only when every write that was pending   *)
(* at the call is settled.                                                 *)
WaitersReleasedLate ==
    \A w \in waiters : w.status = "ok" =>
        \A d \in w.docs : ~Pending(w.user, d)

(* No write stays in the queue for ever while its user stays signed in on a   *)
(* device whose network is enabled.                                        *)
WritesSettle ==
    \A d \in 1..MaxOrders : ~<>[](rs.enabled /\ Pending(user, d))

(* The write path implements the order store that the booking flow is built  *)
(* on.                                                                     *)
Store == INSTANCE OrderStore WITH
            queue <- [u \in Users |-> Docs(mutationQueue[u])],
            callbacks <- futures

(* What SyncEngine, LocalStore, RemoteStore and the backend do to documents, *)
(* queues and futures, through faults, restarts, changes of user and sends    *)
(* that overtake an answer, is what OrderStore allows: one queue per user,    *)
(* applied in order and settled from the head, with every future told.      *)
ImplementsOrderStore ==
    Store!StoreInit /\ [][Store!StoreNext(Users, {0})]_(Store!storeVars)
=============================================================================
