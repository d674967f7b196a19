----------------------------- MODULE OrderStore -----------------------------
(***************************************************************************)
(* The write path of the 'orders' collection: what becomes of a document   *)
(* after collection('orders').add(...).  It is the client's mutation queue *)
(* as the vendored Firestore core implements it                            *)
(* (ios/Pods/FirebaseFirestore/Firestore/core/src):                        *)
(*                                                                         *)
(*   - a write goes first into the persistent mutation queue of the user   *)
(*     signed in (LocalStore::WriteLocally); the queue survives a restart; *)
(*   - the write pipeline sends the queue in order and resends after a     *)
(*     lost connection; a document written twice is the same document;     *)
(*   - the server's answer settles the head of the queue and completes the *)
(*     Dart future through NotifyUser; the callback lives in memory only;  *)
(*   - a change of user swaps the queue: the other user's writes wait.     *)
(*                                                                         *)
(* placed[i] is the document of the i-th add(); a document is named by i.  *)
(***************************************************************************)
EXTENDS Naturals, Sequences

CONSTANTS
    Users,          \* account ids
    MaxOrders       \* bound: how many orders one behaviour may place

ASSUME OrderStoreAssumption == MaxOrders \in Nat

VARIABLES
    placed,         \* Seq of the documents given to add(), in order
    queue,          \* queue[u]: u's persistent mutation queue
    server,         \* the documents the backend holds
    rejected,       \* the documents that were given up as refused
    callbacks       \* the futures of add(): one per activation of handleBooking

storeVars == <<placed, queue, server, rejected, callbacks>>

StoreInit ==
    /\ placed = <<>>
    /\ queue = [u \in Users |-> <<>>]
    /\ server = {}
    /\ rejected = {}
    /\ callbacks = {}

-----------------------------------------------------------------------------
(* Mutant: the answer is not passed on.                                    *)
NotifyNobody(id, status) == UNCHANGED callbacks

(* The future of the document completes: status "ok" or "error".  There is  *)
(* none to complete for a write restored from disk after a restart.        *)
NotifyUser(id, status) ==
    callbacks' = {IF c.order = id
                  THEN [order |-> id, inst |-> c.inst, status |-> status]
                  ELSE c : c \in callbacks}

(* add(doc) by user u, awaited by page instance inst.                      *)
WriteMutations(u, doc, inst) ==
    LET id == Len(placed) + 1 IN
    /\ id <= MaxOrders
    /\ placed' = Append(placed, doc)
    /\ queue' = [queue EXCEPT ![u] = Append(@, id)]
    /\ callbacks' = callbacks \cup
            {[order |-> id, inst |-> inst, status |-> "waiting"]}
    /\ UNCHANGED <<server, rejected>>

(* The backend applies the i-th write of the pipeline; it applies them in   *)
(* the order sent, before or after the answers to earlier ones arrive.     *)
ServerApply(u, i) ==
    /\ i \in 1..Len(queue[u])
    /\ queue[u][i] \notin server
    /\ \A j \in 1..(i - 1) : queue[u][j] \in server
    /\ server' = server \cup {queue[u][i]}
    /\ UNCHANGED <<placed, queue, rejected, callbacks>>

(* The answer to the first write of the pipeline arrives: it leaves the     *)
(* queue and its future completes.                                         *)
HandleSuccessfulWrite(u) ==
    /\ queue[u] # <<>>
    /\ Head(queue[u]) \in server
    /\ queue' = [queue EXCEPT ![u] = Tail(@)]
    /\ NotifyUser(Head(queue[u]), "ok")
    /\ UNCHANGED <<placed, server, rejected>>

(* A permanent error is taken for one of the first write, whatever write    *)
(* the backend refused: it is dropped and its future fails, although the    *)
(* backend may have applied it, with an answer that was lost.  Transient    *)
(* errors change nothing: the write is sent again.                         *)
HandleRejectedWrite(u) ==
    /\ queue[u] # <<>>
    /\ queue' = [queue EXCEPT ![u] = Tail(@)]
    /\ rejected' = rejected \cup {Head(queue[u])}
    /\ NotifyUser(Head(queue[u]), "error")
    /\ UNCHANGED <<placed, server>>

(* Mutant: the mutation queue is kept in memory only.                      *)
ForgetfulRestart ==
    /\ callbacks' = {}
    /\ queue' = [u \in Users |-> <<>>]
    /\ UNCHANGED <<placed, server, rejected>>

(* The process dies: the futures are gone, everything else is on disk or on *)
(* the server.                                                             *)
StoreRestart ==
    /\ callbacks' = {}
    /\ UNCHANGED <<placed, queue, server, rejected>>

-----------------------------------------------------------------------------
(* The steps of the store by itself, for documents and page instances of    *)
(* given sets: what the client's write path implements.                    *)
StoreNext(Document, Instances) ==
    \/ \E u \in Users, doc \in Document, inst \in Instances :
            WriteMutations(u, doc, inst)
    \/ \E u \in Users :
            \/ \E i \in 1..Len(queue[u]) : ServerApply(u, i)
            \/ HandleSuccessfulWrite(u)
            \/ HandleRejectedWrite(u)
    \/ StoreRestart

-----------------------------------------------------------------------------
OrderIds == 1..Len(placed)

Callback == [order : 1..MaxOrders, inst : Nat,
             status : {"waiting", "ok", "error"}]

StoreTypeOK(Document) ==
    /\ placed \in Seq(Document)
    /\ Len(placed) <= MaxOrders
    /\ queue \in [Users -> Seq(OrderIds)]
    /\ server \subseteq OrderIds
    /\ rejected \subseteq OrderIds
    /\ callbacks \subseteq Callback

(* Order o waits in the mutation queue of user u.                          *)
Queued(u, o) == \E i \in 1..Len(queue[u]) : queue[u][i] = o
=============================================================================
