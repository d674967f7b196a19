--------------------------- MODULE LimboResolution ---------------------------
(***************************************************************************)
(* Documents in limbo: they are in the local results of a query, and the      *)
(* backend does not list them for it.  SyncEngine looks each one up with a     *)
(* target of its own, a bounded number at a time (ios/Pods/FirebaseFirestore/ *)
(* Firestore/core/src/core/sync_engine.cc, view.cc).                       *)
(*                                                                         *)
(* The queries here match every document.  Only documents without local        *)
(* mutations are considered: those with one are never in limbo.            *)
(***************************************************************************)
EXTENDS Integers, Sequences, SequencesExt, FiniteSetsExt

CONSTANTS
    Queries,        \* queries; a query is its own target
    Keys,           \* documents
    MaxConcurrent,  \* max_concurrent_limbo_resolutions_
    NoView          \* the query is not listened to

ASSUME LimboAssumption ==
    /\ MaxConcurrent \in Nat \ {0}
    /\ IsFiniteSet(Queries) /\ IsFiniteSet(Keys)

VARIABLES
    views,          \* views[q]: the part of the View that limbo depends on
    docs,           \* the documents in the local store
    sync,           \* SyncEngine's account of the documents in limbo
    unasked         \* history: keys whose lookup was refused

vars == <<views, docs, sync, unasked>>

View == [current : BOOLEAN, synced : SUBSET Keys, limbo : SUBSET Keys]

(* No view is not a view.                                                  *)
ASSUME AbsenceAssumption == NoView \notin View

(* `refs' is limbo_document_refs_, `queue' enqueued_limbo_resolutions_.  The   *)
(* two maps of active resolutions change together: `active' has the keys of   *)
(* both, `received' those with document_received.                          *)
SyncEngine == [refs : SUBSET (Keys \X Queries), queue : Seq(Keys),
               active : SUBSET Keys, received : SUBSET Keys]

Referenced(s) == {r[1] : r \in s.refs}

-----------------------------------------------------------------------------
(* SyncEngine: each operator gives the account after the call.             *)

(* PumpEnqueuedLimboResolutions(): lookups are started while there is room. *)
Pump(s) ==
    LET room == Max({0, MaxConcurrent - Cardinality(s.active)})
        n == Min({room, Len(s.queue)})
    IN  [s EXCEPT !.active = @ \cup ToSet(SubSeq(s.queue, 1, n)),
                  !.queue = SubSeq(@, n + 1, Len(@))]

(* TrackLimboChange(): nothing is looked up twice.                         *)
TrackLimboChange(k, s) ==
    IF k \in s.active \cup ToSet(s.queue) THEN s
    ELSE Pump([s EXCEPT !.queue = Append(@, k)])

(* The queue without k, which is in it once or not at all.                 *)
Dequeue(queue, k) ==
    LET at == {i \in 1..Len(queue) : queue[i] = k} IN
    IF at = {} THEN queue ELSE RemoveAt(queue, Min(at))

(* Mutant: the slot that became free is not used.                          *)
RemoveWithoutPump(k, s) ==
    [s EXCEPT !.queue = Dequeue(@, k),
              !.active = @ \ {k}, !.received = @ \ {k}]

(* RemoveLimboTarget().                                                    *)
RemoveLimboTarget(k, s) ==
    LET t == [s EXCEPT !.queue = Dequeue(@, k)] IN
    IF k \notin t.active THEN t
    ELSE Pump([t EXCEPT !.active = @ \ {k}, !.received = @ \ {k}])

(* Mutant: the lookup ends although another query still needs it.           *)
DropAlways(k, q, s) == RemoveLimboTarget(k, [s EXCEPT !.refs = @ \ {<<k, q>>}])

(* The reference of q to k goes, and with the last one the lookup.         *)
RemoveReference(k, q, s) ==
    LET t == [s EXCEPT !.refs = @ \ {<<k, q>>}] IN
    IF k \in Referenced(t) THEN t ELSE RemoveLimboTarget(k, t)

AddReference(k, q, s) == TrackLimboChange(k, [s EXCEPT !.refs = @ \cup {<<k, q>>}])

(* UpdateTrackedLimboDocuments(): first what left limbo, then what came.    *)
UpdateTrackedLimboDocuments(s, q, removed, added) ==
    LET Leaves(k, t) == RemoveReference(k, q, t)
        Comes(k, t) == AddReference(k, q, t)
    IN  FoldSet(Comes, FoldSet(Leaves, s, removed), added)

(* RemoveAndCleanupTarget(): all references of the target go first.         *)
RemoveAndCleanupTarget(s, q) ==
    LET keys == {r[1] : r \in {x \in s.refs : x[2] = q}}
        t == [s EXCEPT !.refs = {r \in @ : r[2] # q}]
    IN  FoldSet(RemoveLimboTarget, t, keys \ Referenced(t))

(* View::UpdateLimboDocuments(): only a current view can tell.             *)
UpdateLimboDocuments(v, d) ==
    IF v.current THEN [v EXCEPT !.limbo = d \ v.synced] ELSE v

(* EmitNewSnapshotsAndNotifyLocalStore(): the local documents are d, the views *)
(* before their update are vs; each view in turn reports to the account s.   *)
EmitNewSnapshots(vs, d, s, refused) ==
    LET new == [q \in Queries |->
                    IF vs[q] = NoView THEN NoView ELSE UpdateLimboDocuments(vs[q], d)]
        Report(q, t) ==
            IF vs[q] = NoView THEN t
            ELSE UpdateTrackedLimboDocuments(t, q, vs[q].limbo \ new[q].limbo,
                                             new[q].limbo \ vs[q].limbo)
    IN  /\ views' = new
        /\ docs' = d
        /\ sync' = FoldSet(Report, s, Queries)
        /\ unasked' = refused \cap Referenced(sync')

-----------------------------------------------------------------------------
Init ==
    /\ views = [q \in Queries |-> NoView]
    /\ docs \in SUBSET Keys
    /\ sync = [refs |-> {}, queue |-> <<>>, active |-> {}, received |-> {}]
    /\ unasked = {}

(* Listen(): the new view starts with the keys stored for the target.      *)
Listen(q, stored) ==
    /\ views[q] = NoView
    /\ views' = [views EXCEPT ![q] = [current |-> FALSE, synced |-> stored,
                                      limbo |-> {}]]
    /\ UNCHANGED <<docs, sync, unasked>>

(* StopListening(), or HandleRejectedListen() for the target of a query.    *)
StopListening(q) ==
    /\ views[q] # NoView
    /\ views' = [views EXCEPT ![q] = NoView]
    /\ sync' = RemoveAndCleanupTarget(sync, q)
    /\ unasked' = unasked \cap Referenced(sync')
    /\ UNCHANGED docs

(* ApplyRemoteEvent() with a change of target q: the backend lists `synced'    *)
(* for it; their documents are in the event, and others may be.            *)
RemoteEvent(q, synced, current, d) ==
    /\ views[q] # NoView
    /\ synced \subseteq d
    /\ EmitNewSnapshots([views EXCEPT ![q].synced = synced, ![q].current = current],
                        d, sync, unasked)

(* A write of this client was acknowledged: the backend has yet to list it.  *)
WriteAcknowledged(k) ==
    /\ k \notin docs
    /\ EmitNewSnapshots(views, docs \cup {k}, sync, unasked)

(* ApplyRemoteEvent() for the target of a lookup: the document exists.      *)
LookupFound(k) ==
    /\ k \in sync.active \ sync.received
    /\ EmitNewSnapshots(views, docs \cup {k},
                        [sync EXCEPT !.received = @ \cup {k}], unasked)

(* The lookup says that the document does not exist (any more).            *)
LookupGone(k) ==
    /\ k \in sync.active
    /\ k \in docs \cup sync.received
    /\ EmitNewSnapshots(views, docs \ {k}, [sync EXCEPT !.received = @ \ {k}],
                        unasked)

(* HandleRejectedListen() for the target of a lookup: the slot is free, and    *)
(* the document counts as deleted.                                         *)
LookupRejected(k) ==
    /\ k \in sync.active
    /\ EmitNewSnapshots(views, docs \ {k},
            Pump([sync EXCEPT !.active = @ \ {k}, !.received = @ \ {k}]),
            unasked \cup {k})

(* HandleOnlineStateChange(): offline, no view is current.                 *)
GoOffline ==
    /\ views' = [q \in Queries |-> IF views[q] = NoView THEN NoView
                                   ELSE [views[q] EXCEPT !.current = FALSE]]
    /\ UNCHANGED <<docs, sync, unasked>>

Next ==
    \/ \E q \in Queries : \/ \E stored \in SUBSET Keys : Listen(q, stored)
                          \/ StopListening(q)
                          \/ \E synced, d \in SUBSET Keys, current \in BOOLEAN :
                                RemoteEvent(q, synced, current, d)
    \/ \E k \in Keys : \/ WriteAcknowledged(k)
                       \/ LookupFound(k) \/ LookupGone(k) \/ LookupRejected(k)
    \/ GoOffline

Spec == Init /\ [][Next]_vars

-----------------------------------------------------------------------------
(* The state keeps its shape: document_received is kept only for the lookups    *)
(* under way ("Received change for limbo target document without add").    *)
TypeOK ==
    /\ views \in [Queries -> View \cup {NoView}]
    /\ docs \subseteq Keys
    /\ sync \in SyncEngine
    /\ sync.received \subseteq sync.active
    /\ unasked \subseteq Keys

(* A document is in limbo for a view exactly if the view is counted as a        *)
(* reason to look it up, also while the view is not current.               *)
RefsAreLimbo ==
    sync.refs = {r \in Keys \X Queries : /\ views[r[2]] # NoView
                                         /\ r[1] \in views[r[2]].limbo}

(* What is looked up, or will be, is what is in limbo: no lookup goes on for    *)
(* nothing, none is started twice, and no document in limbo is left out unless *)
(* its lookup was refused.                                                 *)
LookupsAreNeeded ==
    /\ IsInjective(sync.queue)
    /\ sync.active \cap ToSet(sync.queue) = {}
    /\ sync.active \cup ToSet(sync.queue) \subseteq Referenced(sync)
    /\ Referenced(sync) \subseteq sync.active \cup ToSet(sync.queue) \cup unasked

(* The views, the references and the two maps of lookups tell the same.    *)
LimboTracked == TypeOK /\ RefsAreLimbo /\ LookupsAreNeeded

(* There are never more lookups than allowed, and no slot stays free while a    *)
(* document waits.                                                         *)
SlotsUsed ==
    /\ Cardinality(sync.active) <= MaxConcurrent
    /\ sync.queue # <<>> => Cardinality(sync.active) = MaxConcurrent
=============================================================================
