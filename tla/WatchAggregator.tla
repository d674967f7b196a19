--------------------------- MODULE WatchAggregator ---------------------------
(***************************************************************************)
(* One target of the watch stream, from the backend's messages to the view   *)
(* of its query: WatchChangeAggregator with its TargetState, the part of     *)
(* RemoteStore that feeds it, and what SyncEngine, View and LocalStore do     *)
(* with a RemoteEvent (ios/Pods/FirebaseFirestore/Firestore/core/src).      *)
(*                                                                         *)
(* A target may be unwatched and watched again while messages about its      *)
(* earlier life are still under way, and a stream may break and be resumed   *)
(* anywhere.  A document is its version, 0 if it is not in the result.  A     *)
(* resume token stands for what the backend has told: it is the versions the *)
(* client has been given when the token is issued.                         *)
(***************************************************************************)
EXTENDS Integers, Sequences, SequencesExt, FiniteSets

CONSTANTS
    Keys,           \* documents
    NoToken,        \* an empty resume token
    NoState,        \* target_states_ has no entry
    NoView,         \* the query is not listened to
    MaxChanges,     \* bound: changes of the server's result
    MaxErrors,      \* bound: targets that fail at the backend
    MaxInFlight     \* bound: requests, and responses, on their way

ASSUME WatchAggregatorAssumption ==
    /\ IsFiniteSet(Keys)
    /\ MaxChanges \in Nat /\ MaxErrors \in Nat /\ MaxInFlight \in Nat

VARIABLES
    view,           \* the view of the query, and its target's data in memory
    keys,           \* the view's synced_documents_; target_cache_'s on disk
    cached,         \* the documents in the local store that match the query
    disk,           \* the resume token in target_cache_
    open,           \* the watch stream is open
    agg,            \* the WatchChangeAggregator of the stream
    requests,       \* from the client to the backend
    responses,      \* from the backend to the client
    backend,        \* the backend's side of the stream
    result,         \* the keys that match the query, at the backend
    truth,          \* history: the result a snapshot of the view stands for
    unfounded,      \* history: keys the backend does not know the client has
    changes,        \* number of changes of the result
    errors,         \* number of failed targets
    early           \* history: an error was taken for one of a later life

failures == <<errors, early>>
client == <<view, keys, cached, disk, truth, unfounded>>
vars == <<client, open, agg, requests, responses, backend, result, changes, failures>>

Versions == 0..MaxChanges + 1

(* Which version there is of each document.                                *)
Documents == [Keys -> Versions]

Nothing == [k \in Keys |-> 0]

Present(d) == {k \in Keys : d[k] # 0}

Token == Documents \cup {NoToken}

(* An empty resume token is not one that the backend issued.               *)
ASSUME NoTokenAssumption == NoToken \notin Documents

(* `token' is the one in listen_targets_, `kept' the one in LocalStore's       *)
(* target_data_by_target_; `carried' is history.                           *)
View == [current : BOOLEAN, token : Token, kept : Token, carried : BOOLEAN]

Change == {"None", "Added", "Modified", "Removed"}

TargetState ==
    [outstanding : Int, current : BOOLEAN, changes : [Keys -> Change],
     pending : BOOLEAN, token : Token,
     carried : BOOLEAN]         \* history: `current' is of an earlier life

(* No entry is not an entry.                                               *)
ASSUME NoStateAssumption == NoState \notin TargetState

NoChanges == [k \in Keys |-> "None"]

NewState == [outstanding |-> 0, current |-> FALSE, changes |-> NoChanges,
             pending |-> TRUE, token |-> NoToken, carried |-> FALSE]

(* `updates' is pending_document_updates_ (-1: no update); `reset' says that   *)
(* the target is in pending_target_resets_.                                *)
Aggregator ==
    [state : TargetState \cup {NoState},
     updates : [Keys -> Versions \cup {-1}],
     reset : BOOLEAN, ok : BOOLEAN]

NewAggregator == [state |-> NoState, updates |-> [k \in Keys |-> -1],
                  reset |-> FALSE, ok |-> TRUE]

Request == [type : {"Watch"}, token : Token] \cup [type : {"Unwatch"}]

Watch(t) == [type |-> "Watch", token |-> t]

Unwatch == [type |-> "Unwatch"]

Response ==
    [type : {"Added", "Removed", "Reset", "Failed"}] \cup
    [type : {"Deleted", "Left", "Lookup"}, key : Keys] \cup
    [type : {"Document"}, key : Keys, version : Versions] \cup
    [type : {"Current"}, token : Token] \cup
    [type : {"Filter"}, count : 0..Cardinality(Keys)] \cup
    [type : {"Snapshot"}, token : Token, result : Documents]

(* `told': what the client was given; `phase' of the target: not watched,     *)
(* being sent, being sent anew after a reset, current; `news': something was *)
(* sent since the last snapshot.                                           *)
Backend == [phase : {"Off", "Sending", "Resetting", "Current"},
            told : Documents, news : BOOLEAN]

Silent == [phase |-> "Off", told |-> Nothing, news |-> FALSE]

Listening == view # NoView

(* sync_state_: what the view shows does not come from the cache.          *)
Synced == Listening /\ view.current /\ Present(cached) \subseteq keys

-----------------------------------------------------------------------------
(* The aggregator: each operator gives the aggregator after the call.      *)

(* EnsureTargetState().                                                    *)
Ensure(a) == IF a.state = NoState THEN [a EXCEPT !.state = NewState] ELSE a

(* IsActiveTarget(): nothing is outstanding, and it is listened to.        *)
IsActive(a) == Listening /\ (a.state = NoState \/ a.state.outstanding = 0)

UpdateResumeToken(s, t) ==
    IF t = NoToken THEN s ELSE [s EXCEPT !.pending = TRUE, !.token = t]

ClearPendingChanges(s) == [s EXCEPT !.pending = FALSE, !.changes = NoChanges]

(* Mutant: a request is not counted.                                       *)
RecordNothing(a) == Ensure(a)

RecordPendingTargetRequest(a) ==
    LET b == Ensure(a) IN [b EXCEPT !.state.outstanding = @ + 1]

(* Mutant: only new documents are updated.                                 *)
AddNewOnly(a, k, version) ==
    IF ~IsActive(a) THEN a
    ELSE [Ensure(a) EXCEPT
            !.state.changes[k] = IF k \in keys THEN "Modified" ELSE "Added",
            !.state.pending = TRUE,
            !.updates[k] = IF k \in keys THEN @ ELSE version]

AddDocumentToTarget(a, k, version) ==
    IF ~IsActive(a) THEN a
    ELSE [Ensure(a) EXCEPT
            !.state.changes[k] = IF k \in keys THEN "Modified" ELSE "Added",
            !.state.pending = TRUE,
            !.updates[k] = version]

(* u is what became of the document, -1 if that is not known.  A              *)
(* document that came and went between two snapshots leaves no change.     *)
RemoveDocumentFromTarget(a, k, u) ==
    IF ~IsActive(a) THEN a
    ELSE [Ensure(a) EXCEPT
            !.state.changes[k] = IF k \in keys THEN "Removed" ELSE "None",
            !.state.pending = TRUE,
            !.updates[k] = IF u = -1 THEN @ ELSE u]

(* ResetTarget(): a new state that removes what is mapped to the target.    *)
ResetTarget(a) ==
    [a EXCEPT !.ok = @ /\ a.state # NoState /\ a.state.outstanding = 0,
              !.state = [NewState EXCEPT
                !.changes = [k \in Keys |-> IF k \in keys THEN "Removed"
                                                          ELSE "None"]]]

(* Mutant: the changes of the earlier life stay.                           *)
AddedKeepsChanges(a) ==
    LET b == Ensure(a) IN [b EXCEPT !.state.outstanding = @ - 1]

(* Mutant: the response is not counted.                                    *)
AddedUncounted(a) ==
    LET b == Ensure(a) IN [b EXCEPT !.state = ClearPendingChanges(@)]

(* HandleTargetChange(), Added: the last response due clears the changes; it *)
(* does not clear `current'.                                               *)
TargetAdded(a) ==
    LET b == Ensure(a)
        s == [b.state EXCEPT !.outstanding = @ - 1]
    IN  [b EXCEPT !.state = IF s.outstanding # 0 THEN s
                            ELSE [ClearPendingChanges(s) EXCEPT
                                    !.carried = s.current]]

(* HandleTargetChange(), Removed.                                          *)
TargetRemoved(a) ==
    LET b == Ensure(a)
        s == [b.state EXCEPT !.outstanding = @ - 1]
    IN  [b EXCEPT !.state = IF s.outstanding # 0 THEN s ELSE NoState]

(* HandleTargetChange(), Current.                                          *)
TargetCurrent(a, t) ==
    LET b == Ensure(a) IN
    IF ~IsActive(b) THEN b
    ELSE [b EXCEPT !.state = UpdateResumeToken(
            [@ EXCEPT !.current = TRUE, !.carried = FALSE, !.pending = TRUE], t)]

(* GetCurrentDocumentCountForTarget().                                     *)
Count(a) ==
    Cardinality(keys) + Cardinality({k \in Keys : a.state.changes[k] = "Added"})
                      - Cardinality({k \in Keys : a.state.changes[k] = "Removed"})

(* HandleExistenceFilter(), for a query of several documents.              *)
HandleExistenceFilter(a, n) ==
    LET b == Ensure(a) IN
    IF ~IsActive(a) THEN a
    ELSE IF Count(b) = n THEN b
    ELSE [ResetTarget(b) EXCEPT !.reset = TRUE]

-----------------------------------------------------------------------------
Init ==
    /\ view = NoView
    /\ keys = {} /\ cached = Nothing /\ disk = NoToken
    /\ truth = Nothing /\ unfounded = {}
    /\ open = FALSE
    /\ agg = NewAggregator
    /\ requests = <<>> /\ responses = <<>>
    /\ backend = Silent
    /\ result \in [Keys -> {0, 1}]
    /\ changes = 0 /\ errors = 0 /\ early = FALSE

(* SyncEngine::Listen(): the target's data, and its keys, are those on disk. *)
Listen ==
    /\ ~Listening
    /\ Len(requests) < MaxInFlight
    /\ view' = [current |-> FALSE, token |-> disk, kept |-> disk, carried |-> FALSE]
    /\ IF open
       THEN /\ agg' = RecordPendingTargetRequest(agg)
            /\ requests' = Append(requests, Watch(disk))
       ELSE UNCHANGED <<agg, requests>>
    /\ UNCHANGED <<keys, cached, disk, truth, unfounded, open, responses, backend, result,
                   changes, failures>>

(* SyncEngine::StopListening(): ReleaseTarget() saves the data in memory.   *)
StopListening ==
    /\ Listening
    /\ Len(requests) < MaxInFlight
    /\ view' = NoView
    /\ disk' = view.kept
    /\ IF open
       THEN /\ agg' = RecordPendingTargetRequest(agg)
            /\ requests' = Append(requests, Unwatch)
       ELSE UNCHANGED <<agg, requests>>
    /\ UNCHANGED <<keys, cached, truth, unfounded, open, responses, backend, result, changes,
                   failures>>

(* OnWatchStreamOpen(): a new aggregator, and the target is watched again.  *)
StreamOpens ==
    /\ ~open
    /\ open' = TRUE
    /\ IF Listening
       THEN /\ agg' = RecordPendingTargetRequest(NewAggregator)
            /\ requests' = <<Watch(view.token)>>
       ELSE agg' = NewAggregator /\ requests' = <<>>
    /\ UNCHANGED <<client, responses, backend, result, changes, failures>>

(* OnWatchStreamClose(): whatever was on its way is lost.                  *)
StreamBreaks ==
    /\ open
    /\ open' = FALSE
    /\ agg' = [NewAggregator EXCEPT !.ok = agg.ok]
    /\ requests' = <<>> /\ responses' = <<>>
    /\ backend' = Silent
    /\ UNCHANGED <<client, result, changes, failures>>

(* The app is killed; the local store is on disk.                          *)
AppRestart ==
    /\ view' = NoView
    /\ open' = FALSE
    /\ agg' = [NewAggregator EXCEPT !.ok = agg.ok]
    /\ requests' = <<>> /\ responses' = <<>>
    /\ backend' = Silent
    /\ UNCHANGED <<keys, cached, disk, truth, unfounded, result, changes, failures>>

(* View::ApplyOnlineStateChange(): offline, the view is not current.  (With    *)
(* the stream open this happens only before the first message, and is then    *)
(* as if it had happened before the stream was opened.)                    *)
GoOffline ==
    /\ Listening /\ ~open
    /\ view' = [view EXCEPT !.current = FALSE]
    /\ UNCHANGED <<keys, cached, disk, truth, unfounded, open, agg, requests, responses,
                   backend, result, changes, failures>>

-----------------------------------------------------------------------------
(* OnWatchStreamChange(): the client reads the first response.             *)

Reads(type) == responses # <<>> /\ Head(responses).type = type

Handle(a) ==
    /\ agg' = a
    /\ responses' = Tail(responses)
    /\ UNCHANGED <<client, open, requests, backend, result, changes, failures>>

ReadAdded == Reads("Added") /\ Handle(TargetAdded(agg))

ReadRemoved == Reads("Removed") /\ Handle(TargetRemoved(agg))

ReadCurrent ==
    Reads("Current") /\ Handle(TargetCurrent(agg, Head(responses).token))

ReadReset ==
    Reads("Reset") /\ Handle(IF IsActive(agg) THEN ResetTarget(Ensure(agg))
                                              ELSE Ensure(agg))

ReadDocument ==
    /\ Reads("Document")
    /\ Handle(AddDocumentToTarget(agg, Head(responses).key, Head(responses).version))

(* The document is gone or no longer matches, and the client learns why.    *)
ReadDeleted ==
    /\ Reads("Deleted")
    /\ Handle(RemoveDocumentFromTarget(agg, Head(responses).key, 0))

(* The document left the target, and the client does not learn why.         *)
ReadLeft ==
    /\ Reads("Left")
    /\ Handle(RemoveDocumentFromTarget(agg, Head(responses).key, -1))

(* The target of a document in limbo says that it is gone.                 *)
ReadLookup ==
    Reads("Lookup") /\ Handle([agg EXCEPT !.updates[Head(responses).key] = 0])

ReadFilter ==
    Reads("Filter") /\ Handle(HandleExistenceFilter(agg, Head(responses).count))

(* ProcessTargetError(): if the target is listened to, it is given up.      *)
ReadFailed ==
    /\ Reads("Failed")
    /\ IF Listening
       THEN /\ view' = NoView /\ disk' = view.kept
            /\ agg' = [agg EXCEPT !.state = NoState]
       ELSE UNCHANGED <<view, disk, agg>>
    /\ responses' = Tail(responses)
    /\ UNCHANGED <<keys, cached, truth, unfounded, open, requests, backend, result, changes,
                   errors>>
    /\ early' = (early \/ (Listening /\ ~IsActive(agg)))

(* The target's token after a change with token t.                         *)
NextToken(old, t, mismatch) ==
    IF mismatch THEN NoToken ELSE IF t # NoToken THEN t ELSE old

(* LocalStore::ShouldPersistTargetData(): the tokens that may be on disk      *)
(* afterwards; five minutes may have passed or not.                        *)
Persisted(old, new, touched) ==
    IF old = NoToken \/ touched THEN {new} ELSE {disk, new}

(* A global snapshot: the active target gets the token, and then             *)
(* RaiseWatchSnapshot() with CreateRemoteEvent(), the new listen of a target  *)
(* in mismatch, and ApplyRemoteEvent() of SyncEngine, LocalStore and View.   *)
(* (A snapshot older than the last, which remote_store.cc:282-283 ignores,   *)
(* never comes here: the backend's snapshots do not go back.)              *)
ReadSnapshot ==
    LET msg == Head(responses)
        active == IsActive(agg)
        known == active /\ agg.state # NoState
        s == IF known THEN UpdateResumeToken(agg.state, msg.token) ELSE agg.state
        event == known /\ s.pending
        mismatch == agg.reset /\ Listening
        Is(c) == {k \in Keys : event /\ s.changes[k] = c}
        after == [NewAggregator EXCEPT
                    !.ok = agg.ok /\ Is("Modified") \subseteq keys,
                    !.state = IF event THEN ClearPendingChanges(s) ELSE s]
    IN  /\ Reads("Snapshot")
        /\ cached' = [k \in Keys |-> IF agg.updates[k] = -1 THEN cached[k]
                                                          ELSE agg.updates[k]]
        /\ keys' = (keys \cup Is("Added")) \ Is("Removed")
        /\ view' =
            IF ~Listening THEN NoView
            ELSE [current |-> IF event THEN s.current ELSE view.current,
                  carried |-> IF event THEN s.carried ELSE view.carried,
                  token |-> NextToken(view.token, IF event THEN s.token ELSE NoToken,
                                      mismatch),
                  kept |-> IF event THEN NextToken(view.kept, s.token, mismatch)
                                    ELSE view.kept]
        /\ IF event
           THEN disk' \in Persisted(view.kept, view'.kept,
                                    s.changes # NoChanges)
           ELSE UNCHANGED disk
        /\ truth' = IF active THEN msg.result
                    ELSE [k \in Keys |-> IF agg.updates[k] = 0 THEN 0 ELSE truth[k]]
        /\ unfounded' = IF mismatch THEN keys'
                        ELSE unfounded \ {k \in Keys : event /\ s.changes[k] # "None"}
        /\ agg' = IF mismatch
                  THEN RecordPendingTargetRequest(RecordPendingTargetRequest(after))
                  ELSE after
        /\ requests' = IF mismatch THEN requests \o <<Unwatch, Watch(NoToken)>>
                                   ELSE requests
        /\ responses' = Tail(responses)
        /\ UNCHANGED <<open, backend, result, changes, failures>>

-----------------------------------------------------------------------------
(* The backend, as the client code relies on it.                           *)

BackendStep == UNCHANGED <<client, open, agg, result, changes>>

Respond(r) == responses' = Append(responses, r)

(* A document comes, changes or goes.                                      *)
ResultChanges(k) ==
    /\ changes < MaxChanges
    /\ \E version \in {0, changes + 2} \ {result[k]} :
            result' = [result EXCEPT ![k] = version]
    /\ changes' = changes + 1
    /\ UNCHANGED <<client, open, agg, requests, responses, backend, failures>>

(* The first request is answered.                                          *)
BackendAnswers ==
    /\ requests # <<>>
    /\ Len(responses) < MaxInFlight
    /\ requests' = Tail(requests)
    /\ LET r == Head(requests) IN
       IF r = Unwatch
       THEN backend' = Silent /\ Respond([type |-> "Removed"])
       ELSE /\ backend' = [phase |-> "Sending", news |-> TRUE,
                           told |-> IF r.token = NoToken THEN Nothing
                                                           ELSE r.token]
            /\ Respond([type |-> "Added"])
    /\ BackendStep /\ UNCHANGED failures

(* What the backend sends of its own accord.                               *)
Sends(r, b) ==
    /\ open
    /\ Len(responses) < MaxInFlight
    /\ Respond(r)
    /\ backend' = b
    /\ BackendStep /\ UNCHANGED <<requests, failures>>

SendDocument(k) ==
    /\ backend.phase # "Off"
    /\ result[k] \notin {0, backend.told[k]}
    /\ Sends([type |-> "Document", key |-> k, version |-> result[k]],
             [backend EXCEPT !.told[k] = result[k], !.news = TRUE])

SendRemoval(k) ==
    /\ backend.phase # "Off"
    /\ result[k] = 0 /\ backend.told[k] # 0
    /\ \E type \in {"Deleted", "Left"} :
            Sends([type |-> type, key |-> k],
                  [backend EXCEPT !.told[k] = 0, !.news = TRUE])

(* It does not know which documents are to be removed, and sends how many     *)
(* are left.                                                               *)
SendFilter ==
    /\ backend.phase \in {"Sending", "Current"}
    /\ backend.told # result
    /\ \A k \in Present(result) : backend.told[k] = result[k]
    /\ Sends([type |-> "Filter", count |-> Cardinality(Present(result))],
             [backend EXCEPT !.told = result, !.news = TRUE])

SendReset ==
    /\ backend.phase = "Current"
    /\ Sends([type |-> "Reset"], [phase |-> "Resetting", told |-> Nothing, news |-> TRUE])

SendCurrent ==
    /\ backend.phase \in {"Sending", "Resetting"}
    /\ backend.told = result
    /\ Sends([type |-> "Current", token |-> result],
             [backend EXCEPT !.phase = "Current", !.news = TRUE])

(* A document in limbo is not in the result.                               *)
SendLookup(k) ==
    /\ Listening /\ view.current
    /\ k \in Present(cached) \ (keys \cup Present(result))
    /\ agg.updates[k] = -1
    /\ [type |-> "Lookup", key |-> k] \notin ToSet(responses)
    /\ Sends([type |-> "Lookup", key |-> k], [backend EXCEPT !.news = TRUE])

(* The stream is consistent: the target is current and told everything, or    *)
(* it is still being sent (what is consistent is then the rest of the stream) *)
SendSnapshot ==
    /\ backend.news
    /\ backend.phase # "Resetting"
    /\ backend.phase = "Current" => backend.told = result
    /\ Sends([type |-> "Snapshot", token |-> backend.told, result |-> result],
             [backend EXCEPT !.news = FALSE])

(* The target fails.                                                       *)
SendFailure ==
    /\ errors < MaxErrors
    /\ errors' = errors + 1
    /\ backend.phase # "Off"
    /\ Len(responses) < MaxInFlight
    /\ Respond([type |-> "Failed"])
    /\ backend' = Silent
    /\ BackendStep /\ UNCHANGED <<requests, early>>

BackendSends ==
    \/ \E k \in Keys : SendDocument(k) \/ SendRemoval(k) \/ SendLookup(k)
    \/ SendFilter \/ SendReset \/ SendCurrent \/ SendSnapshot

Reading ==
    \/ ReadAdded \/ ReadRemoved \/ ReadCurrent \/ ReadReset
    \/ ReadDocument \/ ReadDeleted \/ ReadLeft \/ ReadLookup
    \/ ReadFilter \/ ReadFailed \/ ReadSnapshot

Next ==
    \/ Listen \/ StopListening \/ GoOffline
    \/ StreamOpens \/ StreamBreaks \/ AppRestart
    \/ Reading
    \/ \E k \in Keys : ResultChanges(k)
    \/ BackendAnswers \/ BackendSends \/ SendFailure

Spec == Init /\ [][Next]_vars

(* The client reads, and the backend answers and sends what is due.  It owes   *)
(* a consistent snapshot after every Added, Current and Reset, also if it      *)
(* resets the target over and over.                                        *)
FairSpec ==
    /\ Spec
    /\ WF_vars(Reading)
    /\ SF_vars(BackendAnswers)
    /\ \A k \in Keys : /\ SF_vars(SendDocument(k))
                       /\ SF_vars(SendRemoval(k))
                       /\ SF_vars(SendLookup(k))
    /\ SF_vars(SendCurrent)
    /\ SF_vars(SendSnapshot)

-----------------------------------------------------------------------------
TypeOK ==
    /\ view \in View \cup {NoView}
    /\ keys \subseteq Keys /\ unfounded \subseteq Keys
    /\ cached \in Documents /\ truth \in Documents /\ result \in Documents
    /\ disk \in Token
    /\ open \in BOOLEAN
    /\ agg \in Aggregator
    /\ requests \in Seq(Request) /\ responses \in Seq(Response)
    /\ backend \in Backend
    /\ changes \in 0..MaxChanges /\ errors \in 0..MaxErrors /\ early \in BOOLEAN

(* No HARD_ASSERT fails: only an active target is reset, and no document is   *)
(* modified that the view does not know from the backend.                  *)
NoAssertionFails == agg.ok

(* What a view shows as coming from the backend is the result of the query    *)
(* at the snapshot's time (less the documents in limbo that were looked up    *)
(* since and are gone): exactly those documents, whatever was under way       *)
(* of an earlier life of the target and wherever a stream was resumed.        *)
(* Three cases are left out: current_ is of an earlier life, because            *)
(* ClearPendingChanges() leaves it alone; the target was watched anew without  *)
(* a token although keys were left, because the removals of a reset were lost; *)
(* or the error of an earlier life of the target was taken for one of this life.              *)
SyncedIsTrue ==
    Synced /\ ~view.carried /\ unfounded = {} /\ ~early => cached = truth

(* A stored token tells the backend what the client has: it goes with the     *)
(* stored keys, so that what is sent after resuming completes them.  Keys     *)
(* that were left when the target was watched anew are the exception.      *)
TokenMatchesKeys ==
    disk # NoToken /\ ~early => /\ Present(disk) \subseteq keys
                                /\ keys \subseteq Present(disk) \cup unfounded

(* The aggregator waits for exactly the responses that will come, unless       *)
(* ProcessTargetError() took its count away with an error of an earlier life.  *)
OutstandingExact ==
    ~early => (IF agg.state = NoState THEN 0 ELSE agg.state.outstanding) =
        Len(requests) + Cardinality({i \in 1..Len(responses) :
                                        responses[i].type \in {"Added", "Removed"}})

(* The aggregator's books are right at every moment.                       *)
BooksExact == TypeOK /\ NoAssertionFails /\ OutstandingExact

(* While it is listened to on a stream that stays open, a view is in sync      *)
(* again and again: no reset, mismatch or document in limbo, and nothing left  *)
(* over from an earlier life, keeps it from being current for ever.         *)
CatchesUp == <>[](Listening /\ open /\ ~early) => []<>Synced
=============================================================================
