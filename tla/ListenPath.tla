----------------------------- MODULE ListenPath -----------------------------
(***************************************************************************)
(* From a listener to the backend and back: EventManager and QueryListener, *)
(* SyncEngine's views, the watch half of RemoteStore with its stream, and   *)
(* the OnlineStateTracker (ios/Pods/FirebaseFirestore/Firestore/core/src).  *)
(* Every list of the app, and its hotel and order pages, stand on it.      *)
(*                                                                         *)
(* All of it runs on one worker queue: an action is one task of that queue. *)
(* Of the results of a query only matters whether there are any, and of a   *)
(* snapshot whether it is from the cache.  The order of the messages of a   *)
(* target is the subject of WatchAggregator, documents in limbo that of     *)
(* LimboResolution.                                                        *)
(***************************************************************************)
EXTENDS Naturals, FirestoreStream

CONSTANTS
    Queries,        \* queries; a query is its own target
    Listeners,      \* names of listeners
    Patient,        \* those with wait_for_sync_when_online: a get()
    MaxRestarts,    \* bound: connectivity and credential changes
    NoView,         \* query_views_by_query_ has no entry
    NoListener      \* a name that is not in use

ASSUME ListenPathAssumption == Patient \subseteq Listeners /\ MaxRestarts \in Nat

VARIABLES
    rs,             \* RemoteStore, its watch stream and the OnlineStateTracker
    views,          \* views[q]: the view, and the last snapshot it produced
    listeners,      \* listeners[l]: the QueryListener
    cache,          \* cache[q]: what LocalStore knows of the query
    silent,         \* the backend sends nothing any more
    restarts        \* how many restarts there were

vars == <<rs, views, listeners, cache, silent, restarts>>

Snapshot == [fromCache : BOOLEAN, docs : BOOLEAN, cachedResults : BOOLEAN]

(* `docs': there are results on disk; `token': a resume token is stored.    *)
Cache == [docs : BOOLEAN, token : BOOLEAN]

View == [current : BOOLEAN, docs : BOOLEAN, last : Snapshot]

OnlineState == {"Unknown", "Online", "Offline"}

Listener == [query : Queries, raised : BOOLEAN]

RemoteStore ==
    [enabled : BOOLEAN,             \* is_network_enabled_
     targets : SUBSET Queries,      \* listen_targets_
     sent : SUBSET Queries,         \* the targets asked for on this stream
     stream : Stream,               \* watch_stream_
     online : OnlineState,          \* state_ of the tracker
     failed : BOOLEAN,              \* watch_stream_failures_ # 0
     timer : BOOLEAN,               \* online_state_timer_
     cleared : BOOLEAN,             \* history: StopListening() cleared the timer
                                    \* of a stream that went on, and no message,
                                    \* failure or new start has come since
     ok : BOOLEAN]                  \* no HARD_ASSERT failed

(* An absent entry is none.                                                *)
ASSUME AbsenceAssumption == NoView \notin View /\ NoListener \notin Listener

-----------------------------------------------------------------------------
(* OnlineStateTracker.                                                     *)

(* UpdateState(): resets the heuristics.                                   *)
UpdateState(r, s) ==
    [r EXCEPT !.timer = FALSE, !.failed = FALSE, !.online = s, !.cleared = FALSE]

(* Mutant: no attempt gets a timer.                                        *)
StartWithoutTimer(r) ==
    IF r.failed THEN r ELSE [r EXCEPT !.online = "Unknown", !.cleared = FALSE]

(* HandleWatchStreamStart(): the first attempt gets ten seconds.           *)
HandleWatchStreamStart(r) ==
    IF r.failed THEN r
    ELSE [r EXCEPT !.online = "Unknown", !.timer = TRUE, !.ok = @ /\ ~r.timer,
                   !.cleared = FALSE]

(* HandleWatchStreamFailure(), with kMaxWatchStreamFailures = 1.           *)
HandleWatchStreamFailure(r) ==
    IF r.online = "Online"
    THEN [r EXCEPT !.online = "Unknown", !.ok = @ /\ ~r.failed /\ ~r.timer]
    ELSE [r EXCEPT !.failed = TRUE, !.timer = FALSE, !.online = "Offline",
                   !.cleared = FALSE]

-----------------------------------------------------------------------------
(* RemoteStore: each operator gives the record after the call.             *)

ShouldStartWatchStream(r) ==
    r.enabled /\ ~IsStarted(r.stream) /\ r.targets # {}

StartWatchStream(r) ==
    HandleWatchStreamStart([r EXCEPT !.stream = Start(@)])

(* Listen(): a new target is asked for at once, or when the stream opens.  *)
Listen(r, q) ==
    LET s == [r EXCEPT !.targets = @ \cup {q}] IN
    IF ShouldStartWatchStream(s) THEN StartWatchStream(s)
    ELSE IF IsOpen(s.stream)
         THEN [s EXCEPT !.sent = @ \cup {q}, !.stream = Write(@)]
         ELSE s

(* StopListening(): without targets an open stream is marked idle, and one   *)
(* that is not open says nothing about being online; it goes on starting,    *)
(* without its timer.                                                      *)
StopListening(r, q) ==
    LET s == [r EXCEPT !.targets = @ \ {q}, !.sent = @ \ {q},
                       !.stream = IF IsOpen(@) THEN Write(@) ELSE @,
                       !.ok = @ /\ q \in r.targets]
    IN  IF s.targets # {} THEN s
        ELSE IF IsOpen(s.stream) THEN [s EXCEPT !.stream = MarkIdle(@)]
        ELSE IF s.enabled
             THEN [UpdateState(s, "Unknown") EXCEPT !.cleared = TRUE]
             ELSE s

(* Close() and OnWatchStreamClose(): the stream is started again if there    *)
(* are targets; a graceful close asserts that there are none.              *)
WatchStreamClosed(r, graceful) ==
    LET s == [r EXCEPT !.stream = Close(@, graceful), !.sent = {}] IN
    IF ShouldStartWatchStream(s)
    THEN StartWatchStream(HandleWatchStreamFailure(
            [s EXCEPT !.ok = @ /\ ~graceful]))
    ELSE UpdateState(s, "Unknown")

(* DisableNetworkInternal(), as far as it concerns the listens.            *)
NetworkDisabled(r) ==
    LET s == [r EXCEPT !.enabled = FALSE] IN
    IF IsStarted(s.stream) THEN WatchStreamClosed(s, TRUE) ELSE s

NetworkEnabled(r) ==
    LET s == [r EXCEPT !.enabled = TRUE] IN
    IF ShouldStartWatchStream(s) THEN StartWatchStream(s)
                                 ELSE UpdateState(s, "Unknown")

RestartNetwork(r) ==
    LET s == UpdateState(NetworkDisabled(r), "Unknown") IN
    NetworkEnabled([s EXCEPT !.stream = InhibitBackoff(@),
                             !.ok = @ /\ ~IsStarted(s.stream)])

-----------------------------------------------------------------------------
(* QueryListener and EventManager.  A listener's copy of the online state is *)
(* the tracker's when a task ends; within one, it is given as a parameter.  *)

(* ShouldRaiseInitialEvent().                                              *)
ShouldRaiseInitialEvent(l, snap, online) ==
    \/ ~snap.fromCache
    \/ /\ ~(l \in Patient /\ online # "Offline")
       /\ snap.docs \/ snap.cachedResults \/ online = "Offline"

Of(q) == {l \in Listeners : listeners[l] # NoListener /\ listeners[l].query = q}

(* Listener l, in state k, has snap for its last snapshot: it raises its     *)
(* first event, if it has not yet and it is time.                          *)
Notified(l, k, snap, online) ==
    [k EXCEPT !.raised = @ \/ ShouldRaiseInitialEvent(l, snap, online)]

(* The snapshot of view v; it is from the cache unless the view is synced.  *)
SnapshotOf(v, cachedResults) ==
    [fromCache |-> ~v.current, docs |-> v.docs, cachedResults |-> cachedResults]

(* ApplyOnlineStateChange(): offline, a view is no longer current.         *)
ApplyOnlineStateChange(v, s) ==
    IF v # NoView /\ s = "Offline" /\ v.current
    THEN [v EXCEPT !.current = FALSE,
                   !.last = SnapshotOf([v EXCEPT !.current = FALSE], FALSE)]
    ELSE v

(* HandleOnlineStateChange() of SyncEngine and then of EventManager: the     *)
(* views' snapshots go out first, then each listener learns the state and    *)
(* looks at its last snapshot again.                                       *)
HandleOnlineStateChange(s) ==
    /\ views' = [q \in Queries |-> ApplyOnlineStateChange(views[q], s)]
    /\ listeners' =
        [l \in Listeners |->
            IF listeners[l] = NoListener THEN NoListener
            ELSE LET snap == views'[listeners[l].query].last
                     shown == Notified(l, listeners[l], snap, rs.online)
                 IN  Notified(l, shown, snap, s)]

(* RemoteStore becomes r; a change of the online state is broadcast.  (Where *)
(* a call sets it twice, the last value is the one that matters: Unknown     *)
(* changes no view and raises no event.)                                   *)
RemoteStep(r) ==
    /\ rs' = r
    /\ IF r.online = rs.online THEN UNCHANGED <<views, listeners>>
                               ELSE HandleOnlineStateChange(r.online)

-----------------------------------------------------------------------------
Init ==
    /\ rs = [enabled |-> TRUE, targets |-> {}, sent |-> {}, stream |-> NewStream,
             online |-> "Unknown", failed |-> FALSE, timer |-> FALSE,
             cleared |-> FALSE, ok |-> TRUE]
    /\ views = [q \in Queries |-> NoView]
    /\ listeners = [l \in Listeners |-> NoListener]
    /\ cache \in [Queries -> Cache]
    /\ silent = FALSE
    /\ restarts = 0

(* AddQueryListener() for a query that is not listened to: SyncEngine's       *)
(* Listen() asks the RemoteStore and makes the view from the cache.        *)
AddFirstListener(l, q) ==
    LET r == Listen(rs, q)
        snap == [fromCache |-> TRUE, docs |-> cache[q].docs,
                 cachedResults |-> cache[q].token]
        new == [query |-> q, raised |-> FALSE]
    IN  /\ listeners[l] = NoListener
        /\ views[q] = NoView
        /\ rs' = r
        /\ views' = [views EXCEPT ![q] = [current |-> FALSE,
                                          docs |-> cache[q].docs, last |-> snap]]
        /\ listeners' = [listeners EXCEPT ![l] = Notified(l, new, snap, r.online)]
        /\ UNCHANGED <<cache, silent, restarts>>

(* Mutant: a further listener waits for the next snapshot.                 *)
AddWithoutSnapshot(l, q) ==
    /\ listeners[l] = NoListener
    /\ views[q] # NoView
    /\ listeners' = [listeners EXCEPT ![l] = [query |-> q, raised |-> FALSE]]
    /\ UNCHANGED <<rs, views, cache, silent, restarts>>

(* AddQueryListener() for a query with a view: the listener gets the last    *)
(* snapshot.                                                               *)
AddFurtherListener(l, q) ==
    /\ listeners[l] = NoListener
    /\ views[q] # NoView
    /\ listeners' = [listeners EXCEPT
            ![l] = Notified(l, [query |-> q, raised |-> FALSE], views[q].last,
                            rs.online)]
    /\ UNCHANGED <<rs, views, cache, silent, restarts>>

(* RemoveQueryListener(): the last one of a query takes the view and the     *)
(* target with it.  (If that sets the online state to Unknown, there is no   *)
(* listener left to be told.)                                              *)
RemoveListener(l) ==
    LET q == listeners[l].query IN
    /\ listeners[l] # NoListener
    /\ listeners' = [listeners EXCEPT ![l] = NoListener]
    /\ IF Of(q) = {l}
       THEN /\ rs' = StopListening(rs, q)
            /\ views' = [views EXCEPT ![q] = NoView]
       ELSE UNCHANGED <<rs, views>>
    /\ UNCHANGED <<cache, silent, restarts>>

-----------------------------------------------------------------------------
(* OnViewSnapshots(): the snapshot goes to every listener of its query.     *)
OnViewSnapshot(q, snap) ==
    listeners' = [l \in Listeners |->
        IF l \in Of(q) THEN Notified(l, listeners[l], snap, rs'.online)
                       ELSE listeners[l]]

(* The view of q becomes v, because of the backend (with a resume token) or  *)
(* of a local write.  There is a snapshot only if that changes its documents *)
(* or its sync state.  (Where there are documents before and after, they may *)
(* have changed or not.)                                                   *)
ViewChanged(q, v, token) ==
    LET snap == SnapshotOf(v, token)
        same == v.docs = views[q].docs /\ v.current = views[q].current
    IN  \/ /\ v.docs \/ ~same
           /\ views' = [views EXCEPT ![q] = [v EXCEPT !.last = snap]]
           /\ OnViewSnapshot(q, snap)
        \/ /\ same
           /\ UNCHANGED <<views, listeners>>

(* The backend stops answering, and the stream does not break either: what   *)
(* the online timer is for.                                                *)
FallSilent ==
    /\ ~silent
    /\ silent' = TRUE
    /\ UNCHANGED <<rs, views, listeners, cache, restarts>>

(* OnWatchStreamChange() with a global snapshot: the client is online, the   *)
(* target has a resume token, its view is current or (after a reset of the   *)
(* target) not yet current again.                                          *)
WatchSnapshot(q, docs, current) ==
    /\ ~silent
    /\ IsOpen(rs.stream)
    /\ q \in rs.sent
    /\ rs' = UpdateState(rs, "Online")
    /\ cache' = [cache EXCEPT ![q] = [docs |-> docs, token |-> TRUE]]
    /\ ViewChanged(q, [views[q] EXCEPT !.current = current, !.docs = docs], TRUE)
    /\ UNCHANGED <<silent, restarts>>

(* Any other message of the backend.                                       *)
WatchMessage ==
    /\ ~silent
    /\ IsOpen(rs.stream)
    /\ rs.sent # {}
    /\ RemoteStep(UpdateState(rs, "Online"))
    /\ UNCHANGED <<cache, silent, restarts>>

(* Mutant: the target of the failed query is kept.                         *)
ErrorKeepsTarget(q) ==
    /\ ~silent
    /\ IsOpen(rs.stream)
    /\ q \in rs.sent
    /\ rs' = UpdateState([rs EXCEPT !.sent = @ \ {q}], "Online")
    /\ views' = [views EXCEPT ![q] = NoView]
    /\ listeners' = [l \in Listeners |->
                        IF l \in Of(q) THEN NoListener ELSE listeners[l]]
    /\ UNCHANGED <<cache, silent, restarts>>

(* ProcessTargetError() and HandleRejectedListen(): target, view and         *)
(* listeners of the query go, each listener with an error.                 *)
WatchError(q) ==
    /\ ~silent
    /\ IsOpen(rs.stream)
    /\ q \in rs.sent
    /\ rs' = UpdateState([rs EXCEPT !.targets = @ \ {q}, !.sent = @ \ {q}],
                         "Online")
    /\ views' = [views EXCEPT ![q] = NoView]
    /\ listeners' = [l \in Listeners |->
                        IF l \in Of(q) THEN NoListener ELSE listeners[l]]
    /\ UNCHANGED <<cache, silent, restarts>>

(* A local write, or the answer to one, changes the results of a query.    *)
LocalChange(q) ==
    /\ cache' = [cache EXCEPT ![q].docs = ~@]
    /\ rs' = rs
    /\ IF views[q] = NoView THEN UNCHANGED <<views, listeners>>
       ELSE ViewChanged(q, [views[q] EXCEPT !.docs = ~@], FALSE)
    /\ UNCHANGED <<silent, restarts>>

-----------------------------------------------------------------------------
(* A step of the stream, or of the network, that leaves the cache alone.   *)
StreamStep(r) == RemoteStep(r) /\ UNCHANGED <<cache, silent, restarts>>

(* OnWatchStreamOpen(): every target is asked for.                         *)
CredentialsArrive ==
    /\ rs.stream.state = "Starting"
    /\ StreamStep([rs EXCEPT !.stream = ResumeStart(@), !.sent = rs.targets])

CredentialsFail ==
    /\ rs.stream.state = "Starting"
    /\ StreamStep(WatchStreamClosed(rs, FALSE))

(* The answer to a request of before a Close(): it is dropped.             *)
StaleCredentialsArrive ==
    /\ rs.stream.stale
    /\ StreamStep([rs EXCEPT !.stream.stale = FALSE])

BackoffTimer ==
    /\ rs.stream.state = "Backoff"
    /\ StreamStep([rs EXCEPT !.stream = BackoffElapsed(@)])

IdleTimer ==
    /\ rs.stream.idle
    /\ StreamStep(WatchStreamClosed(rs, TRUE))

(* The ten seconds are over: asserts that nothing was heard.               *)
OnlineTimer ==
    /\ rs.timer
    /\ StreamStep([rs EXCEPT !.timer = FALSE, !.online = "Offline",
                             !.ok = @ /\ rs.online = "Unknown"])

ConnectionLost ==
    /\ IsOpen(rs.stream)
    /\ StreamStep(WatchStreamClosed(rs, FALSE))

DisableNetwork == StreamStep(UpdateState(NetworkDisabled(rs), "Offline"))

EnableNetwork ==
    /\ ~rs.enabled
    /\ StreamStep(NetworkEnabled(rs))

(* The connectivity or the credentials changed.                            *)
Restart ==
    /\ rs.enabled
    /\ restarts < MaxRestarts
    /\ restarts' = restarts + 1
    /\ RemoteStep(RestartNetwork(rs))
    /\ UNCHANGED <<cache, silent>>

Next ==
    \/ \E l \in Listeners, q \in Queries :
            AddFirstListener(l, q) \/ AddFurtherListener(l, q)
    \/ \E l \in Listeners : RemoveListener(l)
    \/ \E q \in Queries : \/ \E docs, current \in BOOLEAN :
                                WatchSnapshot(q, docs, current)
                          \/ WatchError(q)
                          \/ LocalChange(q)
    \/ WatchMessage \/ FallSilent
    \/ CredentialsArrive \/ CredentialsFail \/ StaleCredentialsArrive
    \/ BackoffTimer \/ IdleTimer \/ OnlineTimer
    \/ ConnectionLost \/ DisableNetwork \/ EnableNetwork \/ Restart

Spec == Init /\ [][Next]_vars

(* The backend answers a target, if only with an error: unless it has fallen *)
(* silent, the network works long enough for that again and again, or not at *)
(* all.                                                                    *)
Answered(q) ==
    \/ \E docs \in BOOLEAN : WatchSnapshot(q, docs, TRUE)
    \/ WatchError(q)

FairSpec ==
    /\ Spec
    /\ WF_vars(CredentialsArrive \/ CredentialsFail)
    /\ WF_vars(BackoffTimer)
    /\ WF_vars(OnlineTimer)
    /\ \A q \in Queries : SF_vars(Answered(q))

-----------------------------------------------------------------------------
TypeOK ==
    /\ rs \in RemoteStore
    /\ views \in [Queries -> View \cup {NoView}]
    /\ listeners \in [Listeners -> Listener \cup {NoListener}]
    /\ cache \in [Queries -> Cache]
    /\ silent \in BOOLEAN
    /\ restarts \in 0..MaxRestarts

(* No HARD_ASSERT fails: the online timer is never started twice and never   *)
(* fires in another state than Unknown, a stream is not stopped gracefully   *)
(* while it is needed, and no target is stopped that is not listened to.   *)
NoAssertionFails == rs.ok

(* Listeners, views and targets are of the same queries, and an open stream  *)
(* has asked for all of them.                                              *)
MapsAgree ==
    /\ \A q \in Queries :
        views[q] # NoView <=> Of(q) # {}
    /\ rs.targets = {q \in Queries : views[q] # NoView}
    /\ IsOpen(rs.stream) => rs.sent = rs.targets

(* Offline no view passes for synced.                                      *)
OfflineIsNotSynced ==
    rs.online = "Offline" =>
        \A q \in Queries : views[q] # NoView => views[q].last.fromCache

(* Listeners, views, targets, stream and online state agree.               *)
LayersAgree == TypeOK /\ NoAssertionFails /\ MapsAgree /\ OfflineIsNotSynced

(* A listener that still waits for its first event has a reason: its last    *)
(* snapshot is from the cache and, unless the listener wants the server's,   *)
(* without documents, and the client is online, or its online timer runs or  *)
(* was cleared by StopListening() (remote_store.cc:187).                   *)
NobodyForgotten ==
    \A q \in Queries : \A l \in Of(q) : ~listeners[l].raised =>
        /\ rs.online = "Online" \/ rs.timer \/ rs.cleared
        /\ views[q].last.fromCache
        /\ l \in Patient \/ ~views[q].last.docs

(* A listener is told something sooner or later, an event or an error, unless *)
(* it is removed.  A backend that falls silent does not keep it waiting: that *)
(* is what the online timer is for, "rather than waiting indefinitely"       *)
(* (online_state_tracker.cc:47-49).  It waits for ever only if, for ever, the *)
(* backend is silent and either passes for online, or the timer is gone that *)
(* StopListening() cleared while the stream was starting (remote_store.cc:   *)
(* 187): Listen() does not start it again.                                 *)
FirstEvent ==
    \A l \in Listeners :
        \/ []<>(listeners[l] = NoListener \/ listeners[l].raised)
        \/ <>[](silent /\ (rs.online = "Online" \/ rs.cleared))
=============================================================================
