-------------------------- MODULE ListenPathProofs --------------------------
(***************************************************************************)
(* The listen path: the proofs that its layers agree, that no HARD_ASSERT of *)
(* the OnlineStateTracker, the RemoteStore or the stream fails, and that no  *)
(* listener is left without an event it should have had, for any number of   *)
(* queries, listeners and restarts.                                        *)
(***************************************************************************)
EXTENDS ListenPath, TLAPS

(* The watch half of the RemoteStore between two tasks of the worker queue.  *)
(* Its timers run only while what they assert is so: the idleness timer on   *)
(* an open stream without targets, the online timer on a first attempt that  *)
(* nothing is known of yet.  And it does run then, unless StopListening()    *)
(* cleared it.                                                             *)
Settled(r) ==
    /\ r \in RemoteStore
    /\ r.ok
    /\ r.stream.idle => IsOpen(r.stream) /\ r.targets = {}
    /\ ~r.enabled => ~IsStarted(r.stream)
    /\ r.timer => r.online = "Unknown" /\ ~r.failed /\ IsStarted(r.stream)
    /\ r.failed => r.online = "Offline"
    /\ IsOpen(r.stream) => r.sent = r.targets
    /\ r.enabled /\ r.targets # {} => IsStarted(r.stream)
    /\ IsStarted(r.stream) /\ r.online = "Unknown" => r.timer \/ r.cleared

(* A client whose network is disabled knows that it is offline.            *)
Informed(r) == ~r.enabled => r.online = "Offline"

(* The last snapshot a view produced says whether the view is current.     *)
SnapshotsFresh ==
    \A q \in Queries : views[q] # NoView =>
        views[q].last.fromCache = ~views[q].current

(* The part of NobodyForgotten that is about the views: offline, everyone    *)
(* has had an event, and a snapshot that is due has been raised.           *)
WaitingIsDue ==
    \A q \in Queries : \A l \in Of(q) : ~listeners[l].raised =>
        /\ rs.online # "Offline"
        /\ views[q].last.fromCache
        /\ l \in Patient \/ ~views[q].last.docs

(* The inductive invariant.                                                *)
ListenInv ==
    /\ TypeOK
    /\ Settled(rs)
    /\ Informed(rs)
    /\ MapsAgree
    /\ SnapshotsFresh
    /\ OfflineIsNotSynced
    /\ WaitingIsDue

-----------------------------------------------------------------------------
(* What the operations of the RemoteStore keep.                            *)

(* UpdateState(): only the tracker changes, and its heuristics are reset.   *)
LEMMA UpdateStateKeeps ==
    ASSUME NEW r \in RemoteStore, NEW s \in OnlineState
    PROVE  LET u == UpdateState(r, s) IN
           /\ u \in RemoteStore
           /\ u.enabled = r.enabled /\ u.targets = r.targets /\ u.sent = r.sent
           /\ u.stream = r.stream /\ u.ok = r.ok
           /\ u.online = s /\ ~u.timer /\ ~u.failed /\ ~u.cleared
  BY DEF UpdateState, RemoteStore

(* An update of the tracker leaves a settled store settled, unless it clears *)
(* the timer of a stream that goes on.                                     *)
LEMMA UpdateStateSettled ==
    ASSUME NEW r, Settled(r), NEW s \in OnlineState,
           s = "Unknown" => ~IsStarted(r.stream)
    PROVE  Settled(UpdateState(r, s))
  BY UpdateStateKeeps DEF Settled

(* StartWatchStream(), of a stream that is not started: the ten seconds run   *)
(* unless the last attempt failed.                                         *)
LEMMA StartWatchStreamSettles ==
    ASSUME NEW r \in RemoteStore, r.ok, r.enabled, ~IsStarted(r.stream),
           ~r.stream.idle, ~r.timer, r.failed => r.online = "Offline"
    PROVE  LET u == StartWatchStream(r) IN
           /\ Settled(u)
           /\ u.targets = r.targets
           /\ u.enabled
           /\ u.online = IF r.failed THEN r.online ELSE "Unknown"
  <1> DEFINE s == [r EXCEPT !.stream = Start(@)]
  <1>1. Start(r.stream) \in Stream /\ ~Start(r.stream).idle
        /\ Start(r.stream).state \in {"Starting", "Backoff"}
    BY DEF Start, Stream, RemoteStore
  <1>2. /\ s \in RemoteStore /\ s.stream = Start(r.stream)
        /\ s.targets = r.targets /\ s.ok = r.ok /\ s.enabled = r.enabled
        /\ s.failed = r.failed /\ s.timer = r.timer /\ s.online = r.online
    BY <1>1 DEF RemoteStore
  <1> HIDE DEF s
  <1>3. StartWatchStream(r) = HandleWatchStreamStart(s)
    BY DEF StartWatchStream, s
  <1>4. CASE r.failed
    BY <1>1, <1>2, <1>3, <1>4 DEF HandleWatchStreamStart, Settled, IsOpen, IsStarted
  <1>5. CASE ~r.failed
    <2> DEFINE u == [s EXCEPT !.online = "Unknown", !.timer = TRUE,
                             !.ok = @ /\ ~s.timer, !.cleared = FALSE]
    <2>1. StartWatchStream(r) = u
      BY <1>2, <1>3, <1>5 DEF HandleWatchStreamStart
    <2>2. /\ u \in RemoteStore /\ u.stream = s.stream /\ u.targets = s.targets
          /\ u.ok /\ u.online = "Unknown" /\ u.failed = s.failed
          /\ u.enabled = s.enabled /\ u.timer
      BY <1>2 DEF RemoteStore, OnlineState
    <2> HIDE DEF u
    <2> QED  BY <1>1, <1>2, <1>5, <2>1, <2>2 DEF Settled, IsOpen, IsStarted
  <1> QED  BY <1>4, <1>5

(* Listen(): the target is asked for, now or when the stream opens.        *)
LEMMA ListenSettles ==
    ASSUME NEW r, Settled(r), NEW q \in Queries
    PROVE  LET u == Listen(r, q) IN
           /\ Settled(u)
           /\ u.targets = r.targets \cup {q}
           /\ u.online = "Offline" => r.online = "Offline"
           /\ Informed(r) => Informed(u)
  <1> DEFINE s == [r EXCEPT !.targets = @ \cup {q}]
             w == [s EXCEPT !.sent = @ \cup {q}, !.stream = Write(@)]
  <1>1. r \in RemoteStore
    BY DEF Settled
  <1>2. /\ s \in RemoteStore
        /\ s.targets = r.targets \cup {q} /\ s.stream = r.stream
        /\ s.enabled = r.enabled /\ s.sent = r.sent /\ s.online = r.online
        /\ s.failed = r.failed /\ s.timer = r.timer
        /\ s.cleared = r.cleared /\ s.ok = r.ok
    BY <1>1 DEF RemoteStore
  <1> HIDE DEF s
  <1>3. Write(s.stream) \in Stream /\ Write(s.stream).state = s.stream.state
        /\ ~Write(s.stream).idle
    BY <1>2 DEF Write, Stream, RemoteStore
  <1>4. /\ w \in RemoteStore
        /\ w.targets = s.targets /\ w.stream = Write(s.stream)
        /\ w.enabled = s.enabled /\ w.sent = s.sent \cup {q}
        /\ w.online = s.online /\ w.failed = s.failed /\ w.timer = s.timer
        /\ w.cleared = s.cleared /\ w.ok = s.ok
    BY <1>2, <1>3 DEF RemoteStore
  <1> HIDE DEF w
  <1>5. Listen(r, q) = IF ShouldStartWatchStream(s) THEN StartWatchStream(s)
                       ELSE IF IsOpen(s.stream) THEN w ELSE s
    BY DEF Listen, s, w
  <1>6. CASE ShouldStartWatchStream(s)
    <2>1. ~IsStarted(s.stream) /\ ~s.timer /\ ~s.stream.idle /\ s.enabled /\ s.ok
      BY <1>2, <1>6 DEF ShouldStartWatchStream, Settled, IsOpen, IsStarted
    <2>2. s.failed => s.online = "Offline"
      BY <1>2 DEF Settled
    <2>3. Settled(StartWatchStream(s)) /\ StartWatchStream(s).targets = s.targets
          /\ StartWatchStream(s).enabled
          /\ StartWatchStream(s).online = IF s.failed THEN s.online ELSE "Unknown"
      BY <1>2, <2>1, <2>2, StartWatchStreamSettles
    <2> QED  BY <1>2, <1>5, <1>6, <2>3 DEF Informed
  <1>7. CASE ~ShouldStartWatchStream(s) /\ IsOpen(s.stream)
    BY <1>2, <1>3, <1>4, <1>5, <1>7 DEF Settled, Informed, IsOpen, IsStarted
  <1>8. CASE ~ShouldStartWatchStream(s) /\ ~IsOpen(s.stream)
    BY <1>2, <1>5, <1>8 DEF Settled, Informed, ShouldStartWatchStream
  <1> QED  BY <1>6, <1>7, <1>8

(* StopListening(): the last target leaves an open stream idle.            *)
LEMMA StopListeningSettles ==
    ASSUME NEW r, Settled(r), NEW q \in r.targets
    PROVE  LET u == StopListening(r, q) IN
           /\ Settled(u)
           /\ u.targets = r.targets \ {q}
           /\ u.online = "Offline" => r.online = "Offline"
           /\ Informed(r) => Informed(u)
  <1> DEFINE t == IF IsOpen(r.stream) THEN Write(r.stream) ELSE r.stream
             s == [r EXCEPT !.targets = @ \ {q}, !.sent = @ \ {q},
                            !.stream = IF IsOpen(@) THEN Write(@) ELSE @,
                            !.ok = @ /\ q \in r.targets]
             m == [s EXCEPT !.stream = MarkIdle(@)]
             u == UpdateState(s, "Unknown")
             c == [u EXCEPT !.cleared = TRUE]
  <1>1. r \in RemoteStore
    BY DEF Settled
  <1>2. t \in Stream /\ t.state = r.stream.state /\ (IsOpen(r.stream) => ~t.idle)
        /\ (~IsOpen(r.stream) => t = r.stream)
    BY <1>1 DEF Write, Stream, RemoteStore
  <1> HIDE DEF t
  <1>3. /\ s \in RemoteStore
        /\ s.targets = r.targets \ {q} /\ s.sent = r.sent \ {q} /\ s.stream = t
        /\ s.enabled = r.enabled /\ s.online = r.online
        /\ s.failed = r.failed /\ s.timer = r.timer
        /\ s.cleared = r.cleared /\ s.ok
    <2>1. s = [r EXCEPT !.targets = r.targets \ {q}, !.sent = r.sent \ {q},
                        !.stream = t, !.ok = r.ok /\ q \in r.targets]
      BY <1>1 DEF RemoteStore, t
    <2> HIDE DEF s
    <2> QED  BY <1>1, <1>2, <2>1 DEF RemoteStore, Settled
  <1> HIDE DEF s
  <1>4. Settled(s)
    BY <1>2, <1>3 DEF Settled, IsOpen, IsStarted
  <1>5. MarkIdle(s.stream) \in Stream /\ MarkIdle(s.stream).state = s.stream.state
    BY <1>3 DEF MarkIdle, Stream, RemoteStore
  <1>6. /\ m \in RemoteStore
        /\ m.targets = s.targets /\ m.sent = s.sent /\ m.stream = MarkIdle(s.stream)
        /\ m.enabled = s.enabled /\ m.online = s.online
        /\ m.failed = s.failed /\ m.timer = s.timer
        /\ m.cleared = s.cleared /\ m.ok = s.ok
    BY <1>3, <1>5 DEF RemoteStore
  <1> HIDE DEF m
  <1>7. StopListening(r, q) =
            IF s.targets # {} THEN s
            ELSE IF IsOpen(s.stream) THEN m
            ELSE IF s.enabled THEN c ELSE s
    BY DEF StopListening, s, m
  <1>8. CASE s.targets = {} /\ IsOpen(s.stream)
    BY <1>3, <1>4, <1>5, <1>6, <1>7, <1>8 DEF Settled, Informed, IsOpen, IsStarted
  <1>9. CASE s.targets = {} /\ ~IsOpen(s.stream) /\ s.enabled
    <2>1. /\ u \in RemoteStore
          /\ u.enabled = s.enabled /\ u.targets = s.targets /\ u.sent = s.sent
          /\ u.stream = s.stream /\ u.ok = s.ok
          /\ u.online = "Unknown" /\ ~u.timer /\ ~u.failed
      BY <1>3, UpdateStateKeeps DEF OnlineState
    <2> HIDE DEF u
    <2>2. /\ c \in RemoteStore
          /\ c.enabled = u.enabled /\ c.targets = u.targets /\ c.sent = u.sent
          /\ c.stream = u.stream /\ c.ok = u.ok
          /\ c.online = u.online /\ ~c.timer /\ ~c.failed /\ c.cleared
      BY <2>1 DEF RemoteStore
    <2> HIDE DEF c
    <2> QED  BY <1>3, <1>4, <1>7, <1>9, <2>1, <2>2 DEF Settled, Informed
  <1>10. CASE s.targets # {} \/ (~IsOpen(s.stream) /\ ~s.enabled)
    BY <1>3, <1>4, <1>7, <1>10 DEF Informed
  <1> QED  BY <1>8, <1>9, <1>10

(* WatchStreamClosed(): a closed stream that is still needed is a failure and *)
(* is started again.  The timers' assertions hold when it is called.       *)
LEMMA WatchStreamClosedSettles ==
    ASSUME NEW r \in RemoteStore, NEW graceful \in BOOLEAN, r.ok,
           r.timer => r.online = "Unknown", r.failed => r.online = "Offline",
           graceful => ~r.enabled \/ r.targets = {}
    PROVE  LET u == WatchStreamClosed(r, graceful) IN
           /\ Settled(u)
           /\ u.targets = r.targets
           /\ u.enabled = r.enabled
           /\ ~r.enabled => ~u.timer /\ ~u.failed /\ ~IsStarted(u.stream)
  <1> DEFINE c == Close(r.stream, graceful)
             s == [r EXCEPT !.stream = Close(@, graceful), !.sent = {}]
             a == [s EXCEPT !.ok = @ /\ ~graceful]
             f == HandleWatchStreamFailure(a)
  <1>1. c \in Stream /\ c.state \in {"Initial", "Error"} /\ ~c.idle
    BY DEF Close, Stream, RemoteStore
  <1> HIDE DEF c
  <1>2. /\ s \in RemoteStore
        /\ s.targets = r.targets /\ s.sent = {} /\ s.stream = c
        /\ s.enabled = r.enabled /\ s.online = r.online
        /\ s.failed = r.failed /\ s.timer = r.timer
        /\ s.cleared = r.cleared /\ s.ok
    <2>1. s = [r EXCEPT !.stream = c, !.sent = {}]
      BY DEF RemoteStore, c
    <2> HIDE DEF s
    <2> QED  BY <1>1, <2>1 DEF RemoteStore
  <1> HIDE DEF s
  <1>3. WatchStreamClosed(r, graceful) =
            IF ShouldStartWatchStream(s) THEN StartWatchStream(f)
                                         ELSE UpdateState(s, "Unknown")
    BY DEF WatchStreamClosed, s
  <1>4. CASE ShouldStartWatchStream(s)
    <2>1. ~graceful /\ r.enabled
      BY <1>2, <1>4 DEF ShouldStartWatchStream
    <2>2. /\ a \in RemoteStore
          /\ a.targets = s.targets /\ a.stream = s.stream
          /\ a.enabled = s.enabled /\ a.online = s.online
          /\ a.failed = s.failed /\ a.timer = s.timer /\ a.ok
      BY <1>2, <2>1 DEF RemoteStore
    <2> HIDE DEF a
    <2>3. /\ f \in RemoteStore
          /\ f.targets = a.targets /\ f.stream = a.stream
          /\ f.enabled = a.enabled /\ f.ok /\ ~f.timer
          /\ f.failed => f.online = "Offline"
      <3>1. CASE a.online = "Online"
        <4>1. ~a.failed /\ ~a.timer
          BY <1>2, <2>2, <3>1
        <4>2. f = [a EXCEPT !.online = "Unknown", !.ok = @ /\ ~a.failed /\ ~a.timer]
          BY <3>1 DEF HandleWatchStreamFailure
        <4> QED  BY <2>2, <4>1, <4>2 DEF RemoteStore, OnlineState
      <3>2. CASE a.online # "Online"
        <4>1. f = [a EXCEPT !.failed = TRUE, !.timer = FALSE, !.online = "Offline",
                           !.cleared = FALSE]
          BY <3>2 DEF HandleWatchStreamFailure
        <4> QED  BY <2>2, <4>1 DEF RemoteStore, OnlineState
      <3> QED  BY <3>1, <3>2
    <2> HIDE DEF f
    <2>4. ~IsStarted(f.stream) /\ ~f.stream.idle /\ f.enabled
      BY <1>1, <1>2, <2>1, <2>2, <2>3 DEF IsStarted
    <2>5. Settled(StartWatchStream(f)) /\ StartWatchStream(f).targets = r.targets
      BY <1>2, <2>2, <2>3, <2>4, StartWatchStreamSettles
    <2>6. StartWatchStream(f).enabled = r.enabled
      <3> DEFINE h == [f EXCEPT !.stream = Start(@)]
      <3>1. h \in RemoteStore /\ h.enabled = f.enabled
        BY <2>3, <2>4 DEF RemoteStore, Start, Stream
      <3> HIDE DEF h
      <3>2. StartWatchStream(f) = HandleWatchStreamStart(h)
        BY DEF StartWatchStream, h
      <3>3. HandleWatchStreamStart(h).enabled = h.enabled
        BY <3>1 DEF HandleWatchStreamStart, RemoteStore
      <3> QED  BY <3>1, <3>2, <3>3, <2>1, <2>4
    <2> QED  BY <1>3, <1>4, <2>1, <2>5, <2>6
  <1>5. CASE ~ShouldStartWatchStream(s)
    <2> DEFINE u == UpdateState(s, "Unknown")
    <2>1. /\ u \in RemoteStore
          /\ u.enabled = s.enabled /\ u.targets = s.targets /\ u.sent = s.sent
          /\ u.stream = s.stream /\ u.ok = s.ok
          /\ u.online = "Unknown" /\ ~u.timer /\ ~u.failed
      BY <1>2, UpdateStateKeeps DEF OnlineState
    <2> HIDE DEF u
    <2>2. WatchStreamClosed(r, graceful) = u
      BY <1>3, <1>5 DEF u
    <2> QED  BY <1>1, <1>2, <1>5, <2>1, <2>2
             DEF Settled, IsOpen, IsStarted, ShouldStartWatchStream
  <1> QED  BY <1>4, <1>5

(* The network is disabled: the stream is closed, and nothing is started.   *)
LEMMA NetworkDisabledSettles ==
    ASSUME NEW r, Settled(r)
    PROVE  LET u == NetworkDisabled(r) IN
           /\ Settled(u)
           /\ u.targets = r.targets
           /\ ~u.enabled /\ ~IsStarted(u.stream)
  <1> DEFINE s == [r EXCEPT !.enabled = FALSE]
  <1>1. r \in RemoteStore
    BY DEF Settled
  <1>2. /\ s \in RemoteStore /\ ~s.enabled
        /\ s.targets = r.targets /\ s.stream = r.stream /\ s.sent = r.sent
        /\ s.online = r.online /\ s.failed = r.failed /\ s.timer = r.timer
        /\ s.cleared = r.cleared /\ s.ok = r.ok
    BY <1>1 DEF RemoteStore
  <1> HIDE DEF s
  <1>3. NetworkDisabled(r) =
            IF IsStarted(s.stream) THEN WatchStreamClosed(s, TRUE) ELSE s
    BY DEF NetworkDisabled, s
  <1>4. CASE IsStarted(s.stream)
    <2>1. s.ok /\ (s.timer => s.online = "Unknown") /\ (s.failed => s.online = "Offline")
      BY <1>2 DEF Settled
    <2> QED  BY <1>2, <1>3, <1>4, <2>1, WatchStreamClosedSettles
  <1>5. CASE ~IsStarted(s.stream)
    BY <1>2, <1>3, <1>5 DEF Settled
  <1> QED  BY <1>4, <1>5

(* The network is enabled: the stream is started if it is needed.          *)
LEMMA NetworkEnabledSettles ==
    ASSUME NEW r, Settled(r), ~r.enabled
    PROVE  LET u == NetworkEnabled(r) IN
           /\ Settled(u)
           /\ u.targets = r.targets
           /\ u.enabled
  <1> DEFINE s == [r EXCEPT !.enabled = TRUE]
  <1>1. r \in RemoteStore
    BY DEF Settled
  <1>2. /\ s \in RemoteStore /\ s.enabled
        /\ s.targets = r.targets /\ s.stream = r.stream /\ s.sent = r.sent
        /\ s.online = r.online /\ s.failed = r.failed /\ s.timer = r.timer
        /\ s.cleared = r.cleared /\ s.ok = r.ok
    BY <1>1 DEF RemoteStore
  <1> HIDE DEF s
  <1>3. NetworkEnabled(r) = IF ShouldStartWatchStream(s) THEN StartWatchStream(s)
                                                ELSE UpdateState(s, "Unknown")
    BY DEF NetworkEnabled, s
  <1>4. CASE ShouldStartWatchStream(s)
    <2>1. ~IsStarted(s.stream) /\ ~s.timer /\ ~s.stream.idle /\ s.ok
      BY <1>2, <1>4 DEF ShouldStartWatchStream, Settled, IsOpen, IsStarted
    <2>2. s.failed => s.online = "Offline"
      BY <1>2 DEF Settled
    <2> QED  BY <1>2, <1>3, <1>4, <2>1, <2>2, StartWatchStreamSettles
  <1>5. CASE ~ShouldStartWatchStream(s)
    <2>1. ~IsStarted(s.stream) /\ s.targets = {}
      BY <1>2, <1>5 DEF Settled, ShouldStartWatchStream
    <2>2. Settled(s)
      BY <1>2, <2>1 DEF Settled
    <2> QED  BY <1>2, <1>3, <1>5, <2>1, <2>2, UpdateStateKeeps, UpdateStateSettled
             DEF OnlineState
  <1> QED  BY <1>4, <1>5

(* RestartNetwork(): the stream is closed before its backoff is inhibited.   *)
LEMMA RestartNetworkSettles ==
    ASSUME NEW r, Settled(r)
    PROVE  LET u == RestartNetwork(r) IN
           /\ Settled(u)
           /\ u.targets = r.targets
           /\ u.enabled
  <1> DEFINE d == NetworkDisabled(r)
             s == UpdateState(d, "Unknown")
             i == [s EXCEPT !.stream = InhibitBackoff(@), !.ok = @ /\ ~IsStarted(s.stream)]
  <1>1. /\ Settled(d) /\ d \in RemoteStore /\ d.targets = r.targets
        /\ ~d.enabled /\ ~IsStarted(d.stream)
    BY NetworkDisabledSettles DEF Settled
  <1> HIDE DEF d
  <1>2. /\ s \in RemoteStore /\ ~s.enabled /\ s.targets = d.targets
        /\ s.stream = d.stream /\ s.ok /\ s.online = "Unknown"
        /\ ~s.timer /\ ~s.failed /\ ~IsStarted(s.stream) /\ ~s.stream.idle
    BY <1>1, UpdateStateKeeps DEF OnlineState, Settled, IsOpen, IsStarted
  <1> HIDE DEF s
  <1>3. /\ InhibitBackoff(s.stream) \in Stream
        /\ InhibitBackoff(s.stream).state = "Initial"
        /\ InhibitBackoff(s.stream).idle = s.stream.idle
    BY <1>2 DEF InhibitBackoff, Stream, RemoteStore
  <1>4. /\ i \in RemoteStore /\ ~i.enabled /\ i.targets = s.targets
        /\ i.stream = InhibitBackoff(s.stream) /\ i.ok /\ ~i.timer /\ ~i.failed
    BY <1>2, <1>3 DEF RemoteStore
  <1> HIDE DEF i
  <1>5. Settled(i)
    BY <1>2, <1>3, <1>4 DEF Settled, IsOpen, IsStarted
  <1>6. RestartNetwork(r) = NetworkEnabled(i)
    BY DEF RestartNetwork, s, d, i
  <1> QED  BY <1>1, <1>2, <1>4, <1>5, <1>6, NetworkEnabledSettles

-----------------------------------------------------------------------------
(* What the views and the listeners keep.                                  *)

(* A new snapshot never takes back a first event.                          *)
LEMMA NotifiedKeeps ==
    ASSUME NEW l, NEW k \in Listener, NEW snap \in Snapshot, NEW online
    PROVE  LET n == Notified(l, k, snap, online) IN
           /\ n \in Listener /\ n # NoListener
           /\ n.query = k.query
           /\ n.raised <=> k.raised \/ ShouldRaiseInitialEvent(l, snap, online)
  <1>1. Notified(l, k, snap, online) \in Listener
    BY DEF Notified, Listener
  <1>2. Notified(l, k, snap, online).query = k.query
    BY DEF Notified, Listener
  <1>3. Notified(l, k, snap, online).raised
            <=> k.raised \/ ShouldRaiseInitialEvent(l, snap, online)
    BY DEF Notified, Listener
  <1> QED  BY <1>1, <1>2, <1>3, AbsenceAssumption

(* Who is notified and still waits has a reason to wait.                   *)
LEMMA WaitingHasReason ==
    ASSUME NEW l \in Listeners, NEW snap \in Snapshot, NEW online,
           ~ShouldRaiseInitialEvent(l, snap, online)
    PROVE  /\ online # "Offline"
           /\ snap.fromCache
           /\ l \in Patient \/ ~snap.docs
  BY DEF ShouldRaiseInitialEvent

(* The snapshot a view produces says whether the view is current.          *)
LEMMA SnapshotOfKeeps ==
    ASSUME NEW v \in View, NEW cached \in BOOLEAN
    PROVE  LET n == [v EXCEPT !.last = SnapshotOf(v, cached)] IN
           /\ SnapshotOf(v, cached) \in Snapshot
           /\ n \in View /\ n # NoView
           /\ n.last = SnapshotOf(v, cached)
           /\ n.last.fromCache = ~n.current
           /\ n.current = v.current
  <1>1. SnapshotOf(v, cached) \in Snapshot /\ SnapshotOf(v, cached).fromCache = ~v.current
    BY DEF SnapshotOf, Snapshot, View
  <1> DEFINE n == [v EXCEPT !.last = SnapshotOf(v, cached)]
  <1>2. n \in View /\ n.last = SnapshotOf(v, cached) /\ n.current = v.current
    BY <1>1 DEF View
  <1> QED  BY <1>1, <1>2, AbsenceAssumption

(* Offline, no view is current.                                            *)
LEMMA ApplyOnlineStateChangeKeeps ==
    ASSUME NEW v \in View \cup {NoView}, NEW s,
           v # NoView => v.last.fromCache = ~v.current
    PROVE  LET n == ApplyOnlineStateChange(v, s) IN
           /\ n \in View \cup {NoView}
           /\ n = NoView <=> v = NoView
           /\ n # NoView => n.last.fromCache = ~n.current
           /\ n # NoView /\ s = "Offline" => n.last.fromCache
  <1> DEFINE snap == SnapshotOf([v EXCEPT !.current = FALSE], FALSE)
             w == [v EXCEPT !.current = FALSE, !.last = snap]
  <1>1. CASE v # NoView /\ s = "Offline" /\ v.current
    <2>1. v \in View
      BY <1>1
    <2>2. snap \in Snapshot /\ snap.fromCache
      BY <2>1 DEF SnapshotOf, Snapshot, View
    <2> HIDE DEF snap
    <2>3. w \in View /\ ~w.current /\ w.last = snap
      BY <2>1, <2>2 DEF View
    <2> HIDE DEF w
    <2>4. ApplyOnlineStateChange(v, s) = w
      BY <1>1 DEF ApplyOnlineStateChange, w, snap
    <2>5. w.last.fromCache = ~w.current
      BY <2>2, <2>3 DEF Snapshot, View
    <2> QED  BY <1>1, <2>2, <2>3, <2>4, <2>5, AbsenceAssumption
  <1>2. CASE ~(v # NoView /\ s = "Offline" /\ v.current)
    BY <1>2 DEF ApplyOnlineStateChange
  <1> QED  BY <1>1, <1>2

(* A listener has a view, whose last snapshot it has.                      *)
LEMMA ListenerHasView ==
    ASSUME TypeOK, MapsAgree, NEW l \in Listeners, listeners[l] # NoListener
    PROVE  /\ listeners[l] \in Listener
           /\ listeners[l].query \in Queries
           /\ views[listeners[l].query] \in View
           /\ views[listeners[l].query].last \in Snapshot
  <1>1. listeners[l] \in Listener /\ listeners[l].query \in Queries
    BY DEF TypeOK, Listener
  <1>2. l \in Of(listeners[l].query)
    BY DEF Of
  <1>3. views[listeners[l].query] \in View
    BY <1>1, <1>2 DEF TypeOK, MapsAgree
  <1> QED  BY <1>1, <1>3 DEF View

(* The online state is broadcast.  Views and listeners stay; offline, all     *)
(* views are from the cache and everyone has had an event.                 *)
LEMMA BroadcastKeeps ==
    ASSUME ListenInv, NEW s, HandleOnlineStateChange(s)
    PROVE  /\ views' \in [Queries -> View \cup {NoView}]
           /\ listeners' \in [Listeners -> Listener \cup {NoListener}]
           /\ \A q \in Queries : views'[q] = NoView <=> views[q] = NoView
           /\ \A l \in Listeners :
                /\ listeners'[l] = NoListener <=> listeners[l] = NoListener
                /\ listeners'[l] # NoListener =>
                     /\ listeners'[l].query = listeners[l].query
                     /\ listeners[l].raised => listeners'[l].raised
                     /\ s = "Offline" => listeners'[l].raised
           /\ SnapshotsFresh'
           /\ s = "Offline" =>
                \A q \in Queries : views'[q] # NoView => views'[q].last.fromCache
           /\ s # "Offline" => views' = views
  <1>1. ASSUME NEW q \in Queries
        PROVE  /\ views'[q] \in View \cup {NoView}
               /\ views'[q] = NoView <=> views[q] = NoView
               /\ views'[q] # NoView => views'[q].last.fromCache = ~views'[q].current
               /\ views'[q] # NoView /\ s = "Offline" => views'[q].last.fromCache
    <2>1. views'[q] = ApplyOnlineStateChange(views[q], s)
      BY DEF HandleOnlineStateChange
    <2>2. /\ views[q] \in View \cup {NoView}
          /\ views[q] # NoView => views[q].last.fromCache = ~views[q].current
      BY DEF ListenInv, TypeOK, SnapshotsFresh
    <2> QED  BY <2>1, <2>2, ApplyOnlineStateChangeKeeps
  <1>2. views' = [q \in Queries |-> views'[q]]
    BY DEF HandleOnlineStateChange
  <1>3. views' \in [Queries -> View \cup {NoView}]
    BY <1>1, <1>2
  <1>4. ASSUME NEW l \in Listeners, listeners[l] # NoListener
        PROVE  /\ listeners'[l] \in Listener /\ listeners'[l] # NoListener
               /\ listeners'[l].query = listeners[l].query
               /\ listeners[l].raised => listeners'[l].raised
               /\ s = "Offline" => listeners'[l].raised
    <2> DEFINE snap == views'[listeners[l].query].last
               shown == Notified(l, listeners[l], snap, rs.online)
    <2>1. /\ listeners[l] \in Listener
          /\ listeners[l].query \in Queries
          /\ views[listeners[l].query] \in View
      BY <1>4, ListenerHasView DEF ListenInv
    <2>2. views'[listeners[l].query] \in View
      BY <1>1, <2>1, AbsenceAssumption
    <2>3. snap \in Snapshot
      BY <2>2 DEF View
    <2>4. listeners'[l] = Notified(l, shown, snap, s)
      BY <1>4 DEF HandleOnlineStateChange
    <2> HIDE DEF snap
    <2>5. /\ shown \in Listener
          /\ shown.query = listeners[l].query
          /\ listeners[l].raised => shown.raised
      BY <2>1, <2>3, NotifiedKeeps
    <2> HIDE DEF shown
    <2>6. /\ listeners'[l] \in Listener /\ listeners'[l] # NoListener
          /\ listeners'[l].query = shown.query
          /\ listeners'[l].raised <=>
                shown.raised \/ ShouldRaiseInitialEvent(l, snap, s)
      BY <2>3, <2>4, <2>5, NotifiedKeeps
    <2>7. s = "Offline" => ShouldRaiseInitialEvent(l, snap, s)
      BY DEF ShouldRaiseInitialEvent
    <2> QED  BY <2>5, <2>6, <2>7
  <1>5. ASSUME NEW l \in Listeners, listeners[l] = NoListener
        PROVE  listeners'[l] = NoListener
    BY <1>5 DEF HandleOnlineStateChange
  <1>6. listeners' = [l \in Listeners |-> listeners'[l]]
    BY DEF HandleOnlineStateChange
  <1>7. listeners' \in [Listeners -> Listener \cup {NoListener}]
    BY <1>4, <1>5, <1>6
  <1>8. SnapshotsFresh'
    BY <1>1 DEF SnapshotsFresh
  <1>9. s # "Offline" => views' = views
    BY DEF HandleOnlineStateChange, ApplyOnlineStateChange, ListenInv, TypeOK
  <1> QED  BY <1>1, <1>3, <1>4, <1>5, <1>7, <1>8, <1>9

-----------------------------------------------------------------------------
(* A task of the RemoteStore that keeps the targets keeps everything.      *)
LEMMA RemoteStepPreserves ==
    ASSUME ListenInv, NEW r, Settled(r), Informed(r), r.targets = rs.targets,
           RemoteStep(r), cache' = cache, silent' = silent,
           restarts' \in 0..MaxRestarts
    PROVE  ListenInv'
  <1>1. rs' = r /\ r \in RemoteStore
    BY DEF RemoteStep, Settled
  <1>2. Settled(rs)' /\ Informed(rs)'
    BY <1>1
  <1>3. IsOpen(rs'.stream) => rs'.sent = rs'.targets
    BY <1>1 DEF Settled
  <1>4. CASE r.online = rs.online
    <2>1. views' = views /\ listeners' = listeners
      BY <1>4 DEF RemoteStep
    <2>2. TypeOK'
      BY <1>1, <2>1 DEF ListenInv, TypeOK
    <2>3. MapsAgree'
      BY <1>1, <1>3, <2>1 DEF ListenInv, MapsAgree, Of
    <2>4. SnapshotsFresh' /\ OfflineIsNotSynced'
      BY <1>1, <1>4, <2>1 DEF ListenInv, SnapshotsFresh, OfflineIsNotSynced
    <2>5. WaitingIsDue'
      BY <1>1, <1>4, <2>1 DEF ListenInv, WaitingIsDue, Of
    <2> QED  BY <1>2, <2>2, <2>3, <2>4, <2>5 DEF ListenInv
  <1>5. CASE r.online # rs.online
    <2>1. HandleOnlineStateChange(r.online)
      BY <1>5 DEF RemoteStep
    <2>2. /\ views' \in [Queries -> View \cup {NoView}]
          /\ listeners' \in [Listeners -> Listener \cup {NoListener}]
          /\ \A q \in Queries : views'[q] = NoView <=> views[q] = NoView
          /\ \A l \in Listeners :
                /\ listeners'[l] = NoListener <=> listeners[l] = NoListener
                /\ listeners'[l] # NoListener =>
                     /\ listeners'[l].query = listeners[l].query
                     /\ listeners[l].raised => listeners'[l].raised
                     /\ r.online = "Offline" => listeners'[l].raised
          /\ SnapshotsFresh'
          /\ r.online = "Offline" =>
                \A q \in Queries : views'[q] # NoView => views'[q].last.fromCache
          /\ r.online # "Offline" => views' = views
      BY <2>1, BroadcastKeeps
    <2>3. TypeOK'
      BY <1>1, <2>2 DEF ListenInv, TypeOK
    <2>4. \A q \in Queries : Of(q)' = Of(q)
      BY <2>2 DEF Of
    <2>5. MapsAgree'
      BY <1>1, <1>3, <2>2, <2>4 DEF ListenInv, MapsAgree
    <2>6. OfflineIsNotSynced'
      BY <1>1, <2>2 DEF OfflineIsNotSynced
    <2>7. ASSUME NEW q \in Queries, NEW l \in Of(q)', ~listeners'[l].raised
          PROVE  /\ rs'.online # "Offline"
                 /\ views'[q].last.fromCache
                 /\ l \in Patient \/ ~views'[q].last.docs
      <3>1. l \in Of(q) /\ l \in Listeners /\ listeners'[l] # NoListener
        BY <2>4, <2>7 DEF Of
      <3>2. ~listeners[l].raised /\ r.online # "Offline"
        BY <2>2, <2>7, <3>1
      <3> QED  BY <1>1, <2>2, <3>1, <3>2 DEF ListenInv, WaitingIsDue
    <2>8. WaitingIsDue'
      BY <2>7 DEF WaitingIsDue
    <2> QED  BY <1>2, <2>2, <2>3, <2>5, <2>6, <2>8 DEF ListenInv
  <1> QED  BY <1>4, <1>5

(* Changes of the stream alone: it opens, it waits, an answer is dropped.   *)
LEMMA StreamOpensSettles ==
    ASSUME NEW r, Settled(r), r.stream.state = "Starting"
    PROVE  LET u == [r EXCEPT !.stream = ResumeStart(@), !.sent = r.targets] IN
           Settled(u) /\ u.targets = r.targets /\ (Informed(r) => Informed(u))
  <1> DEFINE u == [r EXCEPT !.stream = ResumeStart(@), !.sent = r.targets]
  <1>1. r \in RemoteStore /\ r.enabled
    BY DEF Settled, IsStarted
  <1>2. /\ ResumeStart(r.stream) \in Stream
        /\ ResumeStart(r.stream).state = "Open" /\ ~ResumeStart(r.stream).idle
    BY <1>1 DEF ResumeStart, Stream, RemoteStore, Settled, IsOpen
  <1>3. /\ u \in RemoteStore /\ u.stream = ResumeStart(r.stream)
        /\ u.sent = r.targets /\ u.targets = r.targets /\ u.enabled = r.enabled
        /\ u.online = r.online /\ u.failed = r.failed /\ u.timer = r.timer
        /\ u.cleared = r.cleared /\ u.ok = r.ok
    BY <1>1, <1>2 DEF RemoteStore
  <1> HIDE DEF u
  <1>4. Settled(u)
    BY <1>1, <1>2, <1>3 DEF Settled, IsOpen, IsStarted
  <1> QED  BY <1>3, <1>4 DEF u, Informed

(* The backoff is over, and the stream asks for credentials.               *)
LEMMA BackoffElapsedSettles ==
    ASSUME NEW r, Settled(r), r.stream.state = "Backoff"
    PROVE  LET u == [r EXCEPT !.stream = BackoffElapsed(@)] IN
           Settled(u) /\ u.targets = r.targets /\ (Informed(r) => Informed(u))
  <1> DEFINE u == [r EXCEPT !.stream = BackoffElapsed(@)]
  <1>1. r \in RemoteStore /\ r.enabled
    BY DEF Settled, IsStarted
  <1>2. /\ BackoffElapsed(r.stream) \in Stream
        /\ BackoffElapsed(r.stream).state = "Starting" /\ ~BackoffElapsed(r.stream).idle
    BY <1>1 DEF BackoffElapsed, Stream, RemoteStore, Settled, IsOpen
  <1>3. /\ u \in RemoteStore /\ u.stream = BackoffElapsed(r.stream)
        /\ u.targets = r.targets /\ u.enabled = r.enabled
        /\ u.online = r.online /\ u.failed = r.failed /\ u.timer = r.timer
        /\ u.cleared = r.cleared /\ u.ok = r.ok
    BY <1>1, <1>2 DEF RemoteStore
  <1> HIDE DEF u
  <1>4. Settled(u)
    BY <1>1, <1>2, <1>3 DEF Settled, IsOpen, IsStarted
  <1> QED  BY <1>3, <1>4 DEF u, Informed

(* The answer to an old request is dropped.                                *)
LEMMA StaleSettles ==
    ASSUME NEW r, Settled(r)
    PROVE  LET u == [r EXCEPT !.stream.stale = FALSE] IN
           Settled(u) /\ u.targets = r.targets /\ (Informed(r) => Informed(u))
  <1> DEFINE t == [r.stream EXCEPT !.stale = FALSE]
             u == [r EXCEPT !.stream = t]
  <1>1. r \in RemoteStore
    BY DEF Settled
  <1>2. t \in Stream /\ t.state = r.stream.state /\ t.idle = r.stream.idle
    BY <1>1 DEF Stream, RemoteStore
  <1> HIDE DEF t
  <1>3. /\ u \in RemoteStore /\ u.stream = t
        /\ u.targets = r.targets /\ u.enabled = r.enabled /\ u.sent = r.sent
        /\ u.online = r.online /\ u.failed = r.failed /\ u.timer = r.timer
        /\ u.cleared = r.cleared /\ u.ok = r.ok
    BY <1>1, <1>2 DEF RemoteStore
  <1>4. u = [r EXCEPT !.stream.stale = FALSE]
    BY <1>1 DEF t, RemoteStore, Stream
  <1> HIDE DEF u
  <1>5. Settled(u)
    BY <1>1, <1>2, <1>3 DEF Settled, IsOpen, IsStarted
  <1> QED  BY <1>3, <1>4, <1>5 DEF Informed

(* The ten seconds are over before anything was heard: offline.            *)
LEMMA OnlineTimerSettles ==
    ASSUME NEW r, Settled(r), r.timer
    PROVE  LET u == [r EXCEPT !.timer = FALSE, !.online = "Offline",
                              !.ok = @ /\ r.online = "Unknown"] IN
           Settled(u) /\ u.targets = r.targets /\ (Informed(r) => Informed(u))
  <1> DEFINE u == [r EXCEPT !.timer = FALSE, !.online = "Offline",
                            !.ok = @ /\ r.online = "Unknown"]
  <1>1. r \in RemoteStore /\ r.ok /\ r.online = "Unknown"
    BY DEF Settled
  <1>2. /\ u \in RemoteStore /\ u.stream = r.stream
        /\ u.targets = r.targets /\ u.enabled = r.enabled /\ u.sent = r.sent
        /\ u.online = "Offline" /\ ~u.timer /\ u.ok
    BY <1>1 DEF RemoteStore, OnlineState
  <1> HIDE DEF u
  <1>3. Settled(u)
    BY <1>1, <1>2 DEF Settled, IsOpen, IsStarted
  <1> QED  BY <1>2, <1>3 DEF u, Informed

(* The tasks of the stream, of its timers and of the network.              *)
LEMMA NetworkStepPreserves ==
    ASSUME ListenInv,
           \/ WatchMessage
           \/ CredentialsArrive \/ CredentialsFail \/ StaleCredentialsArrive
           \/ BackoffTimer \/ IdleTimer \/ OnlineTimer
           \/ ConnectionLost \/ DisableNetwork \/ EnableNetwork \/ Restart
    PROVE  ListenInv'
  <1>1. /\ Settled(rs) /\ Informed(rs) /\ rs \in RemoteStore /\ rs.ok
        /\ IsStarted(rs.stream) => rs.enabled
        /\ rs.timer => rs.online = "Unknown"
        /\ rs.failed => rs.online = "Offline"
        /\ rs.stream.idle => rs.targets = {}
        /\ restarts \in 0..MaxRestarts
    BY DEF ListenInv, Settled, TypeOK
  <1>2. \E r : /\ Settled(r) /\ Informed(r)
               /\ r.targets = rs.targets /\ RemoteStep(r)
               /\ cache' = cache /\ silent' = silent
               /\ restarts' \in 0..MaxRestarts
    <2>1. CASE WatchMessage
      <3> DEFINE u == UpdateState(rs, "Online")
      <3>1. Settled(u) /\ u.targets = rs.targets /\ u.enabled = rs.enabled
        BY <1>1, UpdateStateSettled, UpdateStateKeeps DEF OnlineState
      <3>2. rs.enabled
        BY <1>1, <2>1 DEF WatchMessage, IsOpen, IsStarted
      <3> HIDE DEF u
      <3> QED  BY <1>1, <2>1, <3>1, <3>2 DEF WatchMessage, Informed, u
    <2>2. CASE CredentialsArrive
      BY <1>1, <2>2, StreamOpensSettles DEF CredentialsArrive, StreamStep, Informed
    <2>3. CASE CredentialsFail \/ ConnectionLost
      <3>1. rs.enabled
        BY <1>1, <2>3 DEF CredentialsFail, ConnectionLost, IsOpen, IsStarted
      <3> QED  BY <1>1, <2>3, <3>1, WatchStreamClosedSettles
               DEF CredentialsFail, ConnectionLost, StreamStep, Informed
    <2>4. CASE StaleCredentialsArrive
      BY <1>1, <2>4, StaleSettles DEF StaleCredentialsArrive, StreamStep, Informed
    <2>5. CASE BackoffTimer
      BY <1>1, <2>5, BackoffElapsedSettles DEF BackoffTimer, StreamStep, Informed
    <2>6. CASE IdleTimer
      <3>1. rs.enabled
        BY <1>1, <2>6 DEF IdleTimer, Settled, IsOpen, IsStarted
      <3> QED  BY <1>1, <2>6, <3>1, WatchStreamClosedSettles
               DEF IdleTimer, StreamStep, Informed
    <2>7. CASE OnlineTimer
      BY <1>1, <2>7, OnlineTimerSettles DEF OnlineTimer, StreamStep, Informed
    <2>8. CASE DisableNetwork
      <3> DEFINE d == NetworkDisabled(rs)
      <3>1. Settled(d) /\ d.targets = rs.targets /\ d \in RemoteStore
        BY <1>1, NetworkDisabledSettles DEF Settled
      <3> HIDE DEF d
      <3>2. Settled(UpdateState(d, "Offline"))
            /\ UpdateState(d, "Offline").targets = rs.targets
            /\ UpdateState(d, "Offline").online = "Offline"
        BY <3>1, UpdateStateSettled, UpdateStateKeeps DEF OnlineState
      <3> QED  BY <1>1, <2>8, <3>2 DEF DisableNetwork, StreamStep, Informed, d
    <2>9. CASE EnableNetwork
      BY <1>1, <2>9, NetworkEnabledSettles DEF EnableNetwork, StreamStep, Informed
    <2>10. CASE Restart
      <3>1. restarts' \in 0..MaxRestarts
        BY <1>1, <2>10, ListenPathAssumption DEF Restart
      <3> QED  BY <1>1, <2>10, <3>1, RestartNetworkSettles DEF Restart, Informed
    <2> QED  BY <2>1, <2>2, <2>3, <2>4, <2>5, <2>6, <2>7, <2>8, <2>9, <2>10
  <1> QED  BY <1>2, RemoteStepPreserves

-----------------------------------------------------------------------------
(* A new snapshot of a view goes to all of its listeners; without one, views *)
(* and listeners stay.                                                     *)
LEMMA ViewChangedPreserves ==
    ASSUME ListenInv, NEW q \in Queries, views[q] # NoView, NEW v \in View,
           NEW token \in BOOLEAN, ViewChanged(q, v, token),
           Settled(rs)', Informed(rs)', rs'.targets = rs.targets,
           rs'.online = "Offline" => rs.online = "Offline" /\ ~v.current,
           cache' \in [Queries -> Cache], silent' = silent, restarts' = restarts
    PROVE  ListenInv'
  <1>a. CASE views' = views /\ listeners' = listeners
    <2>1. TypeOK'
      BY <1>a DEF ListenInv, TypeOK, Settled
    <2>2. MapsAgree'
      BY <1>a DEF ListenInv, MapsAgree, Of, Settled
    <2>3. SnapshotsFresh' /\ OfflineIsNotSynced'
      BY <1>a DEF ListenInv, SnapshotsFresh, OfflineIsNotSynced
    <2>4. WaitingIsDue'
      BY <1>a DEF ListenInv, WaitingIsDue, Of
    <2> QED  BY <2>1, <2>2, <2>3, <2>4 DEF ListenInv
  <1>b. SUFFICES ASSUME ~(views' = views /\ listeners' = listeners)
                 PROVE  ListenInv'
    BY <1>a
  <1> DEFINE snap == SnapshotOf(v, token)
             n == [v EXCEPT !.last = snap]
  <1>1. /\ snap \in Snapshot /\ n \in View /\ n # NoView /\ n.last = snap
        /\ n.last.fromCache = ~n.current /\ n.current = v.current
    BY SnapshotOfKeeps
  <1>2. views' = [views EXCEPT ![q] = n]
    BY <1>b DEF ViewChanged
  <1>3. listeners' = [l \in Listeners |->
            IF l \in Of(q) THEN Notified(l, listeners[l], snap, rs'.online)
                           ELSE listeners[l]]
    BY <1>b DEF ViewChanged, OnViewSnapshot
  <1> HIDE DEF snap, n
  <1>4. /\ views' \in [Queries -> View \cup {NoView}]
        /\ views'[q] = n
        /\ \A p \in Queries : p # q => views'[p] = views[p]
    BY <1>1, <1>2 DEF ListenInv, TypeOK
  <1>5. ASSUME NEW l \in Listeners, l \in Of(q)
        PROVE  /\ listeners'[l] \in Listener /\ listeners'[l] # NoListener
               /\ listeners'[l].query = listeners[l].query
               /\ ~listeners'[l].raised =>
                    ~ShouldRaiseInitialEvent(l, snap, rs'.online)
    <2>1. listeners[l] \in Listener
      BY <1>5 DEF Of, ListenInv, TypeOK
    <2>2. listeners'[l] = Notified(l, listeners[l], snap, rs'.online)
      BY <1>3, <1>5
    <2> QED  BY <1>1, <2>1, <2>2, NotifiedKeeps
  <1>6. ASSUME NEW l \in Listeners, l \notin Of(q)
        PROVE  listeners'[l] = listeners[l]
    BY <1>3, <1>6
  <1>7. listeners' \in [Listeners -> Listener \cup {NoListener}]
    <2>1. \A l \in Listeners : listeners'[l] \in Listener \cup {NoListener}
      BY <1>5, <1>6 DEF ListenInv, TypeOK
    <2>2. listeners' = [l \in Listeners |-> listeners'[l]]
      BY <1>3
    <2> QED  BY <2>1, <2>2
  <1>8. \A p \in Queries : Of(p)' = Of(p)
    BY <1>5, <1>6 DEF Of
  <1>9. TypeOK'
    BY <1>4, <1>7 DEF ListenInv, TypeOK, Settled
  <1>10. \A p \in Queries : views'[p] = NoView <=> views[p] = NoView
    BY <1>1, <1>4
  <1>11. MapsAgree'
    BY <1>8, <1>10 DEF ListenInv, MapsAgree, Settled
  <1>12. SnapshotsFresh'
    BY <1>1, <1>4 DEF ListenInv, SnapshotsFresh
  <1>13. OfflineIsNotSynced'
    BY <1>1, <1>4 DEF ListenInv, OfflineIsNotSynced, View
  <1>14. ASSUME NEW p \in Queries, NEW l \in Of(p)', ~listeners'[l].raised
         PROVE  /\ rs'.online # "Offline"
                /\ views'[p].last.fromCache
                /\ l \in Patient \/ ~views'[p].last.docs
    <2>1. l \in Of(p) /\ l \in Listeners
      BY <1>8, <1>14 DEF Of
    <2>2. CASE p = q
      BY <1>1, <1>4, <1>5, <1>14, <2>1, <2>2, WaitingHasReason
    <2>3. CASE p # q
      <3>1. l \notin Of(q)
        BY <2>1, <2>3 DEF Of
      <3>2. listeners'[l] = listeners[l] /\ views'[p] = views[p]
        BY <1>4, <1>6, <2>1, <2>3, <3>1
      <3> QED  BY <1>14, <2>1, <3>2 DEF ListenInv, WaitingIsDue
    <2> QED  BY <2>2, <2>3
  <1>15. WaitingIsDue'
    BY <1>14 DEF WaitingIsDue
  <1> QED  BY <1>9, <1>11, <1>12, <1>13, <1>15 DEF ListenInv

(* A snapshot of the backend brings the client online.                     *)
LEMMA WatchSnapshotPreserves ==
    ASSUME ListenInv, NEW q \in Queries, NEW docs \in BOOLEAN,
           NEW current \in BOOLEAN, WatchSnapshot(q, docs, current)
    PROVE  ListenInv'
  <1> DEFINE v == [views[q] EXCEPT !.current = current, !.docs = docs]
  <1>1. Settled(rs) /\ rs \in RemoteStore
    BY DEF ListenInv, Settled
  <1>2. rs' = UpdateState(rs, "Online")
    BY DEF WatchSnapshot
  <1>3. /\ Settled(rs)' /\ rs'.targets = rs.targets /\ rs'.online = "Online"
        /\ rs'.enabled = rs.enabled
    BY <1>1, <1>2, UpdateStateSettled, UpdateStateKeeps DEF OnlineState
  <1>a. Informed(rs)'
    BY <1>1, <1>3 DEF WatchSnapshot, Settled, Informed, IsOpen, IsStarted
  <1>4. views[q] # NoView /\ views[q] \in View
    BY DEF WatchSnapshot, ListenInv, MapsAgree, TypeOK
  <1>5. v \in View
    BY <1>4 DEF View
  <1>6. cache' \in [Queries -> Cache] /\ silent' = silent /\ restarts' = restarts
    BY DEF WatchSnapshot, ListenInv, TypeOK, Cache
  <1>7. ViewChanged(q, v, TRUE)
    BY DEF WatchSnapshot
  <1> HIDE DEF v
  <1> QED  BY <1>3, <1>a, <1>4, <1>5, <1>6, <1>7, ViewChangedPreserves

(* A step that neither views nor listeners see.                            *)
LEMMA UnseenPreserves ==
    ASSUME ListenInv, UNCHANGED <<rs, views, listeners, restarts>>,
           cache' \in [Queries -> Cache], silent' \in BOOLEAN
    PROVE  ListenInv'
  <1>1. TypeOK' /\ Settled(rs)' /\ Informed(rs)'
    BY DEF ListenInv, TypeOK
  <1>2. MapsAgree'
    BY DEF ListenInv, MapsAgree, Of
  <1>3. SnapshotsFresh' /\ OfflineIsNotSynced'
    BY DEF ListenInv, SnapshotsFresh, OfflineIsNotSynced
  <1>4. WaitingIsDue'
    BY DEF ListenInv, WaitingIsDue, Of
  <1> QED  BY <1>1, <1>2, <1>3, <1>4 DEF ListenInv

(* A local write changes a view, if there is one, but not how current it is. *)
LEMMA LocalChangePreserves ==
    ASSUME ListenInv, NEW q \in Queries, LocalChange(q)
    PROVE  ListenInv'
  <1>1. cache' \in [Queries -> Cache]
    <2>1. \A c \in Cache : [c EXCEPT !.docs = ~@] \in Cache
      BY DEF Cache
    <2>2. cache' = [cache EXCEPT ![q] = [cache[q] EXCEPT !.docs = ~@]]
      BY DEF LocalChange, ListenInv, TypeOK
    <2> QED  BY <2>1, <2>2 DEF ListenInv, TypeOK
  <1>2. /\ rs' = rs /\ silent' = silent /\ restarts' = restarts
        /\ silent' \in BOOLEAN
    BY DEF LocalChange, ListenInv, TypeOK
  <1>3. CASE views[q] = NoView
    <2>1. views' = views /\ listeners' = listeners
      BY <1>3 DEF LocalChange
    <2> QED  BY <1>1, <1>2, <2>1, UnseenPreserves
  <1>4. CASE views[q] # NoView
    <2> DEFINE v == [views[q] EXCEPT !.docs = ~@]
    <2>1. views[q] \in View
      BY <1>4 DEF ListenInv, TypeOK
    <2>2. v \in View /\ v.current = views[q].current
      BY <2>1 DEF View
    <2>3. ViewChanged(q, v, FALSE)
      BY <1>4 DEF LocalChange
    <2> HIDE DEF v
    <2>4. rs'.online = "Offline" => ~v.current
      BY <1>2, <1>4, <2>1, <2>2 DEF ListenInv, OfflineIsNotSynced, SnapshotsFresh
    <2>5. Settled(rs)' /\ Informed(rs)'
      BY <1>2 DEF ListenInv
    <2> QED  BY <1>1, <1>2, <1>4, <2>2, <2>3, <2>4, <2>5, ViewChangedPreserves
  <1> QED  BY <1>3, <1>4

-----------------------------------------------------------------------------
(* The first listener of a query brings the view and the target.           *)
LEMMA AddFirstListenerPreserves ==
    ASSUME ListenInv, NEW l \in Listeners, NEW q \in Queries, AddFirstListener(l, q)
    PROVE  ListenInv'
  <1> DEFINE snap == [fromCache |-> TRUE, docs |-> cache[q].docs,
                      cachedResults |-> cache[q].token]
             v == [current |-> FALSE, docs |-> cache[q].docs, last |-> snap]
             new == [query |-> q, raised |-> FALSE]
             n == Notified(l, new, snap, rs'.online)
  <1>1. rs' = Listen(rs, q)
    BY DEF AddFirstListener
  <1>2. /\ Settled(rs)' /\ Informed(rs)' /\ rs'.targets = rs.targets \cup {q}
        /\ rs'.online = "Offline" => rs.online = "Offline"
    BY <1>1, ListenSettles DEF ListenInv
  <1>3. /\ listeners[l] = NoListener
        /\ views[q] = NoView
        /\ views' = [views EXCEPT ![q] = v]
        /\ listeners' = [listeners EXCEPT ![l] = n]
        /\ UNCHANGED <<cache, silent, restarts>>
    BY <1>1 DEF AddFirstListener
  <1>4. cache[q].docs \in BOOLEAN /\ cache[q].token \in BOOLEAN
    BY DEF ListenInv, TypeOK, Cache
  <1>5. snap \in Snapshot /\ snap.fromCache = TRUE
    BY <1>4 DEF Snapshot
  <1>6. v \in View /\ v.last = snap /\ v.current = FALSE /\ v # NoView
    <2> HIDE DEF snap
    <2>1. v \in View /\ v.last = snap /\ v.current = FALSE
      BY <1>4, <1>5 DEF View
    <2> HIDE DEF v
    <2> QED  BY <2>1, AbsenceAssumption
  <1>7. new \in Listener /\ new.query = q
    BY DEF Listener
  <1> HIDE DEF snap, v, new
  <1>8. /\ n \in Listener /\ n # NoListener /\ n.query = q
        /\ ~n.raised => ~ShouldRaiseInitialEvent(l, snap, rs'.online)
    BY <1>5, <1>7, NotifiedKeeps
  <1> HIDE DEF n
  <1>9. TypeOK'
    BY <1>2, <1>3, <1>6, <1>8 DEF ListenInv, TypeOK, Settled
  <1>10. /\ views'[q] = v /\ listeners'[l] = n
         /\ \A p \in Queries : p # q => views'[p] = views[p]
         /\ \A k \in Listeners : k # l => listeners'[k] = listeners[k]
    BY <1>3 DEF ListenInv, TypeOK
  <1>11. Of(q)' = {l}
    <2>1. Of(q) = {}
      BY <1>3 DEF ListenInv, MapsAgree
    <2> QED  BY <1>8, <1>10, <2>1 DEF Of
  <1>12. \A p \in Queries : p # q => Of(p)' = Of(p)
    BY <1>3, <1>8, <1>10 DEF Of
  <1>13. MapsAgree'
    <2>1. rs'.targets = {p \in Queries : views'[p] # NoView}
      BY <1>2, <1>6, <1>10 DEF ListenInv, MapsAgree
    <2>2. IsOpen(rs'.stream) => rs'.sent = rs'.targets
      BY <1>2 DEF Settled
    <2>3. \A p \in Queries : views'[p] # NoView <=> Of(p)' # {}
      BY <1>6, <1>10, <1>11, <1>12 DEF ListenInv, MapsAgree
    <2> QED  BY <2>1, <2>2, <2>3 DEF MapsAgree
  <1>14. SnapshotsFresh' /\ OfflineIsNotSynced'
    BY <1>2, <1>5, <1>6, <1>10 DEF ListenInv, SnapshotsFresh, OfflineIsNotSynced
  <1>15. ASSUME NEW p \in Queries, NEW k \in Of(p)', ~listeners'[k].raised
         PROVE  /\ rs'.online # "Offline"
                /\ views'[p].last.fromCache
                /\ k \in Patient \/ ~views'[p].last.docs
    <2>1. CASE p = q
      <3>1. k = l
        BY <1>11, <1>15, <2>1
      <3> QED  BY <1>5, <1>6, <1>8, <1>10, <1>15, <2>1, <3>1, WaitingHasReason
    <2>2. CASE p # q
      <3>1. k \in Of(p) /\ k \in Listeners /\ k # l
        BY <1>3, <1>12, <1>15, <2>2 DEF Of
      <3> QED  BY <1>2, <1>10, <1>15, <2>2, <3>1 DEF ListenInv, WaitingIsDue
    <2> QED  BY <2>1, <2>2
  <1>16. WaitingIsDue'
    BY <1>15 DEF WaitingIsDue
  <1> QED  BY <1>2, <1>9, <1>13, <1>14, <1>16 DEF ListenInv

(* A further listener gets the last snapshot of the view.                  *)
LEMMA AddFurtherListenerPreserves ==
    ASSUME ListenInv, NEW l \in Listeners, NEW q \in Queries,
           AddFurtherListener(l, q)
    PROVE  ListenInv'
  <1> DEFINE new == [query |-> q, raised |-> FALSE]
             n == Notified(l, new, views[q].last, rs.online)
  <1>1. /\ listeners[l] = NoListener
        /\ views[q] # NoView
        /\ listeners' = [listeners EXCEPT ![l] = n]
        /\ UNCHANGED <<rs, views, cache, silent, restarts>>
    BY DEF AddFurtherListener
  <1>2. views[q] \in View /\ views[q].last \in Snapshot
    BY <1>1 DEF ListenInv, TypeOK, View
  <1>3. new \in Listener /\ new.query = q
    BY DEF Listener
  <1> HIDE DEF new
  <1>4. /\ n \in Listener /\ n # NoListener /\ n.query = q
        /\ ~n.raised => ~ShouldRaiseInitialEvent(l, views[q].last, rs.online)
    BY <1>2, <1>3, NotifiedKeeps
  <1> HIDE DEF n
  <1>5. TypeOK' /\ Settled(rs)' /\ Informed(rs)'
    BY <1>1, <1>4 DEF ListenInv, TypeOK
  <1>6. /\ listeners'[l] = n
        /\ \A k \in Listeners : k # l => listeners'[k] = listeners[k]
    BY <1>1 DEF ListenInv, TypeOK
  <1>7. Of(q)' = Of(q) \cup {l} /\ \A p \in Queries : p # q => Of(p)' = Of(p)
    BY <1>1, <1>4, <1>6 DEF Of
  <1>8. MapsAgree'
    BY <1>1, <1>7 DEF ListenInv, MapsAgree
  <1>9. SnapshotsFresh' /\ OfflineIsNotSynced'
    BY <1>1 DEF ListenInv, SnapshotsFresh, OfflineIsNotSynced
  <1>10. ASSUME NEW p \in Queries, NEW k \in Of(p)', ~listeners'[k].raised
         PROVE  /\ rs'.online # "Offline"
                /\ views'[p].last.fromCache
                /\ k \in Patient \/ ~views'[p].last.docs
    <2>1. CASE k = l
      <3>1. p = q
        BY <1>4, <1>6, <1>10, <2>1 DEF Of
      <3> QED  BY <1>1, <1>2, <1>4, <1>6, <1>10, <2>1, <3>1, WaitingHasReason
    <2>2. CASE k # l
      <3>1. k \in Of(p) /\ k \in Listeners
        BY <1>6, <1>10, <2>2 DEF Of
      <3> QED  BY <1>1, <1>6, <1>10, <2>2, <3>1 DEF ListenInv, WaitingIsDue
    <2> QED  BY <2>1, <2>2
  <1>11. WaitingIsDue'
    BY <1>10 DEF WaitingIsDue
  <1> QED  BY <1>5, <1>8, <1>9, <1>11 DEF ListenInv

(* The listeners of `gone' go; with the last one of a query its view and its   *)
(* target do, and these are the queries that are `closed'.                 *)
Gone(gone, closed) ==
    /\ gone \subseteq Listeners /\ closed \subseteq Queries
    /\ listeners' = [l \in Listeners |->
                        IF l \in gone THEN NoListener ELSE listeners[l]]
    /\ views' = [q \in Queries |-> IF q \in closed THEN NoView ELSE views[q]]
    /\ \A q \in closed : Of(q) \subseteq gone
    /\ \A q \in Queries \ closed : Of(q) # {} => ~(Of(q) \subseteq gone)
    /\ Settled(rs') /\ Informed(rs') /\ rs'.targets = rs.targets \ closed
    /\ rs'.online = "Offline" => rs.online = "Offline"
    /\ UNCHANGED <<cache, silent, restarts>>

LEMMA GonePreserves ==
    ASSUME ListenInv, NEW gone, NEW closed, Gone(gone, closed)
    PROVE  ListenInv'
  <1> USE DEF Gone
  <1>1. TypeOK'
    BY DEF ListenInv, TypeOK, Settled
  <1>2. \A q \in Queries : Of(q)' = Of(q) \ gone
    BY DEF Of
  <1>3. \A q \in Queries : views'[q] # NoView <=> views[q] # NoView /\ q \notin closed
    OBVIOUS
  <1>4. MapsAgree'
    <2>1. rs'.targets = {q \in Queries : views'[q] # NoView}
      BY <1>3 DEF ListenInv, MapsAgree
    <2>2. IsOpen(rs'.stream) => rs'.sent = rs'.targets
      BY DEF Settled
    <2>3. \A q \in Queries : views'[q] # NoView <=> Of(q)' # {}
      BY <1>2, <1>3 DEF ListenInv, MapsAgree
    <2> QED  BY <2>1, <2>2, <2>3 DEF MapsAgree
  <1>5. SnapshotsFresh' /\ OfflineIsNotSynced'
    BY DEF ListenInv, SnapshotsFresh, OfflineIsNotSynced
  <1>6. ASSUME NEW q \in Queries, NEW l \in Of(q)', ~listeners'[l].raised
        PROVE  /\ rs'.online # "Offline"
               /\ views'[q].last.fromCache
               /\ l \in Patient \/ ~views'[q].last.docs
    <2>1. l \in Of(q) /\ l \notin gone /\ l \in Listeners /\ q \notin closed
      BY <1>2, <1>6 DEF Of
    <2>2. listeners'[l] = listeners[l] /\ views'[q] = views[q]
      BY <2>1
    <2> QED  BY <1>6, <2>1, <2>2 DEF ListenInv, WaitingIsDue
  <1>7. WaitingIsDue'
    BY <1>6 DEF WaitingIsDue
  <1> QED  BY <1>1, <1>4, <1>5, <1>7 DEF ListenInv

(* RemoveQueryListener().                                                  *)
LEMMA RemoveListenerPreserves ==
    ASSUME ListenInv, NEW l \in Listeners, RemoveListener(l)
    PROVE  ListenInv'
  <1> DEFINE q == listeners[l].query
  <1>1. /\ listeners[l] # NoListener
        /\ listeners' = [listeners EXCEPT ![l] = NoListener]
        /\ UNCHANGED <<cache, silent, restarts>>
    BY DEF RemoveListener
  <1>2. q \in Queries /\ views[q] \in View /\ l \in Of(q)
    BY <1>1, ListenerHasView DEF ListenInv, Of
  <1>3. listeners' = [k \in Listeners |->
                        IF k \in {l} THEN NoListener ELSE listeners[k]]
    BY <1>1 DEF ListenInv, TypeOK
  <1>4. \A p \in Queries : l \in Of(p) => p = q
    BY DEF Of
  <1>5. CASE Of(q) = {l}
    <2>1. rs' = StopListening(rs, q) /\ views' = [views EXCEPT ![q] = NoView]
      BY <1>5 DEF RemoveListener
    <2> HIDE DEF q
    <2>2. q \in rs.targets
      BY <1>2, AbsenceAssumption DEF ListenInv, MapsAgree
    <2>3. /\ Settled(rs)' /\ Informed(rs)' /\ rs'.targets = rs.targets \ {q}
          /\ rs'.online = "Offline" => rs.online = "Offline"
      BY <2>1, <2>2, StopListeningSettles DEF ListenInv
    <2>4. views' = [p \in Queries |-> IF p \in {q} THEN NoView ELSE views[p]]
      BY <1>2, <2>1 DEF ListenInv, TypeOK
    <2>5. \A p \in Queries \ {q} : Of(p) # {} => ~(Of(p) \subseteq {l})
      BY <1>4
    <2>6. Gone({l}, {q})
      BY <1>1, <1>2, <1>3, <1>5, <2>3, <2>4, <2>5 DEF Gone
    <2> QED  BY <2>6, GonePreserves
  <1>6. CASE Of(q) # {l}
    <2>1. rs' = rs /\ views' = views
      BY <1>6 DEF RemoveListener
    <2> HIDE DEF q
    <2>2. Settled(rs)' /\ Informed(rs)' /\ rs'.targets = rs.targets \ {}
      BY <2>1 DEF ListenInv
    <2>3. views' = [p \in Queries |-> IF p \in {} THEN NoView ELSE views[p]]
      BY <2>1 DEF ListenInv, TypeOK
    <2>4. \A p \in Queries \ {} : Of(p) # {} => ~(Of(p) \subseteq {l})
      BY <1>2, <1>4, <1>6
    <2>5. Gone({l}, {})
      BY <1>1, <1>3, <2>1, <2>2, <2>3, <2>4 DEF Gone
    <2> QED  BY <2>5, GonePreserves
  <1> QED  BY <1>5, <1>6

(* A target that fails takes its query's view and listeners with it.       *)
LEMMA WatchErrorPreserves ==
    ASSUME ListenInv, NEW q \in Queries, WatchError(q)
    PROVE  ListenInv'
  <1> DEFINE s == [rs EXCEPT !.targets = @ \ {q}, !.sent = @ \ {q}]
  <1>1. /\ IsOpen(rs.stream) /\ q \in rs.sent
        /\ rs' = UpdateState(s, "Online")
        /\ views' = [views EXCEPT ![q] = NoView]
        /\ listeners' = [l \in Listeners |->
                            IF l \in Of(q) THEN NoListener ELSE listeners[l]]
        /\ UNCHANGED <<cache, silent, restarts>>
    BY DEF WatchError
  <1>2. Settled(rs) /\ rs \in RemoteStore /\ q \in rs.targets /\ ~rs.stream.idle
    BY <1>1 DEF ListenInv, Settled
  <1>3. /\ s \in RemoteStore
        /\ s.targets = rs.targets \ {q} /\ s.sent = rs.sent \ {q}
        /\ s.stream = rs.stream /\ s.enabled = rs.enabled /\ s.online = rs.online
        /\ s.failed = rs.failed /\ s.timer = rs.timer
        /\ s.cleared = rs.cleared /\ s.ok = rs.ok
    BY <1>2 DEF RemoteStore
  <1> HIDE DEF s
  <1>4. Settled(s)
    BY <1>1, <1>2, <1>3 DEF Settled, IsOpen, IsStarted
  <1>5. /\ Settled(rs)' /\ rs'.targets = rs.targets \ {q} /\ rs'.online = "Online"
        /\ rs'.enabled = rs.enabled
    BY <1>1, <1>3, <1>4, UpdateStateSettled, UpdateStateKeeps DEF OnlineState
  <1>a. Informed(rs)'
    BY <1>1, <1>2, <1>5 DEF Settled, Informed, IsOpen, IsStarted
  <1>6. views' = [p \in Queries |-> IF p \in {q} THEN NoView ELSE views[p]]
    BY <1>1 DEF ListenInv, TypeOK
  <1>7. \A p \in Queries \ {q} : Of(p) # {} => ~(Of(p) \subseteq Of(q))
    BY DEF Of
  <1>8. Of(q) \in SUBSET Listeners
    BY DEF Of
  <1>9. Gone(Of(q), {q})
    BY <1>1, <1>5, <1>a, <1>6, <1>7, <1>8 DEF Gone
  <1> QED  BY <1>9, GonePreserves

-----------------------------------------------------------------------------
(* Nobody listens at first.                                                *)
LEMMA InitEstablishes == Init => ListenInv
  <1> SUFFICES ASSUME Init PROVE ListenInv
    OBVIOUS
  <1>1. rs \in RemoteStore
    BY DEF Init, RemoteStore, Stream, NewStream, OnlineState
  <1>2. TypeOK
    <2>1. /\ views \in [Queries -> View \cup {NoView}]
          /\ listeners \in [Listeners -> Listener \cup {NoListener}]
          /\ cache \in [Queries -> Cache]
      BY DEF Init
    <2>2. silent \in BOOLEAN
      BY DEF Init
    <2>3. restarts \in 0..MaxRestarts
      BY ListenPathAssumption DEF Init
    <2> QED  BY <1>1, <2>1, <2>2, <2>3 DEF TypeOK
  <1>3. Settled(rs) /\ Informed(rs)
    BY <1>1 DEF Init, Settled, Informed, NewStream, IsOpen, IsStarted
  <1>4. \A q \in Queries : Of(q) = {} /\ views[q] = NoView
    BY DEF Init, Of
  <1>5. MapsAgree
    BY <1>3, <1>4 DEF Init, MapsAgree, Settled
  <1>6. SnapshotsFresh /\ OfflineIsNotSynced /\ WaitingIsDue
    BY <1>4 DEF SnapshotsFresh, OfflineIsNotSynced, WaitingIsDue
  <1> QED  BY <1>2, <1>3, <1>5, <1>6 DEF ListenInv

(* Every task keeps the invariant.                                         *)
LEMMA StepPreserves == ListenInv /\ [Next]_vars => ListenInv'
  <1> SUFFICES ASSUME ListenInv, [Next]_vars PROVE ListenInv'
    OBVIOUS
  <1>1. CASE UNCHANGED vars \/ FallSilent
    <2>1. /\ UNCHANGED <<rs, views, listeners, restarts>>
          /\ cache' \in [Queries -> Cache] /\ silent' \in BOOLEAN
      BY <1>1 DEF vars, FallSilent, ListenInv, TypeOK
    <2> QED  BY <2>1, UnseenPreserves
  <1>2. CASE Next /\ ~FallSilent
    BY <1>2, AddFirstListenerPreserves, AddFurtherListenerPreserves,
       RemoveListenerPreserves, WatchSnapshotPreserves, WatchErrorPreserves,
       LocalChangePreserves, NetworkStepPreserves DEF Next
  <1> QED  BY <1>1, <1>2

(* The invariant holds for ever.                                           *)
LEMMA Inductive == Spec => []ListenInv
  BY InitEstablishes, StepPreserves, PTL DEF Spec

(* Listeners, views, targets, stream and online state agree after every task *)
(* of the worker queue, and no HARD_ASSERT fails, in whatever order           *)
(* listeners, timers, credentials, messages and the network come.          *)
THEOREM LayersAlwaysAgree == Spec => []LayersAgree
  <1>1. ListenInv => LayersAgree
    BY DEF ListenInv, LayersAgree, NoAssertionFails, Settled
  <1> QED  BY <1>1, Inductive, PTL

(* No listener is left waiting for a first event that was already due, and   *)
(* while one waits the client has heard from the backend, or its online timer *)
(* runs or was cleared by StopListening().                                 *)
THEOREM NobodyIsForgotten == Spec => []NobodyForgotten
  <1>1. ListenInv => NobodyForgotten
    <2> SUFFICES ASSUME ListenInv, NEW q \in Queries, NEW l \in Of(q),
                        ~listeners[l].raised
                 PROVE  rs.online = "Online" \/ rs.timer \/ rs.cleared
      BY DEF ListenInv, WaitingIsDue, NobodyForgotten
    <2>1. q \in rs.targets
      BY DEF ListenInv, MapsAgree
    <2>2. rs.online \in {"Online", "Unknown"} /\ rs.enabled
      BY DEF ListenInv, WaitingIsDue, Informed, Settled, RemoteStore, OnlineState
    <2> QED  BY <2>1, <2>2 DEF ListenInv, Settled
  <1> QED  BY <1>1, Inductive, PTL
=============================================================================
