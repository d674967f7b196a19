--------------------------- MODULE FirestoreStream ---------------------------
(***************************************************************************)
(* The life of a stream to the Firestore backend: the class Stream, which   *)
(* the write stream and the watch stream share (ios/Pods/FirebaseFirestore/ *)
(* Firestore/core/src/remote/stream.cc).                                   *)
(*                                                                         *)
(* A stream is a record and an operation gives the record that follows.     *)
(*   state   Initial, Starting (it waits for credentials), Open, Error,     *)
(*           Backoff (it waits for the backoff timer).  The state Healthy   *)
(*           differs from Open only in whether a token is dropped and is    *)
(*           left out.                                                     *)
(*   idle    the idleness timer is armed                                   *)
(*   stale   an answer to a request for credentials is still to come whose  *)
(*           close_count_ is no longer the stream's                        *)
(***************************************************************************)

Stream == [state : {"Initial", "Starting", "Open", "Error", "Backoff"},
           idle : BOOLEAN, stale : BOOLEAN]

NewStream == [state |-> "Initial", idle |-> FALSE, stale |-> FALSE]

IsOpen(s) == s.state = "Open"

IsStarted(s) == s.state \in {"Starting", "Backoff", "Open"}

(* Start(): from Error through the backoff, from Initial by asking for      *)
(* credentials.                                                            *)
Start(s) ==
    [s EXCEPT !.state = IF @ = "Error" THEN "Backoff" ELSE "Starting"]

(* The backoff timer fires: Initial, and Start() again.                    *)
BackoffElapsed(s) == [s EXCEPT !.state = "Starting"]

(* InhibitBackoff(): the error is forgotten, the next start is immediate.   *)
InhibitBackoff(s) == [s EXCEPT !.state = "Initial"]

(* The credentials are there: the call is made and OnStreamStart() follows  *)
(* without a round trip.                                                   *)
ResumeStart(s) == [s EXCEPT !.state = "Open"]

MarkIdle(s) == [s EXCEPT !.idle = @ \/ IsOpen(s)]

(* Mutant: a write leaves the idleness timer running.                      *)
WriteKeepsTimer(s) == s

(* Write(): cancels the idleness timer.                                    *)
Write(s) == [s EXCEPT !.idle = FALSE]

(* Close(): cancels the timers and invalidates the request for credentials. *)
Close(s, graceful) ==
    [state |-> IF graceful THEN "Initial" ELSE "Error", idle |-> FALSE,
     stale |-> s.stale \/ s.state = "Starting"]

(* Stop(): a graceful close, which may be repeated.                        *)
Stop(s) == IF IsStarted(s) THEN Close(s, TRUE) ELSE s
=============================================================================
