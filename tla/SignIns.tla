------------------------------- MODULE SignIns -------------------------------
(***************************************************************************)
(* FirebaseAuth as the pages behind the sign-in see it: the current user,   *)
(* and the calls of signInHandler() and signUpHandler() whose answers are   *)
(* awaited.  The buttons are never disabled, a press does not change the    *)
(* page, and an answer signs its account in whatever is on screen by then.  *)
(* (Session models the forms, the accounts and the profiles.)              *)
(***************************************************************************)
EXTENDS Naturals

CONSTANTS
    NoUser,         \* FirebaseAuth.instance.currentUser == null
    MaxSignIns      \* bound: calls awaiting an answer, for each account

ASSUME SignInsAssumption == MaxSignIns \in Nat

VARIABLES
    currentUser,    \* FirebaseAuth.instance.currentUser
    signIns,        \* signIns[u]: how many calls for account u are awaited
    overlapped      \* history: two of these calls were awaited at once

signInVars == <<currentUser, signIns, overlapped>>

(* A persisted session is still signed in.                                 *)
SignInsInit(Accounts) ==
    /\ currentUser \in Accounts \cup {NoUser}
    /\ signIns = [u \in Accounts |-> 0]
    /\ overlapped = FALSE

(* An answer is awaited.                                                   *)
Awaited == \E u \in DOMAIN signIns : signIns[u] > 0

(* The handler sends its request for account u and awaits the answer.      *)
CallSent(u) ==
    /\ signIns[u] < MaxSignIns
    /\ signIns' = [signIns EXCEPT ![u] = @ + 1]
    /\ overlapped' = Awaited
    /\ UNCHANGED currentUser

(* A call for account u ends with user v signed in.                        *)
CallEnds(u, v) ==
    /\ signIns[u] > 0
    /\ signIns' = [signIns EXCEPT ![u] = @ - 1]
    /\ currentUser' = v
    /\ UNCHANGED overlapped

(* A sign-out takes effect, or the library drops a user whose token is no   *)
(* longer valid.                                                           *)
UserGone ==
    /\ currentUser' = NoUser
    /\ UNCHANGED <<signIns, overlapped>>

(* The process dies: nobody awaits the calls, the session is on disk.      *)
SignInsRestart ==
    /\ signIns' = [u \in DOMAIN signIns |-> 0]
    /\ overlapped' = FALSE
    /\ UNCHANGED currentUser

SignInsTypeOK(Accounts) ==
    /\ currentUser \in Accounts \cup {NoUser}
    /\ signIns \in [Accounts -> 0..MaxSignIns]
    /\ overlapped \in BOOLEAN
=============================================================================
