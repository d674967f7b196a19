------------------------------ MODULE OrderTabs ------------------------------
(***************************************************************************)
(* OrderPage with its two tabs, the OrderItem rows and the OrderDetailPage. *)
(*                                                                         *)
(* An order carries the flags isCancel and isCheckOut, both FALSE when it   *)
(* is placed; a back office sets them later.  Each tab listens to a query;  *)
(* a row is a copy of the document as of the last snapshot, and a detail    *)
(* page a copy of its row.  Leaving a tab drops its StreamBuilder, so that  *)
(* a tab starts again without data.                                        *)
(*                                                                         *)
(* The queries ask for the orders of the user the MainPage captured when    *)
(* its state was created.  The MainPage is part of the SplashScreen, which  *)
(* drops it with the user, or the route '/main' of its own, which nothing   *)
(* drops.                                                                  *)
(***************************************************************************)
EXTENDS SignIns

CONSTANTS
    Users,          \* account ids
    Orders,         \* names of the documents that may be placed
    NoRow           \* no OrderDetailPage is open

ASSUME OrderTabsAssumption == NoUser \notin Users

VARIABLES
    orders,         \* the documents of the 'orders' collection
    user,           \* the user the MainPage captured; NoUser: the AuthPage
    home,           \* the MainPage is route '/main', not the SplashScreen's
    tab,            \* the tab of OrderPage on screen
    rows,           \* its last snapshot
    hasData,        \* snapshot.hasData
    detail          \* the row whose OrderDetailPage covers the list

pageVars == <<user, home>>
listVars == <<tab, rows, hasData>>
vars == <<orders, user, home, tab, rows, hasData, detail, currentUser, signIns,
          overlapped>>

Document == [id : Orders, owner : Users, isCancel : BOOLEAN,
             isCheckOut : BOOLEAN]

Tabs == {"Ongoing", "History"}

-----------------------------------------------------------------------------
(* Mutant: the first tab leaves out the cancelled orders.                  *)
UncancelledQuery(t, u) ==
    IF t = "Ongoing"
    THEN {d \in orders : d.owner = u /\ ~d.isCheckOut /\ ~d.isCancel}
    ELSE {d \in orders : d.owner = u /\ d.isCancel /\ d.isCheckOut}

(* The documents that match the query of tab t for user u.                 *)
Query(t, u) ==
    IF t = "Ongoing"
    THEN {d \in orders : d.owner = u /\ ~d.isCheckOut}
    ELSE {d \in orders : d.owner = u /\ d.isCancel /\ d.isCheckOut}

(* The badge of a row.                                                     *)
Badge(d) ==
    IF d.isCancel THEN "Canceled" ELSE IF d.isCheckOut THEN "Done" ELSE "Ongoing"

-----------------------------------------------------------------------------
(* A new OrderPage: the first tab, without data.                           *)
NewLists ==
    /\ tab' = "Ongoing"
    /\ rows' = {}
    /\ hasData' = FALSE

Init ==
    /\ orders = {}
    /\ SignInsInit(Users)
    /\ user = currentUser
    /\ home = FALSE
    /\ tab = "Ongoing"
    /\ rows = {}
    /\ hasData = FALSE
    /\ detail = NoRow

(* An order appears, on this device or on another one of its owner.        *)
Place(id, u) ==
    /\ \A d \in orders : d.id # id
    /\ orders' = orders \cup {[id |-> id, owner |-> u, isCancel |-> FALSE,
                               isCheckOut |-> FALSE]}
    /\ UNCHANGED <<pageVars, listVars, detail, signInVars>>

(* The back office cancels an order, or checks its guest out.              *)
BackOffice(d) ==
    /\ \E e \in {[d EXCEPT !.isCancel = TRUE], [d EXCEPT !.isCheckOut = TRUE]} :
            /\ e # d
            /\ orders' = (orders \ {d}) \cup {e}
    /\ UNCHANGED <<pageVars, listVars, detail, signInVars>>

(* A snapshot of the tab's query arrives.                                  *)
Snapshot ==
    /\ user # NoUser
    /\ rows' = Query(tab, user)
    /\ hasData' = TRUE
    /\ UNCHANGED <<orders, pageVars, tab, detail, signInVars>>

(* The TabController moves to the other tab: its StreamBuilder is new.     *)
SelectTab(t) ==
    /\ user # NoUser
    /\ detail = NoRow
    /\ t # tab
    /\ tab' = t
    /\ rows' = {}
    /\ hasData' = FALSE
    /\ UNCHANGED <<orders, pageVars, detail, signInVars>>

(* The MainPage's tab bar leaves OrderPage and comes back: a new state.    *)
ReopenPage ==
    /\ user # NoUser
    /\ detail = NoRow
    /\ NewLists
    /\ UNCHANGED <<orders, pageVars, detail, signInVars>>

(* A tap on a row: its OrderDetailPage takes a copy of the row.            *)
OpenOrder(d) ==
    /\ user # NoUser
    /\ detail = NoRow
    /\ hasData
    /\ detail' = d
    /\ UNCHANGED <<orders, pageVars, listVars, signInVars>>

Back ==
    /\ detail # NoRow
    /\ detail' = NoRow
    /\ UNCHANGED <<orders, pageVars, listVars, signInVars>>

-----------------------------------------------------------------------------
(* The login or register button of the AuthPage, up to the await.          *)
SignInPressed(u) ==
    /\ user = NoUser
    /\ detail = NoRow
    /\ CallSent(u)
    /\ UNCHANGED <<orders, pageVars, listVars, detail>>

(* Mutant: the order list follows the account; the StreamBuilder keeps the   *)
(* rows of the old stream.                                                 *)
ListFollowsUser(u) ==
    /\ CallEnds(u, u)
    /\ user' = u
    /\ UNCHANGED <<orders, home, listVars, detail>>

(* The call succeeds.  The SplashScreen builds a MainPage in the place of   *)
(* its AuthPage; a MainPage that is there keeps its state and its user.    *)
SignIn(u) ==
    /\ CallEnds(u, u)
    /\ user' = IF user = NoUser THEN u ELSE user
    /\ UNCHANGED <<orders, home, listVars, detail>>

(* The call fails: at most a message is shown.                             *)
SignInFails(u) ==
    /\ CallEnds(u, currentUser)
    /\ UNCHANGED <<orders, pageVars, listVars, detail>>

(* The session ends, while a detail page may be open: the SplashScreen      *)
(* below it drops its MainPage with the OrderPage, route '/main' stays.    *)
SignedOut ==
    /\ currentUser # NoUser
    /\ UserGone
    /\ \/ /\ ~home
          /\ user' = NoUser
          /\ NewLists
       \/ /\ home
          /\ UNCHANGED <<user, listVars>>
    /\ UNCHANGED <<orders, home, detail>>

(* ProfilePage's exit button: signOut() is not awaited, and route '/' takes  *)
(* the place of all others; it shows what currentUser calls for.           *)
SignOutTap ==
    /\ user # NoUser
    /\ detail = NoRow
    /\ user' = currentUser
    /\ home' = FALSE
    /\ NewLists
    /\ UNCHANGED <<orders, detail, signInVars>>

(* "Home" on the PaymentPage of a booking made from this MainPage.  (With    *)
(* nobody signed in the new MainPage throws: see Booking.)                 *)
HomePressed ==
    /\ user # NoUser
    /\ detail = NoRow
    /\ currentUser # NoUser
    /\ user' = currentUser
    /\ home' = TRUE
    /\ NewLists
    /\ UNCHANGED <<orders, detail, signInVars>>

(* The app is killed and started again.                                    *)
AppRestart ==
    /\ SignInsRestart
    /\ user' = currentUser
    /\ home' = FALSE
    /\ NewLists
    /\ detail' = NoRow
    /\ UNCHANGED orders

Next ==
    \/ \E id \in Orders, u \in Users : Place(id, u)
    \/ \E d \in orders : BackOffice(d)
    \/ Snapshot
    \/ \E t \in Tabs : SelectTab(t)
    \/ ReopenPage
    \/ \E d \in rows : OpenOrder(d)
    \/ Back
    \/ \E u \in Users : SignInPressed(u)
    \/ \E u \in Users : SignIn(u)
    \/ \E u \in Users : SignInFails(u)
    \/ SignedOut
    \/ SignOutTap
    \/ HomePressed
    \/ AppRestart

Spec == Init /\ [][Next]_vars

(* The listener of a query gets its snapshots.                             *)
FairSpec == Spec /\ WF_vars(Snapshot)

-----------------------------------------------------------------------------
TypeOK ==
    /\ orders \subseteq Document
    /\ user \in Users \cup {NoUser}
    /\ home \in BOOLEAN
    /\ tab \in Tabs
    /\ rows \subseteq Document
    /\ hasData \in BOOLEAN
    /\ detail \in Document \cup {NoRow}
    /\ SignInsTypeOK(Users)

(* What is on screen: the rows of the list or the detail page.             *)
OnScreen == IF detail = NoRow THEN rows ELSE {detail}

(* The rows are of the user whose MainPage they are on, also when a snapshot *)
(* of another tab's or another page's query was the last one, and an account *)
(* sees no order of another one, also when it signed in while a detail page  *)
(* was open or after a sign-out left a MainPage on screen: unless two        *)
(* sign-ins overlapped, whose second answer changes the account under a      *)
(* MainPage that keeps the first one.                                      *)
OnlyOwnOrders ==
    /\ \A d \in rows : d.owner = user
    /\ currentUser # NoUser /\ ~overlapped =>
            \A d \in OnScreen : d.owner = currentUser

(* Types, and whose orders are on screen.                                  *)
ShownToOwner == TypeOK /\ OnlyOwnOrders

(* An order that is still open is in the Ongoing tab of its owner, sooner   *)
(* or later, as long as the owner looks at it.                             *)
OpenOrdersListed ==
    \A id \in Orders, u \in Users :
        (\E d \in orders : d.id = id /\ d.owner = u /\ ~d.isCheckOut) ~>
            \/ \E d \in rows : d.id = id
            \/ user # u
            \/ tab = "History"
            \/ \E d \in orders : d.id = id /\ d.isCheckOut

(* An order of the MainPage's user is in one of the two lists, and in one only, *)
(* unless it is over and was not cancelled: then no query asks for it, and the *)
(* badge 'Done' that OrderItem has for it is never seen.                   *)
OnlyDoneIsHidden ==
    user # NoUser => \A d \in orders : d.owner = user =>
        \/ Badge(d) = "Done"
        \/ \E t \in Tabs : \A x \in Tabs : d \in Query(x, user) <=> x = t
=============================================================================
