--------------------------- MODULE OrderTabsProofs ---------------------------
(***************************************************************************)
(* What the order list and the detail page show: the proof that it is of    *)
(* the account that is signed in unless two sign-ins overlapped, for any     *)
(* number of accounts, orders and calls.                                   *)
(***************************************************************************)
EXTENDS OrderTabs, TLAPS

(* As long as no calls overlapped, the one that is awaited is alone and the   *)
(* AuthPage it was made from is still on screen.                           *)
LoneCall ==
    ~overlapped => \A u \in Users : signIns[u] > 0 =>
        /\ signIns[u] = 1
        /\ \A v \in Users : v # u => signIns[v] = 0
        /\ user = NoUser
        /\ detail = NoRow

(* The SplashScreen shows the AuthPage without a user only, and a MainPage    *)
(* has captured the current user unless calls overlapped; route '/main' has  *)
(* a user, and its list is empty otherwise.                                *)
UserCaptured ==
    /\ ~home => (user = NoUser) = (currentUser = NoUser)
    /\ home => user # NoUser
    /\ ~overlapped => user \in {currentUser, NoUser} \/ currentUser = NoUser

(* Rows and the detail page, which may be of a user who has gone.          *)
CopiesOwned ==
    /\ \A d \in rows : d.owner = user
    /\ ~overlapped /\ detail # NoRow /\ currentUser # NoUser =>
            detail.owner = currentUser

(* The inductive invariant.                                                *)
TabsInv == TypeOK /\ LoneCall /\ UserCaptured /\ CopiesOwned

-----------------------------------------------------------------------------
(* A query gives documents of its user.                                    *)
LEMMA QueryType ==
    ASSUME NEW t, NEW u
    PROVE  /\ Query(t, u) \subseteq orders
           /\ \A d \in Query(t, u) : d.owner = u
  BY DEF Query

(* The calls keep the types of the session.                                *)
LEMMA SignInsType ==
    ASSUME SignInsTypeOK(Users)
    PROVE  /\ \A u \in Users : CallSent(u) => SignInsTypeOK(Users)'
           /\ \A u \in Users, v \in Users \cup {NoUser} :
                    CallEnds(u, v) => SignInsTypeOK(Users)'
           /\ UserGone => SignInsTypeOK(Users)'
           /\ SignInsRestart => SignInsTypeOK(Users)'
           /\ UNCHANGED signInVars => SignInsTypeOK(Users)'
  <1> USE SignInsAssumption DEF SignInsTypeOK
  <1>1. \A u \in Users : CallSent(u) => SignInsTypeOK(Users)'
    BY DEF CallSent, Awaited
  <1>2. \A u \in Users, v \in Users \cup {NoUser} :
            CallEnds(u, v) => SignInsTypeOK(Users)'
    BY DEF CallEnds
  <1>3. UserGone => SignInsTypeOK(Users)'
    BY DEF UserGone
  <1>4. SignInsRestart => SignInsTypeOK(Users)'
    <2>1. DOMAIN signIns = Users /\ 0 \in 0..MaxSignIns
      OBVIOUS
    <2>2. [v \in Users |-> 0] \in [Users -> 0..MaxSignIns]
      BY <2>1
    <2> QED  BY <2>1, <2>2 DEF SignInsRestart
  <1>5. UNCHANGED signInVars => SignInsTypeOK(Users)'
    BY DEF signInVars
  <1> QED  BY <1>1, <1>2, <1>3, <1>4, <1>5

(* Every step keeps the types.                                             *)
LEMMA TypeStep == TypeOK /\ [Next]_vars => TypeOK'
  <1> SUFFICES ASSUME TypeOK, [Next]_vars PROVE TypeOK'
    OBVIOUS
  <1> USE DEF TypeOK, pageVars, listVars, NewLists, Tabs
  <1>a. UNCHANGED signInVars => SignInsTypeOK(Users)'
    BY SignInsType
  <1>b. currentUser \in Users \cup {NoUser}
    BY DEF SignInsTypeOK
  <1>1. ASSUME NEW id \in Orders, NEW u \in Users, Place(id, u) PROVE TypeOK'
    <2>1. [id |-> id, owner |-> u, isCancel |-> FALSE, isCheckOut |-> FALSE] \in Document
      BY DEF Document
    <2> QED  BY <1>a, <1>1, <2>1 DEF Place
  <1>2. ASSUME NEW d \in orders, BackOffice(d) PROVE TypeOK'
    <2>1. PICK e \in {[d EXCEPT !.isCancel = TRUE], [d EXCEPT !.isCheckOut = TRUE]} :
                orders' = (orders \ {d}) \cup {e}
      BY <1>2 DEF BackOffice
    <2>2. e \in Document
      BY <2>1 DEF Document
    <2> QED  BY <1>a, <1>2, <2>1, <2>2 DEF BackOffice
  <1>3. CASE Snapshot
    BY <1>a, <1>3, QueryType DEF Snapshot
  <1>4. ASSUME NEW t \in Tabs, SelectTab(t) PROVE TypeOK'
    BY <1>a, <1>b, <1>4 DEF SelectTab
  <1>5. CASE ReopenPage
    BY <1>a, <1>b, <1>5 DEF ReopenPage
  <1>6. ASSUME NEW d \in rows, OpenOrder(d) PROVE TypeOK'
    BY <1>a, <1>b, <1>6 DEF OpenOrder
  <1>7. CASE Back
    BY <1>a, <1>b, <1>7 DEF Back
  <1>8. ASSUME NEW u \in Users, SignInPressed(u) PROVE TypeOK'
    BY <1>b, <1>8, SignInsType DEF SignInPressed
  <1>9. ASSUME NEW u \in Users, SignIn(u) PROVE TypeOK'
    BY <1>b, <1>9, SignInsType DEF SignIn
  <1>10. ASSUME NEW u \in Users, SignInFails(u) PROVE TypeOK'
    BY <1>b, <1>10, SignInsType DEF SignInFails
  <1>11. CASE SignedOut
    BY <1>11, SignInsType DEF SignedOut
  <1>12. CASE SignOutTap
    BY <1>a, <1>b, <1>12 DEF SignOutTap
  <1>13. CASE HomePressed
    BY <1>a, <1>b, <1>13 DEF HomePressed
  <1>14. CASE AppRestart
    BY <1>b, <1>14, SignInsType DEF AppRestart
  <1>15. CASE UNCHANGED vars
    BY <1>a, <1>15 DEF vars, signInVars
  <1> QED
    BY <1>1, <1>2, <1>3, <1>4, <1>5, <1>6, <1>7, <1>8, <1>9, <1>10, <1>11, <1>12, <1>13, <1>14, <1>15 DEF Next

(* A call that does not overlap another ends before anything else can begin.*)
LEMMA LoneStep ==
    TypeOK /\ LoneCall /\ UserCaptured /\ [Next]_vars => LoneCall'
  <1> SUFFICES ASSUME TypeOK, LoneCall, UserCaptured, [Next]_vars PROVE LoneCall'
    OBVIOUS
  <1> USE OrderTabsAssumption DEF LoneCall, UserCaptured, pageVars, listVars, NewLists, signInVars, CallSent, CallEnds, Awaited,
                               UserGone, SignInsRestart, TypeOK, SignInsTypeOK
  <1>a. signIns \in [Users -> 0..MaxSignIns] /\ MaxSignIns \in Nat
    BY SignInsAssumption
  <1>1. ASSUME NEW id \in Orders, NEW u \in Users, Place(id, u) PROVE LoneCall'
    BY <1>a, <1>1 DEF Place
  <1>2. ASSUME NEW d \in orders, BackOffice(d) PROVE LoneCall'
    BY <1>a, <1>2 DEF BackOffice
  <1>3. CASE Snapshot
    BY <1>a, <1>3 DEF Snapshot
  <1>4. ASSUME NEW t \in Tabs, SelectTab(t) PROVE LoneCall'
    BY <1>a, <1>4 DEF SelectTab
  <1>5. CASE ReopenPage
    BY <1>a, <1>5 DEF ReopenPage
  <1>6. ASSUME NEW d \in rows, OpenOrder(d) PROVE LoneCall'
    BY <1>a, <1>6 DEF OpenOrder
  <1>7. CASE Back
    BY <1>a, <1>7 DEF Back
  <1>8. ASSUME NEW u \in Users, SignInPressed(u) PROVE LoneCall'
    BY <1>a, <1>8 DEF SignInPressed
  <1>9. ASSUME NEW u \in Users, SignIn(u) PROVE LoneCall'
    BY <1>a, <1>9 DEF SignIn
  <1>10. ASSUME NEW u \in Users, SignInFails(u) PROVE LoneCall'
    BY <1>a, <1>10 DEF SignInFails
  <1>11. CASE SignedOut
    BY <1>a, <1>11 DEF SignedOut
  <1>12. CASE SignOutTap
    BY <1>a, <1>12 DEF SignOutTap
  <1>13. CASE HomePressed
    BY <1>a, <1>13 DEF HomePressed
  <1>14. CASE AppRestart
    BY <1>a, <1>14 DEF AppRestart
  <1>15. CASE UNCHANGED vars
    BY <1>a, <1>15 DEF vars
  <1> QED
    BY <1>1, <1>2, <1>3, <1>4, <1>5, <1>6, <1>7, <1>8, <1>9, <1>10, <1>11, <1>12, <1>13, <1>14, <1>15 DEF Next

(* Only overlapping calls change the user under a MainPage.                 *)
LEMMA CapturedStep ==
    TypeOK /\ LoneCall /\ UserCaptured /\ [Next]_vars => UserCaptured'
  <1> SUFFICES ASSUME TypeOK, LoneCall, UserCaptured, [Next]_vars PROVE UserCaptured'
    OBVIOUS
  <1> USE OrderTabsAssumption DEF LoneCall, UserCaptured, pageVars, listVars, NewLists, signInVars, CallSent, CallEnds, Awaited,
                               UserGone, SignInsRestart, TypeOK, SignInsTypeOK
  <1>a. signIns \in [Users -> 0..MaxSignIns] /\ MaxSignIns \in Nat
    BY SignInsAssumption
  <1>1. ASSUME NEW id \in Orders, NEW u \in Users, Place(id, u) PROVE UserCaptured'
    BY <1>a, <1>1 DEF Place
  <1>2. ASSUME NEW d \in orders, BackOffice(d) PROVE UserCaptured'
    BY <1>a, <1>2 DEF BackOffice
  <1>3. CASE Snapshot
    BY <1>a, <1>3 DEF Snapshot
  <1>4. ASSUME NEW t \in Tabs, SelectTab(t) PROVE UserCaptured'
    BY <1>a, <1>4 DEF SelectTab
  <1>5. CASE ReopenPage
    BY <1>a, <1>5 DEF ReopenPage
  <1>6. ASSUME NEW d \in rows, OpenOrder(d) PROVE UserCaptured'
    BY <1>a, <1>6 DEF OpenOrder
  <1>7. CASE Back
    BY <1>a, <1>7 DEF Back
  <1>8. ASSUME NEW u \in Users, SignInPressed(u) PROVE UserCaptured'
    BY <1>a, <1>8 DEF SignInPressed
  <1>9. ASSUME NEW u \in Users, SignIn(u) PROVE UserCaptured'
    BY <1>a, <1>9 DEF SignIn
  <1>10. ASSUME NEW u \in Users, SignInFails(u) PROVE UserCaptured'
    BY <1>a, <1>10 DEF SignInFails
  <1>11. CASE SignedOut
    BY <1>a, <1>11 DEF SignedOut
  <1>12. CASE SignOutTap
    BY <1>a, <1>12 DEF SignOutTap
  <1>13. CASE HomePressed
    BY <1>a, <1>13 DEF HomePressed
  <1>14. CASE AppRestart
    BY <1>a, <1>14 DEF AppRestart
  <1>15. CASE UNCHANGED vars
    BY <1>a, <1>15 DEF vars
  <1> QED
    BY <1>1, <1>2, <1>3, <1>4, <1>5, <1>6, <1>7, <1>8, <1>9, <1>10, <1>11, <1>12, <1>13, <1>14, <1>15 DEF Next

(* A list without a user is empty, so that the next user starts with none.  *)
LEMMA OwnedStep ==
    TabsInv /\ [Next]_vars => CopiesOwned'
  <1> SUFFICES ASSUME TabsInv, [Next]_vars PROVE CopiesOwned'
    OBVIOUS
  <1> USE OrderTabsAssumption DEF TabsInv, LoneCall, UserCaptured, CopiesOwned,
                               pageVars, listVars, NewLists, signInVars, CallSent, CallEnds, Awaited,
                               UserGone, SignInsRestart, TypeOK, SignInsTypeOK
  <1>a. /\ signIns \in [Users -> 0..MaxSignIns] /\ MaxSignIns \in Nat
        /\ \A d \in rows : d.owner \in Users
    BY SignInsAssumption DEF Document
  <1>1. ASSUME NEW id \in Orders, NEW u \in Users, Place(id, u) PROVE CopiesOwned'
    BY <1>a, <1>1 DEF Place
  <1>2. ASSUME NEW d \in orders, BackOffice(d) PROVE CopiesOwned'
    BY <1>a, <1>2 DEF BackOffice
  <1>3. CASE Snapshot
    BY <1>3, QueryType DEF Snapshot
  <1>4. ASSUME NEW t \in Tabs, SelectTab(t) PROVE CopiesOwned'
    BY <1>a, <1>4 DEF SelectTab
  <1>5. CASE ReopenPage
    BY <1>a, <1>5 DEF ReopenPage
  <1>6. ASSUME NEW d \in rows, OpenOrder(d) PROVE CopiesOwned'
    BY <1>a, <1>6 DEF OpenOrder
  <1>7. CASE Back
    BY <1>a, <1>7 DEF Back
  <1>8. ASSUME NEW u \in Users, SignInPressed(u) PROVE CopiesOwned'
    BY <1>a, <1>8 DEF SignInPressed
  <1>9. ASSUME NEW u \in Users, SignIn(u) PROVE CopiesOwned'
    BY <1>a, <1>9 DEF SignIn
  <1>10. ASSUME NEW u \in Users, SignInFails(u) PROVE CopiesOwned'
    BY <1>a, <1>10 DEF SignInFails
  <1>11. CASE SignedOut
    BY <1>a, <1>11 DEF SignedOut
  <1>12. CASE SignOutTap
    BY <1>a, <1>12 DEF SignOutTap
  <1>13. CASE HomePressed
    BY <1>a, <1>13 DEF HomePressed
  <1>14. CASE AppRestart
    BY <1>a, <1>14 DEF AppRestart
  <1>15. CASE UNCHANGED vars
    BY <1>a, <1>15 DEF vars
  <1> QED
    BY <1>1, <1>2, <1>3, <1>4, <1>5, <1>6, <1>7, <1>8, <1>9, <1>10, <1>11, <1>12, <1>13, <1>14, <1>15 DEF Next

(* The invariant is inductive.                                             *)
LEMMA Inductive == Spec => []TabsInv
  <1>1. Init => TabsInv
    <2> SUFFICES ASSUME Init PROVE TabsInv
      OBVIOUS
    <2>1. SignInsTypeOK(Users)
      <3>1. 0 \in 0..MaxSignIns
        BY SignInsAssumption
      <3>2. [u \in Users |-> 0] \in [Users -> 0..MaxSignIns]
        BY <3>1
      <3> QED  BY <3>2 DEF Init, SignInsInit, SignInsTypeOK
    <2>2. TypeOK
      BY <2>1 DEF Init, SignInsInit, TypeOK, Tabs
    <2>3. LoneCall /\ UserCaptured /\ CopiesOwned
      BY DEF Init, SignInsInit, LoneCall, UserCaptured, CopiesOwned
    <2> QED  BY <2>2, <2>3 DEF TabsInv
  <1>2. TabsInv /\ [Next]_vars => TabsInv'
    BY TypeStep, LoneStep, CapturedStep, OwnedStep DEF TabsInv
  <1> QED  BY <1>1, <1>2, PTL DEF Spec

-----------------------------------------------------------------------------
(* OrderPage, OrderItem and OrderDetailPage: what is on screen is of the      *)
(* account that is signed in, unless two sign-ins overlapped, and the rows    *)
(* are always of the MainPage's own user.                                  *)
THEOREM ScreenIsOwners == Spec => []ShownToOwner
  <1>1. TabsInv => ShownToOwner
    <2> SUFFICES ASSUME TabsInv PROVE OnlyOwnOrders
      BY DEF ShownToOwner, TabsInv
    <2>1. \A d \in rows : d.owner \in Users /\ d.owner = user
      BY DEF TabsInv, TypeOK, CopiesOwned, Document
    <2>2. ASSUME currentUser # NoUser, ~overlapped, NEW d \in OnScreen
          PROVE  d.owner = currentUser
      <3>1. CASE detail = NoRow
        BY <2>1, <2>2, <3>1, OrderTabsAssumption DEF OnScreen, TabsInv, UserCaptured
      <3>2. CASE detail # NoRow
        BY <2>2, <3>2 DEF OnScreen, TabsInv, CopiesOwned
      <3> QED  BY <3>1, <3>2
    <2> QED  BY <2>1, <2>2 DEF OnlyOwnOrders
  <1> QED  BY <1>1, Inductive, PTL

(* The two queries of OrderPage: an order of the account is listed in exactly *)
(* one of the tabs, unless its badge would be 'Done'.                      *)
THEOREM TabsPartition == Spec => []OnlyDoneIsHidden
  <1>1. TypeOK => OnlyDoneIsHidden
    <2> SUFFICES ASSUME TypeOK, NEW d \in orders, d.owner = user, Badge(d) # "Done"
                 PROVE  \E t \in Tabs : \A x \in Tabs : d \in Query(x, user) <=> x = t
      BY DEF OnlyDoneIsHidden
    <2>1. d.isCancel \in BOOLEAN /\ d.isCheckOut \in BOOLEAN
      BY DEF TypeOK, Document
    <2>2. CASE ~d.isCheckOut
      <3>1. d \in Query("Ongoing", user) /\ d \notin Query("History", user)
        BY <2>2 DEF Query
      <3> QED  BY <3>1 DEF Tabs
    <2>3. CASE d.isCheckOut /\ d.isCancel
      <3>1. d \in Query("History", user) /\ d \notin Query("Ongoing", user)
        BY <2>3 DEF Query
      <3> QED  BY <3>1 DEF Tabs
    <2> QED  BY <2>1, <2>2, <2>3 DEF Badge
  <1> QED  BY <1>1, Inductive, PTL DEF TabsInv
=============================================================================
