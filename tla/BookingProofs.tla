---------------------------- MODULE BookingProofs ----------------------------
(***************************************************************************)
(* Proofs about the booking flow, for every number of accounts, hotels,    *)
(* prices, payment options, orders and pages.                              *)
(***************************************************************************)
EXTENDS Booking, TLAPS

-----------------------------------------------------------------------------
(* Routes.                                                                 *)

(* The name of a page decides which fields its route has.                  *)
LEMMA RouteByPage ==
    ASSUME NEW r \in Route
    PROVE  /\ r.page = "splash"  => r \in SplashRoute
           /\ r.page = "main"    => r \in MainRoute
           /\ r.page = "detail"  => r \in DetailRoute
           /\ r.page = "booking" => r \in BookingRoute
           /\ r.page = "method"  => r \in MethodRoute
           /\ r.page = "payment" => r \in PaymentRoute
           /\ r.page \in {"splash", "main", "detail", "booking", "method",
                          "payment"}
  BY DEF Route, SplashRoute, MainRoute, DetailRoute, BookingRoute,
         MethodRoute, PaymentRoute

(* The constructors of the pages build routes.                             *)
LEMMA PageTypes ==
    /\ \A u \in Users \cup {NoUser} :
            SplashPage(u) \in Route /\ MainPage(u) \in Route
    /\ \A h \in Hotels, p \in Prices \cup {NoData} : DetailPage(h, p) \in Route
    /\ \A stay \in Stay, filled \in SUBSET Fields :
            BookingDetail(stay, filled) \in Route
    /\ \A inst \in 1..MaxVisits, stay \in Stay, filled \in SUBSET Fields,
          option \in PaymentOptions :
            PaymentMethod(inst, stay, filled, option) \in MethodRoute
    /\ \A stay \in Stay, option \in PaymentOptions, id \in 1..MaxOrders :
            PaymentPage(stay, option, id) \in Route
    /\ MethodRoute \subseteq Route
  BY DEF Route, SplashRoute, MainRoute, DetailRoute, BookingRoute,
         MethodRoute, PaymentRoute, SplashPage, MainPage, DetailPage,
         BookingDetail, PaymentMethod, PaymentPage

(* The page on screen.                                                     *)
LEMMA TopType ==
    ASSUME TypeOK
    PROVE  /\ Len(stack) \in Nat /\ Len(stack) >= 1
           /\ Top = stack[Len(stack)]
           /\ Top \in Route
  BY DEF TypeOK, Top, Last

(* Pushing, replacing and popping a route.                                 *)
LEMMA PushType ==
    ASSUME TypeOK, NEW r \in Route, stack' = Append(stack, r)
    PROVE  /\ stack' \in Seq(Route)
           /\ stack' # <<>>
           /\ Len(stack') = Len(stack) + 1
           /\ \A i \in 1..Len(stack) : stack'[i] = stack[i]
           /\ stack'[Len(stack')] = r
           /\ Top' = r
  BY DEF TypeOK, Top, Last

(* setState() of the page on screen: its route is replaced.                *)
LEMMA ReplaceType ==
    ASSUME TypeOK, NEW r \in Route, stack' = ReplaceTop(r)
    PROVE  /\ stack' \in Seq(Route)
           /\ stack' # <<>>
           /\ Len(stack') = Len(stack)
           /\ \A i \in 1..(Len(stack) - 1) : stack'[i] = stack[i]
           /\ Top' = r
  BY DEF TypeOK, Top, Last, ReplaceTop

(* Navigator.pop.                                                          *)
LEMMA PopType ==
    ASSUME TypeOK, Len(stack) > 1, stack' = Front(stack)
    PROVE  /\ stack' \in Seq(Route)
           /\ stack' # <<>>
           /\ Len(stack') = Len(stack) - 1
           /\ \A i \in 1..(Len(stack) - 1) : stack'[i] = stack[i]
           /\ Top' = stack[Len(stack) - 1]
  <1>1. stack \in Seq(Route) /\ Len(stack) \in Nat
    BY DEF TypeOK
  <1>2. /\ stack' \in Seq(Route)
        /\ Len(stack') = Len(stack) - 1
        /\ \A i \in 1..(Len(stack) - 1) : stack'[i] = stack[i]
    BY <1>1 DEF Front
  <1> QED  BY <1>1, <1>2 DEF Top, Last

(* pushAndRemoveUntil(..., (route) => false): one route is left.           *)
LEMMA ShowOnlyType ==
    ASSUME NEW r \in Route, stack' = <<r>>
    PROVE  /\ stack' \in Seq(Route)
           /\ stack' # <<>>
           /\ Len(stack') = 1
           /\ Top' = r
  BY DEF Top, Last

(* A rebuild of the SplashScreen changes no other route.                   *)
LEMMA RebuildType ==
    ASSUME TypeOK, NEW u \in Users \cup {NoUser}, stack' = RebuildSplash(u)
    PROVE  /\ stack' \in Seq(Route)
           /\ stack' # <<>>
           /\ Len(stack') = Len(stack)
           /\ \A i \in 1..Len(stack) :
                /\ stack'[i].page = stack[i].page
                /\ stack[i].page # "splash" => stack'[i] = stack[i]
           /\ Top'.page = Top.page
           /\ Top.page # "splash" => Top' = Top
  <1>1. Len(stack) \in Nat /\ Len(stack) >= 1 /\ DOMAIN stack = 1..Len(stack)
    BY DEF TypeOK
  <1>2. ASSUME NEW i \in 1..Len(stack)
        PROVE  /\ stack'[i] \in Route
               /\ stack'[i].page = stack[i].page
               /\ stack[i].page # "splash" => stack'[i] = stack[i]
    <2>1. stack[i] \in Route
      BY DEF TypeOK
    <2>2. CASE stack[i].page # "splash"
      BY <1>1, <2>1, <2>2 DEF RebuildSplash
    <2>3. CASE stack[i].page = "splash"
      <3>1. stack[i].user \in Users \cup {NoUser}
        BY <2>1, <2>3, RouteByPage DEF SplashRoute
      <3>2. PICK v \in Users \cup {NoUser} : stack'[i] = SplashPage(v)
        BY <1>1, <2>3, <3>1 DEF RebuildSplash
      <3> QED  BY <2>3, <3>2, PageTypes DEF SplashPage
    <2> QED  BY <2>2, <2>3
  <1>3. stack' \in Seq(Route) /\ Len(stack') = Len(stack)
    BY <1>1, <1>2 DEF RebuildSplash
  <1> QED  BY <1>1, <1>2, <1>3 DEF Top, Last

-----------------------------------------------------------------------------
(* Dates.                                                                  *)

(* The night count of any two dates is an integer.                         *)
LEMMA NightsType ==
    ASSUME NEW ci \in Day, NEW co \in Day
    PROVE  Nights(ci, co) \in Int
  <1>1. ci \in Int /\ co \in Int /\ UtcOffset[ci] \in Int /\ UtcOffset[co] \in Int
    BY DatesAssumption DEF Day
  <1>2. Midnight(co) - Midnight(ci) \in Int
    BY <1>1 DEF Midnight
  <1>3. \A n \in Int : InDays(n) \in Int
    BY DEF InDays
  <1> QED  BY <1>2, <1>3 DEF Nights

(* The dates initState writes are dates of the calendar.                   *)
LEMMA InitialDatesType ==
    ASSUME NEW r \in Readings
    PROVE  /\ InitialDates(r[1], r[2]).checkIn \in Day
           /\ InitialDates(r[1], r[2]).checkOut \in Day
           /\ InitialDates(r[1], r[2]).night = 1
  <1>1. DateOf(r[1]) \in Day
    BY ReadingsAssumption DEF DateOf
  <1>2. DateOf(r[2] + 24) \in Day
    BY ReadingsAssumption DEF DateOf
  <1> QED  BY <1>1, <1>2 DEF InitialDates

(* A picked date gives a stay again.                                       *)
LEMMA WithDatesType ==
    ASSUME NEW stay \in Stay, NEW ci \in Day, NEW co \in Day
    PROVE  WithDates(stay, ci, co) \in Stay
  BY NightsType DEF WithDates, Stay

(* The nights between picked dates: inDays truncates what a clock change    *)
(* adds or takes, which is never more than one night.                      *)
LEMMA PickedNights ==
    ASSUME NEW ci \in Day, NEW co \in Day
    PROVE  /\ Nights(ci, co) - (co - ci) \in {-1, 0, 1}
           /\ UtcOffset[ci] = UtcOffset[co] => Nights(ci, co) = co - ci
  <1>1. ci \in Int /\ co \in Int /\ UtcOffset[ci] \in Int /\ UtcOffset[co] \in Int
    BY DatesAssumption DEF Day
  <1>2. UtcOffset[co] - UtcOffset[ci] \in -24..24
    <2>1. CASE ci < co
      BY <2>1, ZoneAssumption
    <2>2. CASE co < ci
      <3>1. UtcOffset[ci] - UtcOffset[co] \in -24..24
        BY <2>2, ZoneAssumption
      <3> QED  BY <1>1, <3>1
    <2>3. CASE ci = co
      BY <1>1, <2>3
    <2> QED  BY <1>1, <2>1, <2>2, <2>3
  <1>3. PICK n \in Int, k \in -24..24 :
            /\ n = co - ci /\ k = UtcOffset[co] - UtcOffset[ci]
            /\ Midnight(co) - Midnight(ci) = 24 * n - k
    BY <1>1, <1>2 DEF Midnight
  <1>4. \A m \in Int, j \in -24..24 :
            /\ InDays(24 * m - j) - m \in {-1, 0, 1}
            /\ j = 0 => InDays(24 * m - j) = m
    BY DEF InDays
  <1>5. Nights(ci, co) = InDays(24 * n - k)
    BY <1>3 DEF Nights
  <1>6. /\ InDays(24 * n - k) - n \in {-1, 0, 1}
        /\ k = 0 => InDays(24 * n - k) = n
    BY <1>4
  <1>7. UtcOffset[ci] = UtcOffset[co] => k = 0
    BY <1>1, <1>3
  <1> QED  BY <1>3, <1>5, <1>6, <1>7

(* The nights of a picked stay.                                            *)
LEMMA WithDatesNights ==
    ASSUME NEW stay \in Stay, NEW ci \in Day, NEW co \in Day
    PROVE  NightsOf(Dates(WithDates(stay, ci, co)))
  <1>1. ci \in Int /\ co \in Int /\ Nights(ci, co) \in Int
    BY NightsType DEF Day
  <1>2. LET s == Dates(WithDates(stay, ci, co))
        IN  s.checkIn = ci /\ s.checkOut = co /\ s.night = Nights(ci, co)
    BY DEF Dates, WithDates
  <1>3. /\ Nights(ci, co) - (co - ci) \in {-1, 0, 1}
        /\ UtcOffset[ci] = UtcOffset[co] => Nights(ci, co) - (co - ci) = 0
    BY <1>1, PickedNights
  <1> QED  BY <1>2, <1>3 DEF NightsOf

(* An instant falls on the day DateOf finds.                               *)
LEMMA DateOfFalls ==
    ASSUME NEW t \in Int, \E d \in Day : FallsOn(t, d)
    PROVE  DateOf(t) \in Day /\ FallsOn(t, DateOf(t))
  BY DEF DateOf

(* The dates initState writes are one night apart, but for one night more    *)
(* or less around a midnight.                                              *)
LEMMA InitialNights ==
    ASSUME NEW r \in Readings
    PROVE  NightsOf(InitialDates(r[1], r[2]))
  <1> DEFINE a == DateOf(r[1])
             b == DateOf(r[2] + 24)
  <1>1. r[1] \in Int /\ r[2] \in Int /\ r[1] <= r[2] /\ r[2] <= r[1] + 1
    BY ReadingsAssumption
  <1>2. a \in Day /\ FallsOn(r[1], a)
    BY <1>1, ReadingsAssumption, DateOfFalls
  <1>3. b \in Day /\ FallsOn(r[2] + 24, b)
    BY <1>1, ReadingsAssumption, DateOfFalls
  <1> HIDE DEF a, b
  <1>4. a \in Int /\ b \in Int /\ \A d \in Day : Midnight(d) \in Int
    BY <1>2, <1>3, DatesAssumption DEF Day, Midnight
  <1>5. \A d, e \in Day : d < e => Midnight(e) - Midnight(d) >= 13 * (e - d)
    BY ZoneAssumption
  <1>6. ~(b < a)
    <2> SUFFICES ASSUME b < a PROVE FALSE
      OBVIOUS
    <2>1. b + 1 \in Day
      BY <1>2, <1>3, <1>4, DatesAssumption DEF Day
    <2>2. Midnight(b + 1) <= Midnight(a)
      <3>1. CASE b + 1 = a
        BY <1>4, <2>1, <3>1
      <3>2. CASE b + 1 < a
        BY <1>2, <1>4, <1>5, <2>1, <3>2
      <3> QED  BY <1>4, <3>1, <3>2
    <2>3. r[2] + 24 < Midnight(b + 1) /\ Midnight(a) <= r[1]
      BY <1>2, <1>3, <2>1 DEF FallsOn
    <2> QED  BY <1>1, <1>2, <1>4, <2>1, <2>2, <2>3
  <1>7. ~(b > a + 2)
    <2> SUFFICES ASSUME b > a + 2 PROVE FALSE
      OBVIOUS
    <2>1. a + 1 \in Day /\ a + 1 < b
      BY <1>2, <1>3, <1>4, DatesAssumption DEF Day
    <2>2. Midnight(b) - Midnight(a + 1) >= 13 * (b - (a + 1))
      BY <1>3, <1>5, <2>1
    <2>3. r[1] < Midnight(a + 1) /\ Midnight(b) <= r[2] + 24
      BY <1>2, <1>3, <2>1 DEF FallsOn
    <2> QED  BY <1>1, <1>3, <1>4, <2>1, <2>2, <2>3
  <1>8. 1 - (b - a) \in {-1, 0, 1}
    BY <1>4, <1>6, <1>7
  <1>9. /\ InitialDates(r[1], r[2]).checkIn = a
        /\ InitialDates(r[1], r[2]).checkOut = b
        /\ InitialDates(r[1], r[2]).night = 1
    BY DEF InitialDates, a, b
  <1> HIDE DEF InitialDates
  <1> QED  BY <1>8, <1>9 DEF NightsOf

-----------------------------------------------------------------------------
(* The store.                                                              *)

(* The document that handleBooking() builds from its page is an order.     *)
LEMMA OrderType ==
    ASSUME NEW r \in MethodRoute, NEW u \in Users
    PROVE  NewOrder(r, u) \in Order
  <1>1. r.stay \in Stay /\ r.filled \in SUBSET Fields
        /\ r.option \in PaymentOptions
    BY DEF MethodRoute
  <1>2. r.stay.price \in Int /\ r.stay.night \in Int
    BY <1>1, BookingAssumption DEF Stay
  <1>3. r.stay.price * r.stay.night \in Int
    BY <1>2
  <1> QED  BY <1>1, <1>3 DEF NewOrder, Order, Stay

(* A callback after NotifyUser is an old one or a completed old one.       *)
LEMMA NotifyType ==
    ASSUME callbacks \subseteq Callback, NEW id \in 1..MaxOrders,
           NEW status \in {"ok", "error"}, NotifyUser(id, status)
    PROVE  /\ callbacks' \subseteq Callback
           /\ \A c \in callbacks' :
                \/ c \in callbacks
                \/ /\ c.order = id /\ c.status = status
                   /\ \E d \in callbacks : d.order = id /\ d.inst = c.inst
  BY DEF NotifyUser, Callback

(* add() appends the document and keeps the earlier ones.                  *)
LEMMA WriteType ==
    ASSUME StoreTypeOK(Order), NEW u \in Users, NEW doc \in Order,
           NEW inst \in Nat, WriteMutations(u, doc, inst)
    PROVE  /\ StoreTypeOK(Order)'
           /\ Len(placed') = Len(placed) + 1
           /\ \A o \in OrderIds : placed'[o] = placed[o]
           /\ placed'[Len(placed) + 1] = doc
  <1>1. /\ placed \in Seq(Order) /\ Len(placed) \in Nat
        /\ placed' = Append(placed, doc) /\ Len(placed) + 1 <= MaxOrders
        /\ MaxOrders \in Nat
    BY OrderStoreAssumption DEF StoreTypeOK, WriteMutations
  <1>2. /\ placed' \in Seq(Order) /\ Len(placed') = Len(placed) + 1
        /\ \A o \in OrderIds : placed'[o] = placed[o]
        /\ placed'[Len(placed) + 1] = doc
    BY <1>1 DEF OrderIds
  <1>3. OrderIds \subseteq OrderIds' /\ Len(placed) + 1 \in OrderIds'
    BY <1>1, <1>2 DEF OrderIds
  <1>4. ASSUME NEW q \in Seq(OrderIds) PROVE q \in Seq(OrderIds')
    BY <1>3, <1>4
  <1>5. queue' \in [Users -> Seq(OrderIds')]
    <2>1. queue' = [queue EXCEPT ![u] = Append(queue[u], Len(placed) + 1)]
      BY DEF WriteMutations
    <2>2. Append(queue[u], Len(placed) + 1) \in Seq(OrderIds')
      BY <1>3, <1>4 DEF StoreTypeOK
    <2>3. \A v \in Users : queue[v] \in Seq(OrderIds')
      BY <1>4 DEF StoreTypeOK
    <2> HIDE DEF OrderIds
    <2> QED  BY <2>1, <2>2, <2>3 DEF StoreTypeOK
  <1>6. callbacks' \subseteq Callback
    BY <1>1 DEF WriteMutations, StoreTypeOK, Callback
  <1> QED
    BY <1>1, <1>2, <1>3, <1>5, <1>6 DEF WriteMutations, StoreTypeOK

(* The head of a queue is an order.                                        *)
LEMMA HeadType ==
    ASSUME StoreTypeOK(Order), NEW u \in Users, queue[u] # <<>>
    PROVE  /\ Head(queue[u]) \in OrderIds
           /\ Head(queue[u]) \in 1..MaxOrders
           /\ Head(queue[u]) = queue[u][1]
           /\ Len(queue[u]) \in Nat /\ Len(queue[u]) >= 1
           /\ Tail(queue[u]) \in Seq(OrderIds)
           /\ Len(Tail(queue[u])) = Len(queue[u]) - 1
           /\ \A i \in 1..(Len(queue[u]) - 1) :
                Tail(queue[u])[i] = queue[u][i + 1]
  <1>1. queue[u] \in Seq(OrderIds)
    BY DEF StoreTypeOK
  <1>2. OrderIds \subseteq 1..MaxOrders
    BY OrderStoreAssumption DEF StoreTypeOK, OrderIds
  <1>3. /\ Len(queue[u]) \in Nat /\ Len(queue[u]) >= 1
        /\ Head(queue[u]) = queue[u][1] /\ Head(queue[u]) \in OrderIds
    BY <1>1
  <1>4. /\ Tail(queue[u]) \in Seq(OrderIds)
        /\ Len(Tail(queue[u])) = Len(queue[u]) - 1
        /\ \A i \in 1..(Len(queue[u]) - 1) :
                Tail(queue[u])[i] = queue[u][i + 1]
    BY <1>1
  <1> QED  BY <1>2, <1>3, <1>4

(* The steps of the Firestore client keep the types.                       *)
LEMMA StoreStepType ==
    ASSUME StoreTypeOK(Order), NEW u \in Users,
           \/ \E i \in 1..Len(queue[u]) : ServerApply(u, i)
           \/ HandleSuccessfulWrite(u)
           \/ HandleRejectedWrite(u)
    PROVE  StoreTypeOK(Order)'
  <1>1. ASSUME NEW i \in 1..Len(queue[u]), ServerApply(u, i)
        PROVE  StoreTypeOK(Order)'
    <2>1. queue[u][i] \in OrderIds
      <3>1. queue[u] \in Seq(OrderIds)
        BY DEF StoreTypeOK
      <3> QED  BY <3>1
    <2> QED  BY <1>1, <2>1 DEF ServerApply, StoreTypeOK, OrderIds
  <1>2. ASSUME queue[u] # <<>>, queue' = [queue EXCEPT ![u] = Tail(queue[u])],
               placed' = placed
        PROVE  queue' \in [Users -> Seq(OrderIds')]
    BY <1>2, HeadType DEF StoreTypeOK, OrderIds
  <1>3. CASE HandleSuccessfulWrite(u)
    BY <1>2, <1>3, HeadType, NotifyType
       DEF HandleSuccessfulWrite, StoreTypeOK, OrderIds
  <1>4. CASE HandleRejectedWrite(u)
    <2>1. /\ queue' \in [Users -> Seq(OrderIds')] /\ placed' = placed
          /\ server' = server
      BY <1>2, <1>4 DEF HandleRejectedWrite
    <2>2. rejected' \subseteq OrderIds
      BY <1>4, HeadType DEF HandleRejectedWrite, StoreTypeOK
    <2>3. callbacks' \subseteq Callback
      BY <1>4, HeadType, NotifyType DEF HandleRejectedWrite, StoreTypeOK
    <2> QED  BY <2>1, <2>2, <2>3 DEF StoreTypeOK, OrderIds
  <1> QED  BY <1>1, <1>3, <1>4

-----------------------------------------------------------------------------
(* Type correctness.                                                       *)

(* The calls keep the types of the session.                                *)
LEMMA SignInsType ==
    ASSUME SignInsTypeOK(Users)
    PROVE  /\ \A u \in Users : CallSent(u) => SignInsTypeOK(Users)'
           /\ \A u \in Users, v \in Users \cup {NoUser} :
                    CallEnds(u, v) => SignInsTypeOK(Users)'
           /\ UserGone => SignInsTypeOK(Users)'
           /\ SignInsRestart => SignInsTypeOK(Users)'
           /\ UNCHANGED signInVars => SignInsTypeOK(Users)'
  <1> USE SignInsAssumption DEF SignInsTypeOK
  <1>1. \A u \in Users : CallSent(u) => SignInsTypeOK(Users)'
    BY DEF CallSent, Awaited
  <1>2. \A u \in Users, v \in Users \cup {NoUser} :
            CallEnds(u, v) => SignInsTypeOK(Users)'
    BY DEF CallEnds
  <1>3. UserGone => SignInsTypeOK(Users)'
    BY DEF UserGone
  <1>4. SignInsRestart => SignInsTypeOK(Users)'
    <2>1. DOMAIN signIns = Users /\ 0 \in 0..MaxSignIns
      OBVIOUS
    <2>2. [v \in Users |-> 0] \in [Users -> 0..MaxSignIns]
      BY <2>1
    <2> QED  BY <2>1, <2>2 DEF SignInsRestart
  <1>5. UNCHANGED signInVars => SignInsTypeOK(Users)'
    BY DEF signInVars
  <1> QED  BY <1>1, <1>2, <1>3, <1>4, <1>5

(* PaymentMethod pages that are mounted, on the stack or animating out.    *)
LEMMA MountedType ==
    ASSUME TypeOK
    PROVE  MethodPages \subseteq MethodRoute /\ leaving \subseteq MethodRoute
  <1>1. \A i \in DOMAIN stack : stack[i] \in Route
    BY DEF TypeOK
  <1> QED  BY <1>1, RouteByPage DEF TypeOK, MethodPages, Pages

(* Every step of the app keeps the types.                                  *)
LEMMA TypeStep == TypeOK /\ [Next]_vars => TypeOK'
  <1> SUFFICES ASSUME TypeOK, [Next]_vars PROVE TypeOK'
    OBVIOUS
  <1> DEFINE StackOK == stack \in Seq(Route) /\ stack # <<>>
  <1> USE DEF userVars, uiVars, hotelVars, storeVars
  <1>a. UNCHANGED storeVars => (StoreTypeOK(Order)' <=> StoreTypeOK(Order))
    BY DEF StoreTypeOK, OrderIds
  <1>s. SignInsTypeOK(Users)
    BY DEF TypeOK
  <1>b. UNCHANGED signInVars => SignInsTypeOK(Users)'
    BY <1>s, SignInsType
  <1>c. currentUser \in Users \cup {NoUser}
    BY <1>s DEF SignInsTypeOK
  <1>1. ASSUME NEW u \in Users, SignIn(u) PROVE TypeOK'
    <2>1. StackOK'
      BY <1>1, RebuildType DEF SignIn
    <2>2. SignInsTypeOK(Users)'
      BY <1>s, <1>1, SignInsType DEF SignIn
    <2> QED  BY <1>a, <1>1, <2>1, <2>2 DEF SignIn, TypeOK
  <1>23. ASSUME NEW u \in Users, SignInPressed(u) \/ SignInFails(u) PROVE TypeOK'
    <2>1. SignInsTypeOK(Users)'
      BY <1>s, <1>c, <1>23, SignInsType DEF SignInPressed, SignInFails
    <2> QED  BY <1>a, <1>23, <2>1 DEF SignInPressed, SignInFails, TypeOK
  <1>2. CASE SignOutTap
    <2>1. currentUser \in Users \cup {NoUser} /\ stack' = <<SplashPage(currentUser)>>
      BY <1>c, <1>2 DEF SignOutTap, Splash
    <2>2. StackOK'
      BY <2>1, PageTypes, ShowOnlyType
    <2> QED  BY <1>a, <1>b, <1>2, <2>2 DEF SignOutTap, TypeOK
  <1>3. CASE SignOutDone
    <2>1. StackOK'
      BY <1>3, RebuildType DEF SignOutDone
    <2>2. SignInsTypeOK(Users)'
      BY <1>s, <1>3, SignInsType DEF SignOutDone
    <2> QED  BY <1>a, <1>3, <2>1, <2>2 DEF SignOutDone, TypeOK
  <1>4. CASE ForcedSignOut
    <2>1. StackOK'
      BY <1>4, RebuildType DEF ForcedSignOut
    <2>2. SignInsTypeOK(Users)'
      BY <1>s, <1>4, SignInsType DEF ForcedSignOut
    <2> QED  BY <1>a, <1>4, <2>1, <2>2 DEF ForcedSignOut, TypeOK
  <1>5. ASSUME NEW h \in Hotels, NEW p \in Prices \cup {NoData}, EditHotel(h, p)
        PROVE  TypeOK'
    <2>1. hotels' \in [Hotels -> Prices \cup {NoData}]
      BY <1>5 DEF EditHotel, TypeOK
    <2>2. everPriced' \in [Hotels -> SUBSET Prices]
      BY <1>5 DEF EditHotel, TypeOK
    <2>3. edits' \in 0..MaxEdits
      BY <1>5, BookingAssumption DEF EditHotel, TypeOK
    <2> QED  BY <1>a, <1>b, <1>5, <2>1, <2>2, <2>3 DEF EditHotel, TypeOK
  <1>6. ASSUME NEW h \in Hotels, OpenHotel(h) PROVE TypeOK'
    <2>1. DetailPage(h, NoData) \in Route
      BY PageTypes
    <2>2. StackOK'
      BY <1>6, <2>1, PushType DEF OpenHotel
    <2> QED  BY <1>a, <1>b, <1>6, <2>2 DEF OpenHotel, TypeOK
  <1>7. ASSUME NEW i \in DOMAIN stack, HotelSnapshot(i) PROVE TypeOK'
    <2>1. stack \in Seq(Route) /\ stack[i] \in Route /\ stack[i].page = "detail"
      BY <1>7 DEF HotelSnapshot, TypeOK
    <2>2. stack[i].hotel \in Hotels
      BY <2>1, RouteByPage DEF DetailRoute
    <2>3. PICK p \in {hotels[stack[i].hotel], NoData} :
              stack' = [stack EXCEPT ![i] = DetailPage(stack[i].hotel, p)]
      BY <1>7 DEF HotelSnapshot
    <2>4. DetailPage(stack[i].hotel, p) \in Route
      BY <2>2, <2>3, PageTypes DEF TypeOK
    <2>5. StackOK'
      BY <2>1, <2>3, <2>4 DEF TypeOK
    <2> QED  BY <1>a, <1>b, <1>7, <2>5 DEF HotelSnapshot, TypeOK
  <1>8. ASSUME NEW r \in Readings, OpenBooking(r) PROVE TypeOK'
    <2> DEFINE dates == InitialDates(r[1], r[2])
               stay == [hotel |-> Top.hotel, price |-> Top.price,
                        checkIn |-> dates.checkIn, checkOut |-> dates.checkOut,
                        night |-> dates.night]
    <2>1. Top \in DetailRoute /\ Top.price # NoData
      BY <1>8, TopType, RouteByPage DEF OpenBooking
    <2>2. dates.checkIn \in Day /\ dates.checkOut \in Day /\ dates.night = 1
      BY InitialDatesType
    <2> HIDE DEF dates
    <2>3. stay \in Stay
      BY <2>1, <2>2 DEF DetailRoute, Stay
    <2>4. stack' = Append(stack, BookingDetail(stay, {}))
      BY <1>8 DEF OpenBooking, dates
    <2> HIDE DEF stay
    <2>5. BookingDetail(stay, {}) \in Route
      BY <2>3, PageTypes
    <2>6. StackOK'
      BY <2>4, <2>5, PushType
    <2> QED  BY <1>a, <1>b, <1>8, <2>6 DEF OpenBooking, TypeOK
  <1>9. ASSUME Top.page = "booking"
        PROVE  Top.stay \in Stay /\ Top.filled \in SUBSET Fields
               /\ Top.stay.checkIn \in Day /\ Top.stay.checkOut \in Day
    BY <1>9, TopType, RouteByPage DEF BookingRoute, Stay
  <1>10. ASSUME NEW d \in Day, PickCheckIn(d) PROVE TypeOK'
    <2> DEFINE r == BookingDetail(WithDates(Top.stay, d, Top.stay.checkOut),
                                  Top.filled)
    <2>1. r \in Route
      BY <1>9, <1>10, WithDatesType, PageTypes DEF PickCheckIn
    <2>2. stack' = ReplaceTop(r)
      BY <1>10 DEF PickCheckIn
    <2> HIDE DEF r
    <2>3. StackOK'
      BY <2>1, <2>2, ReplaceType
    <2> QED  BY <1>a, <1>b, <1>10, <2>3 DEF PickCheckIn, TypeOK
  <1>11. ASSUME NEW d \in Day, PickCheckOut(d) PROVE TypeOK'
    <2> DEFINE r == BookingDetail(WithDates(Top.stay, Top.stay.checkIn, d),
                                  Top.filled)
    <2>1. r \in Route
      BY <1>9, <1>11, WithDatesType, PageTypes DEF PickCheckOut
    <2>2. stack' = ReplaceTop(r)
      BY <1>11 DEF PickCheckOut
    <2> HIDE DEF r
    <2>3. StackOK'
      BY <2>1, <2>2, ReplaceType
    <2> QED  BY <1>a, <1>b, <1>11, <2>3 DEF PickCheckOut, TypeOK
  <1>12. ASSUME NEW f \in Fields, EditField(f) PROVE TypeOK'
    <2>1. PICK filled \in SUBSET Fields :
                stack' = ReplaceTop(BookingDetail(Top.stay, filled))
      <3>1. Top.filled \in SUBSET Fields
        BY <1>9, <1>12 DEF EditField
      <3> QED  BY <1>12, <3>1 DEF EditField
    <2>2. BookingDetail(Top.stay, filled) \in Route
      BY <1>9, <1>12, PageTypes DEF EditField
    <2>3. StackOK'
      BY <2>1, <2>2, ReplaceType
    <2> QED  BY <1>a, <1>b, <1>12, <2>3 DEF EditField, TypeOK
  <1>13. CASE NextPressed
    <2> DEFINE r == PaymentMethod(visits + 1, Top.stay, Top.filled,
                                  DefaultOption)
    <2>1. visits' \in 0..MaxVisits /\ visits + 1 \in 1..MaxVisits
      BY <1>13, BookingAssumption DEF NextPressed, TypeOK
    <2>2. r \in Route
      BY <1>9, <1>13, <2>1, PageTypes, BookingAssumption DEF NextPressed
    <2>3. stack' = Append(stack, r)
      BY <1>13 DEF NextPressed
    <2> HIDE DEF r
    <2>4. StackOK'
      BY <2>2, <2>3, PushType
    <2> QED  BY <1>a, <1>b, <1>13, <2>1, <2>4 DEF NextPressed, TypeOK
  <1>14. ASSUME NEW o \in PaymentOptions, SelectOption(o) PROVE TypeOK'
    <2>1. Top \in MethodRoute
      BY <1>14, TopType, RouteByPage DEF SelectOption
    <2>2. PaymentMethod(Top.inst, Top.stay, Top.filled, o) \in Route
      BY <2>1, PageTypes DEF MethodRoute
    <2>3. StackOK'
      BY <1>14, <2>2, ReplaceType DEF SelectOption
    <2>4. drifted' \subseteq 1..MaxOrders
      BY <1>14 DEF SelectOption, TypeOK, StoreTypeOK, Callback
    <2> QED  BY <1>a, <1>b, <1>14, <2>3, <2>4 DEF SelectOption, TypeOK
  <1>15. CASE HandleBooking
    <2>1. Top \in MethodRoute /\ currentUser \in Users
      BY <1>c, <1>15, TopType, RouteByPage DEF HandleBooking
    <2>2. NewOrder(Top, currentUser) \in Order /\ Top.inst \in Nat
      BY <2>1, OrderType DEF MethodRoute
    <2>3. StoreTypeOK(Order)'
      BY <1>15, <2>1, <2>2, WriteType DEF HandleBooking, TypeOK, SignInsTypeOK
    <2> QED  BY <1>b, <1>15, <2>3 DEF HandleBooking, TypeOK, SignInsTypeOK
  <1>16. ASSUME NEW c \in callbacks, BookingResumes(c) PROVE TypeOK'
    <2>1. StoreTypeOK(Order)'
      BY <1>16 DEF BookingResumes, TypeOK, StoreTypeOK, OrderIds
    <2>2. ASSUME NEW m \in MethodPages \cup leaving, ShowPayment(m, c.order)
          PROVE  StackOK' /\ leaving' \subseteq MethodRoute
      <3>1. c.order \in 1..MaxOrders
        BY DEF TypeOK, StoreTypeOK, Callback
      <3>2. m.stay \in Stay /\ m.option \in PaymentOptions
        BY MountedType DEF MethodRoute
      <3>3. PaymentPage(m.stay, m.option, c.order) \in Route
        BY <3>1, <3>2, PageTypes
      <3>4. StackOK'
        BY <2>2, <3>3, ShowOnlyType DEF ShowPayment
      <3> QED  BY <2>2, <3>4, MountedType DEF ShowPayment
    <2>3. CASE UNCHANGED <<stack, leaving>>
      BY <1>b, <1>16, <2>1, <2>3 DEF BookingResumes, TypeOK
    <2> QED  BY <1>b, <1>16, <2>1, <2>2, <2>3 DEF BookingResumes, TypeOK
  <1>17. CASE Back
    <2>1. StackOK'
      BY <1>17, PopType DEF Back
    <2>2. leaving' \subseteq MethodRoute
      BY <1>17, TopType, RouteByPage, MountedType DEF Back
    <2> QED  BY <1>a, <1>b, <1>17, <2>1, <2>2 DEF Back, TypeOK
  <1>18. ASSUME NEW m \in leaving, TransitionEnds(m) PROVE TypeOK'
    BY <1>a, <1>b, <1>18 DEF TransitionEnds, TypeOK
  <1>19. CASE HomePressed
    <2>1. MainPage(currentUser) \in Route
      BY <1>c, PageTypes
    <2>2. StackOK'
      BY <1>19, <2>1, ShowOnlyType DEF HomePressed
    <2> QED  BY <1>a, <1>b, <1>19, <2>2 DEF HomePressed, TypeOK
  <1>20. CASE AppRestart
    <2>1. SplashPage(currentUser) \in Route
      BY <1>c, PageTypes
    <2>2. StackOK'
      BY <1>20, <2>1, ShowOnlyType DEF AppRestart, Splash
    <2>3. StoreTypeOK(Order)'
      BY <1>20 DEF AppRestart, StoreRestart, TypeOK, StoreTypeOK, OrderIds
    <2>4. SignInsTypeOK(Users)'
      BY <1>s, <1>20, SignInsType DEF AppRestart
    <2> QED  BY <1>20, <2>2, <2>3, <2>4 DEF AppRestart, TypeOK
  <1>21. ASSUME NEW u \in Users, StoreStep(u) PROVE TypeOK'
    <2>1. StoreTypeOK(Order)'
      BY <1>21, StoreStepType DEF StoreStep, TypeOK
    <2> QED  BY <1>b, <1>21, <2>1 DEF StoreStep, TypeOK
  <1>22. CASE UNCHANGED vars
    BY <1>a, <1>b, <1>22 DEF vars, signInVars, TypeOK
  <1> QED
    BY <1>1, <1>2, <1>3, <1>4, <1>5, <1>6, <1>7, <1>8, <1>10, <1>11, <1>12,
       <1>13, <1>14, <1>15, <1>16, <1>17, <1>18, <1>19, <1>20, <1>21, <1>22,
       <1>23
       DEF Next

(* Every reachable state of the booking flow is well typed.                *)
THEOREM TypeCorrect == Spec => []TypeOK
  <1>1. Init => TypeOK
    <2> SUFFICES ASSUME Init PROVE TypeOK
      OBVIOUS
    <2>1. SplashPage(currentUser) \in Route
      BY PageTypes DEF Init, SignInsInit
    <2>2. stack \in Seq(Route) /\ stack # <<>>
      BY <2>1 DEF Init, Splash
    <2>3. hotels \in [Hotels -> Prices \cup {NoData}]
          /\ everPriced \in [Hotels -> SUBSET Prices]
          /\ edits \in 0..MaxEdits
      BY BookingAssumption DEF Init
    <2>4. StoreTypeOK(Order)
      BY OrderStoreAssumption DEF Init, StoreInit, StoreTypeOK, OrderIds
    <2>5. visits \in 0..MaxVisits
      BY BookingAssumption DEF Init
    <2>6. /\ leaving \subseteq MethodRoute /\ signingOut \in BOOLEAN
          /\ drifted \subseteq 1..MaxOrders
      BY DEF Init
    <2>7. SignInsTypeOK(Users)
      <3>1. 0 \in 0..MaxSignIns
        BY SignInsAssumption
      <3>2. [u \in Users |-> 0] \in [Users -> 0..MaxSignIns]
        BY <3>1
      <3> QED  BY <3>2 DEF Init, SignInsInit, SignInsTypeOK
    <2> QED  BY <2>2, <2>3, <2>4, <2>5, <2>6, <2>7 DEF TypeOK
  <1> QED  BY <1>1, TypeStep, PTL DEF Spec

-----------------------------------------------------------------------------
(* The order of the routes: a MainPage, an AuthPage or a PaymentPage at the *)
(* bottom, the pages of the flow above, nothing above a PaymentMethod or a  *)
(* PaymentPage.                                                            *)
WellStacked ==
    /\ stack[1].page \in {"splash", "main", "payment"}
    /\ \A i \in 2..Len(stack) :
            stack[i].page \in {"detail", "booking", "method"}
    /\ \A i \in 1..(Len(stack) - 1) :
            stack[i].page \notin {"method", "payment"}

(* Pushing a page of the flow on a page it may lie on.                     *)
LEMMA WellPush ==
    ASSUME TypeOK, WellStacked, NEW r \in Route, stack' = Append(stack, r),
           r.page \in {"detail", "booking", "method"},
           Top.page \notin {"method", "payment"}
    PROVE  WellStacked'
  <1>1. /\ Len(stack) \in Nat /\ Len(stack) >= 1 /\ Top = stack[Len(stack)]
        /\ Len(stack') = Len(stack) + 1
        /\ \A i \in 1..Len(stack) : stack'[i] = stack[i]
        /\ stack'[Len(stack) + 1] = r
    BY TopType, PushType
  <1> QED  BY <1>1 DEF WellStacked

(* The routes change without any page being replaced by another one.       *)
LEMMA WellSame ==
    ASSUME TypeOK, WellStacked, Len(stack') = Len(stack),
           \A i \in 1..Len(stack) : stack'[i].page = stack[i].page
    PROVE  WellStacked'
  <1>1. Len(stack) \in Nat /\ Len(stack) >= 1
    BY TopType
  <1> QED  BY <1>1 DEF WellStacked

(* setState() of the page on screen.                                       *)
LEMMA WellReplace ==
    ASSUME TypeOK, WellStacked, NEW r \in Route, stack' = ReplaceTop(r),
           r.page = Top.page
    PROVE  WellStacked'
  <1>1. /\ Len(stack) \in Nat /\ Len(stack) >= 1
        /\ Top = stack[Len(stack)] /\ Top' = stack'[Len(stack')]
        /\ Len(stack') = Len(stack) /\ Top' = r
        /\ \A i \in 1..(Len(stack) - 1) : stack'[i] = stack[i]
    BY TopType, ReplaceType DEF Top, Last
  <1>2. \A i \in 1..Len(stack) : stack'[i].page = stack[i].page
    BY <1>1
  <1> QED  BY <1>1, <1>2, WellSame

(* A stack of one route is well stacked.                                   *)
LEMMA WellOnly ==
    ASSUME NEW r, stack' = <<r>>, r.page \in {"splash", "main", "payment"}
    PROVE  WellStacked'
  <1>1. Len(stack') = 1 /\ stack'[1] = r
    OBVIOUS
  <1> QED  BY <1>1 DEF WellStacked

(* Every step of the app keeps the stack in the order of the flow.         *)
LEMMA StackStep == TypeOK /\ TypeOK' /\ WellStacked /\ [Next]_vars => WellStacked'
  <1> SUFFICES ASSUME TypeOK, TypeOK', WellStacked, [Next]_vars
               PROVE  WellStacked'
    OBVIOUS
  <1> USE DEF uiVars
  <1>1. ASSUME stack' = stack PROVE WellStacked'
    BY <1>1 DEF WellStacked
  <1>2. ASSUME NEW u \in Users \cup {NoUser}, stack' = RebuildSplash(u)
        PROVE  WellStacked'
    BY <1>2, RebuildType, WellSame
  <1>3. ASSUME \/ \E u \in Users : SignIn(u)
               \/ SignOutDone
               \/ ForcedSignOut
        PROVE  WellStacked'
    BY <1>2, <1>3 DEF SignIn, SignOutDone, ForcedSignOut
  <1>4. CASE SignOutTap
    BY <1>4, WellOnly DEF SignOutTap, Splash, SplashPage
  <1>5. CASE HomePressed
    BY <1>5, WellOnly DEF HomePressed, MainPage
  <1>6. CASE AppRestart
    BY <1>6, WellOnly DEF AppRestart, Splash, SplashPage
  <1>7. ASSUME NEW h \in Hotels, OpenHotel(h) PROVE WellStacked'
    <2>1. DetailPage(h, NoData) \in Route /\ DetailPage(h, NoData).page = "detail"
      BY PageTypes DEF DetailPage
    <2> QED  BY <1>7, <2>1, WellPush DEF OpenHotel, MainVisible
  <1>8. ASSUME NEW i \in DOMAIN stack, HotelSnapshot(i) PROVE WellStacked'
    <2>1. /\ stack \in Seq(Route) /\ stack[i].page = "detail"
          /\ \E p : stack' = [stack EXCEPT ![i] =
                                DetailPage(stack[i].hotel, p)]
      BY <1>8 DEF HotelSnapshot, TypeOK
    <2>2. /\ Len(stack') = Len(stack)
          /\ \A j \in 1..Len(stack) : stack'[j].page = stack[j].page
      BY <2>1 DEF DetailPage
    <2> QED  BY <2>2, WellSame
  <1>9. ASSUME NEW r, stack' = Append(stack, r),
               r.page \in {"detail", "booking", "method"},
               Top.page \notin {"method", "payment"}
        PROVE  WellStacked'
    <2>1. stack' \in Seq(Route) /\ Len(stack') \in Nat
          /\ Len(stack') = Len(stack) + 1 /\ r = stack'[Len(stack) + 1]
      BY <1>9 DEF TypeOK
    <2>2. Len(stack) \in Nat
      BY DEF TypeOK
    <2>3. r \in Route
      BY <2>1, <2>2
    <2> QED  BY <1>9, <2>3, WellPush
  <1>10. ASSUME NEW r \in Readings, OpenBooking(r) PROVE WellStacked'
    BY <1>9, <1>10 DEF OpenBooking, BookingDetail
  <1>11. CASE NextPressed
    BY <1>9, <1>11 DEF NextPressed, PaymentMethod
  <1>12. ASSUME NEW r, stack' = ReplaceTop(r), r.page = Top.page
         PROVE  WellStacked'
    <2>1. /\ stack \in Seq(Route) /\ Len(stack) \in Nat /\ Len(stack) >= 1
          /\ stack' \in Seq(Route) /\ Top = stack[Len(stack)]
      BY TopType DEF TypeOK
    <2>2. stack'[Len(stack)] = r /\ Len(stack') = Len(stack)
      BY <1>12, <2>1 DEF ReplaceTop
    <2>3. r \in Route
      BY <2>1, <2>2
    <2> QED  BY <1>12, <2>3, WellReplace
  <1>13. ASSUME \/ \E d \in Day : PickCheckIn(d)
                \/ \E d \in Day : PickCheckOut(d)
                \/ \E f \in Fields : EditField(f)
         PROVE  WellStacked'
    BY <1>12, <1>13 DEF PickCheckIn, PickCheckOut, EditField, BookingDetail
  <1>14. ASSUME NEW o \in PaymentOptions, SelectOption(o) PROVE WellStacked'
    BY <1>12, <1>14 DEF SelectOption, PaymentMethod
  <1>15. ASSUME NEW c \in callbacks, BookingResumes(c) PROVE WellStacked'
    BY <1>1, <1>15, WellOnly DEF BookingResumes, ShowPayment, PaymentPage
  <1>16. CASE Back
    <2>1. /\ Len(stack) \in Nat /\ Len(stack) > 1
          /\ Len(stack') = Len(stack) - 1
          /\ \A i \in 1..(Len(stack) - 1) : stack'[i] = stack[i]
      BY <1>16, TopType, PopType DEF Back
    <2> QED  BY <2>1 DEF WellStacked
  <1>17. ASSUME \/ \E h \in Hotels, p \in Prices \cup {NoData} : EditHotel(h, p)
                \/ HandleBooking
                \/ \E m \in leaving : TransitionEnds(m)
                \/ \E u \in Users : StoreStep(u)
                \/ \E u \in Users : SignInPressed(u) \/ SignInFails(u)
                \/ UNCHANGED vars
         PROVE  WellStacked'
    BY <1>1, <1>17
       DEF EditHotel, HandleBooking, TransitionEnds, StoreStep, SignInPressed,
           SignInFails, vars
  <1> QED
    BY <1>3, <1>4, <1>5, <1>6, <1>7, <1>8, <1>10, <1>11, <1>13, <1>14, <1>15,
       <1>16, <1>17 DEF Next

(* What WellStacked means for a PaymentPage: it is on screen, and alone.   *)
LEMMA PaymentIsTop ==
    ASSUME TypeOK, WellStacked, NEW r \in PaymentPages
    PROVE  r = Top /\ Len(stack) = 1
  <1>1. PICK i \in 1..Len(stack) : r = stack[i] /\ stack[i].page = "payment"
    BY DEF PaymentPages, Pages, TypeOK
  <1>2. Len(stack) \in Nat /\ Len(stack) >= 1 /\ Top = stack[Len(stack)]
    BY TopType
  <1>3. i = 1
    BY <1>1, <1>2 DEF WellStacked
  <1>4. Len(stack) = 1
    <2>1. ASSUME Len(stack) >= 2 PROVE FALSE
      <3>1. 1 \in 1..(Len(stack) - 1)
        BY <1>2, <2>1
      <3> QED  BY <1>1, <1>3, <3>1 DEF WellStacked
    <2>2. ~(Len(stack) >= 2)
      BY <2>1
    <2>3. \A n \in Nat : n >= 1 /\ ~(n >= 2) => n = 1
      OBVIOUS
    <2>4. Len(stack) \in Nat /\ Len(stack) >= 1
      BY <1>2
    <2> HIDE <1>2
    <2> QED  BY <2>2, <2>3, <2>4
  <1> QED  BY <1>1, <1>2, <1>3, <1>4

(* No page is ever under or over a PaymentPage, whichever way bookings      *)
(* overlap: a finished booking cannot be gone back to.                     *)
THEOREM PaymentStandsAlone == Spec => []PaymentPageAlone
  <1>1. Init => WellStacked
    BY DEF Init, Splash, SplashPage, WellStacked
  <1>2. TypeOK /\ WellStacked => PaymentPageAlone
    BY PaymentIsTop DEF PaymentPageAlone
  <1> QED  BY <1>1, <1>2, TypeCorrect, StackStep, PTL DEF Spec

-----------------------------------------------------------------------------
(* A call that no other one overlaps.                                      *)

(* The AuthPage is the only route, and no page is animating out.           *)
AuthAlone == stack = <<SplashPage(NoUser)>> /\ leaving = {}

(* A call that overlaps no other one is awaited on the AuthPage.           *)
LoneCall ==
    ~overlapped => \A u \in Users : signIns[u] > 0 =>
        /\ signIns[u] = 1
        /\ \A v \in Users \ {u} : signIns[v] = 0
        /\ AuthAlone

(* A button of the AuthPage is pressed: it is the only route.              *)
LEMMA PressedAlone ==
    ASSUME TypeOK, WellStacked, NEW u \in Users, SignInPressed(u)
    PROVE  AuthAlone /\ AuthAlone'
  <1>1. /\ stack \in Seq(Route) /\ Len(stack) \in Nat /\ Len(stack) >= 1
        /\ Top = stack[Len(stack)] /\ Top \in Route
        /\ Top.page = "splash" /\ Top.user = NoUser /\ leaving = {}
    BY TopType DEF SignInPressed, TypeOK
  <1>2. Len(stack) \notin 2..Len(stack)
    BY <1>1 DEF WellStacked
  <1>3. Len(stack) = 1
    BY <1>1, <1>2
  <1>4. Top = SplashPage(NoUser)
    BY <1>1, RouteByPage DEF SplashRoute, SplashPage
  <1>5. stack = <<SplashPage(NoUser)>>
    BY <1>1, <1>3, <1>4
  <1> QED  BY <1>1, <1>5 DEF AuthAlone, SignInPressed, uiVars

(* The AuthPage gives way to a sign-in or a restart only.                  *)
LEMMA AuthStays ==
    ASSUME TypeOK, AuthAlone, [Next]_vars,
           ~ \E u \in Users : SignIn(u), ~AppRestart
    PROVE  AuthAlone'
  <1> USE DEF uiVars
  <1>1. /\ Len(stack) = 1 /\ DOMAIN stack = {1} /\ stack[1] = SplashPage(NoUser)
        /\ Top = SplashPage(NoUser) /\ Top.page = "splash" /\ Top.user = NoUser
        /\ leaving = {} /\ MethodPages = {}
    BY DEF AuthAlone, Top, Last, SplashPage, MethodPages, Pages
  <1>2. ASSUME stack' = stack, leaving' = leaving PROVE AuthAlone'
    BY <1>2 DEF AuthAlone
  <1>3. ASSUME stack' = RebuildSplash(NoUser), leaving' = leaving
        PROVE  AuthAlone'
    <2>1. stack' = [i \in {1} |-> SplashPage(NoUser)]
      BY <1>1, <1>3 DEF RebuildSplash, SplashPage
    <2>2. stack' = <<SplashPage(NoUser)>>
      BY <2>1
    <2> QED  BY <1>1, <1>3, <2>2 DEF AuthAlone
  <1>4. ASSUME SignOutDone \/ ForcedSignOut PROVE AuthAlone'
    BY <1>3, <1>4 DEF SignOutDone, ForcedSignOut
  <1>5. ASSUME NEW c \in callbacks, BookingResumes(c) PROVE AuthAlone'
    BY <1>1, <1>2, <1>5 DEF BookingResumes
  <1>6. ASSUME \/ \E u \in Users : SignInPressed(u) \/ SignInFails(u)
               \/ \E h \in Hotels, p \in Prices \cup {NoData} : EditHotel(h, p)
               \/ HandleBooking
               \/ \E u \in Users : StoreStep(u)
               \/ UNCHANGED vars
        PROVE  AuthAlone'
    BY <1>2, <1>6 DEF SignInPressed, SignInFails, EditHotel, HandleBooking,
                      StoreStep, vars
  <1>7. ~ \/ SignOutTap
          \/ \E h \in Hotels : OpenHotel(h)
          \/ \E i \in DOMAIN stack : HotelSnapshot(i)
          \/ \E r \in Readings : OpenBooking(r)
          \/ \E d \in Day : PickCheckIn(d)
          \/ \E d \in Day : PickCheckOut(d)
          \/ \E f \in Fields : EditField(f)
          \/ NextPressed
          \/ \E o \in PaymentOptions : SelectOption(o)
          \/ Back
          \/ \E m \in leaving : TransitionEnds(m)
          \/ HomePressed
    BY <1>1 DEF SignOutTap, MainVisible, OpenHotel, HotelSnapshot, OpenBooking,
                PickCheckIn, PickCheckOut, EditField, NextPressed,
                SelectOption, Back, HomePressed
  <1> QED  BY <1>4, <1>5, <1>6, <1>7 DEF Next

(* Every step keeps a lone call on the AuthPage.                           *)
LEMMA LoneStep ==
    TypeOK /\ TypeOK' /\ WellStacked /\ LoneCall /\ [Next]_vars => LoneCall'
  <1> SUFFICES ASSUME TypeOK, TypeOK', WellStacked, LoneCall, [Next]_vars
               PROVE  LoneCall'
    OBVIOUS
  <1>0. signIns \in [Users -> 0..MaxSignIns] /\ MaxSignIns \in Nat
    BY SignInsAssumption DEF TypeOK, SignInsTypeOK
  <1>1. ASSUME NEW u \in Users, SignInPressed(u) PROVE LoneCall'
    <2>1. AuthAlone'
      BY <1>1, PressedAlone
    <2>2. ASSUME ~Awaited
          PROVE  signIns'[u] = 1 /\ \A v \in Users \ {u} : signIns'[v] = 0
      <3>1. \A v \in Users : signIns[v] = 0
        BY <1>0, <2>2 DEF Awaited
      <3> QED  BY <1>0, <1>1, <3>1 DEF SignInPressed, CallSent
    <2>3. overlapped' = Awaited
      BY <1>1 DEF SignInPressed, CallSent
    <2> QED  BY <2>1, <2>2, <2>3 DEF LoneCall
  <1>2. ASSUME NEW u \in Users, SignIn(u) \/ SignInFails(u) PROVE LoneCall'
    <2>1. /\ signIns[u] > 0 /\ overlapped' = overlapped
          /\ signIns' = [signIns EXCEPT ![u] = signIns[u] - 1]
      BY <1>2 DEF SignIn, SignInFails, CallEnds
    <2>2. ~overlapped => \A v \in Users : signIns'[v] = 0
      BY <1>0, <2>1 DEF LoneCall
    <2> QED  BY <2>1, <2>2 DEF LoneCall
  <1>3. CASE AppRestart
    <2>1. \A v \in Users : signIns'[v] = 0
      BY <1>0, <1>3 DEF AppRestart, SignInsRestart
    <2> QED  BY <2>1 DEF LoneCall
  <1>4. ASSUME signIns' = signIns, overlapped' = overlapped,
               ~ \E u \in Users : SignIn(u), ~AppRestart
        PROVE  LoneCall'
    BY <1>4, AuthStays DEF LoneCall
  <1>5. ASSUME ~ \E u \in Users : SignInPressed(u) \/ SignIn(u) \/ SignInFails(u),
               ~AppRestart
        PROVE  signIns' = signIns /\ overlapped' = overlapped
    BY <1>5 DEF Next, SignOutTap, SignOutDone, ForcedSignOut, EditHotel,
        OpenHotel, HotelSnapshot, OpenBooking, PickCheckIn, PickCheckOut,
        EditField, NextPressed, SelectOption, HandleBooking, BookingResumes,
        Back, TransitionEnds, HomePressed, StoreStep, UserGone, userVars,
        signInVars, vars
  <1> QED  BY <1>1, <1>2, <1>3, <1>4, <1>5

-----------------------------------------------------------------------------
(* The account a MainPage captured.                                        *)

(* Steps that sign nobody in or out and create no MainPage.                *)
LEMMA MainKept ==
    ASSUME TypeOK, TypeOK', MainUserCurrent, UNCHANGED signInVars,
           \A i \in 1..Len(stack') :
                \/ stack'[i].page \notin {"splash", "main"}
                \/ i \in 1..Len(stack) /\ stack'[i] = stack[i]
    PROVE  MainUserCurrent'
  <1>1. DOMAIN stack = 1..Len(stack) /\ DOMAIN stack' = 1..Len(stack')
    BY DEF TypeOK
  <1> QED  BY <1>1 DEF MainUserCurrent, signInVars

(* Every route is replaced by one whose page captures the current user.    *)
LEMMA MainOnly ==
    ASSUME NEW r, stack' = <<r>>, currentUser' = currentUser,
           r.page \in {"splash", "main"} => r.user = currentUser
    PROVE  MainUserCurrent'
  <1>1. DOMAIN stack' = {1} /\ stack'[1] = r
    OBVIOUS
  <1> QED  BY <1>1 DEF MainUserCurrent

(* A sign-in that overlaps no other one: the AuthPage is the only route, and *)
(* its MainPage captures the account that signs in.                        *)
LEMMA MainSignIn ==
    ASSUME TypeOK, LoneCall, NEW u \in Users, SignIn(u)
    PROVE  MainUserCurrent'
  <1>1. /\ signIns[u] > 0 /\ currentUser' = u /\ overlapped' = overlapped
        /\ stack' = RebuildSplash(u)
    BY DEF SignIn, CallEnds
  <1>2. CASE overlapped
    BY <1>1, <1>2 DEF MainUserCurrent
  <1>3. CASE ~overlapped
    <2>1. DOMAIN stack = {1} /\ stack[1] = SplashPage(NoUser)
      BY <1>1, <1>3 DEF LoneCall, AuthAlone
    <2>2. DOMAIN stack' = {1} /\ stack'[1] = SplashPage(u)
      BY <1>1, <2>1 DEF RebuildSplash, SplashPage
    <2> QED  BY <1>1, <2>2 DEF MainUserCurrent, SplashPage
  <1> QED  BY <1>2, <1>3

(* No step lets a MainPage outlive its account into another's session,      *)
(* overlapped sign-ins aside.                                              *)
LEMMA MainStep ==
    TypeOK /\ TypeOK' /\ WellStacked /\ LoneCall /\ MainUserCurrent
        /\ [Next]_vars => MainUserCurrent'
  <1> SUFFICES ASSUME TypeOK, TypeOK', WellStacked, LoneCall, MainUserCurrent,
                      [Next]_vars
               PROVE  MainUserCurrent'
    OBVIOUS
  <1> USE DEF uiVars, userVars
  <1>0. /\ stack \in Seq(Route) /\ Len(stack) \in Nat /\ Len(stack) >= 1
        /\ Top = stack[Len(stack)]
    BY TopType DEF TypeOK
  <1>1. ASSUME stack' = stack, UNCHANGED <<currentUser, overlapped>>
        PROVE  MainUserCurrent'
    BY <1>1 DEF MainUserCurrent
  <1>2. ASSUME currentUser' = NoUser PROVE MainUserCurrent'
    BY <1>2 DEF MainUserCurrent
  <1>3. ASSUME NEW r, stack' = Append(stack, r), UNCHANGED signInVars,
               r.page \notin {"splash", "main"}
        PROVE  MainUserCurrent'
    <2>1. /\ Len(stack') = Len(stack) + 1 /\ stack'[Len(stack) + 1] = r
          /\ \A i \in 1..Len(stack) : stack'[i] = stack[i]
      BY <1>0, <1>3
    <2> QED  BY <1>0, <1>3, <2>1, MainKept
  <1>4. ASSUME NEW r, stack' = ReplaceTop(r), UNCHANGED signInVars,
               r.page \notin {"splash", "main"}
        PROVE  MainUserCurrent'
    <2>1. /\ Len(stack') = Len(stack) /\ stack'[Len(stack)] = r
          /\ \A i \in 1..(Len(stack) - 1) : stack'[i] = stack[i]
      BY <1>0, <1>4 DEF ReplaceTop
    <2> QED  BY <1>0, <1>4, <2>1, MainKept
  <1>5. ASSUME NEW i \in DOMAIN stack, HotelSnapshot(i) PROVE MainUserCurrent'
    <2>1. PICK p : stack' = [stack EXCEPT ![i] = DetailPage(stack[i].hotel, p)]
      BY <1>5 DEF HotelSnapshot
    <2>2. /\ Len(stack') = Len(stack)
          /\ \A j \in 1..Len(stack) :
                stack'[j] = stack[j] \/ stack'[j].page = "detail"
      BY <1>0, <2>1 DEF DetailPage
    <2> QED  BY <1>5, <2>2, MainKept DEF HotelSnapshot
  <1>6. CASE Back
    <2>1. /\ Len(stack') = Len(stack) - 1
          /\ \A i \in 1..(Len(stack) - 1) : stack'[i] = stack[i]
      BY <1>6, PopType DEF Back
    <2> QED  BY <1>0, <1>6, <2>1, MainKept DEF Back
  <1>7. ASSUME \/ SignOutTap
               \/ HomePressed
               \/ AppRestart
               \/ \E c \in callbacks : BookingResumes(c)
        PROVE  MainUserCurrent'
    <2>1. CASE SignOutTap
      BY <2>1, MainOnly DEF SignOutTap, Splash, SplashPage, signInVars
    <2>2. CASE HomePressed
      BY <2>2, MainOnly DEF HomePressed, MainPage, signInVars
    <2>3. CASE AppRestart
      BY <2>3, MainOnly DEF AppRestart, SignInsRestart, Splash,
                                  SplashPage
    <2>4. ASSUME NEW c \in callbacks, BookingResumes(c) PROVE MainUserCurrent'
      BY <1>1, <2>4, MainOnly DEF BookingResumes, ShowPayment, PaymentPage,
                                        signInVars
    <2> QED  BY <1>7, <2>1, <2>2, <2>3, <2>4
  <1>8. ASSUME \/ \E h \in Hotels : OpenHotel(h)
               \/ \E r \in Readings : OpenBooking(r)
               \/ NextPressed
        PROVE  MainUserCurrent'
    BY <1>3, <1>8 DEF OpenHotel, OpenBooking, NextPressed, DetailPage,
                      BookingDetail, PaymentMethod
  <1>9. ASSUME \/ \E d \in Day : PickCheckIn(d)
               \/ \E d \in Day : PickCheckOut(d)
               \/ \E f \in Fields : EditField(f)
               \/ \E o \in PaymentOptions : SelectOption(o)
        PROVE  MainUserCurrent'
    BY <1>4, <1>9 DEF PickCheckIn, PickCheckOut, EditField, SelectOption,
                      BookingDetail, PaymentMethod
  <1>10. ASSUME \/ \E h \in Hotels, p \in Prices \cup {NoData} : EditHotel(h, p)
                \/ HandleBooking
                \/ \E m \in leaving : TransitionEnds(m)
                \/ \E u \in Users : StoreStep(u)
                \/ \E u \in Users : SignInFails(u)
                \/ UNCHANGED vars
         PROVE  MainUserCurrent'
    BY <1>1, <1>10
       DEF EditHotel, HandleBooking, TransitionEnds, StoreStep, SignInFails,
           CallEnds, signInVars, vars
  <1>11. ASSUME SignOutDone \/ ForcedSignOut PROVE MainUserCurrent'
    BY <1>2, <1>11 DEF SignOutDone, ForcedSignOut, UserGone
  <1>12. ASSUME NEW u \in Users, SignInPressed(u) PROVE MainUserCurrent'
    <2>1. stack' = <<SplashPage(NoUser)>>
      BY <1>12, PressedAlone DEF AuthAlone
    <2>2. DOMAIN stack' = {1} /\ stack'[1].user = NoUser
      BY <2>1 DEF SplashPage
    <2> QED  BY <2>2 DEF MainUserCurrent
  <1> QED
    BY <1>5, <1>6, <1>7, <1>8, <1>9, <1>10, <1>11, <1>12, MainSignIn DEF Next

(* The account a MainPage captured is not another than the one signed in,    *)
(* although signOut() is not awaited and PaymentPage's Home makes a second   *)
(* kind of MainPage, which the stream of sign-ins does not rebuild: unless   *)
(* two sign-ins overlapped.                                                *)
THEOREM MainUserIsCurrent == Spec => []MainUserCurrent
  <1>1. Init => WellStacked /\ LoneCall /\ MainUserCurrent
    BY DEF Init, SignInsInit, Splash, SplashPage, WellStacked, LoneCall,
           MainUserCurrent
  <1> QED  BY <1>1, TypeCorrect, StackStep, LoneStep, MainStep, PTL DEF Spec

-----------------------------------------------------------------------------
(* No order is lost or doubled: NoLostOrder is an invariant of the booking    *)
(* flow for every number of accounts and orders.                           *)

(* NoLostOrder in the form the proof uses: where an order may wait, and how *)
(* often.                                                                  *)
Kept(o) ==
    \/ Queued(placed[o].userId, o)
    \/ o \in server
    \/ o \in rejected

(* The queue of u holds orders of u, each once, none of them refused.      *)
OwnQueue(u) ==
    \A i \in 1..Len(queue[u]) :
        /\ placed[queue[u][i]].userId = u
        /\ queue[u][i] \notin rejected
        /\ \A j \in 1..Len(queue[u]) : queue[u][i] = queue[u][j] => i = j

(* The inductive invariant: every order is accounted for.                  *)
Ledger ==
    /\ \A o \in OrderIds : Kept(o)
    /\ \A u \in Users : OwnQueue(u)

(* The inductive form of the ledger implies NoLostOrder.                   *)
LEMMA LedgerMeans ==
    ASSUME TypeOK, Ledger
    PROVE  NoLostOrder
  BY DEF Ledger, Kept, OwnQueue, NoLostOrder, Queued

(* Every order has an owner.                                               *)
LEMMA OwnerType ==
    ASSUME StoreTypeOK(Order), NEW o \in OrderIds
    PROVE  placed[o].userId \in Users
  <1>1. placed[o] \in Order
    BY DEF StoreTypeOK, OrderIds
  <1> QED  BY <1>1 DEF Order

(* A new order joins the queue of its owner.                               *)
LEMMA LedgerWrite ==
    ASSUME StoreTypeOK(Order), Ledger, NEW u \in Users, NEW doc \in Order,
           NEW inst \in Nat, WriteMutations(u, doc, inst), doc.userId = u
    PROVE  Ledger'
  <1> DEFINE new == Len(placed) + 1
             q == queue[u]
  <1>1. /\ Len(placed) \in Nat /\ OrderIds' = 1..new
        /\ \A o \in OrderIds : placed'[o] = placed[o]
        /\ placed'[new] = doc /\ OrderIds = 1..Len(placed)
    BY WriteType DEF OrderIds, StoreTypeOK
  <1>2. /\ server' = server /\ rejected' = rejected
        /\ server \subseteq 1..Len(placed) /\ rejected \subseteq 1..Len(placed)
    BY <1>1 DEF WriteMutations, StoreTypeOK
  <1>3. /\ q \in Seq(1..Len(placed)) /\ Len(q) \in Nat
        /\ queue'[u] = Append(q, new)
        /\ \A v \in Users \ {u} : queue'[v] = queue[v]
    BY <1>1 DEF WriteMutations, StoreTypeOK
  <1>4. /\ Len(queue'[u]) = Len(q) + 1
        /\ \A i \in 1..Len(q) :
                queue'[u][i] = q[i] /\ q[i] \in 1..Len(placed)
        /\ queue'[u][Len(q) + 1] = new
    BY <1>3
  <1> HIDE DEF q
  <1>5. new \notin 1..Len(placed)
    BY <1>1
  <1>6. ASSUME NEW o \in OrderIds' PROVE Kept(o)'
    <2>1. CASE o = new
      <3>1. Queued(placed[o].userId, o)'
        <4>1. Len(q) + 1 \in 1..Len(queue'[u])
          BY <1>3, <1>4
        <4> QED  BY <1>1, <1>4, <2>1, <4>1 DEF Queued
      <3> QED  BY <1>2, <1>5, <2>1, <3>1 DEF Kept
    <2>2. CASE o \in OrderIds
      <3>1. placed'[o].userId = placed[o].userId /\ placed[o].userId \in Users
        BY <1>1, <2>2, OwnerType
      <3>2. Queued(placed[o].userId, o) => Queued(placed[o].userId, o)'
        <4> SUFFICES ASSUME Queued(placed[o].userId, o)
                     PROVE  Queued(placed[o].userId, o)'
          OBVIOUS
        <4>1. PICK i \in 1..Len(queue[placed[o].userId]) :
                    queue[placed[o].userId][i] = o
          BY DEF Queued
        <4>2. CASE placed[o].userId = u
          <5>1. i \in 1..Len(q) /\ q[i] = o
            BY <4>1, <4>2 DEF q
          <5>2. i \in 1..Len(queue'[u]) /\ queue'[u][i] = o
            BY <1>3, <1>4, <5>1
          <5> QED  BY <3>1, <4>2, <5>2 DEF Queued
        <4>3. CASE placed[o].userId # u
          BY <1>3, <3>1, <4>1, <4>3 DEF Queued
        <4> QED  BY <4>2, <4>3
      <3> QED  BY <1>2, <2>2, <3>2 DEF Ledger, Kept
    <2> QED  BY <1>1, <2>1, <2>2
  <1>7. ASSUME NEW v \in Users PROVE OwnQueue(v)'
    <2>1. OwnQueue(v)
      BY DEF Ledger
    <2>2. CASE v # u
      <3>1. queue[v] \in Seq(1..Len(placed)) /\ queue'[v] = queue[v]
        BY <1>1, <1>3, <2>2 DEF StoreTypeOK
      <3>2. \A i \in 1..Len(queue[v]) : queue[v][i] \in 1..Len(placed)
        BY <3>1
      <3> QED  BY <1>1, <1>2, <2>1, <3>1, <3>2 DEF OwnQueue
    <2>3. CASE v = u
      <3>1. ASSUME NEW i \in 1..Len(queue'[u])
            PROVE  /\ placed'[queue'[u][i]].userId = u
                   /\ queue'[u][i] \notin rejected'
        BY <1>1, <1>2, <1>3, <1>4, <1>5, <2>1, <2>3 DEF OwnQueue, q
      <3>2. ASSUME NEW i \in 1..Len(queue'[u]), NEW j \in 1..Len(queue'[u]),
                   queue'[u][i] = queue'[u][j]
            PROVE  i = j
        <4>1. CASE i \in 1..Len(q) /\ j \in 1..Len(q)
          BY <1>4, <2>1, <2>3, <3>2, <4>1 DEF OwnQueue, q
        <4>2. CASE i = Len(q) + 1 \/ j = Len(q) + 1
          BY <1>3, <1>4, <1>5, <3>2, <4>2
        <4> QED  BY <1>3, <1>4, <4>1, <4>2
      <3> QED  BY <2>3, <3>1, <3>2 DEF OwnQueue
    <2> QED  BY <2>2, <2>3
  <1> QED  BY <1>6, <1>7 DEF Ledger

(* The head of a queue is settled: everything else stays where it was.     *)
LEMMA LedgerSettle ==
    ASSUME StoreTypeOK(Order), Ledger, NEW u \in Users, queue[u] # <<>>,
           queue' = [queue EXCEPT ![u] = Tail(queue[u])], placed' = placed,
           \/ /\ Head(queue[u]) \in server
              /\ server' = server /\ rejected' = rejected
           \/ /\ server' = server
              /\ rejected' = rejected \cup {Head(queue[u])}
    PROVE  Ledger'
  <1> DEFINE q == queue[u]
             h == Head(queue[u])
  <1>1. /\ h \in OrderIds /\ h = q[1] /\ Len(q) \in Nat /\ Len(q) >= 1
        /\ queue'[u] = Tail(q) /\ Len(queue'[u]) = Len(q) - 1
        /\ \A i \in 1..(Len(q) - 1) : queue'[u][i] = q[i + 1]
        /\ \A v \in Users \ {u} : queue'[v] = queue[v]
    BY HeadType DEF StoreTypeOK
  <1>2. OrderIds' = OrderIds
    BY DEF OrderIds
  <1>3. OwnQueue(u)
    BY DEF Ledger
  <1>4. placed[h].userId = u /\ h \notin rejected
    BY <1>1, <1>3 DEF OwnQueue
  <1>5. \A i \in 1..Len(queue'[u]) :
            i + 1 \in 1..Len(q) /\ queue'[u][i] = q[i + 1] /\ q[i + 1] # h
    BY <1>1, <1>3 DEF OwnQueue
  <1> HIDE DEF q, h
  <1>6. ASSUME NEW o \in OrderIds PROVE Kept(o)'
    <2>1. Kept(o)
      BY DEF Ledger
    <2>2. CASE o = h
      BY <1>4, <2>1, <2>2 DEF Kept, h
    <2>3. CASE o # h
      <3>1. Queued(placed[o].userId, o) => Queued(placed[o].userId, o)'
        <4> SUFFICES ASSUME Queued(placed[o].userId, o)
                     PROVE  Queued(placed[o].userId, o)'
          OBVIOUS
        <4>1. placed[o].userId \in Users
          BY OwnerType
        <4>2. PICK i \in 1..Len(queue[placed[o].userId]) :
                    queue[placed[o].userId][i] = o
          BY DEF Queued
        <4>3. CASE placed[o].userId # u
          BY <1>1, <4>1, <4>2, <4>3 DEF Queued
        <4>4. CASE placed[o].userId = u
          <5>1. q[i] = o /\ i \in 1..Len(q) /\ i # 1
            BY <1>1, <2>3, <4>2, <4>4 DEF q
          <5>2. i - 1 \in 1..(Len(q) - 1) /\ (i - 1) + 1 = i
            <6>1. Len(q) \in Nat
              BY <1>1
            <6> QED  BY <5>1, <6>1
          <5>3. i - 1 \in 1..Len(queue'[u]) /\ queue'[u][i - 1] = o
            BY <1>1, <5>1, <5>2
          <5> QED  BY <4>4, <5>3 DEF Queued
        <4> QED  BY <4>3, <4>4
      <3> QED  BY <2>1, <2>3, <3>1 DEF Kept, h
    <2> QED  BY <2>2, <2>3
  <1>7. ASSUME NEW v \in Users PROVE OwnQueue(v)'
    <2>1. OwnQueue(v)
      BY DEF Ledger
    <2>2. CASE v # u
      <3>1. queue'[v] = queue[v]
        BY <1>1, <2>2
      <3>2. \A i \in 1..Len(queue[v]) : queue[v][i] # h
        BY <1>4, <2>1, <2>2 DEF OwnQueue
      <3> QED  BY <2>1, <3>1, <3>2 DEF OwnQueue, h
    <2>3. CASE v = u
      <3>1. ASSUME NEW i \in 1..Len(queue'[u])
            PROVE  /\ placed'[queue'[u][i]].userId = u
                   /\ queue'[u][i] \notin rejected'
        BY <1>3, <1>5 DEF OwnQueue, q, h
      <3>2. ASSUME NEW i \in 1..Len(queue'[u]), NEW j \in 1..Len(queue'[u]),
                   queue'[u][i] = queue'[u][j]
            PROVE  i = j
        <4>1. i + 1 = j + 1
          BY <1>3, <1>5, <3>2 DEF OwnQueue, q
        <4> QED  BY <4>1
      <3> QED  BY <2>3, <3>1, <3>2 DEF OwnQueue
    <2> QED  BY <2>2, <2>3
  <1> QED  BY <1>2, <1>6, <1>7 DEF Ledger

(* Every step of the app keeps the ledger.                                 *)
LEMMA LedgerStep == TypeOK /\ Ledger /\ [Next]_vars => Ledger'
  <1> SUFFICES ASSUME TypeOK, Ledger, [Next]_vars PROVE Ledger'
    OBVIOUS
  <1> USE DEF storeVars
  <1>0. StoreTypeOK(Order)
    BY DEF TypeOK
  <1>1. ASSUME UNCHANGED <<placed, queue, server, rejected>> PROVE Ledger'
    BY <1>1 DEF Ledger, Kept, OwnQueue, Queued, OrderIds
  <1>2. CASE HandleBooking
    <2>1. Top \in MethodRoute /\ currentUser \in Users
      BY <1>2, TopType, RouteByPage DEF HandleBooking, TypeOK, SignInsTypeOK
    <2>2. /\ NewOrder(Top, currentUser) \in Order /\ Top.inst \in Nat
          /\ NewOrder(Top, currentUser).userId = currentUser
      BY <2>1, OrderType DEF MethodRoute, NewOrder
    <2> QED  BY <1>0, <1>2, <2>1, <2>2, LedgerWrite DEF HandleBooking
  <1>3. ASSUME NEW u \in Users, StoreStep(u) PROVE Ledger'
    <2>1. ASSUME NEW i \in 1..Len(queue[u]), ServerApply(u, i) PROVE Ledger'
      <3>1. queue[u][i] \notin rejected
        BY DEF Ledger, OwnQueue
      <3> QED
        BY <2>1, <3>1 DEF ServerApply, Ledger, Kept, OwnQueue, Queued,
                          OrderIds
    <2>2. CASE HandleSuccessfulWrite(u)
      BY <1>0, <2>2, LedgerSettle DEF HandleSuccessfulWrite
    <2>3. CASE HandleRejectedWrite(u)
      BY <1>0, <2>3, LedgerSettle DEF HandleRejectedWrite
    <2> QED  BY <1>3, <2>1, <2>2, <2>3 DEF StoreStep
  <1>4. ASSUME \/ \E u \in Users : SignInPressed(u) \/ SignIn(u) \/ SignInFails(u)
               \/ SignOutTap \/ SignOutDone \/ ForcedSignOut
               \/ \E h \in Hotels, p \in Prices \cup {NoData} : EditHotel(h, p)
               \/ \E h \in Hotels : OpenHotel(h)
               \/ \E i \in DOMAIN stack : HotelSnapshot(i)
               \/ \E r \in Readings : OpenBooking(r)
        PROVE  Ledger'
    BY <1>1, <1>4 DEF SignInPressed, SignIn, SignInFails, SignOutTap,
        SignOutDone, ForcedSignOut,
        EditHotel, OpenHotel, HotelSnapshot, OpenBooking
  <1>5. ASSUME \/ \E d \in Day : PickCheckIn(d)
               \/ \E d \in Day : PickCheckOut(d)
               \/ \E f \in Fields : EditField(f)
               \/ NextPressed
               \/ \E o \in PaymentOptions : SelectOption(o)
        PROVE  Ledger'
    BY <1>1, <1>5 DEF PickCheckIn, PickCheckOut, EditField, NextPressed,
        SelectOption
  <1>6. ASSUME \/ \E c \in callbacks : BookingResumes(c)
               \/ Back
               \/ \E m \in leaving : TransitionEnds(m)
               \/ HomePressed \/ AppRestart
               \/ UNCHANGED vars
        PROVE  Ledger'
    BY <1>1, <1>6 DEF BookingResumes, Back, TransitionEnds, HomePressed,
        AppRestart, StoreRestart, vars
  <1> QED  BY <1>2, <1>3, <1>4, <1>5, <1>6 DEF Next

(* No order given to add() is lost or doubled by restarts, changes of user, *)
(* answers or refusals, for every number of accounts and orders: it waits    *)
(* once, in the queue of its account, until the server holds it or it is     *)
(* given up as refused.                                                    *)
THEOREM OrdersAreKept == Spec => []NoLostOrder
  <1>1. Init => Ledger
    BY DEF Init, StoreInit, Ledger, OwnQueue, OrderIds
  <1>2. TypeOK /\ Ledger => NoLostOrder
    BY LedgerMeans
  <1> QED  BY <1>1, <1>2, TypeCorrect, LedgerStep, PTL DEF Spec

-----------------------------------------------------------------------------
(* What a PaymentPage shows: it stands for an order the server holds, shows  *)
(* that order's stay and payment option, and is shown to the account that     *)
(* ordered (unless sign-ins overlapped), however many bookings are in flight. *)

(* Stay and option are those of order o, and nobody else is signed in but by *)
(* an overlapped sign-in.                                                  *)
Matches(stay, option, o) ==
    /\ placed[o].hotelDocId = stay.hotel
    /\ placed[o].checkIn = stay.checkIn
    /\ placed[o].checkOut = stay.checkOut
    /\ placed[o].night = stay.night
    /\ placed[o].totalPrice = stay.price * stay.night
    /\ option = placed[o].paymentMethod \/ o \in drifted
    /\ overlapped \/ currentUser \in {placed[o].userId, NoUser}

(* A state object has one page, and callbacks belong to pages opened.      *)
InstsFresh ==
    /\ Top.page = "method" =>
        Top.inst <= visits /\ \A m \in leaving : m.inst # Top.inst
    /\ \A m, n \in leaving : m.inst = n.inst => m = n
    /\ \A m \in leaving : m.inst <= visits
    /\ \A c \in callbacks : c.inst <= visits

(* A booking in flight is one of the page that awaits it; it succeeded only *)
(* if the server holds it.                                                 *)
CallbacksMatch ==
    \A c \in callbacks :
        /\ c.order \in OrderIds
        /\ c.status = "ok" => c.order \in server
        /\ \A m \in leaving :
            m.inst = c.inst => Matches(m.stay, m.option, c.order)
        /\ Top.page = "method" /\ Top.inst = c.inst =>
            Matches(Top.stay, Top.option, c.order)

(* The PaymentPage on screen shows its order, which the server holds.      *)
PaymentMatches ==
    Top.page = "payment" =>
        /\ Top.order \in OrderIds
        /\ Top.order \in server
        /\ Matches(Top.stay, Top.option, Top.order)

(* The inductive invariant of the flow.                                    *)
FlowInv ==
    /\ TypeOK
    /\ WellStacked
    /\ LoneCall
    /\ InstsFresh
    /\ CallbacksMatch
    /\ PaymentMatches

(* Its part that is about bookings.                                        *)
Flow == InstsFresh /\ CallbacksMatch /\ PaymentMatches

(* By WellStacked, the only PaymentMethod on the stack is the one on screen. *)
LEMMA MethodIsTop ==
    ASSUME TypeOK, WellStacked, NEW m \in MethodPages
    PROVE  m = Top /\ Top.page = "method"
  <1>1. PICK i \in 1..Len(stack) : m = stack[i] /\ stack[i].page = "method"
    BY DEF MethodPages, Pages, TypeOK
  <1>2. Len(stack) \in Nat /\ Top = stack[Len(stack)]
    BY TopType
  <1>3. i \notin 1..(Len(stack) - 1)
    BY <1>1 DEF WellStacked
  <1>4. i = Len(stack)
    BY <1>2, <1>3
  <1> QED  BY <1>1, <1>2, <1>4

(* No step but an overlapped sign-in lets a new user in.                   *)
NobodyNew ==
    /\ overlapped => overlapped'
    /\ overlapped' \/ currentUser' \in {currentUser, NoUser}

(* Matches survives steps that keep the order and let nobody new sign in.  *)
LEMMA MatchesKept ==
    ASSUME NEW stay, NEW option, NEW o, Matches(stay, option, o),
           placed'[o] = placed[o], drifted \subseteq drifted', NobodyNew
    PROVE  Matches(stay, option, o)'
  BY DEF Matches, NobodyNew

(* Steps that bring no PaymentMethod or PaymentPage to the screen and start *)
(* no booking.                                                             *)
LEMMA FlowKept ==
    ASSUME FlowInv, TypeOK',
           leaving' \subseteq leaving, visits' = visits,
           callbacks' \subseteq callbacks, placed' = placed,
           server \subseteq server', drifted \subseteq drifted',
           Top'.page \in {"method", "payment"} => Top' = Top,
           \/ NobodyNew
           \/ leaving' = {} /\ Top'.page \notin {"method", "payment"}
    PROVE  Flow'
  <1>1. OrderIds' = OrderIds
    BY DEF OrderIds
  <1>2. InstsFresh'
    BY DEF FlowInv, InstsFresh
  <1>3. ASSUME NobodyNew
        PROVE  CallbacksMatch' /\ PaymentMatches'
    <2>1. ASSUME NEW c \in callbacks' PROVE
              /\ c.order \in OrderIds'
              /\ c.status = "ok" => c.order \in server'
              /\ \A m \in leaving' :
                    m.inst = c.inst => Matches(m.stay, m.option, c.order)'
              /\ Top'.page = "method" /\ Top'.inst = c.inst =>
                    Matches(Top.stay, Top.option, c.order)'
      <3>1. c \in callbacks /\ c.order \in OrderIds
            /\ (c.status = "ok" => c.order \in server)
        BY DEF FlowInv, CallbacksMatch
      <3>2. ASSUME NEW m \in leaving', m.inst = c.inst
            PROVE  Matches(m.stay, m.option, c.order)'
        <4>1. Matches(m.stay, m.option, c.order)
          BY <3>1, <3>2 DEF FlowInv, CallbacksMatch
        <4> QED  BY <1>3, <4>1, MatchesKept
      <3>3. ASSUME Top'.page = "method", Top'.inst = c.inst
            PROVE  Matches(Top.stay, Top.option, c.order)'
        <4>1. Top' = Top /\ Matches(Top.stay, Top.option, c.order)
          BY <3>1, <3>3 DEF FlowInv, CallbacksMatch
        <4> QED  BY <1>3, <4>1 DEF Matches, NobodyNew
      <3> QED  BY <1>1, <3>1, <3>2, <3>3
    <2>2. CallbacksMatch'
      BY <2>1 DEF CallbacksMatch
    <2>3. PaymentMatches'
      <3> SUFFICES ASSUME Top'.page = "payment"
                   PROVE  /\ Top'.order \in OrderIds'
                          /\ Top'.order \in server'
                          /\ Matches(Top.stay, Top.option, Top.order)'
        BY DEF PaymentMatches
      <3>1. /\ Top' = Top /\ Top.order \in OrderIds /\ Top.order \in server
            /\ Matches(Top.stay, Top.option, Top.order)
        BY DEF FlowInv, PaymentMatches
      <3> QED  BY <1>1, <1>3, <3>1 DEF Matches, NobodyNew
    <2> QED  BY <2>2, <2>3
  <1>4. ASSUME leaving' = {}, Top'.page \notin {"method", "payment"}
        PROVE  CallbacksMatch' /\ PaymentMatches'
    BY <1>1, <1>4 DEF FlowInv, CallbacksMatch, PaymentMatches
  <1> QED  BY <1>2, <1>3, <1>4 DEF Flow

(* The future of a booking completes.                                      *)
LEMMA FlowNotified ==
    ASSUME FlowInv, TypeOK', NEW id \in OrderIds, NEW status \in {"ok", "error"},
           NotifyUser(id, status), status = "ok" => id \in server,
           server' = server, placed' = placed, UNCHANGED <<uiVars, drifted>>,
           UNCHANGED signInVars
    PROVE  Flow'
  <1>1. id \in 1..MaxOrders
    BY OrderStoreAssumption DEF FlowInv, TypeOK, StoreTypeOK, OrderIds
  <1>2. \A c \in callbacks' :
            \/ c \in callbacks
            \/ /\ c.order = id /\ c.status = status
               /\ \E d \in callbacks : d.order = id /\ d.inst = c.inst
    BY <1>1, NotifyType DEF FlowInv, TypeOK, StoreTypeOK
  <1>3. /\ Top' = Top /\ leaving' = leaving /\ visits' = visits
        /\ OrderIds' = OrderIds
    BY DEF uiVars, Top, Last, OrderIds
  <1>4. \A stay, option, o : Matches(stay, option, o)' <=> Matches(stay, option, o)
    BY DEF Matches, signInVars
  <1>5. InstsFresh'
    BY <1>2, <1>3 DEF FlowInv, InstsFresh
  <1>6. ASSUME NEW c \in callbacks'
        PROVE  /\ c.order \in OrderIds'
               /\ c.status = "ok" => c.order \in server'
               /\ \A m \in leaving :
                    m.inst = c.inst => Matches(m.stay, m.option, c.order)
               /\ Top.page = "method" /\ Top.inst = c.inst =>
                    Matches(Top.stay, Top.option, c.order)
    <2>1. CASE c \in callbacks
      BY <1>3, <2>1 DEF FlowInv, CallbacksMatch
    <2>2. CASE c \notin callbacks
      <3>1. PICK d \in callbacks : d.order = c.order /\ d.inst = c.inst
        BY <1>2, <2>2
      <3>2. c.order = id /\ c.status = status
        BY <1>2, <2>2
      <3> QED  BY <1>3, <3>1, <3>2 DEF FlowInv, CallbacksMatch
    <2> QED  BY <2>1, <2>2
  <1>7. CallbacksMatch'
    BY <1>3, <1>4, <1>6 DEF CallbacksMatch, Matches, signInVars
  <1>8. PaymentMatches'
    BY <1>3 DEF FlowInv, PaymentMatches, Matches, signInVars
  <1> QED  BY <1>5, <1>7, <1>8 DEF Flow

(* "Next" opens a page that no booking in flight belongs to.               *)
LEMMA FlowNext ==
    ASSUME FlowInv, TypeOK', NextPressed
    PROVE  Flow'
  <1> DEFINE r == PaymentMethod(visits + 1, Top.stay, Top.filled, DefaultOption)
  <1>1. Top' = r
    <2>1. stack' = Append(stack, r) /\ stack \in Seq(Route)
      BY DEF NextPressed, FlowInv, TypeOK
    <2> HIDE DEF r
    <2> QED  BY <2>1 DEF Top, Last
  <1>2. Top'.page = "method" /\ Top'.inst = visits + 1 /\ visits \in Nat
    BY <1>1 DEF PaymentMethod, FlowInv, TypeOK
  <1>3. /\ leaving' = leaving /\ visits' = visits + 1 /\ callbacks' = callbacks
        /\ placed' = placed /\ server' = server /\ drifted' = drifted
        /\ UNCHANGED signInVars
    BY DEF NextPressed, userVars, storeVars
  <1>4. /\ \A m \in leaving : m.inst \in Nat /\ m.inst <= visits
        /\ \A c \in callbacks : c.inst \in Nat /\ c.inst <= visits
    BY MountedType DEF FlowInv, InstsFresh, MethodRoute, TypeOK, StoreTypeOK,
                       Callback
  <1>5. /\ \A m \in leaving : m.inst # visits + 1 /\ m.inst <= visits + 1
        /\ \A c \in callbacks : c.inst # visits + 1 /\ c.inst <= visits + 1
    BY <1>2, <1>4
  <1>6. InstsFresh'
    BY <1>2, <1>3, <1>5 DEF FlowInv, InstsFresh
  <1>7. CallbacksMatch'
    BY <1>2, <1>3, <1>5 DEF FlowInv, CallbacksMatch, OrderIds, Matches, signInVars
  <1>8. PaymentMatches'
    BY <1>2 DEF PaymentMatches
  <1> QED  BY <1>6, <1>7, <1>8 DEF Flow

(* A radio button changes the option of the page and marks its bookings.   *)
LEMMA FlowSelect ==
    ASSUME FlowInv, TypeOK', NEW o \in PaymentOptions, SelectOption(o)
    PROVE  Flow'
  <1> DEFINE r == PaymentMethod(Top.inst, Top.stay, Top.filled, o)
  <1>1. Top' = r
    <2>1. stack' = ReplaceTop(r) /\ stack \in Seq(Route) /\ stack # <<>>
      BY DEF SelectOption, FlowInv, TypeOK
    <2> HIDE DEF r
    <2> QED  BY <2>1 DEF Top, Last, ReplaceTop
  <1>2. /\ Top.page = "method" /\ Top'.page = "method" /\ Top'.inst = Top.inst
        /\ Top'.stay = Top.stay
    BY <1>1 DEF PaymentMethod, SelectOption
  <1>3. /\ leaving' = leaving /\ visits' = visits /\ callbacks' = callbacks
        /\ placed' = placed /\ server' = server
        /\ UNCHANGED signInVars
        /\ drifted' = drifted \cup
              {c.order : c \in {d \in callbacks : d.inst = Top.inst}}
    BY DEF SelectOption, userVars, storeVars
  <1>4. OrderIds' = OrderIds
    BY <1>3 DEF OrderIds
  <1>5. InstsFresh'
    BY <1>2, <1>3 DEF FlowInv, InstsFresh
  <1>6. ASSUME NEW c \in callbacks
        PROVE  /\ c.order \in OrderIds'
               /\ c.status = "ok" => c.order \in server'
               /\ \A m \in leaving :
                    m.inst = c.inst => Matches(m.stay, m.option, c.order)'
               /\ Top'.inst = c.inst => Matches(Top.stay, Top.option, c.order)'
    <2>1. /\ c.order \in OrderIds /\ (c.status = "ok" => c.order \in server)
      BY DEF FlowInv, CallbacksMatch
    <2>2. ASSUME NEW m \in leaving, m.inst = c.inst
          PROVE  Matches(m.stay, m.option, c.order)'
      <3>1. Matches(m.stay, m.option, c.order)
        BY <2>2 DEF FlowInv, CallbacksMatch
      <3> QED  BY <1>3, <3>1, MatchesKept DEF NobodyNew, signInVars
    <2>3. ASSUME Top'.inst = c.inst
          PROVE  Matches(Top.stay, Top.option, c.order)'
      <3>1. Matches(Top.stay, Top.option, c.order)
        BY <1>2, <2>3 DEF FlowInv, CallbacksMatch
      <3>2. c.order \in drifted'
        BY <1>2, <1>3, <2>3
      <3> QED  BY <1>2, <1>3, <3>1, <3>2 DEF Matches, signInVars
    <2> QED  BY <1>3, <1>4, <2>1, <2>2, <2>3
  <1>7. CallbacksMatch'
    BY <1>2, <1>3, <1>6 DEF CallbacksMatch
  <1>8. PaymentMatches'
    BY <1>2 DEF PaymentMatches
  <1> QED  BY <1>5, <1>7, <1>8 DEF Flow

(* handleBooking(): the new order is that of the page on screen.           *)
LEMMA FlowBook ==
    ASSUME FlowInv, TypeOK', HandleBooking
    PROVE  Flow'
  <1> DEFINE doc == NewOrder(Top, currentUser)
  <1>0. PICK new : new = Len(placed) + 1
    OBVIOUS
  <1> DEFINE n == [order |-> new, inst |-> Top.inst, status |-> "waiting"]
  <1>1. /\ Top.page = "method" /\ currentUser \in Users /\ Top \in MethodRoute
        /\ WriteMutations(currentUser, doc, Top.inst)
    BY TopType, RouteByPage DEF HandleBooking, FlowInv, TypeOK, SignInsTypeOK
  <1>2. doc \in Order /\ Top.inst \in Nat
    BY <1>1, OrderType DEF MethodRoute
  <1>3. /\ Top' = Top /\ leaving' = leaving /\ visits' = visits
        /\ drifted' = drifted /\ UNCHANGED signInVars
    BY DEF HandleBooking, uiVars, userVars, Top, Last
  <1>4. server' = server /\ callbacks' = callbacks \cup {n}
    BY <1>0, <1>1 DEF WriteMutations
  <1>5. /\ \A o \in OrderIds : placed'[o] = placed[o]
        /\ placed'[new] = doc
        /\ Len(placed) \in Nat /\ Len(placed') = new
    <2>1. StoreTypeOK(Order)
      BY DEF FlowInv, TypeOK
    <2> HIDE DEF doc
    <2> QED  BY <1>0, <1>1, <1>2, <2>1, WriteType DEF StoreTypeOK
  <1>6. OrderIds \subseteq OrderIds' /\ new \in OrderIds'
    BY <1>0, <1>5 DEF OrderIds
  <1>7. InstsFresh'
    BY <1>1, <1>3, <1>4 DEF FlowInv, InstsFresh
  <1>8. ASSUME NEW c \in callbacks
        PROVE  /\ c.order \in OrderIds'
               /\ c.status = "ok" => c.order \in server'
               /\ \A m \in leaving :
                    m.inst = c.inst => Matches(m.stay, m.option, c.order)'
               /\ Top.inst = c.inst => Matches(Top.stay, Top.option, c.order)'
    <2>1. /\ c.order \in OrderIds /\ (c.status = "ok" => c.order \in server)
          /\ placed'[c.order] = placed[c.order]
      BY <1>5 DEF FlowInv, CallbacksMatch
    <2>2. ASSUME NEW m \in leaving, m.inst = c.inst
          PROVE  Matches(m.stay, m.option, c.order)'
      <3>1. Matches(m.stay, m.option, c.order)
        BY <2>2 DEF FlowInv, CallbacksMatch
      <3> QED  BY <1>3, <2>1, <3>1, MatchesKept DEF NobodyNew, signInVars
    <2>3. ASSUME Top.inst = c.inst
          PROVE  Matches(Top.stay, Top.option, c.order)'
      <3>1. Matches(Top.stay, Top.option, c.order)
        BY <1>1, <2>3 DEF FlowInv, CallbacksMatch
      <3> QED  BY <1>3, <2>1, <3>1 DEF Matches, signInVars
    <2> QED  BY <1>4, <1>6, <2>1, <2>2, <2>3
  <1>9. /\ n.order = new /\ n.inst = Top.inst /\ n.status = "waiting"
        /\ \A m \in leaving : m.inst # Top.inst
        /\ Matches(Top.stay, Top.option, new)'
    <2>1. \A m \in leaving : m.inst # Top.inst
      BY <1>1 DEF FlowInv, InstsFresh
    <2>2. /\ doc.hotelDocId = Top.stay.hotel
          /\ doc.checkIn = Top.stay.checkIn /\ doc.checkOut = Top.stay.checkOut
          /\ doc.night = Top.stay.night /\ doc.paymentMethod = Top.option
          /\ doc.userId = currentUser
          /\ doc.totalPrice = Top.stay.price * Top.stay.night
      BY DEF NewOrder
    <2>3. placed'[new] = doc
      BY <1>5
    <2> HIDE DEF doc
    <2>4. Matches(Top.stay, Top.option, new)'
      BY <1>3, <2>2, <2>3 DEF Matches, signInVars
    <2>5. n.order = new /\ n.inst = Top.inst /\ n.status = "waiting"
      OBVIOUS
    <2> QED  BY <2>1, <2>4, <2>5
  <1>10. CallbacksMatch'
    <2> HIDE DEF n
    <2>1. ASSUME NEW c \in callbacks'
          PROVE  /\ c.order \in OrderIds'
                 /\ c.status = "ok" => c.order \in server'
                 /\ \A m \in leaving' :
                      m.inst = c.inst => Matches(m.stay, m.option, c.order)'
                 /\ Top'.page = "method" /\ Top'.inst = c.inst =>
                      Matches(Top.stay, Top.option, c.order)'
      <3>1. CASE c \in callbacks
        BY <1>3, <1>8, <3>1
      <3>2. CASE c = n
        <4>1. c.order = new /\ c.inst = Top.inst /\ c.status # "ok"
          BY <1>9, <3>2
        <4>2. Matches(Top.stay, Top.option, c.order)'
          BY <1>9, <4>1
        <4>3. \A m \in leaving' : m.inst # c.inst
          BY <1>3, <1>9, <4>1
        <4> QED  BY <1>6, <4>1, <4>2, <4>3
      <3> QED  BY <1>4, <3>1, <3>2
    <2> QED  BY <2>1 DEF CallbacksMatch
  <1>11. PaymentMatches'
    BY <1>1, <1>3 DEF PaymentMatches
  <1> QED  BY <1>7, <1>10, <1>11 DEF Flow

(* handleBooking() resumes: the PaymentPage of a mounted page.             *)
LEMMA FlowResume ==
    ASSUME FlowInv, TypeOK', NEW c \in callbacks, BookingResumes(c)
    PROVE  Flow'
  <1>1. /\ callbacks' = callbacks \ {c} /\ visits' = visits
        /\ placed' = placed /\ server' = server /\ drifted' = drifted
        /\ UNCHANGED signInVars
    BY DEF BookingResumes, userVars
  <1>2. CASE UNCHANGED <<stack, leaving>>
    <2>1. Top' = Top
      BY <1>2 DEF Top, Last
    <2> QED  BY <1>1, <1>2, <2>1, FlowKept DEF NobodyNew, signInVars
  <1>3. ASSUME NEW m \in MethodPages \cup leaving, m.inst = c.inst,
               c.status = "ok", ShowPayment(m, c.order)
        PROVE  Flow'
    <2>1. Top' = PaymentPage(m.stay, m.option, c.order)
      BY <1>3 DEF ShowPayment, Top, Last
    <2>2. /\ Top'.page = "payment" /\ Top'.order = c.order
          /\ Top'.stay = m.stay /\ Top'.option = m.option
      BY <2>1 DEF PaymentPage
    <2>3. \A k \in MethodPages : k = Top /\ Top.page = "method"
      BY MethodIsTop DEF FlowInv
    <2>4. /\ c.order \in OrderIds /\ c.order \in server
          /\ Matches(m.stay, m.option, c.order)
      BY <1>3, <2>3 DEF FlowInv, CallbacksMatch
    <2>5. OrderIds' = OrderIds
      BY <1>1 DEF OrderIds
    <2>6. leaving' = leaving \cup MethodPages
      BY <1>3 DEF ShowPayment
    <2>7. InstsFresh'
      BY <1>1, <2>2, <2>3, <2>6 DEF FlowInv, InstsFresh
    <2>8. ASSUME NEW d \in callbacks, NEW k \in leaving \cup MethodPages,
                 k.inst = d.inst
          PROVE  Matches(k.stay, k.option, d.order)'
      <3>1. Matches(k.stay, k.option, d.order)
        BY <2>3, <2>8 DEF FlowInv, CallbacksMatch
      <3> QED  BY <1>1, <3>1, MatchesKept DEF NobodyNew, signInVars
    <2>9. CallbacksMatch'
      BY <1>1, <2>2, <2>5, <2>6, <2>8 DEF FlowInv, CallbacksMatch
    <2>10. PaymentMatches'
      <3>1. Matches(Top.stay, Top.option, Top.order)'
        BY <1>1, <2>2, <2>4 DEF Matches, signInVars
      <3> QED  BY <1>1, <2>2, <2>4, <2>5, <3>1 DEF PaymentMatches
    <2> QED  BY <2>7, <2>9, <2>10 DEF Flow
  <1> QED  BY <1>2, <1>3 DEF BookingResumes

(* A popped PaymentMethod keeps its bookings until its transition ends.    *)
LEMMA FlowBack ==
    ASSUME FlowInv, TypeOK', Back
    PROVE  Flow'
  <1>1. /\ visits' = visits /\ callbacks' = callbacks /\ placed' = placed
        /\ server' = server /\ drifted' = drifted
        /\ UNCHANGED signInVars
        /\ leaving' = IF Top.page = "method" THEN leaving \cup {Top} ELSE leaving
    BY DEF Back, userVars, storeVars
  <1>2. Top'.page \notin {"method", "payment"}
    <2>1. Top' = stack[Len(stack) - 1] /\ Len(stack) \in Nat /\ Len(stack) > 1
      BY PopType, TopType DEF Back, FlowInv
    <2>2. Len(stack) - 1 \in 1..(Len(stack) - 1)
      BY <2>1
    <2> QED  BY <2>1, <2>2 DEF FlowInv, WellStacked
  <1>3. InstsFresh'
    BY <1>1, <1>2 DEF FlowInv, InstsFresh
  <1>4. OrderIds' = OrderIds
    BY <1>1 DEF OrderIds
  <1>5. ASSUME NEW c \in callbacks, NEW m \in leaving', m.inst = c.inst
        PROVE  Matches(m.stay, m.option, c.order)'
    <2>1. Matches(m.stay, m.option, c.order)
      BY <1>1, <1>5 DEF FlowInv, CallbacksMatch
    <2> QED  BY <1>1, <2>1, MatchesKept DEF NobodyNew, signInVars
  <1>6. CallbacksMatch'
    BY <1>1, <1>2, <1>4, <1>5 DEF FlowInv, CallbacksMatch
  <1>7. PaymentMatches'
    BY <1>2 DEF PaymentMatches
  <1> QED  BY <1>3, <1>6, <1>7 DEF Flow

-----------------------------------------------------------------------------
(* Every step of the app keeps the three parts of the invariant.           *)
LEMMA FlowStep == FlowInv /\ TypeOK' /\ [Next]_vars => Flow'
  <1> SUFFICES ASSUME FlowInv, TypeOK', [Next]_vars PROVE Flow'
    OBVIOUS
  <1> USE DEF uiVars, userVars, hotelVars, storeVars
  <1>0. TypeOK /\ stack \in Seq(Route) /\ stack # <<>>
    BY DEF FlowInv, TypeOK
  <1>a. ASSUME NEW r, stack' = Append(stack, r) PROVE Top' = r
    BY <1>0, <1>a DEF Top, Last
  <1>b. ASSUME NEW r, stack' = ReplaceTop(r) PROVE Top' = r
    BY <1>0, <1>b DEF Top, Last, ReplaceTop
  <1>c. ASSUME NEW r, stack' = <<r>> PROVE Top' = r
    BY <1>c DEF Top, Last
  <1>d. ASSUME stack' = stack PROVE Top' = Top
    BY <1>d DEF Top, Last
  <1>e. UNCHANGED signInVars => NobodyNew
    BY DEF signInVars, NobodyNew
  <1>1. ASSUME NEW u \in Users, SignIn(u) PROVE Flow'
    <2>1. /\ Top'.page = Top.page /\ (Top.page # "splash" => Top' = Top)
          /\ overlapped' = overlapped /\ signIns[u] > 0
      BY <1>0, <1>1, RebuildType DEF SignIn, CallEnds
    <2>2. overlapped => NobodyNew
      BY <2>1 DEF NobodyNew
    <2>3. ~overlapped => AuthAlone
      BY <2>1 DEF FlowInv, LoneCall
    <2>4. AuthAlone => leaving = {} /\ Top.page = "splash"
      BY DEF AuthAlone, Top, Last, SplashPage
    <2> QED  BY <1>1, <2>1, <2>2, <2>3, <2>4, FlowKept DEF SignIn
  <1>12. ASSUME NEW u \in Users, SignInPressed(u) PROVE Flow'
    <2>1. Top' = Top /\ Top.page = "splash" /\ leaving = {}
      BY <1>d, <1>12 DEF SignInPressed
    <2> QED  BY <1>12, <2>1, FlowKept DEF SignInPressed
  <1>13. ASSUME NEW u \in Users, SignInFails(u) PROVE Flow'
    <2>1. Top' = Top /\ NobodyNew
      BY <1>d, <1>13 DEF SignInFails, CallEnds, NobodyNew
    <2> QED  BY <1>13, <2>1, FlowKept DEF SignInFails
  <1>2. CASE SignOutTap
    <2>1. Top'.page = "splash"
      BY <1>c, <1>2 DEF SignOutTap, Splash, SplashPage
    <2> QED  BY <1>2, <2>1, <1>e, FlowKept DEF SignOutTap
  <1>3. ASSUME SignOutDone \/ ForcedSignOut PROVE Flow'
    <2>1. Top'.page = Top.page /\ (Top.page # "splash" => Top' = Top)
      BY <1>0, <1>3, RebuildType DEF SignOutDone, ForcedSignOut
    <2>2. NobodyNew
      BY <1>3 DEF SignOutDone, ForcedSignOut, UserGone, NobodyNew
    <2> QED  BY <1>3, <2>1, <2>2, FlowKept DEF SignOutDone, ForcedSignOut
  <1>4. ASSUME \/ \E h \in Hotels, p \in Prices \cup {NoData} : EditHotel(h, p)
               \/ \E m \in leaving : TransitionEnds(m)
               \/ UNCHANGED vars
        PROVE  Flow'
    BY <1>d, <1>4, <1>e, FlowKept
       DEF EditHotel, TransitionEnds, signInVars, vars
  <1>5. ASSUME NEW h \in Hotels, OpenHotel(h) PROVE Flow'
    <2>1. Top'.page = "detail"
      BY <1>a, <1>5 DEF OpenHotel, DetailPage
    <2> QED  BY <1>5, <2>1, <1>e, FlowKept DEF OpenHotel
  <1>6. ASSUME NEW i \in DOMAIN stack, HotelSnapshot(i) PROVE Flow'
    <2>1. PICK p : stack' = [stack EXCEPT ![i] =
                                DetailPage(stack[i].hotel, p)]
      BY <1>6 DEF HotelSnapshot
    <2>2. Top'.page = "detail" \/ Top' = Top
      BY <1>0, <2>1 DEF Top, Last, DetailPage
    <2> QED  BY <1>6, <2>2, <1>e, FlowKept DEF HotelSnapshot
  <1>7. ASSUME NEW r \in Readings, OpenBooking(r) PROVE Flow'
    <2>1. Top'.page = "booking"
      BY <1>a, <1>7 DEF OpenBooking, BookingDetail
    <2> QED  BY <1>7, <2>1, <1>e, FlowKept DEF OpenBooking
  <1>8. ASSUME \/ \E d \in Day : PickCheckIn(d)
               \/ \E d \in Day : PickCheckOut(d)
               \/ \E f \in Fields : EditField(f)
        PROVE  Flow'
    <2>0. PICK stay, filled : stack' = ReplaceTop(BookingDetail(stay, filled))
      BY <1>8 DEF PickCheckIn, PickCheckOut, EditField
    <2>1. Top'.page = "booking"
      BY <1>b, <2>0 DEF BookingDetail
    <2> QED
      BY <1>8, <2>1, <1>e, FlowKept DEF PickCheckIn, PickCheckOut, EditField
  <1>9. CASE HomePressed
    <2>1. Top'.page = "main"
      BY <1>c, <1>9 DEF HomePressed, MainPage
    <2> QED  BY <1>9, <2>1, <1>e, FlowKept DEF HomePressed
  <1>10. CASE AppRestart
    <2>1. Top'.page = "splash"
      BY <1>c, <1>10 DEF AppRestart, Splash, SplashPage
    <2> QED  BY <1>10, <2>1, FlowKept DEF AppRestart, StoreRestart
  <1>11. ASSUME NEW u \in Users, StoreStep(u) PROVE Flow'
    <2>0. StoreTypeOK(Order)
      BY <1>0 DEF TypeOK
    <2>1. ASSUME NEW i \in 1..Len(queue[u]), ServerApply(u, i) PROVE Flow'
      BY <1>d, <1>11, <2>1, <1>e, FlowKept DEF StoreStep, ServerApply
    <2>2. CASE HandleSuccessfulWrite(u)
      BY <1>11, <2>0, <2>2, HeadType, FlowNotified
         DEF StoreStep, HandleSuccessfulWrite
    <2>3. CASE HandleRejectedWrite(u)
      BY <1>11, <2>0, <2>3, HeadType, FlowNotified
         DEF StoreStep, HandleRejectedWrite
    <2> QED  BY <1>11, <2>1, <2>2, <2>3 DEF StoreStep
  <1> QED
    BY <1>1, <1>2, <1>3, <1>4, <1>5, <1>6, <1>7, <1>8, <1>9, <1>10, <1>11,
       <1>12, <1>13, FlowNext, FlowSelect, FlowBook, FlowResume, FlowBack DEF Next

(* The invariant of the flow.                                              *)
LEMMA FlowHolds == Spec => []FlowInv
  <1>1. Init => WellStacked /\ LoneCall /\ Flow
    <2> SUFFICES ASSUME Init PROVE WellStacked /\ LoneCall /\ Flow
      OBVIOUS
    <2>1. Top.page = "splash"
      BY DEF Init, Splash, SplashPage, Top, Last
    <2>2. WellStacked
      BY DEF Init, Splash, SplashPage, WellStacked
    <2>3. LoneCall
      BY DEF Init, SignInsInit, LoneCall
    <2> QED
      BY <2>1, <2>2, <2>3 DEF Init, StoreInit, Flow, InstsFresh, CallbacksMatch,
                        PaymentMatches
  <1>2. FlowInv /\ TypeOK' /\ [Next]_vars => FlowInv'
    BY StackStep, LoneStep, FlowStep DEF FlowInv, Flow
  <1>3. TypeOK /\ WellStacked /\ LoneCall /\ Flow => FlowInv
    BY DEF FlowInv, Flow
  <1> QED  BY <1>1, <1>2, <1>3, TypeCorrect, PTL DEF Spec

(* A PaymentPage is shown only for an order the server holds, with its      *)
(* hotel, dates and nights, however many bookings of however many pages     *)
(* are in flight.                                                          *)
THEOREM PaymentIsBacked == Spec => []PaymentPageBacked
  <1>1. FlowInv => PaymentPageBacked
    BY PaymentIsTop DEF FlowInv, PaymentMatches, Matches, PaymentPageBacked,
                        PaymentPages, Pages
  <1> QED  BY <1>1, FlowHolds, PTL

(* The option on a PaymentPage is the ordered one unless it was changed     *)
(* while the order was in flight.                                          *)
THEOREM OptionIsOrdered == Spec => []OptionShownIsOrdered
  <1>1. FlowInv => OptionShownIsOrdered
    BY PaymentIsTop DEF FlowInv, PaymentMatches, Matches,
                        OptionShownIsOrdered, PaymentPages, Pages
  <1> QED  BY <1>1, FlowHolds, PTL

(* No account sees the PaymentPage of another account's order, unless two    *)
(* sign-ins overlapped.                                                    *)
THEOREM PaymentIsOwners == Spec => []PaymentShownToOwner
  <1>1. FlowInv => PaymentShownToOwner
    BY PaymentIsTop DEF FlowInv, PaymentMatches, Matches,
                        PaymentShownToOwner, PaymentPages, Pages
  <1> QED  BY <1>1, FlowHolds, PTL

-----------------------------------------------------------------------------
(* Prices and nights.                                                      *)

(* The price of a stay is one the hotel had, and its nights are counted.   *)
GoodStay(s) ==
    /\ s.price \in everPriced[s.hotel]
    /\ NightsOf(Dates(s))

(* What a page of the flow shows was true once.                            *)
GoodRoute(r) ==
    /\ r.page = "detail" => r.price \in everPriced[r.hotel] \cup {NoData}
    /\ r.page \in {"booking", "method", "payment"} => GoodStay(r.stay)

(* What was ordered was true once, and is charged by the night.            *)
GoodOrder(d) ==
    /\ \E p \in everPriced[d.hotelDocId] : d.totalPrice = p * d.night
    /\ NightsOf(Dates(d))

(* The inductive invariant: it follows a price from the collection through   *)
(* the pages to the order.                                                 *)
StaysGood ==
    /\ \A h \in Hotels : hotels[h] \in everPriced[h] \cup {NoData}
    /\ \A i \in 1..Len(stack) : GoodRoute(stack[i])
    /\ \A m \in leaving : GoodStay(m.stay)
    /\ \A o \in OrderIds : GoodOrder(placed[o])

(* Steps of the app: what they bring to the pages or the orders is good.   *)
LEMMA StaysKept ==
    ASSUME StaysGood, UNCHANGED hotelVars,
           \A i \in 1..Len(stack') :
                \/ GoodRoute(stack'[i])
                \/ i \in 1..Len(stack) /\ stack'[i] = stack[i],
           \A m \in leaving' : m \in leaving \/ GoodStay(m.stay),
           \A o \in OrderIds' :
                \/ GoodOrder(placed'[o])
                \/ o \in OrderIds /\ placed'[o] = placed[o]
    PROVE  StaysGood'
  <1>1. everPriced' = everPriced /\ hotels' = hotels
    BY DEF hotelVars
  <1>2. \A i \in 1..Len(stack') : GoodRoute(stack'[i])
    BY DEF StaysGood
  <1>3. \A m \in leaving' : GoodStay(m.stay)
    BY DEF StaysGood
  <1>4. \A o \in OrderIds' : GoodOrder(placed'[o])
    BY DEF StaysGood
  <1>5. \A i \in 1..Len(stack') : GoodRoute(stack[i])'
    BY <1>1, <1>2 DEF GoodRoute, GoodStay
  <1>6. \A m \in leaving' : GoodStay(m.stay)'
    BY <1>1, <1>3 DEF GoodStay
  <1>7. \A o \in OrderIds' : GoodOrder(placed[o])'
    BY <1>1, <1>4 DEF GoodOrder
  <1>8. \A h \in Hotels : hotels'[h] \in everPriced'[h] \cup {NoData}
    BY <1>1 DEF StaysGood
  <1> HIDE DEF GoodRoute, GoodStay, GoodOrder, OrderIds
  <1> QED  BY <1>5, <1>6, <1>7, <1>8 DEF StaysGood

(* The same for the steps that only move between pages.                    *)
LEMMA StaysMoved ==
    ASSUME StaysGood, UNCHANGED hotelVars, placed' = placed,
           \A i \in 1..Len(stack') :
                \/ GoodRoute(stack'[i])
                \/ i \in 1..Len(stack) /\ stack'[i] = stack[i],
           \A m \in leaving' : m \in leaving \/ GoodStay(m.stay)
    PROVE  StaysGood'
  <1>1. \A o \in OrderIds' : o \in OrderIds /\ placed'[o] = placed[o]
    BY DEF OrderIds
  <1> QED  BY <1>1, StaysKept

(* The stays of the pages that are mounted.                                *)
LEMMA MountedGood ==
    ASSUME TypeOK, StaysGood
    PROVE  /\ GoodRoute(Top)
           /\ \A m \in MethodPages \cup leaving : GoodStay(m.stay)
  <1>1. Len(stack) \in 1..Len(stack) /\ Top = stack[Len(stack)]
    BY TopType
  <1>2. ASSUME NEW m \in MethodPages PROVE GoodStay(m.stay)
    <2>1. PICK i \in 1..Len(stack) : m = stack[i] /\ stack[i].page = "method"
      BY DEF MethodPages, Pages, TypeOK
    <2> QED  BY <2>1 DEF StaysGood, GoodRoute
  <1> QED  BY <1>1, <1>2 DEF StaysGood

(* The back office edits a hotel: the history of its prices only grows.    *)
LEMMA StaysEdit ==
    ASSUME TypeOK, StaysGood, NEW h \in Hotels, NEW p \in Prices \cup {NoData},
           EditHotel(h, p)
    PROVE  StaysGood'
  <1>1. /\ everPriced \in [Hotels -> SUBSET Prices]
        /\ hotels \in [Hotels -> Prices \cup {NoData}]
    BY DEF TypeOK
  <1>2. \A k \in Hotels : everPriced[k] \subseteq everPriced'[k]
    BY <1>1 DEF EditHotel
  <1>3. \A k \in Hotels : hotels'[k] \in everPriced'[k] \cup {NoData}
    BY <1>1 DEF EditHotel, StaysGood
  <1>4. \A s \in Stay : GoodStay(s) => GoodStay(s)'
    BY <1>2 DEF GoodStay, Stay
  <1>5. ASSUME NEW r \in Route, GoodRoute(r) PROVE GoodRoute(r)'
    <2>1. r.page = "detail" => r.hotel \in Hotels
      BY RouteByPage DEF DetailRoute
    <2>2. r.page \in {"booking", "method", "payment"} => r.stay \in Stay
      BY RouteByPage DEF BookingRoute, MethodRoute, PaymentRoute
    <2> QED  BY <1>2, <1>4, <1>5, <2>1, <2>2 DEF GoodRoute
  <1>6. ASSUME NEW d \in Order, GoodOrder(d) PROVE GoodOrder(d)'
    BY <1>2, <1>6 DEF GoodOrder, Order
  <1>7. /\ stack' = stack /\ leaving' = leaving /\ placed' = placed
        /\ OrderIds' = OrderIds
    BY DEF EditHotel, uiVars, storeVars, OrderIds
  <1>8. \A i \in 1..Len(stack) : stack[i] \in Route
    BY DEF TypeOK
  <1>9. \A m \in leaving : m.stay \in Stay
    BY DEF TypeOK, MethodRoute
  <1>10. \A o \in OrderIds : placed[o] \in Order
    BY DEF TypeOK, StoreTypeOK, OrderIds
  <1>11. \A i \in 1..Len(stack') : GoodRoute(stack[i])'
    <2>1. ASSUME NEW i \in 1..Len(stack) PROVE GoodRoute(stack[i])'
      <3>1. PICK r \in Route : r = stack[i] /\ GoodRoute(r)
        BY <1>8 DEF StaysGood
      <3>2. GoodRoute(r)'
        BY <1>5, <3>1
      <3> QED  BY <1>7, <3>1, <3>2 DEF GoodRoute, GoodStay
    <2> QED  BY <1>7, <2>1
  <1>12. \A m \in leaving' : GoodStay(m.stay)'
    BY <1>4, <1>7, <1>9 DEF StaysGood
  <1>13. \A o \in OrderIds' : GoodOrder(placed[o])'
    <2>1. ASSUME NEW o \in OrderIds PROVE GoodOrder(placed[o])'
      <3>1. PICK d \in Order : d = placed[o] /\ GoodOrder(d)
        BY <1>10 DEF StaysGood
      <3>2. GoodOrder(d)'
        BY <1>6, <3>1
      <3> QED  BY <1>7, <3>1, <3>2 DEF GoodOrder
    <2> QED  BY <1>7, <2>1
  <1> HIDE DEF GoodRoute, GoodStay, GoodOrder, OrderIds
  <1> QED  BY <1>3, <1>11, <1>12, <1>13 DEF StaysGood

(* "Book Now" on the DetailPage: the price on screen, and initial dates.   *)
LEMMA StaysOpen ==
    ASSUME TypeOK, StaysGood, NEW r \in Readings, OpenBooking(r)
    PROVE  StaysGood'
  <1> DEFINE dates == InitialDates(r[1], r[2])
             stay == [hotel |-> Top.hotel, price |-> Top.price,
                      checkIn |-> dates.checkIn, checkOut |-> dates.checkOut,
                      night |-> dates.night]
             page == BookingDetail(stay, {})
  <1>1. Top.page = "detail" /\ Top.price # NoData /\ stack' = Append(stack, page)
    BY DEF OpenBooking
  <1>2. Top.price \in everPriced[Top.hotel]
    BY <1>1, MountedGood DEF GoodRoute
  <1>3. dates = [checkIn |-> dates.checkIn, checkOut |-> dates.checkOut,
                 night |-> dates.night]
    BY DEF InitialDates
  <1>4. NightsOf(dates)
    BY InitialNights
  <1> HIDE DEF dates
  <1>5. Dates(stay) = dates
    BY <1>3 DEF Dates
  <1>6. GoodStay(stay)
    BY <1>2, <1>4, <1>5 DEF GoodStay
  <1> HIDE DEF stay
  <1>7. GoodRoute(page)
    BY <1>6 DEF GoodRoute, BookingDetail
  <1> HIDE DEF page
  <1>8. \A i \in 1..Len(stack') :
            \/ GoodRoute(stack'[i])
            \/ i \in 1..Len(stack) /\ stack'[i] = stack[i]
    BY <1>1, <1>7 DEF TypeOK
  <1>9. leaving' = leaving /\ placed' = placed /\ UNCHANGED hotelVars
    BY DEF OpenBooking, storeVars
  <1> QED  BY <1>8, <1>9, StaysMoved

(* The pickers recount the nights.                                         *)
LEMMA StaysPick ==
    ASSUME TypeOK, StaysGood, NEW d \in Day, PickCheckIn(d) \/ PickCheckOut(d)
    PROVE  StaysGood'
  <1>1. Top.page = "booking" /\ Top.stay \in Stay
        /\ Top.stay.checkIn \in Day /\ Top.stay.checkOut \in Day
    BY TopType, RouteByPage DEF PickCheckIn, PickCheckOut, BookingRoute, Stay
  <1>2. PICK ci \in Day, co \in Day :
            stack' = ReplaceTop(BookingDetail(WithDates(Top.stay, ci, co),
                                              Top.filled))
    BY <1>1 DEF PickCheckIn, PickCheckOut
  <1> DEFINE stay == WithDates(Top.stay, ci, co)
             page == BookingDetail(stay, Top.filled)
  <1>3. Top.stay.price \in everPriced[Top.stay.hotel]
    BY <1>1, MountedGood DEF GoodRoute, GoodStay
  <1>4. NightsOf(Dates(stay))
    BY <1>1, WithDatesNights
  <1>5. stay.price = Top.stay.price /\ stay.hotel = Top.stay.hotel
    BY DEF WithDates
  <1>6. stack' = ReplaceTop(page)
    BY <1>2
  <1> HIDE DEF stay
  <1>7. GoodRoute(page)
    BY <1>3, <1>4, <1>5 DEF GoodRoute, GoodStay, BookingDetail
  <1> HIDE DEF page
  <1>8. \A i \in 1..Len(stack') :
            \/ GoodRoute(stack'[i])
            \/ i \in 1..Len(stack) /\ stack'[i] = stack[i]
    BY <1>6, <1>7 DEF TypeOK, ReplaceTop
  <1>9. leaving' = leaving /\ placed' = placed /\ UNCHANGED hotelVars
    BY DEF PickCheckIn, PickCheckOut, storeVars
  <1> QED  BY <1>8, <1>9, StaysMoved

(* handleBooking(): the order repeats the page.                            *)
LEMMA StaysBook ==
    ASSUME TypeOK, StaysGood, HandleBooking
    PROVE  StaysGood'
  <1> DEFINE doc == NewOrder(Top, currentUser)
  <1>1. /\ Top.page = "method" /\ currentUser \in Users /\ Top \in MethodRoute
        /\ WriteMutations(currentUser, doc, Top.inst)
    BY TopType, RouteByPage DEF HandleBooking, TypeOK, SignInsTypeOK
  <1>2. doc \in Order /\ Top.inst \in Nat
    BY <1>1, OrderType DEF MethodRoute
  <1>3. GoodStay(Top.stay)
    BY <1>1, MountedGood DEF GoodRoute
  <1>4. /\ doc.hotelDocId = Top.stay.hotel
        /\ doc.totalPrice = Top.stay.price * Top.stay.night
        /\ doc.night = Top.stay.night
        /\ Dates(doc) = Dates(Top.stay)
    BY DEF NewOrder, Dates
  <1> HIDE DEF doc
  <1>5. GoodOrder(doc)
    BY <1>3, <1>4 DEF GoodOrder, GoodStay
  <1>6. /\ Len(placed') = Len(placed) + 1 /\ Len(placed) \in Nat
        /\ \A o \in OrderIds : placed'[o] = placed[o]
        /\ placed'[Len(placed) + 1] = doc
    BY <1>1, <1>2, WriteType DEF TypeOK, StoreTypeOK
  <1>7. \A o \in OrderIds' :
            \/ GoodOrder(placed'[o])
            \/ o \in OrderIds /\ placed'[o] = placed[o]
    BY <1>5, <1>6 DEF OrderIds
  <1>8. stack' = stack /\ leaving' = leaving /\ UNCHANGED hotelVars
    BY DEF HandleBooking, uiVars
  <1> QED  BY <1>7, <1>8, StaysKept

(* Every step of the app keeps the prices and the nights right.            *)
LEMMA StaysStep == TypeOK /\ StaysGood /\ [Next]_vars => StaysGood'
  <1> SUFFICES ASSUME TypeOK, StaysGood, [Next]_vars PROVE StaysGood'
    OBVIOUS
  <1> USE DEF uiVars, userVars, storeVars
  <1>0. /\ stack \in Seq(Route) /\ Len(stack) \in Nat /\ Len(stack) >= 1
        /\ Top = stack[Len(stack)] /\ GoodRoute(Top)
    BY TopType, MountedGood DEF TypeOK
  <1>1. ASSUME NEW r, GoodRoute(r), UNCHANGED hotelVars, placed' = placed,
               leaving' \subseteq leaving,
               \/ stack' = Append(stack, r)
               \/ stack' = ReplaceTop(r)
               \/ stack' = <<r>>
        PROVE  StaysGood'
    <2>1. \A i \in 1..Len(stack') :
            \/ GoodRoute(stack'[i])
            \/ i \in 1..Len(stack) /\ stack'[i] = stack[i]
      <3>1. CASE stack' = Append(stack, r)
        BY <1>0, <1>1, <3>1
      <3>2. CASE stack' = ReplaceTop(r)
        BY <1>0, <1>1, <3>2 DEF ReplaceTop
      <3>3. CASE stack' = <<r>>
        <4>1. Len(stack') = 1 /\ stack'[1] = r
          BY <3>3
        <4> QED  BY <1>1, <4>1
      <3> QED  BY <1>1, <3>1, <3>2, <3>3
    <2> QED  BY <1>1, <2>1, StaysMoved
  <1>2. ASSUME NEW u \in Users \cup {NoUser}, stack' = RebuildSplash(u),
               UNCHANGED hotelVars, placed' = placed, leaving' = leaving
        PROVE  StaysGood'
    <2>1. \A i \in 1..Len(stack') :
            \/ GoodRoute(stack'[i])
            \/ i \in 1..Len(stack) /\ stack'[i] = stack[i]
      BY <1>2, RebuildType DEF GoodRoute
    <2> QED  BY <1>2, <2>1, StaysMoved
  <1>3. ASSUME \/ \E u \in Users : SignIn(u)
               \/ SignOutDone
               \/ ForcedSignOut
        PROVE  StaysGood'
    BY <1>2, <1>3 DEF SignIn, SignOutDone, ForcedSignOut
  <1>4. /\ \A u : GoodRoute(SplashPage(u)) /\ GoodRoute(MainPage(u))
        /\ \A h : GoodRoute(DetailPage(h, NoData))
    BY DEF GoodRoute, SplashPage, MainPage, DetailPage
  <1>5. ASSUME SignOutTap \/ HomePressed \/ AppRestart PROVE StaysGood'
    BY <1>1, <1>4, <1>5
       DEF SignOutTap, HomePressed, AppRestart, Splash, StoreRestart
  <1>6. ASSUME NEW h \in Hotels, OpenHotel(h) PROVE StaysGood'
    BY <1>1, <1>4, <1>6 DEF OpenHotel
  <1>7. ASSUME NEW i \in DOMAIN stack, HotelSnapshot(i) PROVE StaysGood'
    <2>1. stack[i].hotel \in Hotels
      BY <1>0, <1>7, RouteByPage DEF HotelSnapshot, DetailRoute
    <2>2. PICK p \in {hotels[stack[i].hotel], NoData} :
              stack' = [stack EXCEPT ![i] = DetailPage(stack[i].hotel, p)]
      BY <1>7 DEF HotelSnapshot
    <2>3. p \in everPriced[stack[i].hotel] \cup {NoData}
      BY <2>1, <2>2 DEF StaysGood
    <2>4. GoodRoute(DetailPage(stack[i].hotel, p))
      BY <2>3 DEF GoodRoute, DetailPage
    <2>5. \A j \in 1..Len(stack') :
            \/ GoodRoute(stack'[j])
            \/ j \in 1..Len(stack) /\ stack'[j] = stack[j]
      BY <1>0, <2>2, <2>4
    <2> QED  BY <1>7, <2>5, StaysMoved DEF HotelSnapshot
  <1>8. ASSUME NEW r, r.page \in {"booking", "method"}, r.stay = Top.stay,
               Top.page \in {"booking", "method"}
        PROVE  GoodRoute(r)
    BY <1>0, <1>8 DEF GoodRoute
  <1>9. ASSUME NEW f \in Fields, EditField(f) PROVE StaysGood'
    <2>1. PICK filled : stack' = ReplaceTop(BookingDetail(Top.stay, filled))
      BY <1>9 DEF EditField
    <2>2. GoodRoute(BookingDetail(Top.stay, filled))
      BY <1>8, <1>9 DEF EditField, BookingDetail
    <2> QED  BY <1>1, <1>9, <2>1, <2>2 DEF EditField
  <1>10. CASE NextPressed
    <2> DEFINE r == PaymentMethod(visits + 1, Top.stay, Top.filled,
                                  DefaultOption)
    <2>1. GoodRoute(r)
      BY <1>8, <1>10 DEF NextPressed, PaymentMethod
    <2> HIDE DEF r
    <2> QED  BY <1>1, <1>10, <2>1 DEF NextPressed, r
  <1>11. ASSUME NEW o \in PaymentOptions, SelectOption(o) PROVE StaysGood'
    <2> DEFINE r == PaymentMethod(Top.inst, Top.stay, Top.filled, o)
    <2>1. GoodRoute(r)
      BY <1>8, <1>11 DEF SelectOption, PaymentMethod
    <2>2. stack' = ReplaceTop(r)
      BY <1>11 DEF SelectOption
    <2> HIDE DEF r
    <2> QED  BY <1>1, <1>11, <2>1, <2>2 DEF SelectOption
  <1>12. ASSUME stack' = stack, leaving' \subseteq leaving, placed' = placed,
                UNCHANGED hotelVars
         PROVE  StaysGood'
    BY <1>12, StaysMoved
  <1>13. ASSUME NEW c \in callbacks, BookingResumes(c) PROVE StaysGood'
    <2>1. CASE UNCHANGED <<stack, leaving>>
      BY <1>12, <1>13, <2>1 DEF BookingResumes
    <2>2. ASSUME NEW m \in MethodPages \cup leaving, ShowPayment(m, c.order)
          PROVE  StaysGood'
      <3>1. GoodRoute(PaymentPage(m.stay, m.option, c.order))
        BY MountedGood DEF GoodRoute, PaymentPage
      <3>2. Len(stack') = 1 /\ GoodRoute(stack'[1])
        BY <2>2, <3>1 DEF ShowPayment
      <3>3. \A k \in leaving' : GoodStay(k.stay)
        BY <2>2, MountedGood DEF ShowPayment
      <3> QED  BY <1>13, <3>2, <3>3, StaysMoved DEF BookingResumes
    <2> QED  BY <1>13, <2>1, <2>2 DEF BookingResumes
  <1>14. CASE Back
    <2>1. /\ Len(stack') = Len(stack) - 1
          /\ \A i \in 1..(Len(stack) - 1) : stack'[i] = stack[i]
      BY <1>14, PopType DEF Back
    <2>2. \A m \in leaving' : m \in leaving \/ GoodStay(m.stay)
      BY <1>0, <1>14 DEF Back, GoodRoute
    <2>3. \A i \in 1..Len(stack') : i \in 1..Len(stack) /\ stack'[i] = stack[i]
      BY <1>0, <2>1
    <2> QED  BY <1>14, <2>2, <2>3, StaysMoved DEF Back
  <1>15. ASSUME \/ \E m \in leaving : TransitionEnds(m)
                \/ \E u \in Users : StoreStep(u)
                \/ \E u \in Users : SignInPressed(u) \/ SignInFails(u)
                \/ UNCHANGED vars
         PROVE  StaysGood'
    BY <1>12, <1>15
       DEF SignInPressed, SignInFails, TransitionEnds, StoreStep, ServerApply,
           HandleSuccessfulWrite, HandleRejectedWrite, vars, hotelVars
  <1> QED
    BY <1>3, <1>5, <1>6, <1>7, <1>9, <1>10, <1>11, <1>13, <1>14, <1>15,
       StaysEdit, StaysOpen, StaysPick, StaysBook DEF Next

(* The invariant of prices and nights.                                     *)
LEMMA StaysHold == Spec => []StaysGood
  <1>1. Init => StaysGood
    BY DEF Init, StoreInit, Splash, SplashPage, StaysGood, GoodRoute, OrderIds
  <1> QED  BY <1>1, TypeCorrect, StaysStep, PTL DEF Spec

(* What handleBooking() charges is the number of nights times a price the    *)
(* hotel had, however often the back office edits it meanwhile, and the      *)
(* PaymentPage of the order shows that price.                              *)
THEOREM OrdersArePriced == Spec => []OrderPriced
  <1>1. FlowInv /\ StaysGood => OrderPriced
    <2> SUFFICES ASSUME FlowInv, StaysGood PROVE OrderPriced
      OBVIOUS
    <2>1. ASSUME NEW r \in PaymentPages
          PROVE  placed[r.order].totalPrice
                    = TotalPembayaran(r) * placed[r.order].night
      <3>1. r = Top /\ r.page = "payment"
        BY PaymentIsTop DEF FlowInv, PaymentPages, Pages
      <3> QED  BY <3>1 DEF FlowInv, PaymentMatches, Matches, TotalPembayaran
    <2>2. \A o \in OrderIds :
            \E p \in everPriced[placed[o].hotelDocId] :
                placed[o].totalPrice = p * placed[o].night
      BY DEF StaysGood, GoodOrder
    <2> QED  BY <2>1, <2>2 DEF OrderPriced
  <1> QED  BY <1>1, FlowHolds, StaysHold, PTL

(* The night count on every page and in every order is the number of nights  *)
(* between the dates; a clock change between them, or a midnight around the  *)
(* opening of the form, put it off by one at most.                         *)
THEOREM NightsAreExact == Spec => []NightsExact
  <1>1. TypeOK /\ StaysGood => NightsExact
    <2> SUFFICES ASSUME TypeOK, StaysGood, NEW s \in Stays PROVE NightsOf(s)
      BY DEF NightsExact
    <2>1. ASSUME NEW o \in OrderIds, s = Dates(placed[o]) PROVE NightsOf(s)
      BY <2>1 DEF StaysGood, GoodOrder
    <2>2. ASSUME NEW m \in leaving, s = Dates(m.stay) PROVE NightsOf(s)
      BY <2>2 DEF StaysGood, GoodStay
    <2>3. ASSUME NEW r \in Pages("booking") \cup MethodPages \cup PaymentPages,
                 s = Dates(r.stay)
          PROVE  NightsOf(s)
      <3>1. PICK i \in 1..Len(stack) :
                /\ r = stack[i]
                /\ stack[i].page \in {"booking", "method", "payment"}
        BY DEF Pages, MethodPages, PaymentPages, TypeOK
      <3> QED  BY <2>3, <3>1 DEF StaysGood, GoodRoute, GoodStay
    <2> QED  BY <2>1, <2>2, <2>3 DEF Stays
  <1> QED  BY <1>1, TypeCorrect, StaysHold, PTL
=============================================================================
