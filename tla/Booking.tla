------------------------------- MODULE Booking -------------------------------
(***************************************************************************)
(* The booking flow of the app: from a hotel's DetailPage through the      *)
(* BookingDetail form and PaymentMethod to PaymentPage, with the order     *)
(* written by handleBooking() and the session of the signed-in account.    *)
(*                                                                         *)
(* One phone runs one instance of the app.  The Navigator's routes are the *)
(* sequence `stack' (the last one is on screen).  The actors are the user, *)
(* the back office that edits the hotels, the Firestore client and server  *)
(* (OrderStore), the authentication service and the operating system,      *)
(* which may kill the app.                                                 *)
(***************************************************************************)
EXTENDS BookingDates, OrderStore, SignIns, SequencesExt

CONSTANTS
    Hotels,         \* document ids of the 'hotels' collection
    Prices,         \* prices per night
    FirstPrices,    \* the price of each hotel when the app is installed
    MaxEdits,       \* bound: changes of hotel documents by the back office
    NoData,         \* no snapshot yet, or the document does not exist
    PaymentOptions, \* the values of enum PaymentOption
    DefaultOption,  \* PaymentOption.BCA
    Fields,         \* the text fields of the form that must not be empty
    Readings,       \* pairs of successive readings of the device's clock
    MaxVisits       \* bound: how many PaymentMethod pages are opened

ASSUME BookingAssumption ==
    /\ NoUser \notin Users
    /\ Prices \subseteq Int
    /\ NoData \notin Prices
    /\ FirstPrices \in [Hotels -> Prices]
    /\ MaxEdits \in Nat
    /\ DefaultOption \in PaymentOptions
    /\ MaxVisits \in Nat

(* A clock reading and its successor lie in the calendar; the second is at  *)
(* most one tick later.                                                    *)
ASSUME ReadingsAssumption ==
    \A r \in Readings :
        /\ r[1] \in Int
        /\ r[2] \in {r[1], r[1] + 1}
        /\ \E d \in Day : FallsOn(r[1], d)
        /\ \E d \in Day : FallsOn(r[2] + 24, d)

VARIABLES
    stack,          \* the Navigator's routes, bottom first
    leaving,        \* PaymentMethod pages off the stack, still animating out
    visits,         \* how many PaymentMethod pages were opened
    signingOut,     \* a signOut() was called and has not taken effect yet
    hotels,         \* the 'hotels' collection: the price of each document
    everPriced,     \* history: the prices each hotel has had
    edits,          \* how often the back office changed a hotel
    drifted         \* history: orders whose page changed option in flight

uiVars == <<stack, leaving, visits>>
userVars == <<signInVars, signingOut>>
hotelVars == <<hotels, everPriced, edits>>
vars == <<stack, leaving, visits, currentUser, signIns, overlapped, signingOut,
          hotels, everPriced, edits, drifted, placed, queue, server,
          rejected, callbacks>>

-----------------------------------------------------------------------------
(* The constructor arguments the pages of the flow hand to each other.     *)
Stay == [hotel : Hotels, price : Prices,
         checkIn : Day, checkOut : Day, night : Int]

(* Route '/': SplashScreen shows MainPage or, when user = NoUser, AuthPage. *)
(* `user' is the account the MainPage's state captured when it was created. *)
SplashRoute  == [page : {"splash"}, user : Users \cup {NoUser}]
(* Route '/main': a MainPage of its own.                                   *)
MainRoute    == [page : {"main"}, user : Users \cup {NoUser}]
DetailRoute  == [page : {"detail"}, hotel : Hotels,
                 price : Prices \cup {NoData}]
BookingRoute == [page : {"booking"}, stay : Stay, filled : SUBSET Fields]
(* `inst' is the identity of the page's state object.                      *)
MethodRoute  == [page : {"method"}, inst : 1..MaxVisits, stay : Stay,
                 filled : SUBSET Fields, option : PaymentOptions]
(* `order' is not a field of the page: it names the order it was shown for. *)
PaymentRoute == [page : {"payment"}, stay : Stay, option : PaymentOptions,
                 order : 1..MaxOrders]

Route == SplashRoute \cup MainRoute \cup DetailRoute \cup BookingRoute
           \cup MethodRoute \cup PaymentRoute

Order == [userId : Users, hotelDocId : Hotels, contact : SUBSET Fields,
          paymentMethod : PaymentOptions, totalPrice : Int,
          checkIn : Day, checkOut : Day, night : Int,
          isPaid : BOOLEAN, isCancel : BOOLEAN,
          isCheckIn : BOOLEAN, isCheckOut : BOOLEAN]

SplashPage(u) == [page |-> "splash", user |-> u]
MainPage(u) == [page |-> "main", user |-> u]
DetailPage(h, p) == [page |-> "detail", hotel |-> h, price |-> p]
BookingDetail(stay, filled) ==
    [page |-> "booking", stay |-> stay, filled |-> filled]
PaymentMethod(inst, stay, filled, option) ==
    [page |-> "method", inst |-> inst, stay |-> stay, filled |-> filled,
     option |-> option]
PaymentPage(stay, option, id) ==
    [page |-> "payment", stay |-> stay, option |-> option, order |-> id]

Top == Last(stack)
ReplaceTop(r) == [stack EXCEPT ![Len(stack)] = r]

(* main(): runApp shows route '/'; a persisted session is still signed in.  *)
Splash(u) == <<SplashPage(u)>>

Init ==
    /\ SignInsInit(Users)
    /\ stack = Splash(currentUser)
    /\ leaving = {}
    /\ visits = 0
    /\ signingOut = FALSE
    /\ hotels = FirstPrices
    /\ everPriced = [h \in Hotels |-> {hotels[h]}]
    /\ edits = 0
    /\ drifted = {}
    /\ StoreInit

-----------------------------------------------------------------------------
(* The session.                                                            *)

(* StreamBuilder on authStateChanges: SplashScreen swaps AuthPage for a new *)
(* MainPage when a user appears, and back when it goes; an existing         *)
(* MainPage keeps its state.                                               *)
RebuildSplash(u) ==
    [i \in DOMAIN stack |->
        IF stack[i].page # "splash" THEN stack[i]
        ELSE SplashPage(IF NoUser \in {u, stack[i].user} THEN u
                        ELSE stack[i].user)]

(* A MainPage is on screen.                                                *)
MainVisible ==
    /\ Top.page \in {"splash", "main"}
    /\ Top.user # NoUser

(* Mutant: the prompt to sign in again appears over any page.              *)
SignInAnywhere(u) ==
    /\ currentUser = NoUser
    /\ leaving = {}
    /\ CallSent(u)
    /\ UNCHANGED <<uiVars, signingOut, hotelVars, drifted, storeVars>>

(* The login or register button of the AuthPage, up to the await.  Typing   *)
(* the password takes longer than a page's transition.                     *)
SignInPressed(u) ==
    /\ Top.page = "splash"
    /\ Top.user = NoUser
    /\ leaving = {}
    /\ CallSent(u)
    /\ UNCHANGED <<uiVars, signingOut, hotelVars, drifted, storeVars>>

(* The call succeeds, whatever is on screen by then.                       *)
SignIn(u) ==
    /\ CallEnds(u, u)
    /\ stack' = RebuildSplash(u)
    /\ UNCHANGED <<leaving, visits, signingOut, hotelVars, drifted, storeVars>>

(* The call fails: at most a message is shown.                             *)
SignInFails(u) ==
    /\ CallEnds(u, currentUser)
    /\ UNCHANGED <<uiVars, signingOut, hotelVars, drifted, storeVars>>

(* ProfilePage's exit button: signOut() is not awaited, then every route is *)
(* replaced by '/', where the stream first yields the user still signed in. *)
SignOutTap ==
    /\ MainVisible
    /\ signingOut' = TRUE
    /\ stack' = Splash(currentUser)
    /\ UNCHANGED <<leaving, visits, signInVars, hotelVars, drifted, storeVars>>

SignOutDone ==
    /\ signingOut
    /\ signingOut' = FALSE
    /\ UserGone
    /\ stack' = RebuildSplash(NoUser)
    /\ UNCHANGED <<leaving, visits, hotelVars, drifted, storeVars>>

(* The authentication library drops a user whose token is no longer valid.  *)
ForcedSignOut ==
    /\ currentUser # NoUser
    /\ UserGone
    /\ stack' = RebuildSplash(NoUser)
    /\ UNCHANGED <<leaving, visits, signingOut, hotelVars, drifted, storeVars>>

-----------------------------------------------------------------------------
(* Choosing a hotel.                                                       *)

(* The back office changes or removes a hotel document.                    *)
EditHotel(h, p) ==
    /\ hotels[h] # p
    /\ edits < MaxEdits
    /\ edits' = edits + 1
    /\ hotels' = [hotels EXCEPT ![h] = p]
    /\ everPriced' = [everPriced EXCEPT
            ![h] = IF p = NoData THEN @ ELSE @ \cup {p}]
    /\ UNCHANGED <<uiVars, userVars, drifted, storeVars>>

(* A tap on a CardItem or a RecommendItem of a MainPage.                   *)
OpenHotel(h) ==
    /\ MainVisible
    /\ stack' = Append(stack, DetailPage(h, NoData))
    /\ UNCHANGED <<leaving, visits, userVars, hotelVars, drifted, storeVars>>

(* A snapshot of the hotel reaches the StreamBuilder of the DetailPage at   *)
(* position i, on screen or covered.  A listener that fails shows only its  *)
(* error, and a document that does not exist makes the builder throw at     *)
(* data!: no price and no button.                                          *)
HotelSnapshot(i) ==
    /\ i \in DOMAIN stack
    /\ stack[i].page = "detail"
    /\ \E p \in {hotels[stack[i].hotel], NoData} :
        /\ stack[i].price # p
        /\ stack' = [stack EXCEPT ![i] = DetailPage(stack[i].hotel, p)]
    /\ UNCHANGED <<leaving, visits, userVars, hotelVars, drifted, storeVars>>

(* "Book Now" on the DetailPage: BookingDetail with the price on screen,    *)
(* its initState reading the clock twice.                                  *)
OpenBooking(r) ==
    LET dates == InitialDates(r[1], r[2]) IN
    /\ Top.page = "detail"
    /\ Top.price # NoData
    /\ stack' = Append(stack, BookingDetail(
            [hotel |-> Top.hotel, price |-> Top.price,
             checkIn |-> dates.checkIn, checkOut |-> dates.checkOut,
             night |-> dates.night], {}))
    /\ UNCHANGED <<leaving, visits, userVars, hotelVars, drifted, storeVars>>

-----------------------------------------------------------------------------
(* The form.                                                               *)

(* The stay with the dates of the form and the nights between them.        *)
WithDates(stay, checkIn, checkOut) ==
    [hotel |-> stay.hotel, price |-> stay.price, checkIn |-> checkIn,
     checkOut |-> checkOut, night |-> Nights(checkIn, checkOut)]

(* Mutant: the night count is not updated.                                 *)
PickCheckInKeepsNight(d) ==
    /\ Top.page = "booking"
    /\ stack' = ReplaceTop(
            BookingDetail([Top.stay EXCEPT !.checkIn = d], Top.filled))
    /\ UNCHANGED <<leaving, visits, userVars, hotelVars, drifted, storeVars>>

(* The check-in picker returns day d.                                      *)
PickCheckIn(d) ==
    /\ Top.page = "booking"
    /\ stack' = ReplaceTop(BookingDetail(
            WithDates(Top.stay, d, Top.stay.checkOut), Top.filled))
    /\ UNCHANGED <<leaving, visits, userVars, hotelVars, drifted, storeVars>>

(* The check-out picker returns day d.                                     *)
PickCheckOut(d) ==
    /\ Top.page = "booking"
    /\ stack' = ReplaceTop(BookingDetail(
            WithDates(Top.stay, Top.stay.checkIn, d), Top.filled))
    /\ UNCHANGED <<leaving, visits, userVars, hotelVars, drifted, storeVars>>

(* The user types into field f, or empties it.                             *)
EditField(f) ==
    /\ Top.page = "booking"
    /\ stack' = ReplaceTop(BookingDetail(Top.stay,
            IF f \in Top.filled THEN Top.filled \ {f}
                                ELSE Top.filled \cup {f}))
    /\ UNCHANGED <<leaving, visits, userVars, hotelVars, drifted, storeVars>>

(* "Next": with a field empty it only shows a message.                     *)
NextPressed ==
    /\ Top.page = "booking"
    /\ Top.filled = Fields
    /\ visits < MaxVisits
    /\ visits' = visits + 1
    /\ stack' = Append(stack, PaymentMethod(visits + 1, Top.stay,
                                            Top.filled, DefaultOption))
    /\ UNCHANGED <<leaving, userVars, hotelVars, drifted, storeVars>>

-----------------------------------------------------------------------------
(* The payment method and the order.                                       *)

(* A radio button.  The page stays usable while a booking is in flight.    *)
SelectOption(o) ==
    /\ Top.page = "method"
    /\ Top.option # o
    /\ stack' = ReplaceTop(
            PaymentMethod(Top.inst, Top.stay, Top.filled, o))
    /\ drifted' = drifted \cup
            {c.order : c \in {d \in callbacks : d.inst = Top.inst}}
    /\ UNCHANGED <<leaving, visits, userVars, hotelVars, storeVars>>

(* Mutant: the price of one night is stored as the total.                  *)
NewOrderOneNight(r, u) ==
    [userId |-> u, hotelDocId |-> r.stay.hotel, contact |-> r.filled,
     paymentMethod |-> r.option, totalPrice |-> r.stay.price,
     checkIn |-> r.stay.checkIn, checkOut |-> r.stay.checkOut,
     night |-> r.stay.night, isPaid |-> TRUE, isCancel |-> FALSE,
     isCheckIn |-> FALSE, isCheckOut |-> FALSE]

(* The document handleBooking() gives to add().                            *)
NewOrder(r, u) ==
    [userId |-> u, hotelDocId |-> r.stay.hotel, contact |-> r.filled,
     paymentMethod |-> r.option, totalPrice |-> r.stay.price * r.stay.night,
     checkIn |-> r.stay.checkIn, checkOut |-> r.stay.checkOut,
     night |-> r.stay.night, isPaid |-> TRUE, isCancel |-> FALSE,
     isCheckIn |-> FALSE, isCheckOut |-> FALSE]

(* Mutant: currentUser?.uid, a document without an owner.                  *)
BookWithoutUser ==
    /\ Top.page = "method"
    /\ WriteMutations(currentUser, NewOrder(Top, currentUser), Top.inst)
    /\ UNCHANGED <<uiVars, userVars, hotelVars, drifted>>

(* "Book Now", up to the await.  The button is never disabled: each press   *)
(* starts another booking.  Without a user, currentUser! throws and the     *)
(* catch clause swallows it: nothing happens.                              *)
HandleBooking ==
    /\ Top.page = "method"
    /\ currentUser # NoUser
    /\ WriteMutations(currentUser, NewOrder(Top, currentUser), Top.inst)
    /\ UNCHANGED <<uiVars, userVars, hotelVars, drifted>>

(* The routes of one page.                                                 *)
Pages(page) ==
    {stack[i] : i \in {j \in DOMAIN stack : stack[j].page = page}}

MethodPages == Pages("method")

(* Mutant: Navigator.push, which keeps the routes below.                   *)
PushPayment(m, id) ==
    /\ stack' = Append(stack, PaymentPage(m.stay, m.option, id))
    /\ UNCHANGED leaving

(* Mutant: the PaymentPage is always given the default option.             *)
ShowDefaultPayment(m, id) ==
    /\ stack' = <<PaymentPage(m.stay, DefaultOption, id)>>
    /\ leaving' = leaving \cup MethodPages

(* Every route is replaced by the PaymentPage of page m for order id.       *)
ShowPayment(m, id) ==
    /\ stack' = <<PaymentPage(m.stay, m.option, id)>>
    /\ leaving' = leaving \cup MethodPages

(* Mutant: add() is not awaited.                                           *)
BookingNotAwaited(c) ==
    /\ c \in callbacks
    /\ callbacks' = callbacks \ {c}
    /\ \E m \in MethodPages \cup leaving :
            m.inst = c.inst /\ ShowPayment(m, c.order)
    /\ UNCHANGED <<visits, userVars, hotelVars, drifted,
                   placed, queue, server, rejected>>

(* After the await.  On success the PaymentPage replaces every route, with  *)
(* the option selected NOW.  When the page is disposed, Navigator.of throws *)
(* and the catch clause swallows it; so it does with an error of add().    *)
BookingResumes(c) ==
    /\ c \in callbacks
    /\ c.status # "waiting"
    /\ callbacks' = callbacks \ {c}
    /\ \/ /\ c.status = "ok"
          /\ \E m \in MethodPages \cup leaving :
                m.inst = c.inst /\ ShowPayment(m, c.order)
       \/ /\ \/ c.status = "error"
             \/ \A m \in MethodPages \cup leaving : m.inst # c.inst
          /\ UNCHANGED <<stack, leaving>>
    /\ UNCHANGED <<visits, userVars, hotelVars, drifted,
                   placed, queue, server, rejected>>

-----------------------------------------------------------------------------
(* Leaving pages.                                                          *)

(* The back button of a page, or the system's.  A popped PaymentMethod      *)
(* stays mounted until its transition ends.                                *)
Back ==
    /\ Len(stack) > 1
    /\ stack' = Front(stack)
    /\ leaving' = IF Top.page = "method" THEN leaving \cup {Top} ELSE leaving
    /\ UNCHANGED <<visits, userVars, hotelVars, drifted, storeVars>>

TransitionEnds(m) ==
    /\ m \in leaving
    /\ leaving' = leaving \ {m}
    /\ UNCHANGED <<stack, visits, userVars, hotelVars, drifted, storeVars>>

(* "Home" on the PaymentPage: route '/main', whose MainPage takes           *)
(* currentUser! when its state is created.                                 *)
HomePressed ==
    /\ Top.page = "payment"
    /\ stack' = <<MainPage(currentUser)>>
    /\ UNCHANGED <<leaving, visits, userVars, hotelVars, drifted, storeVars>>

(* The app is killed and started again.                                    *)
AppRestart ==
    /\ stack' = Splash(currentUser)
    /\ leaving' = {}
    /\ signingOut' = FALSE
    /\ SignInsRestart
    /\ StoreRestart
    /\ UNCHANGED <<visits, hotelVars, drifted>>

-----------------------------------------------------------------------------
(* Mutant: the pipeline is not filled from disk, only with the writes of    *)
(* this process.                                                           *)
SendOnlyAwaited(u) ==
    /\ currentUser = u
    /\ queue[u] # <<>>
    /\ \E c \in callbacks : c.order = Head(queue[u])
    /\ \/ \E i \in 1..Len(queue[u]) : ServerApply(u, i)
       \/ HandleSuccessfulWrite(u)
       \/ HandleRejectedWrite(u)
    /\ UNCHANGED <<uiVars, userVars, hotelVars, drifted>>

(* The Firestore client works on the queue of the user signed in.  (What    *)
(* the server still receives after a change of user it may as well have     *)
(* received before it: nothing else reads it.)                             *)
StoreStep(u) ==
    /\ currentUser = u
    /\ \/ \E i \in 1..Len(queue[u]) : ServerApply(u, i)
       \/ HandleSuccessfulWrite(u)
       \/ HandleRejectedWrite(u)
    /\ UNCHANGED <<uiVars, userVars, hotelVars, drifted>>

Next ==
    \/ \E u \in Users : SignInPressed(u)
    \/ \E u \in Users : SignIn(u)
    \/ \E u \in Users : SignInFails(u)
    \/ SignOutTap
    \/ SignOutDone
    \/ ForcedSignOut
    \/ \E h \in Hotels, p \in Prices \cup {NoData} : EditHotel(h, p)
    \/ \E h \in Hotels : OpenHotel(h)
    \/ \E i \in DOMAIN stack : HotelSnapshot(i)
    \/ \E r \in Readings : OpenBooking(r)
    \/ \E d \in Day : PickCheckIn(d)
    \/ \E d \in Day : PickCheckOut(d)
    \/ \E f \in Fields : EditField(f)
    \/ NextPressed
    \/ \E o \in PaymentOptions : SelectOption(o)
    \/ HandleBooking
    \/ \E c \in callbacks : BookingResumes(c)
    \/ Back
    \/ \E m \in leaving : TransitionEnds(m)
    \/ HomePressed
    \/ AppRestart
    \/ \E u \in Users : StoreStep(u)

Spec == Init /\ [][Next]_vars

(* Users, back office and operating system owe nothing.  A future that has  *)
(* completed resumes its handler; a signOut() takes effect; the client      *)
(* sends and resends the queue of a user who keeps coming back online.     *)
Fairness ==
    /\ \A id \in 1..MaxOrders :
            WF_vars(\E c \in callbacks : c.order = id /\ BookingResumes(c))
    /\ WF_vars(SignOutDone)
    /\ \A u \in Users : SF_vars(StoreStep(u))

FairSpec == Spec /\ Fairness

-----------------------------------------------------------------------------
(* Type invariant.                                                         *)
TypeOK ==
    /\ stack \in Seq(Route)
    /\ stack # <<>>
    /\ leaving \subseteq MethodRoute
    /\ visits \in 0..MaxVisits
    /\ SignInsTypeOK(Users)
    /\ signingOut \in BOOLEAN
    /\ hotels \in [Hotels -> Prices \cup {NoData}]
    /\ everPriced \in [Hotels -> SUBSET Prices]
    /\ edits \in 0..MaxEdits
    /\ drifted \subseteq 1..MaxOrders
    /\ StoreTypeOK(Order)

PaymentPages == Pages("payment")

(* totalPembayaran() of the PaymentPage.                                   *)
TotalPembayaran(r) == r.stay.price

(* What handleBooking() charges is the number of nights times a price the   *)
(* hotel really had, however old the price on the pages behind it is, and    *)
(* the PaymentPage of the order shows that price.  (That is the price of one *)
(* night: of a longer stay "Total Pembayaran" is not the total.)            *)
OrderPriced ==
    /\ \A o \in OrderIds :
        \E p \in everPriced[placed[o].hotelDocId] :
            placed[o].totalPrice = p * placed[o].night
    /\ \A r \in PaymentPages :
        placed[r.order].totalPrice = TotalPembayaran(r) * placed[r.order].night

(* The dates of a stay or of an order.                                     *)
Dates(s) == [checkIn |-> s.checkIn, checkOut |-> s.checkOut, night |-> s.night]

(* The dates the form, PaymentMethod and PaymentPage hold, and the ones      *)
(* that were ordered.                                                      *)
Stays ==
    {Dates(r.stay) : r \in Pages("booking") \cup MethodPages
                                           \cup PaymentPages \cup leaving}
      \cup {Dates(placed[o]) : o \in OrderIds}

(* The night count of s is exact, or off by one for a reason.               *)
NightsOf(s) ==
    LET error == s.night - (s.checkOut - s.checkIn) IN
    \/ error = 0
    \/ /\ error \in {-1, 1}
       /\ \/ UtcOffset[s.checkIn] # UtcOffset[s.checkOut]
          \/ s \in {InitialDates(r[1], r[2]) : r \in Readings}

(* The night count the two pickers keep is the number of nights between the  *)
(* dates, on every page and in every order, but for two causes, which put it *)
(* off by one: a clock change between the dates (inDays truncates a day of   *)
(* 23 hours to 0), and the initial dates of a form opened around a midnight.  *)
(* (It is negative when check-out precedes check-in: no page refuses that.) *)
NightsExact == \A s \in Stays : NightsOf(s)

(* handleBooking() shows a PaymentPage only for an order the server holds,  *)
(* with the hotel, dates and nights of that order, although the page was    *)
(* built after the await and several bookings may be in flight.            *)
PaymentPageBacked ==
    \A r \in PaymentPages :
        /\ r.order \in server
        /\ placed[r.order].hotelDocId = r.stay.hotel
        /\ placed[r.order].checkIn = r.stay.checkIn
        /\ placed[r.order].checkOut = r.stay.checkOut
        /\ placed[r.order].night = r.stay.night

(* pushAndRemoveUntil(..., (route) => false): no page lies under or over a  *)
(* PaymentPage, so nothing of a finished booking can be gone back to.      *)
PaymentPageAlone == PaymentPages # {} => Len(stack) = 1

(* The PaymentPage reads paymentValue after the await: it shows the ordered *)
(* method unless a radio button was tapped while the order was in flight.  *)
OptionShownIsOrdered ==
    \A r \in PaymentPages :
        r.option = placed[r.order].paymentMethod \/ r.order \in drifted

(* A PaymentPage is on screen for the account that ordered, or after that   *)
(* account was signed out, however sign-outs, restarts and late answers of  *)
(* add() interleave: unless two sign-ins overlapped, whose second answer     *)
(* changes the account under the pages the first one brought.              *)
PaymentShownToOwner ==
    ~overlapped => \A r \in PaymentPages :
                        currentUser \in {placed[r.order].userId, NoUser}

(* The user captured by MainPage's state (OrderPage and ProfilePage query   *)
(* by it) is the one signed in or nobody is, also under covering pages and  *)
(* on a '/main' that outlives the session: unless two sign-ins overlapped. *)
MainUserCurrent ==
    ~overlapped => \A i \in DOMAIN stack :
        stack[i].page \in {"splash", "main"} =>
            \/ stack[i].user = currentUser
            \/ NoUser \in {stack[i].user, currentUser}

(* No order is lost or doubled by a restart, a change of user or an answer: *)
(* each waits once in the queue of the account that placed it, or is held   *)
(* by the server, or was given up as refused.  (It may be both: a send that  *)
(* fails after its order was applied loses the answer, and a refusal of      *)
(* another write is then charged to this one; see WritePipeline.)          *)
NoLostOrder ==
    \A o \in OrderIds :
        /\ \/ Queued(placed[o].userId, o)
           \/ o \in server
           \/ o \in rejected
        /\ \A u \in Users :
            /\ Queued(u, o) => u = placed[o].userId /\ o \notin rejected
            /\ \A i, j \in 1..Len(queue[u]) :
                    queue[u][i] = o /\ queue[u][j] = o => i = j

-----------------------------------------------------------------------------
(* An order leaves its account's mutation queue if that account is signed   *)
(* in again and again, whatever restarts and other sign-ins come between.  *)
OrderSettles ==
    \A o \in 1..MaxOrders :
        []<>(o \in OrderIds => currentUser = placed[o].userId)
          => (o \in OrderIds ~> \A u \in Users : ~Queued(u, o))

(* The await in handleBooking() ends: the handler resumes, unless the       *)
(* account is signed out or the app dies first.                            *)
BookingAnswered ==
    \A o \in 1..MaxOrders :
        (\E c \in callbacks : c.order = o)
          ~> \/ \A c \in callbacks : c.order # o
             \/ currentUser # placed[o].userId

-----------------------------------------------------------------------------
(* What the code says and does not do.                                     *)

(* main_page.dart:16 asserts currentUser! when a MainPage is created.      *)
MainHasUser ==
    \A i \in DOMAIN stack : stack[i].page = "main" => stack[i].user # NoUser

=============================================================================
