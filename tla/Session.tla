------------------------------- MODULE Session -------------------------------
(***************************************************************************)
(* Accounts, sign-in and profiles: LoginPage, RegisterPage and AuthPage     *)
(* inside the SplashScreen, the authentication service, and the 'users'     *)
(* collection that addUserDetails() writes and ProfilePage reads.          *)
(*                                                                         *)
(* signInHandler() and signUpHandler() are split at their awaits.  Their    *)
(* buttons are never disabled, so that calls overlap, and the text fields   *)
(* can be edited while a call is in flight.  signUpHandler() reads the      *)
(* e-mail again after its await; a disposed text field keeps its text.     *)
(* (The full name, read in the same statement, is left out.)               *)
(***************************************************************************)
EXTENDS Naturals

CONSTANTS
    Emails,         \* e-mail addresses; an account is named by its own
    Blank,          \* the empty text
    NoUser,         \* FirebaseAuth.instance.currentUser == null
    MaxCalls        \* bound: how often a login or register button is pressed

ASSUME SessionAssumption ==
    /\ Blank \notin Emails
    /\ NoUser \notin Emails
    /\ MaxCalls \in Nat

VARIABLES
    accounts,       \* the accounts the authentication service knows
    currentUser,    \* FirebaseAuth.instance.currentUser
    signingOut,     \* a signOut() was called and has not taken effect yet
    page,           \* what the SplashScreen shows
    mainUser,       \* the user the MainPage's state captured
    form,           \* the fields of the form on screen
    calls,          \* activations of signInHandler() and signUpHandler()
    pressed,        \* how many there were
    profiles,       \* documents of the 'users' collection
    overlapped,     \* history: two calls awaited their answers at once
    edited,         \* history: addresses whose form was edited in flight
    cut             \* history: accounts whose registration was cut short

authVars == <<accounts, currentUser, signingOut>>
uiVars == <<page, mainUser, form>>
callVars == <<calls, pressed, overlapped>>
vars == <<accounts, currentUser, signingOut, page, mainUser, form, calls,
          pressed, profiles, overlapped, edited, cut>>

Text == Emails \cup {Blank}

(* The fields of a form: the e-mail, and whether the two passwords agree.  *)
Form == [email : Text, confirmed : BOOLEAN]

(* `email' is what was sent and `text' what the field of its form holds,    *)
(* which is on screen while `mounted'.  A call is sent, carried out by the  *)
(* service ("created", for a sign-up) and answered.                        *)
Call == [id : 1..MaxCalls, kind : {"signIn", "signUp"}, email : Text,
         text : Text, mounted : BOOLEAN, status : {"sent", "created", "ok"}]

(* `by' is the user signed in when the document was added: until the server *)
(* holds it, it waits in that user's mutation queue.                       *)
Profile == [uid : Emails, email : Text, by : Emails \cup {NoUser},
            held : BOOLEAN]

EmptyForm == [email |-> Blank, confirmed |-> FALSE]

(* A persisted session is still signed in; earlier users have profiles.    *)
Init ==
    /\ accounts \in SUBSET Emails
    /\ currentUser \in accounts \cup {NoUser}
    /\ signingOut = FALSE
    /\ page = IF currentUser = NoUser THEN "login" ELSE "main"
    /\ mainUser = currentUser
    /\ form = EmptyForm
    /\ calls = {}
    /\ pressed = 0
    /\ profiles = {[uid |-> e, email |-> e, by |-> e, held |-> TRUE] :
                        e \in accounts}
    /\ overlapped = FALSE
    /\ edited = {}
    /\ cut = {}

-----------------------------------------------------------------------------
(* The form of these calls is disposed.                                    *)
Unmounted(S) == {[c EXCEPT !.mounted = FALSE] : c \in S}

(* Mutant: the SplashScreen asks for a user once and keeps its MainPage.   *)
KeepMain(u, rest) ==
    \/ /\ page = "main"
       /\ calls' = rest
       /\ UNCHANGED uiVars
    \/ /\ page # "main"
       /\ u # NoUser
       /\ page' = "main"
       /\ mainUser' = u
       /\ form' = EmptyForm
       /\ calls' = Unmounted(rest)
    \/ /\ page # "main"
       /\ u = NoUser
       /\ calls' = rest
       /\ UNCHANGED uiVars

(* SplashScreen rebuilds for user u, or for none, and the calls in flight   *)
(* are now rest.  A MainPage captures the user when it takes the place of   *)
(* AuthPage, and keeps it; a new AuthPage starts with an empty LoginPage.   *)
ShowFor(u, rest) ==
    \/ /\ u # NoUser
       /\ page # "main"
       /\ page' = "main"
       /\ mainUser' = u
       /\ form' = EmptyForm
       /\ calls' = Unmounted(rest)
    \/ /\ u = NoUser
       /\ page = "main"
       /\ page' = "login"
       /\ mainUser' = NoUser
       /\ calls' = rest
       /\ UNCHANGED form
    \/ /\ (u = NoUser) = (page # "main")
       /\ calls' = rest
       /\ UNCHANGED uiVars

(* The user types into the form on screen; only RegisterPage has a second   *)
(* password.                                                               *)
EditForm(f) ==
    /\ page # "main"
    /\ f.confirmed => page = "register"
    /\ form # f
    /\ form' = f
    /\ calls' = {IF c.mounted THEN [c EXCEPT !.text = f.email] ELSE c :
                    c \in calls}
    /\ edited' = edited \cup {c.email : c \in {d \in calls : d.mounted}}
    /\ UNCHANGED <<authVars, page, mainUser, pressed, overlapped, profiles,
                   cut>>

(* "Sign Up" on LoginPage, "Sign In" on RegisterPage: the other form, empty. *)
ToggleScreens ==
    /\ page # "main"
    /\ page' = IF page = "login" THEN "register" ELSE "login"
    /\ form' = EmptyForm
    /\ calls' = Unmounted(calls)
    /\ UNCHANGED <<authVars, mainUser, pressed, overlapped, profiles, edited,
                   cut>>

(* A handler sends its request.                                            *)
Send(kind) ==
    /\ pressed < MaxCalls
    /\ pressed' = pressed + 1
    /\ calls' = calls \cup
            {[id |-> pressed + 1, kind |-> kind, email |-> form.email,
              text |-> form.email, mounted |-> TRUE, status |-> "sent"]}
    /\ overlapped' = (overlapped \/ \E c \in calls : c.status # "ok")
    /\ UNCHANGED <<authVars, uiVars, profiles, edited, cut>>

(* The login button: signInHandler() up to its await.                      *)
SignInPressed ==
    /\ page = "login"
    /\ Send("signIn")

(* The register button: signUpHandler() up to its await.  With two different *)
(* passwords it does nothing.                                              *)
SignUpPressed ==
    /\ page = "register"
    /\ form.confirmed
    /\ Send("signUp")

-----------------------------------------------------------------------------
(* The calls, with call c gone on to the given status.                     *)
Advanced(c, status) == (calls \ {c}) \cup {[c EXCEPT !.status = status]}

(* The service creates the account; the answer is on its way.              *)
CreateAccount(c) ==
    /\ c \in calls
    /\ c.kind = "signUp"
    /\ c.status = "sent"
    /\ c.email \in Emails \ accounts
    /\ accounts' = accounts \cup {c.email}
    /\ calls' = Advanced(c, "created")
    /\ UNCHANGED <<currentUser, signingOut, uiVars, pressed, overlapped,
                   profiles, edited, cut>>

(* A call succeeds: its user is signed in.  Nothing is left to do for a     *)
(* sign-in; a sign-up resumes.                                             *)
AuthSucceeds(c) ==
    /\ c \in calls
    /\ \/ /\ c.kind = "signIn"
          /\ c.email \in accounts
          /\ ShowFor(c.email, calls \ {c})
       \/ /\ c.status = "created"
          /\ ShowFor(c.email, Advanced(c, "ok"))
    /\ currentUser' = c.email
    /\ UNCHANGED <<accounts, signingOut, pressed, overlapped, profiles,
                   edited, cut>>

(* Mutant: the handler tries again, for ever.                              *)
TryAgain(c) ==
    /\ c \in calls
    /\ c.status = "sent"
    /\ calls' = Advanced(c, "sent")
    /\ UNCHANGED <<authVars, uiVars, pressed, overlapped, profiles, edited,
                   cut>>

(* A call fails: wrong password, address in use, a lost answer.  At most a  *)
(* message is shown.  An account that was created stays.                   *)
AuthFails(c) ==
    /\ c \in calls
    /\ c.status # "ok"
    /\ calls' = calls \ {c}
    /\ cut' = IF c.status = "created" THEN cut \cup {c.email} ELSE cut
    /\ UNCHANGED <<authVars, uiVars, pressed, overlapped, profiles, edited>>

(* Mutant: if (!mounted) return; after the await.                          *)
AddDetailsIfMounted(c) ==
    /\ c \in calls
    /\ c.status = "ok"
    /\ calls' = calls \ {c}
    /\ profiles' = IF ~c.mounted THEN profiles ELSE profiles \cup
            {[uid |-> c.email, email |-> c.text, by |-> currentUser,
              held |-> FALSE]}
    /\ UNCHANGED <<authVars, uiVars, pressed, overlapped, edited, cut>>

(* signUpHandler() after its await: addUserDetails() adds the profile with  *)
(* the e-mail its form holds by then.                                      *)
AddUserDetails(c) ==
    /\ c \in calls
    /\ c.status = "ok"
    /\ calls' = calls \ {c}
    /\ profiles' = profiles \cup
            {[uid |-> c.email, email |-> c.text, by |-> currentUser,
              held |-> FALSE]}
    /\ UNCHANGED <<authVars, uiVars, pressed, overlapped, edited, cut>>

(* The server takes the profile.                                           *)
ProfileHeld(p) ==
    /\ p \in profiles
    /\ ~p.held
    /\ p.by = currentUser
    /\ profiles' = (profiles \ {p}) \cup {[p EXCEPT !.held = TRUE]}
    /\ UNCHANGED <<authVars, uiVars, callVars, edited, cut>>

(* The server refuses it; nobody awaits addUserDetails().                  *)
ProfileRefused(p) ==
    /\ p \in profiles
    /\ ~p.held
    /\ p.by = currentUser
    /\ profiles' = profiles \ {p}
    /\ cut' = cut \cup {p.uid}
    /\ UNCHANGED <<authVars, uiVars, callVars, edited>>

-----------------------------------------------------------------------------
(* Mutant: the new MainPage is built after the sign-out took effect.       *)
SignOutFirst ==
    /\ page = "main"
    /\ currentUser' = NoUser
    /\ mainUser' = NoUser
    /\ UNCHANGED <<accounts, signingOut, page, form, callVars, profiles,
                   edited, cut>>

(* ProfilePage's exit button: signOut() is not awaited; a new SplashScreen  *)
(* finds the user still signed in and shows a new MainPage.                *)
SignOutTap ==
    /\ page = "main"
    /\ signingOut' = TRUE
    /\ mainUser' = currentUser
    /\ UNCHANGED <<accounts, currentUser, page, form, callVars, profiles,
                   edited, cut>>

(* It takes effect.                                                        *)
SignOutDone ==
    /\ signingOut
    /\ signingOut' = FALSE
    /\ currentUser' = NoUser
    /\ ShowFor(NoUser, calls)
    /\ UNCHANGED <<accounts, pressed, overlapped, profiles, edited, cut>>

(* The authentication library drops a user whose token is no longer valid.  *)
ForcedSignOut ==
    /\ currentUser # NoUser
    /\ currentUser' = NoUser
    /\ ShowFor(NoUser, calls)
    /\ UNCHANGED <<accounts, signingOut, pressed, overlapped, profiles,
                   edited, cut>>

(* Sign-ups the service may carry out although nobody waits any more.      *)
Adrift ==
    {c.email : c \in {d \in calls : d.kind = "signUp" /\ d.status = "sent"}}
      \cap (Emails \ accounts)

(* The app is killed and started again.                                    *)
AppRestart ==
    /\ \E late \in SUBSET Adrift :
        /\ accounts' = accounts \cup late
        /\ cut' = cut \cup late \cup
                {c.email : c \in {d \in calls : d.status # "sent"}}
    /\ calls' = {}
    /\ signingOut' = FALSE
    /\ page' = IF currentUser = NoUser THEN "login" ELSE "main"
    /\ mainUser' = currentUser
    /\ form' = EmptyForm
    /\ UNCHANGED <<currentUser, pressed, profiles, overlapped, edited>>

(* The service answers call c, or its handler resumes.                     *)
CallStep(c) ==
    \/ CreateAccount(c)
    \/ AuthSucceeds(c)
    \/ AuthFails(c)
    \/ AddUserDetails(c)

Next ==
    \/ \E f \in Form : EditForm(f)
    \/ ToggleScreens
    \/ SignInPressed
    \/ SignUpPressed
    \/ \E c \in calls : CallStep(c)
    \/ \E p \in profiles : ProfileHeld(p)
    \/ \E p \in profiles : ProfileRefused(p)
    \/ SignOutTap
    \/ SignOutDone
    \/ ForcedSignOut
    \/ AppRestart

Spec == Init /\ [][Next]_vars

(* Every request is answered, at the latest by a timeout of the library,    *)
(* and a completed future resumes its handler.                             *)
FairSpec ==
    /\ Spec
    /\ \A n \in 1..MaxCalls :
            WF_vars(\E c \in calls : c.id = n /\ CallStep(c))

-----------------------------------------------------------------------------
(* Type invariant; a MainPage on screen has captured a user.               *)
TypeOK ==
    /\ accounts \subseteq Emails
    /\ currentUser \in Emails \cup {NoUser}
    /\ signingOut \in BOOLEAN
    /\ page \in {"login", "register", "main"}
    /\ mainUser \in Emails \cup {NoUser}
    /\ (page = "main") = (mainUser # NoUser)
    /\ form \in Form
    /\ calls \subseteq Call
    /\ pressed \in 0..MaxCalls
    /\ profiles \subseteq Profile
    /\ overlapped \in BOOLEAN
    /\ edited \subseteq Text
    /\ cut \subseteq Emails

(* OrderPage and ProfilePage query by the user the MainPage captured.  As   *)
(* long as no two sign-ins or sign-ups were in flight at once, that is the  *)
(* user signed in.                                                         *)
MainUserCurrent == page = "main" /\ ~overlapped => mainUser = currentUser

(* Call c has made its account and its profile is still to be written.     *)
Registering(c) == c.kind = "signUp" /\ c.status \in {"created", "ok"}

(* No account is without a profile that ProfilePage finds by its e-mail,    *)
(* unless its handler is still to resume, its registration was cut short    *)
(* (lost answer, restart, refused write), or its form was edited in flight: *)
(* the e-mail is read from a text field after the await, when other forms   *)
(* may be open.  No account has two, and no profile is without an account.  *)
ProfilesComplete ==
    /\ \A e \in accounts \ (cut \cup edited) :
            \/ \E p \in profiles : p.uid = e /\ p.email = e
            \/ \E c \in calls : Registering(c) /\ c.email = e
    /\ \A p \in profiles : p.email = p.uid \/ p.uid \in edited
    /\ \A p, q \in profiles : p.uid = q.uid => p = q
    /\ \A p \in profiles : p.uid \in accounts

(* Every activation of signInHandler() and signUpHandler() comes to an end. *)
CallsEnd ==
    \A n \in 1..MaxCalls :
        (\E c \in calls : c.id = n) ~> (\A c \in calls : c.id # n)
=============================================================================
