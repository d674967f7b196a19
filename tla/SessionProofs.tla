---------------------------- MODULE SessionProofs ----------------------------
(***************************************************************************)
(* Sign-ins, sign-ups and profiles: the proofs that a MainPage's user is the *)
(* one signed in unless calls overlapped, and that an account lacks its      *)
(* profile only for the causes ProfilesComplete names, for any number of     *)
(* addresses and of calls in flight.                                       *)
(***************************************************************************)
EXTENDS Session, TLAPS

(* The SplashScreen shows a MainPage exactly while a user is signed in.     *)
PageIsUsers == (page = "main") <=> (currentUser # NoUser)

(* A sign-in is answered at once; a registration in flight has its account  *)
(* and no profile yet; its form holds what was sent unless it was edited.  *)
CallSound(c) ==
    /\ c.kind = "signIn" => c.status = "sent"
    /\ Registering(c) => /\ c.email \in accounts
                         /\ \A p \in profiles : p.uid # c.email
    /\ c.text = c.email \/ c.email \in edited

(* No account is being registered twice.                                   *)
Distinct(S) ==
    \A c, d \in S : Registering(c) /\ Registering(d) /\ c.email = d.email => c = d

(* At most one call awaits its answer.                                     *)
OneAwaits(S) ==
    \A c, d \in S : c.status # "ok" /\ d.status # "ok" => c = d

NoneAwaits(S) == \A c \in S : c.status = "ok"

(* Without overlapping calls no answer can meet a MainPage.                *)
AnswersMeetForms ==
    ~overlapped => OneAwaits(calls) /\ (page = "main" => NoneAwaits(calls))

CallsSound == (\A c \in calls : CallSound(c)) /\ Distinct(calls)

(* The inductive invariant.                                                *)
SessionInv ==
    /\ TypeOK
    /\ PageIsUsers
    /\ CallsSound
    /\ AnswersMeetForms
    /\ MainUserCurrent
    /\ ProfilesComplete

-----------------------------------------------------------------------------
(* Lemmas about the sets of calls.                                         *)

(* Call d is call c, with another form.                                    *)
Twin(c, d) == d.kind = c.kind /\ d.email = c.email /\ d.status = c.status

(* The calls of T are those of S, with other forms.                        *)
Renewed(S, T) ==
    \E f \in [S -> T] : T = {f[c] : c \in S} /\ \A c \in S : Twin(c, f[c])

(* Other forms change nothing else about the calls.                        *)
LEMMA RenewedKeeps ==
    ASSUME NEW S, NEW T, Renewed(S, T)
    PROVE  /\ Distinct(S) => Distinct(T)
           /\ OneAwaits(S) => OneAwaits(T)
           /\ NoneAwaits(S) => NoneAwaits(T)
           /\ \A d \in T : \E c \in S : Twin(c, d)
           /\ \A c \in S : \E d \in T : Twin(c, d)
  <1>1. PICK f \in [S -> T] : T = {f[c] : c \in S} /\ \A c \in S : Twin(c, f[c])
    BY DEF Renewed
  <1>2. Distinct(S) => Distinct(T)
    BY <1>1 DEF Distinct, Registering, Twin
  <1>3. OneAwaits(S) => OneAwaits(T)
    BY <1>1 DEF OneAwaits, Twin
  <1>4. NoneAwaits(S) => NoneAwaits(T)
    BY <1>1 DEF NoneAwaits, Twin
  <1>5. \A d \in T : \E c \in S : Twin(c, d)
    BY <1>1
  <1>6. \A c \in S : \E d \in T : Twin(c, d)
    BY <1>1
  <1> QED  BY <1>2, <1>3, <1>4, <1>5, <1>6

(* Disposing the forms is such a change.                                   *)
LEMMA UnmountedRenews ==
    ASSUME NEW S \in SUBSET Call
    PROVE  /\ Unmounted(S) \subseteq Call
           /\ Renewed(S, Unmounted(S))
           /\ \A d \in Unmounted(S) : \E c \in S : Twin(c, d) /\ d.text = c.text
  <1> DEFINE f == [c \in S |-> [c EXCEPT !.mounted = FALSE]]
  <1>1. \A c \in S : f[c] \in Call /\ Twin(c, f[c]) /\ f[c].text = c.text
    BY DEF Call, Twin
  <1>2. Unmounted(S) = {f[c] : c \in S}
    BY DEF Unmounted
  <1>3. f \in [S -> Unmounted(S)]
    BY <1>2
  <1>4. Renewed(S, Unmounted(S))
    <2> HIDE DEF f
    <2> QED  BY <1>1, <1>2, <1>3 DEF Renewed
  <1>5. \A d \in Unmounted(S) : \E c \in S : d = f[c]
    BY <1>2
  <1> HIDE DEF f
  <1> QED  BY <1>1, <1>4, <1>5

(* And so is leaving them alone.                                           *)
LEMMA SameRenews == ASSUME NEW S PROVE Renewed(S, S)
  <1> DEFINE f == [c \in S |-> c]
  <1>1. f \in [S -> S] /\ S = {f[c] : c \in S} /\ \A c \in S : Twin(c, f[c])
    BY DEF Twin
  <1> HIDE DEF f
  <1> QED  BY <1>1 DEF Renewed

-----------------------------------------------------------------------------
(* ShowFor(): the page follows the user, and the calls are the given ones.  *)
LEMMA ShowForPage ==
    ASSUME TypeOK, PageIsUsers, NEW u \in Emails \cup {NoUser},
           NEW S \in SUBSET Call, ShowFor(u, S)
    PROVE  /\ page' \in {"login", "register", "main"}
           /\ page' = "main" <=> u # NoUser
           /\ mainUser' \in Emails \cup {NoUser}
           /\ (page' = "main") = (mainUser' # NoUser)
           /\ page # "main" /\ u # NoUser => mainUser' = u
           /\ page = "main" /\ u # NoUser => mainUser' = mainUser
           /\ form' \in Form
           /\ calls' \in SUBSET Call
           /\ Renewed(S, calls')
           /\ \A d \in calls' : \E c \in S : Twin(c, d) /\ d.text = c.text
  <1>1. EmptyForm \in Form
    BY DEF EmptyForm, Form, Text
  <1>2. calls' = S \/ calls' = Unmounted(S)
    BY DEF ShowFor
  <1>3. /\ calls' \in SUBSET Call /\ Renewed(S, calls')
        /\ \A d \in calls' : \E c \in S : Twin(c, d) /\ d.text = c.text
    BY <1>2, UnmountedRenews, SameRenews DEF Twin
  <1>4. /\ page' \in {"login", "register", "main"}
        /\ page' = "main" <=> u # NoUser
        /\ mainUser' \in Emails \cup {NoUser}
        /\ page # "main" /\ u # NoUser => mainUser' = u
        /\ page = "main" /\ u # NoUser => mainUser' = mainUser
        /\ form' \in Form
    BY <1>1, SessionAssumption DEF ShowFor, uiVars, TypeOK, PageIsUsers
  <1>5. (page' = "main") = (mainUser' # NoUser)
    BY SessionAssumption DEF ShowFor, uiVars, TypeOK, PageIsUsers
  <1> QED  BY <1>3, <1>4, <1>5

(* The calls of EditForm(): another text on the forms on screen.           *)
Retyped(S, t) == {IF c.mounted THEN [c EXCEPT !.text = t] ELSE c : c \in S}

(* Editing the form on screen is one too.                                  *)
LEMMA RetypedRenews ==
    ASSUME NEW S \in SUBSET Call, NEW t \in Text
    PROVE  /\ Retyped(S, t) \subseteq Call
           /\ Renewed(S, Retyped(S, t))
           /\ \A d \in Retyped(S, t) : \E c \in S :
                    Twin(c, d) /\ (c.mounted \/ d.text = c.text)
  <1> DEFINE f == [c \in S |-> IF c.mounted THEN [c EXCEPT !.text = t] ELSE c]
  <1>1. \A c \in S : f[c] \in Call /\ Twin(c, f[c]) /\ (c.mounted \/ f[c].text = c.text)
    BY DEF Call, Twin
  <1>2. Retyped(S, t) = {f[c] : c \in S}
    BY DEF Retyped
  <1>3. f \in [S -> Retyped(S, t)]
    BY <1>2
  <1>4. Renewed(S, Retyped(S, t))
    <2> HIDE DEF f
    <2> QED  BY <1>1, <1>2, <1>3 DEF Renewed
  <1>5. \A d \in Retyped(S, t) : \E c \in S : d = f[c]
    BY <1>2
  <1> HIDE DEF f
  <1> QED  BY <1>1, <1>4, <1>5

(* The calls of CreateAccount() and of a sign-up that resumes.             *)
LEMMA AdvancedCalls ==
    ASSUME calls \subseteq Call, NEW c \in calls, NEW s \in {"sent", "created", "ok"}
    PROVE  /\ Advanced(c, s) \subseteq Call
           /\ \E d \in Call :
                /\ Advanced(c, s) = (calls \ {c}) \cup {d}
                /\ d.kind = c.kind /\ d.email = c.email /\ d.text = c.text
                /\ d.status = s
  <1> DEFINE d == [c EXCEPT !.status = s]
  <1>1. /\ d \in Call
        /\ d.kind = c.kind /\ d.email = c.email /\ d.text = c.text
        /\ d.status = s
    BY DEF Call
  <1>2. Advanced(c, s) = (calls \ {c}) \cup {d}
    BY DEF Advanced
  <1> HIDE DEF d
  <1> QED  BY <1>1, <1>2

-----------------------------------------------------------------------------
(* A step that gives the sound calls of S other forms keeps the calls sound. *)
LEMMA RenewedSound ==
    ASSUME NEW S, \A c \in S : CallSound(c), Distinct(S), Renewed(S, calls'),
           accounts' = accounts, profiles' = profiles, edited \subseteq edited',
           \A d \in calls' : \E c \in S :
                Twin(c, d) /\ (d.text = c.text \/ c.email \in edited')
    PROVE  CallsSound'
  <1>1. Distinct(calls')
    BY RenewedKeeps
  <1>2. ASSUME NEW d \in calls' PROVE CallSound(d)'
    <2>1. PICK c \in S : Twin(c, d) /\ (d.text = c.text \/ c.email \in edited')
      OBVIOUS
    <2> QED  BY <2>1 DEF CallSound, Twin, Registering
  <1> QED  BY <1>1, <1>2 DEF CallsSound

(* An account stays complete when no profile goes and each registration in   *)
(* flight goes on.                                                         *)
LEMMA ProfilesStayComplete ==
    ASSUME ProfilesComplete, accounts' = accounts, profiles' = profiles,
           edited \subseteq edited', cut \subseteq cut',
           \A c \in calls : Registering(c) =>
                \/ c.email \in cut'
                \/ \E d \in calls' : Registering(d) /\ d.email = c.email
    PROVE  ProfilesComplete'
  BY DEF ProfilesComplete

(* A registration in flight goes on under another form.                    *)
LEMMA RenewedRegisters ==
    ASSUME NEW S, NEW T, Renewed(S, T), NEW c \in S, Registering(c)
    PROVE  \E d \in T : Registering(d) /\ d.email = c.email
  BY RenewedKeeps DEF Twin, Registering

(* A step that only gives the calls other forms, and shows no MainPage.     *)
LEMMA RenewedStep ==
    ASSUME SessionInv, Renewed(calls, calls'), TypeOK', PageIsUsers',
           accounts' = accounts, profiles' = profiles, edited \subseteq edited',
           cut' = cut, overlapped' = overlapped, page' # "main",
           \A d \in calls' : \E c \in calls :
                Twin(c, d) /\ (d.text = c.text \/ c.email \in edited')
    PROVE  SessionInv'
  <1>1. CallsSound'
    BY RenewedSound DEF SessionInv, CallsSound
  <1>2. ProfilesComplete'
    BY ProfilesStayComplete, RenewedRegisters DEF SessionInv
  <1>3. AnswersMeetForms'
    BY RenewedKeeps DEF SessionInv, AnswersMeetForms
  <1>4. MainUserCurrent'
    BY DEF MainUserCurrent
  <1> QED  BY <1>1, <1>2, <1>3, <1>4 DEF SessionInv

(* Editing a form: the addresses in flight under it are noted.             *)
LEMMA EditFormStep ==
    ASSUME SessionInv, NEW f \in Form, EditForm(f)
    PROVE  SessionInv'
  <1>1. f.email \in Text /\ calls \in SUBSET Call
    BY DEF Form, SessionInv, TypeOK
  <1>2. calls' = Retyped(calls, f.email)
    BY DEF EditForm, Retyped
  <1>3. /\ calls' \subseteq Call
        /\ Renewed(calls, calls')
        /\ \A d \in calls' : \E c \in calls :
                Twin(c, d) /\ (c.mounted \/ d.text = c.text)
    BY <1>1, <1>2, RetypedRenews
  <1>4. edited' = edited \cup {c.email : c \in {d \in calls : d.mounted}}
    BY DEF EditForm
  <1>5. \A c \in calls : c.mounted => c.email \in edited'
    BY <1>4
  <1>6. edited' \subseteq Text
    BY <1>1, <1>4 DEF SessionInv, TypeOK, Call
  <1>7. TypeOK' /\ PageIsUsers'
    BY <1>3, <1>6 DEF SessionInv, TypeOK, PageIsUsers, EditForm, authVars
  <1> QED
    BY <1>3, <1>4, <1>5, <1>7, RenewedStep DEF EditForm, authVars

(* The other form takes the place of this one.                             *)
LEMMA ToggleScreensStep ==
    ASSUME SessionInv, ToggleScreens
    PROVE  SessionInv'
  <1>1. calls \in SUBSET Call /\ calls' = Unmounted(calls)
    BY DEF SessionInv, TypeOK, ToggleScreens
  <1>2. /\ calls' \subseteq Call
        /\ Renewed(calls, calls')
        /\ \A d \in calls' : \E c \in calls : Twin(c, d) /\ d.text = c.text
    BY <1>1, UnmountedRenews
  <1>3. EmptyForm \in Form
    BY DEF EmptyForm, Form, Text
  <1>4. TypeOK' /\ PageIsUsers' /\ page' # "main"
    BY <1>2, <1>3 DEF SessionInv, TypeOK, PageIsUsers, ToggleScreens, authVars
  <1> QED
    BY <1>2, <1>4, RenewedStep DEF ToggleScreens, authVars

(* SignOutDone and ForcedSignOut.                                          *)
LEMMA SignedOutStep ==
    ASSUME SessionInv, SignOutDone \/ ForcedSignOut
    PROVE  SessionInv'
  <1>1. /\ ShowFor(NoUser, calls)
        /\ currentUser' = NoUser
        /\ signingOut' \in BOOLEAN
        /\ UNCHANGED <<accounts, pressed, overlapped, profiles, edited, cut>>
    BY DEF SignOutDone, ForcedSignOut, SessionInv, TypeOK
  <1>2. calls \in SUBSET Call
    BY DEF SessionInv, TypeOK
  <1>3. /\ page' \in {"login", "register", "main"}
        /\ page' # "main"
        /\ mainUser' \in Emails \cup {NoUser}
        /\ (page' = "main") = (mainUser' # NoUser)
        /\ form' \in Form
        /\ calls' \in SUBSET Call
        /\ Renewed(calls, calls')
        /\ \A d \in calls' : \E c \in calls : Twin(c, d) /\ d.text = c.text
    BY <1>1, <1>2, ShowForPage DEF SessionInv
  <1>4. TypeOK' /\ PageIsUsers'
    BY <1>1, <1>3 DEF SessionInv, TypeOK, PageIsUsers
  <1> QED  BY <1>1, <1>3, <1>4, RenewedStep

-----------------------------------------------------------------------------
(* A button is pressed: only now can calls begin to overlap.               *)
LEMMA SendStep ==
    ASSUME SessionInv, NEW kind \in {"signIn", "signUp"}, page # "main", Send(kind)
    PROVE  SessionInv'
  <1> DEFINE n == [id |-> pressed + 1, kind |-> kind, email |-> form.email,
                   text |-> form.email, mounted |-> TRUE, status |-> "sent"]
  <1>1. calls' = calls \cup {n}
    BY DEF Send
  <1>2. pressed + 1 \in 1..MaxCalls
    BY SessionAssumption DEF Send, SessionInv, TypeOK
  <1>3. form.email \in Text
    BY DEF SessionInv, TypeOK, Form
  <1>4. /\ n \in Call
        /\ n.status = "sent" /\ n.text = n.email
    BY <1>2, <1>3 DEF Call
  <1>5. overlapped' = (overlapped \/ \E c \in calls : c.status # "ok")
    BY DEF Send
  <1> HIDE DEF n
  <1>6. UNCHANGED <<accounts, currentUser, signingOut, page, mainUser, form,
                    profiles, edited, cut>> /\ pressed' = pressed + 1
    BY DEF Send, authVars, uiVars
  <1>7. overlapped' \in BOOLEAN
    BY <1>5
  <1>8. pressed' \in 0..MaxCalls
    BY <1>2, <1>6
  <1>9. TypeOK'
    BY <1>1, <1>4, <1>6, <1>7, <1>8 DEF SessionInv, TypeOK
  <1>10. PageIsUsers' /\ MainUserCurrent'
    BY <1>6 DEF SessionInv, PageIsUsers, MainUserCurrent
  <1>11. CallsSound'
    BY <1>1, <1>4, <1>6 DEF SessionInv, CallsSound, CallSound, Distinct, Registering
  <1>12. ProfilesComplete'
    BY <1>1, <1>6, ProfilesStayComplete DEF SessionInv
  <1>13. ASSUME ~overlapped' PROVE OneAwaits(calls')
    BY <1>1, <1>5, <1>13 DEF OneAwaits
  <1>14. AnswersMeetForms'
    BY <1>6, <1>13 DEF AnswersMeetForms
  <1> QED  BY <1>9, <1>10, <1>11, <1>12, <1>14 DEF SessionInv

(* Only the login and the register page have these buttons.                *)
LEMMA PressedStep ==
    ASSUME SessionInv, SignInPressed \/ SignUpPressed
    PROVE  SessionInv'
  BY SendStep DEF SignInPressed, SignUpPressed

-----------------------------------------------------------------------------
(* The service creates the account: nobody had it, so that no profile and    *)
(* no other registration is of its address.                                *)
LEMMA CreateAccountStep ==
    ASSUME SessionInv, NEW c \in calls, CreateAccount(c)
    PROVE  SessionInv'
  <1>1. calls \subseteq Call
    BY DEF SessionInv, TypeOK
  <1>2. PICK d \in Call :
            /\ calls' = (calls \ {c}) \cup {d}
            /\ d.kind = c.kind /\ d.email = c.email /\ d.text = c.text
            /\ d.status = "created"
    BY <1>1, AdvancedCalls DEF CreateAccount
  <1>3. /\ c.status = "sent" /\ c.kind = "signUp" /\ c.email \in Emails
        /\ c.email \notin accounts
        /\ accounts' = accounts \cup {c.email}
        /\ UNCHANGED <<currentUser, signingOut, page, mainUser, form, pressed,
                       overlapped, profiles, edited, cut>>
    BY DEF CreateAccount, uiVars
  <1>4. TypeOK'
    BY <1>1, <1>2, <1>3 DEF SessionInv, TypeOK
  <1>5. PageIsUsers' /\ MainUserCurrent'
    BY <1>3 DEF SessionInv, PageIsUsers, MainUserCurrent
  <1>6. Registering(d) /\ ~Registering(c)
    BY <1>2, <1>3 DEF Registering
  <1>7. \A p \in profiles : p.uid # c.email
    BY <1>3 DEF SessionInv, ProfilesComplete
  <1>8. \A b \in calls : Registering(b) => b.email # c.email
    BY <1>3 DEF SessionInv, CallsSound, CallSound
  <1>9. \A b \in calls : CallSound(b)'
    BY <1>3 DEF SessionInv, CallsSound, CallSound
  <1>10. CallSound(d)'
    BY <1>2, <1>3, <1>7, <1>9 DEF CallSound
  <1>11. Distinct(calls')
    BY <1>2, <1>8 DEF SessionInv, CallsSound, Distinct
  <1>12. CallsSound'
    BY <1>2, <1>9, <1>10, <1>11 DEF CallsSound
  <1>13. ProfilesComplete'
    <2>1. ASSUME NEW e \in accounts' \ (cut' \cup edited')
          PROVE  \/ \E p \in profiles' : p.uid = e /\ p.email = e
                 \/ \E b \in calls' : Registering(b) /\ b.email = e
      <3>1. CASE e = c.email
        BY <3>1, <1>2, <1>6
      <3>2. CASE e # c.email
        <4>1. e \in accounts \ (cut \cup edited)
          BY <3>2, <1>3
        <4>2. \/ \E p \in profiles : p.uid = e /\ p.email = e
              \/ \E b \in calls : Registering(b) /\ b.email = e
          BY <4>1 DEF SessionInv, ProfilesComplete
        <4> QED  BY <4>2, <1>2, <1>3, <1>6
      <3> QED  BY <3>1, <3>2
    <2> QED  BY <2>1, <1>3 DEF SessionInv, ProfilesComplete
  <1>14. OneAwaits(calls) => OneAwaits(calls')
    BY <1>2, <1>3 DEF OneAwaits
  <1>15. ~NoneAwaits(calls)
    BY <1>3 DEF NoneAwaits
  <1>16. AnswersMeetForms'
    BY <1>3, <1>14, <1>15 DEF SessionInv, AnswersMeetForms
  <1> QED  BY <1>4, <1>5, <1>12, <1>13, <1>16 DEF SessionInv

(* A call succeeds.  S are the calls that go on, which await less.          *)
LEMMA AuthSucceedsStep ==
    ASSUME SessionInv, NEW c \in calls, AuthSucceeds(c)
    PROVE  SessionInv'
  <1>1. calls \subseteq Call
    BY DEF SessionInv, TypeOK
  <1>2. /\ currentUser' = c.email
        /\ UNCHANGED <<accounts, signingOut, pressed, overlapped, profiles,
                       edited, cut>>
    BY DEF AuthSucceeds
  <1>3. c.email \in accounts /\ c.status # "ok"
    BY <1>1 DEF AuthSucceeds, SessionInv, CallsSound, CallSound, Registering, Call
  <1>4. c.email \in Emails /\ c.email # NoUser
    BY <1>3, SessionAssumption DEF SessionInv, TypeOK
  <1>5. PICK S \in SUBSET Call :
            /\ ShowFor(c.email, S)
            /\ \A b \in S : CallSound(b)
            /\ Distinct(S)
            /\ \A b \in calls : Registering(b) =>
                    \E d \in S : Registering(d) /\ d.email = b.email
            /\ OneAwaits(calls) => NoneAwaits(S)
    <2>1. CASE c.kind = "signIn" /\ ShowFor(c.email, calls \ {c})
      <3>1. ~Registering(c)
        BY <2>1 DEF Registering
      <3>2. \A b \in calls \ {c} : CallSound(b)
        BY DEF SessionInv, CallsSound
      <3>3. Distinct(calls \ {c})
        BY DEF SessionInv, CallsSound, Distinct
      <3>4. OneAwaits(calls) => NoneAwaits(calls \ {c})
        BY <1>3 DEF OneAwaits, NoneAwaits
      <3> QED  BY <1>1, <2>1, <3>1, <3>2, <3>3, <3>4
    <2>2. CASE c.status = "created" /\ ShowFor(c.email, Advanced(c, "ok"))
      <3>1. PICK d \in Call :
                /\ Advanced(c, "ok") = (calls \ {c}) \cup {d}
                /\ d.kind = c.kind /\ d.email = c.email /\ d.text = c.text
                /\ d.status = "ok"
        BY <1>1, AdvancedCalls
      <3>2. Registering(c) /\ Registering(d)
        BY <1>1, <2>2, <3>1 DEF Registering, SessionInv, CallsSound, CallSound, Call
      <3>3. CallSound(c) /\ \A b \in calls : CallSound(b)
        BY DEF SessionInv, CallsSound
      <3>4. CallSound(d)
        BY <3>1, <3>2, <3>3 DEF CallSound, Registering
      <3>5. Distinct(Advanced(c, "ok"))
        BY <3>1, <3>2 DEF SessionInv, CallsSound, Distinct
      <3>6. OneAwaits(calls) => NoneAwaits(Advanced(c, "ok"))
        BY <1>3, <3>1 DEF OneAwaits, NoneAwaits
      <3>7. \A b \in calls : Registering(b) =>
                \E e \in Advanced(c, "ok") : Registering(e) /\ e.email = b.email
        BY <3>1, <3>2
      <3>8. \A b \in Advanced(c, "ok") : CallSound(b)
        BY <3>1, <3>3, <3>4
      <3>9. Advanced(c, "ok") \in SUBSET Call
        BY <1>1, <3>1
      <3> QED  BY <2>2, <3>5, <3>6, <3>7, <3>8, <3>9
    <2> QED  BY <2>1, <2>2 DEF AuthSucceeds
  <1>6. /\ page' \in {"login", "register", "main"}
        /\ page' = "main"
        /\ mainUser' \in Emails \cup {NoUser}
        /\ (page' = "main") = (mainUser' # NoUser)
        /\ page # "main" => mainUser' = c.email
        /\ form' \in Form
        /\ calls' \in SUBSET Call
        /\ Renewed(S, calls')
        /\ \A d \in calls' : \E b \in S : Twin(b, d) /\ d.text = b.text
    BY <1>4, <1>5, ShowForPage DEF SessionInv
  <1>7. TypeOK' /\ PageIsUsers'
    BY <1>2, <1>4, <1>6 DEF SessionInv, TypeOK, PageIsUsers
  <1>8. CallsSound'
    BY <1>2, <1>5, <1>6, RenewedSound
  <1>9. \A b \in calls : Registering(b) =>
            \E d \in calls' : Registering(d) /\ d.email = b.email
    BY <1>5, <1>6, RenewedRegisters
  <1>10. ProfilesComplete'
    BY <1>2, <1>9, ProfilesStayComplete DEF SessionInv
  <1>11. ~overlapped => OneAwaits(calls) /\ page # "main"
    BY <1>3 DEF SessionInv, AnswersMeetForms, NoneAwaits
  <1>12. MainUserCurrent'
    BY <1>2, <1>6, <1>11 DEF MainUserCurrent
  <1>13. NoneAwaits(S) => NoneAwaits(calls')
    BY <1>6, RenewedKeeps
  <1>14. AnswersMeetForms'
    BY <1>2, <1>5, <1>11, <1>13 DEF AnswersMeetForms, NoneAwaits, OneAwaits
  <1> QED  BY <1>7, <1>8, <1>10, <1>12, <1>14 DEF SessionInv

-----------------------------------------------------------------------------
(* A call fails; an account created for it counts as cut short.            *)
LEMMA AuthFailsStep ==
    ASSUME SessionInv, NEW c \in calls, AuthFails(c)
    PROVE  SessionInv'
  <1>1. /\ calls' = calls \ {c}
        /\ c.status # "ok"
        /\ UNCHANGED <<accounts, currentUser, signingOut, page, mainUser, form,
                       pressed, overlapped, profiles, edited>>
    BY DEF AuthFails, authVars, uiVars
  <1>2. cut' = IF c.status = "created" THEN cut \cup {c.email} ELSE cut
    BY DEF AuthFails
  <1>3. Registering(c) => c.status = "created" /\ c.email \in Emails
    BY <1>1 DEF Registering, SessionInv, CallsSound, CallSound, TypeOK
  <1>4. c.status = "created" => Registering(c)
    BY DEF SessionInv, CallsSound, CallSound, TypeOK, Call, Registering
  <1>5. cut' \subseteq Emails /\ cut \subseteq cut' /\ (Registering(c) => c.email \in cut')
    BY <1>2, <1>3, <1>4 DEF SessionInv, TypeOK
  <1>6. TypeOK' /\ PageIsUsers' /\ MainUserCurrent'
    BY <1>1, <1>5 DEF SessionInv, TypeOK, PageIsUsers, MainUserCurrent
  <1>7. CallsSound'
    BY <1>1 DEF SessionInv, CallsSound, CallSound, Distinct
  <1>8. ProfilesComplete'
    BY <1>1, <1>5, ProfilesStayComplete DEF SessionInv
  <1>9. AnswersMeetForms'
    BY <1>1 DEF SessionInv, AnswersMeetForms, OneAwaits, NoneAwaits
  <1> QED  BY <1>6, <1>7, <1>8, <1>9 DEF SessionInv

(* The profile is of an account that had none.                             *)
LEMMA AddUserDetailsStep ==
    ASSUME SessionInv, NEW c \in calls, AddUserDetails(c)
    PROVE  SessionInv'
  <1> DEFINE n == [uid |-> c.email, email |-> c.text, by |-> currentUser,
                   held |-> FALSE]
  <1>1. /\ calls' = calls \ {c}
        /\ profiles' = profiles \cup {n}
        /\ c.status = "ok"
        /\ UNCHANGED <<accounts, currentUser, signingOut, page, mainUser, form,
                       pressed, overlapped, edited, cut>>
    BY DEF AddUserDetails, authVars, uiVars
  <1>2. c \in Call /\ CallSound(c)
    BY DEF SessionInv, TypeOK, CallsSound
  <1>3. Registering(c)
    BY <1>1, <1>2 DEF CallSound, Registering, Call
  <1>4. /\ c.email \in accounts /\ c.email \in Emails
        /\ \A p \in profiles : p.uid # c.email
        /\ c.text = c.email \/ c.email \in edited
    BY <1>2, <1>3 DEF CallSound, SessionInv, TypeOK
  <1>5. /\ n \in Profile
        /\ n.uid = c.email /\ n.email = c.text
    BY <1>2, <1>4 DEF Profile, Call, SessionInv, TypeOK
  <1> HIDE DEF n
  <1>6. TypeOK' /\ PageIsUsers' /\ MainUserCurrent'
    BY <1>1, <1>5 DEF SessionInv, TypeOK, PageIsUsers, MainUserCurrent
  <1>7. Distinct(calls')
    BY <1>1 DEF SessionInv, CallsSound, Distinct
  <1>8. ASSUME NEW d \in calls' PROVE CallSound(d)'
    <2>1. CallSound(d) /\ d # c /\ d \in calls
      BY <1>1, <1>8 DEF SessionInv, CallsSound
    <2>2. Registering(d) => d.email # c.email
      BY <1>3, <2>1 DEF SessionInv, CallsSound, Distinct
    <2> QED  BY <1>1, <1>5, <2>1, <2>2 DEF CallSound
  <1>9. CallsSound'
    BY <1>7, <1>8 DEF CallsSound
  <1>10. ASSUME NEW e \in accounts' \ (cut' \cup edited')
         PROVE  \/ \E p \in profiles' : p.uid = e /\ p.email = e
                \/ \E b \in calls' : Registering(b) /\ b.email = e
    <2>1. CASE e = c.email
      BY <2>1, <1>1, <1>4, <1>5, <1>10
    <2>2. CASE e # c.email
      BY <2>2, <1>1, <1>10 DEF SessionInv, ProfilesComplete
    <2> QED  BY <2>1, <2>2
  <1>11. ProfilesComplete'
    BY <1>1, <1>4, <1>5, <1>10 DEF SessionInv, ProfilesComplete
  <1>12. AnswersMeetForms'
    BY <1>1 DEF SessionInv, AnswersMeetForms, OneAwaits, NoneAwaits
  <1> QED  BY <1>6, <1>9, <1>11, <1>12 DEF SessionInv

(* The server takes a profile as it is.                                    *)
LEMMA ProfileHeldStep ==
    ASSUME SessionInv, NEW p \in profiles, ProfileHeld(p)
    PROVE  SessionInv'
  <1> DEFINE n == [p EXCEPT !.held = TRUE]
  <1>1. /\ profiles' = (profiles \ {p}) \cup {n}
        /\ UNCHANGED <<accounts, currentUser, signingOut, page, mainUser, form,
                       calls, pressed, overlapped, edited, cut>>
    BY DEF ProfileHeld, authVars, uiVars, callVars
  <1>2. /\ n \in Profile
        /\ n.uid = p.uid /\ n.email = p.email
    BY DEF SessionInv, TypeOK, Profile
  <1> HIDE DEF n
  <1>3. TypeOK' /\ PageIsUsers' /\ MainUserCurrent' /\ AnswersMeetForms'
    BY <1>1, <1>2 DEF SessionInv, TypeOK, PageIsUsers, MainUserCurrent,
                      AnswersMeetForms
  <1>4. CallsSound'
    BY <1>1, <1>2 DEF SessionInv, CallsSound, CallSound
  <1>5. ProfilesComplete'
    BY <1>1, <1>2 DEF SessionInv, ProfilesComplete
  <1> QED  BY <1>3, <1>4, <1>5 DEF SessionInv

(* A refused profile leaves its account cut short.                         *)
LEMMA ProfileRefusedStep ==
    ASSUME SessionInv, NEW p \in profiles, ProfileRefused(p)
    PROVE  SessionInv'
  <1>1. /\ profiles' = profiles \ {p}
        /\ cut' = cut \cup {p.uid}
        /\ UNCHANGED <<accounts, currentUser, signingOut, page, mainUser, form,
                       calls, pressed, overlapped, edited>>
    BY DEF ProfileRefused, authVars, uiVars, callVars
  <1>2. p.uid \in Emails
    BY DEF SessionInv, TypeOK, Profile
  <1>3. TypeOK' /\ PageIsUsers' /\ MainUserCurrent' /\ AnswersMeetForms'
    BY <1>1, <1>2 DEF SessionInv, TypeOK, PageIsUsers, MainUserCurrent,
                      AnswersMeetForms
  <1>4. CallsSound'
    BY <1>1 DEF SessionInv, CallsSound, CallSound
  <1>5. ProfilesComplete'
    BY <1>1 DEF SessionInv, ProfilesComplete
  <1> QED  BY <1>3, <1>4, <1>5 DEF SessionInv

(* The exit button: the new MainPage captures the user signed in.          *)
LEMMA SignOutTapStep ==
    ASSUME SessionInv, SignOutTap
    PROVE  SessionInv'
  <1>1. TypeOK' /\ PageIsUsers' /\ MainUserCurrent'
    BY DEF SignOutTap, callVars, SessionInv, TypeOK, PageIsUsers, MainUserCurrent
  <1>2. CallsSound' /\ AnswersMeetForms' /\ ProfilesComplete'
    BY DEF SignOutTap, callVars, SessionInv, CallsSound, CallSound,
           AnswersMeetForms, ProfilesComplete
  <1> QED  BY <1>1, <1>2 DEF SessionInv

(* The app is killed: registrations in flight are cut short, and so are the   *)
(* sign-ups the service carries out although nobody waits any more.        *)
LEMMA AppRestartStep ==
    ASSUME SessionInv, AppRestart
    PROVE  SessionInv'
  <1> DEFINE lost == {c.email : c \in {d \in calls : d.status # "sent"}}
  <1>1. PICK late \in SUBSET Adrift :
            accounts' = accounts \cup late /\ cut' = cut \cup late \cup lost
    BY DEF AppRestart
  <1>2. late \subseteq Emails
    BY DEF Adrift
  <1>3. \A c \in calls : c.status # "sent" => c.email \in lost
    OBVIOUS
  <1>4. ASSUME NEW e \in lost PROVE e \in Emails
    <2>1. PICK c \in calls : c.status # "sent" /\ e = c.email
      BY <1>4
    <2>2. Registering(c)
      BY <2>1 DEF SessionInv, TypeOK, Call, CallsSound, CallSound, Registering
    <2> QED  BY <2>1, <2>2 DEF SessionInv, TypeOK, CallsSound, CallSound
  <1> HIDE DEF lost
  <1>5. /\ calls' = {}
        /\ signingOut' = FALSE
        /\ page' = IF currentUser = NoUser THEN "login" ELSE "main"
        /\ mainUser' = currentUser
        /\ form' = EmptyForm
        /\ UNCHANGED <<currentUser, pressed, profiles, overlapped, edited>>
    BY DEF AppRestart
  <1>6. EmptyForm \in Form
    BY DEF EmptyForm, Form, Text
  <1>7. TypeOK'
    BY <1>1, <1>2, <1>4, <1>5, <1>6 DEF SessionInv, TypeOK
  <1>8. PageIsUsers' /\ MainUserCurrent'
    BY <1>5 DEF PageIsUsers, MainUserCurrent
  <1>9. CallsSound' /\ AnswersMeetForms'
    BY <1>5 DEF CallsSound, AnswersMeetForms, Distinct, OneAwaits, NoneAwaits
  <1>10. ProfilesComplete'
    BY <1>1, <1>3, <1>5 DEF SessionInv, ProfilesComplete, Registering
  <1> QED  BY <1>7, <1>8, <1>9, <1>10 DEF SessionInv

-----------------------------------------------------------------------------
(* A persisted session starts within the invariant.                        *)
LEMMA InitEstablishes == Init => SessionInv
  <1> SUFFICES ASSUME Init PROVE SessionInv
    OBVIOUS
  <1>1. EmptyForm \in Form
    BY DEF EmptyForm, Form, Text
  <1>2. accounts \subseteq Emails /\ currentUser \in Emails \cup {NoUser}
    BY DEF Init
  <1> DEFINE P(e) == [uid |-> e, email |-> e, by |-> e, held |-> TRUE]
  <1>3. profiles = {P(e) : e \in accounts}
    BY DEF Init
  <1>4. \A e \in accounts : P(e) \in Profile /\ P(e).uid = e /\ P(e).email = e
    BY <1>2 DEF Profile, Text
  <1> HIDE DEF P
  <1>5. profiles \subseteq Profile /\ ProfilesComplete
    BY <1>3, <1>4 DEF ProfilesComplete
  <1>6. TypeOK
    <2>1. signingOut \in BOOLEAN /\ overlapped \in BOOLEAN
      BY DEF Init
    <2>2. /\ page \in {"login", "register", "main"}
          /\ (page = "main") = (mainUser # NoUser)
      BY DEF Init
    <2>3. pressed \in 0..MaxCalls
      BY SessionAssumption DEF Init
    <2>4. /\ mainUser = currentUser /\ form = EmptyForm
          /\ calls = {} /\ edited = {} /\ cut = {}
      BY DEF Init
    <2> QED  BY <1>1, <1>2, <1>5, <2>1, <2>2, <2>3, <2>4 DEF TypeOK
  <1>7. PageIsUsers /\ MainUserCurrent
    BY DEF Init, PageIsUsers, MainUserCurrent
  <1>8. CallsSound /\ AnswersMeetForms
    BY DEF Init, CallsSound, AnswersMeetForms, Distinct, OneAwaits, NoneAwaits
  <1> QED  BY <1>5, <1>6, <1>7, <1>8 DEF SessionInv

(* Every step keeps it.                                                    *)
LEMMA StepPreserves == SessionInv /\ [Next]_vars => SessionInv'
  <1> SUFFICES ASSUME SessionInv, [Next]_vars PROVE SessionInv'
    OBVIOUS
  <1>1. ASSUME NEW c \in calls, CallStep(c) PROVE SessionInv'
    BY <1>1, CreateAccountStep, AuthSucceedsStep, AuthFailsStep,
       AddUserDetailsStep DEF CallStep
  <1>2. CASE UNCHANGED vars
    BY <1>2 DEF vars, SessionInv, TypeOK, PageIsUsers, CallsSound, CallSound,
                AnswersMeetForms, MainUserCurrent, ProfilesComplete
  <1>3. CASE Next
    BY <1>1, <1>3, EditFormStep, ToggleScreensStep, PressedStep, ProfileHeldStep,
       ProfileRefusedStep, SignOutTapStep, SignedOutStep, AppRestartStep DEF Next
  <1> QED  BY <1>2, <1>3

(* The invariant holds for ever.                                           *)
LEMMA Inductive == Spec => []SessionInv
  BY InitEstablishes, StepPreserves, PTL DEF Spec

(* Every state has its type; a MainPage on screen has captured a user.      *)
THEOREM TypeCorrect == Spec => []TypeOK
  <1>1. SessionInv => TypeOK
    BY DEF SessionInv
  <1> QED  BY <1>1, Inductive, PTL

(* OrderPage and ProfilePage query for the user signed in, whatever signs     *)
(* in and out, as long as no two calls were in flight at once.             *)
THEOREM MainUserIsCurrent == Spec => []MainUserCurrent
  <1>1. SessionInv => MainUserCurrent
    BY DEF SessionInv
  <1> QED  BY <1>1, Inductive, PTL

(* An account is without the profile ProfilePage looks for only while it is   *)
(* being registered, or after one of the causes named; it never has two.   *)
THEOREM ProfilesAreComplete == Spec => []ProfilesComplete
  <1>1. SessionInv => ProfilesComplete
    BY DEF SessionInv
  <1> QED  BY <1>1, Inductive, PTL
=============================================================================
