---------------------------- MODULE PeopleProofs ----------------------------
(***************************************************************************)
(* Proofs about how people sign in and about the requests that cost money, *)
(* two of the Services, each for every value of its constants.  A          *)
(* service's variables are v1, v2, ... in the order its module declares    *)
(* them.                                                                   *)
(***************************************************************************)
EXTENDS Services, FiniteSetTheorems, SequenceTheorems, TLAPS

-----------------------------------------------------------------------------
(* Signing in.  v1: pool, v2: browser, v3: tab, v4: sso, v5: calls, v6: time. *)

LEMMA SignInAlone ==
  ASSUME running = "signin"
  PROVE  /\ ServicesInit => SigningIn!Init
         /\ [ServicesNext]_<<running, vars, slots>> =>
              running' = running /\ [SigningIn!Next]_(SigningIn!vars)
  BY DEF ServicesInit, ServicesNext, In, slots, SigningIn!vars

\* The records of SignIn; a session that shows an address shows its own.
Mails == ForSigningIn.Emails
SignPool ==
  [registered : SUBSET Mails, confirmed : SUBSET Mails, temporary : SUBSET Mails,
   reset : SUBSET Mails]
OwnSession ==
  {s \in SigningIn!Session : s.way \in {"password", "sso"} => s.email = s.user}
SignBrowser ==
  [stored : OwnSession \cup {None}, cookie : Nat, attempt : 0..ForSigningIn.MaxAttempts]
ResetForm == [step : {"email", "code", "done"}, of : Mails \cup {""}]
AnyCall == SigningIn!FormCalls \cup SigningIn!SsoCalls \cup SigningIn!AwayCalls
SignTab ==
  [page : {"auth", "home", "provider", "callback"}, held : OwnSession \cup {None},
   view : SigningIn!Views, pending : Mails \cup {""}, challenge : Mails \cup {None},
   reset : ResetForm, call : AnyCall \cup {None}]
FitTab == {x \in SignTab : SigningIn!CallFits(x)}
OwnExchange ==
  {x \in [code : SigningIn!Codes, verifier : 1..ForSigningIn.MaxAttempts] :
     x.verifier = x.code.attempt}
SignSso ==
  [started : 0..ForSigningIn.MaxAttempts, codes : SUBSET SigningIn!Codes,
   exchanged : SUBSET OwnExchange]

SignInKept ==
  /\ v1 \in SignPool /\ v2 \in SignBrowser /\ v3 \in [Calls -> FitTab] /\ v4 \in SignSso
  /\ v5 \in 0..ForSigningIn.MaxCalls /\ v6 \in 0..ForSigningIn.MaxTime

LEMMA SignInBounds ==
  /\ ForSigningIn.Known \subseteq Mails /\ ForSigningIn.Temporary \subseteq Mails
  /\ ForSigningIn.MaxTime \in Nat /\ ForSigningIn.MaxCalls \in Nat
  /\ ForSigningIn.MaxAttempts \in Nat
  BY ServicesAssumption DEF SigningIn!SignInAssumption, Mails

\* What is kept gives the properties.
LEMMA SignInHolds == SignInKept => SigningIn!TypeOK /\ SigningIn!SessionIsItsOwners
<1> SUFFICES ASSUME SignInKept PROVE SigningIn!TypeOK /\ SigningIn!SessionIsItsOwners
  OBVIOUS
<1>1. \A t \in Calls : v3[t] \in SignTab
  BY DEF SignInKept, FitTab
<1>2. OwnSession \subseteq SigningIn!Session
  BY DEF OwnSession
<1>3. v2.stored \in OwnSession \cup {None} /\ v2.cookie \in Nat
      /\ v2.attempt \in 0..ForSigningIn.MaxAttempts
  BY DEF SignInKept, SignBrowser
<1>4. ASSUME NEW t \in Calls
      PROVE  /\ v3[t].page \in {"auth", "home", "provider", "callback"}
             /\ v3[t].held \in OwnSession \cup {None}
             /\ v3[t].view \in SigningIn!Views /\ v3[t].pending \in Mails \cup {""}
             /\ v3[t].challenge \in Mails \cup {None} /\ v3[t].reset \in ResetForm
  BY <1>1 DEF SignTab
<1>5. /\ v4.started \in 0..ForSigningIn.MaxAttempts /\ v4.codes \subseteq SigningIn!Codes
      /\ v4.exchanged \subseteq OwnExchange
  BY DEF SignInKept, SignSso
<1>6. SigningIn!TypeOK
  <2>1. v4.exchanged \subseteq [code : SigningIn!Codes, verifier : 1..ForSigningIn.MaxAttempts]
    BY <1>5 DEF OwnExchange
  <2> QED BY <1>2, <1>3, <1>4, <1>5, <2>1 DEF SigningIn!TypeOK, SignInKept, SignPool, Mails, ResetForm
<1>7. SigningIn!RightAddress
  <2>1. \A s \in SigningIn!Held : s \in OwnSession
    BY <1>3, <1>4 DEF SigningIn!Held
  <2> QED BY <2>1 DEF SigningIn!RightAddress, OwnSession
<1>8. SigningIn!OwnAttempt
  BY <1>5 DEF SigningIn!OwnAttempt, OwnExchange
<1> QED BY <1>6, <1>7, <1>8 DEF SigningIn!SessionIsItsOwners

\* One tab goes on.
LEMMA TabGoes ==
  ASSUME SignInKept, NEW t \in Calls, NEW x \in FitTab, v3' = [v3 EXCEPT ![t] = x],
         v1' \in SignPool, v2' \in SignBrowser, v4' \in SignSso,
         v5' = v5 \/ (v5 < ForSigningIn.MaxCalls /\ v5' = v5 + 1), v6' = v6
  PROVE  SignInKept'
<1>1. v5' \in 0..ForSigningIn.MaxCalls
  BY SignInBounds DEF SignInKept
<1>2. v3' \in [Calls -> FitTab]
  BY DEF SignInKept
<1> QED BY <1>1, <1>2 DEF SignInKept

LEMMA TabOf ==
  ASSUME SignInKept, NEW t \in Calls
  PROVE  v3[t] \in FitTab /\ v3[t] \in SignTab /\ SigningIn!CallFits(v3[t])
  BY DEF SignInKept, FitTab

\* A page without a call.
LEMMA CalmTab ==
  ASSUME NEW x \in SignTab, x.call = None, x.page # "provider",
         x.view \in {"mfa-challenge", "new-password"} => x.challenge \in Mails
  PROVE  x \in FitTab
  BY DEF FitTab, SigningIn!CallFits, Mails

LEMMA FreshTab ==
  ASSUME NEW h \in OwnSession \cup {None}
  PROVE  /\ SigningIn!FreshPage \in FitTab
         /\ [SigningIn!FreshPage EXCEPT !.held = h] \in FitTab
         /\ \A page \in {"auth", "home"} :
              [SigningIn!FreshPage EXCEPT !.page = page, !.held = h] \in FitTab
<1> DEFINE f == SigningIn!FreshPage
<1>1. f \in SignTab /\ f.call = None /\ f.page = "auth" /\ f.view = "login"
  BY DEF SigningIn!FreshPage, SignTab, SigningIn!Views, ResetForm
<1> HIDE DEF f
<1>2. ASSUME NEW page \in {"auth", "home"}
      PROVE  [f EXCEPT !.page = page, !.held = h] \in FitTab
  <2> DEFINE x == [f EXCEPT !.page = page, !.held = h]
  <2>1. x \in SignTab /\ x.call = None /\ x.page # "provider" /\ x.view = "login"
    BY <1>1 DEF SignTab
  <2> HIDE DEF x
  <2>2. x \in FitTab
    BY <2>1, CalmTab
  <2> QED BY <2>2 DEF x
<1>3. [f EXCEPT !.held = h] \in FitTab
  <2> DEFINE x == [f EXCEPT !.held = h]
  <2>1. x \in SignTab /\ x.call = None /\ x.page # "provider" /\ x.view = "login"
    BY <1>1 DEF SignTab
  <2> HIDE DEF x
  <2>2. x \in FitTab
    BY <2>1, CalmTab
  <2> QED BY <2>2 DEF x
<1>4. f \in FitTab
  BY <1>1, CalmTab
<1> QED BY <1>2, <1>3, <1>4 DEF f

\* A call that is answered, or whose form leaves the screen.
FitCall(c) ==
  /\ c \in SigningIn!FormCalls \cup SigningIn!SsoCalls
  /\ c \in SigningIn!FormCalls => SigningIn!Answers(c) /\ SigningIn!Asks(c)
  /\ c \in SigningIn!SsoCalls => SigningIn!Answers(c)

\* A page with a form's or the callback's call.
LEMMA BusyTab ==
  ASSUME NEW x \in SignTab, x.page # "provider", FitCall(x.call),
         x.view \in {"mfa-challenge", "new-password"} => x.challenge \in Mails
  PROVE  x \in FitTab
<1>1. x.call.op # "provider"
  BY DEF FitCall, SigningIn!FormCalls, SigningIn!FormOps, SigningIn!SsoCalls
<1>2. x.call \notin SigningIn!AwayCalls
  BY <1>1 DEF SigningIn!AwayCalls
<1> QED BY <1>2 DEF FitTab, FitCall, SigningIn!CallFits, Mails

LEMMA FormLeft ==
  ASSUME NEW c, FitCall(c), NEW d, d = [c EXCEPT !.form = FALSE]
  PROVE  FitCall(d)
<1>1. CASE c \in SigningIn!FormCalls
  <2>1. /\ d \in SigningIn!FormCalls /\ d.op = c.op /\ d.email = c.email
        /\ d.challenge = c.challenge /\ d.reply = c.reply /\ d.op # "sso"
    BY <1>1 DEF SigningIn!FormCalls, SigningIn!FormOps
  <2>2. SigningIn!Answers(c) /\ SigningIn!Asks(c)
    BY <1>1 DEF FitCall
  <2>3. SigningIn!Answers(d) /\ SigningIn!Asks(d)
    BY <2>1, <2>2 DEF SigningIn!Answers, SigningIn!Asks, SigningIn!TokenFits
  <2>4. d \notin SigningIn!SsoCalls
    BY <2>1 DEF SigningIn!SsoCalls
  <2> QED BY <2>1, <2>3, <2>4 DEF FitCall
<1>2. CASE c \in SigningIn!SsoCalls
  <2>1. d \in SigningIn!SsoCalls /\ d.op = c.op /\ d.email = c.email /\ d.reply = c.reply
        /\ d.op = "sso"
    BY <1>2 DEF SigningIn!SsoCalls
  <2>2. SigningIn!Answers(c)
    BY <1>2 DEF FitCall
  <2>3. SigningIn!Answers(d)
    BY <2>1, <2>2 DEF SigningIn!Answers, SigningIn!TokenFits
  <2>4. d \notin SigningIn!FormCalls
    BY <2>1 DEF SigningIn!FormCalls, SigningIn!FormOps
  <2> QED BY <2>1, <2>3, <2>4 DEF FitCall
<1> QED BY <1>1, <1>2 DEF FitCall

\* The stored session.
LEMMA StoredSession ==
  ASSUME SignInKept
  PROVE  /\ SigningIn!ReadStoredSession \in OwnSession \cup {None}
         /\ SigningIn!AfterLoad \in SignBrowser
         /\ SigningIn!ClearStoredSession(v2) \in SignBrowser
         /\ \A s \in OwnSession : SigningIn!SetSession(v2, s) \in SignBrowser
         /\ \A h \in {1, 2} : [v2 EXCEPT !.cookie = v6 + h] \in SignBrowser
         /\ [v2 EXCEPT !.cookie = 0] \in SignBrowser
<1>1. v2 \in SignBrowser /\ v6 \in Nat
  BY SignInBounds DEF SignInKept
<1>2. v2.stored \in OwnSession \cup {None}
  BY <1>1 DEF SignBrowser
<1>3. \A n \in Nat : [v2 EXCEPT !.cookie = n] \in SignBrowser
  BY <1>1 DEF SignBrowser
<1>4. \A n \in Nat, s \in OwnSession \cup {None} : [v2 EXCEPT !.stored = s, !.cookie = n] \in SignBrowser
  BY <1>1 DEF SignBrowser
<1>5. v6 + 1 \in Nat /\ v6 + 2 \in Nat
  BY <1>1
<1>6. SigningIn!ReadStoredSession \in OwnSession \cup {None}
  BY <1>2 DEF SigningIn!ReadStoredSession
<1>7. SigningIn!AfterLoad \in SignBrowser
  BY <1>1, <1>3, <1>4, <1>5 DEF SigningIn!AfterLoad, SigningIn!SessionHours
<1>8. /\ SigningIn!ClearStoredSession(v2) \in SignBrowser
      /\ \A s \in OwnSession : SigningIn!SetSession(v2, s) \in SignBrowser
  BY <1>4, <1>5 DEF SigningIn!ClearStoredSession, SigningIn!SetSession, SigningIn!SessionHours
<1> QED BY <1>3, <1>5, <1>6, <1>7, <1>8

LEMMA SignInFirst == SigningIn!Init => SignInKept
<1> SUFFICES ASSUME SigningIn!Init PROVE SignInKept
  OBVIOUS
<1>1. v1 \in SignPool
  BY SignInBounds DEF SigningIn!Init, SignPool
<1>2. v2 \in SignBrowser /\ v4 \in SignSso
  BY SignInBounds DEF SigningIn!Init, SignBrowser, SignSso
<1>3. v3 \in [Calls -> FitTab]
  <2>1. SigningIn!FreshPage \in FitTab
    BY FreshTab
  <2> QED BY <2>1 DEF SigningIn!Init
<1>4. v5 \in 0..ForSigningIn.MaxCalls /\ v6 \in 0..ForSigningIn.MaxTime
  BY SignInBounds DEF SigningIn!Init
<1> QED BY <1>1, <1>2, <1>3, <1>4 DEF SignInKept

LEMMA SignInNavigates ==
  ASSUME SignInKept, NEW t \in Calls, SigningIn!Navigates(t)
  PROVE  SignInKept'
<1>0. v1 \in SignPool /\ v2 \in SignBrowser /\ v4 \in SignSso /\ v3[t] \in SignTab
      /\ SigningIn!CallFits(v3[t])
  BY TabOf DEF SignInKept
<1>1. ASSUME NEW page \in {"auth", "home"}, SigningIn!Open(t, page) PROVE SignInKept'
  <2> DEFINE x == [SigningIn!FreshPage EXCEPT !.page = SigningIn!Proxy(page),
                                             !.held = SigningIn!ReadStoredSession]
  <2>1. SigningIn!Proxy(page) \in {"auth", "home"}
    BY DEF SigningIn!Proxy
  <2>2. x \in FitTab
    BY <2>1, StoredSession, FreshTab
  <2> HIDE DEF x
  <2>3. /\ v3' = [v3 EXCEPT ![t] = x] /\ v2' = SigningIn!AfterLoad /\ v5 < ForSigningIn.MaxCalls
        /\ v5' = v5 + 1 /\ UNCHANGED <<v1, v4, v6>>
    BY <1>1 DEF SigningIn!Open, x
  <2> QED BY <1>0, <2>2, <2>3, StoredSession, TabGoes
<1>2. CASE SigningIn!LeaveSignIn(t)
  <2> DEFINE x == [v3[t] EXCEPT !.page = "home", !.call = None]
  <2>1. v3' = [v3 EXCEPT ![t] = x] /\ UNCHANGED <<v1, v2, v4, v5, v6>>
    BY <1>2 DEF SigningIn!LeaveSignIn
  <2>2. /\ x \in SignTab /\ x.call = None /\ x.page = "home" /\ x.view = v3[t].view
        /\ x.challenge = v3[t].challenge
    BY <1>0 DEF SignTab
  <2> HIDE DEF x
  <2>3. x \in FitTab
    BY <1>0, <2>2, CalmTab DEF SigningIn!CallFits, Mails
  <2> QED BY <1>0, <2>1, <2>3, TabGoes
<1>3. CASE SigningIn!AskToSignIn(t) \/ SigningIn!LeaveHome(t)
  <2> DEFINE x == IF SigningIn!LeaveHome(t) THEN SigningIn!FreshPage
                  ELSE [SigningIn!FreshPage EXCEPT !.held = v3[t].held]
  <2>1. v3' = [v3 EXCEPT ![t] = x] /\ UNCHANGED <<v1, v2, v4, v5, v6>>
    BY <1>3 DEF SigningIn!AskToSignIn, SigningIn!LeaveHome
  <2>2. v3[t].held \in OwnSession \cup {None}
    BY <1>0 DEF SignTab
  <2>3. x \in FitTab
    BY <2>2, FreshTab
  <2> HIDE DEF x
  <2> QED BY <1>0, <2>1, <2>3, TabGoes
<1>4. ASSUME NEW view \in SigningIn!Views, SigningIn!SwitchView(t, view) PROVE SignInKept'
  <2> DEFINE o == v3[t].call
             c == IF o = None THEN None ELSE [o EXCEPT !.form = FALSE]
             x == [v3[t] EXCEPT !.view = view, !.reset = [step |-> "email", of |-> ""], !.call = c]
  <2>1. /\ v3' = [v3 EXCEPT ![t] = x] /\ v5 < ForSigningIn.MaxCalls
        /\ v5' = v5 + 1 /\ UNCHANGED <<v1, v2, v4, v6>>
        /\ v3[t].page = "auth" /\ view \in {"register", "forgot-password", "login"}
    BY <1>4 DEF SigningIn!SwitchView, SigningIn!OnAuthPage
  <2>2. o \in AnyCall \cup {None}
    BY <1>0 DEF SignTab
  <2>3. o # None => o \in SigningIn!FormCalls \cup SigningIn!SsoCalls
    BY <1>0, <2>1, <2>2 DEF AnyCall, SigningIn!CallFits
  <2>4. o # None => FitCall(o)
    BY <1>0, <2>3 DEF SigningIn!CallFits, FitCall
  <2>5. o # None => FitCall(c)
    BY <2>4, FormLeft DEF FitCall
  <2>6. c \in AnyCall \cup {None}
    BY <2>5 DEF FitCall, AnyCall
  <2>7. o = None => c = None
    OBVIOUS
  <2> HIDE DEF c, o
  <2>8. /\ x \in SignTab /\ x.call = c /\ x.page = "auth" /\ x.view = view
    BY <1>0, <2>1, <2>6 DEF SignTab, ResetForm, SigningIn!Views
  <2> HIDE DEF x
  <2>9. x \in FitTab
    BY <2>1, <2>5, <2>7, <2>8, CalmTab, BusyTab
  <2> QED BY <1>0, <2>1, <2>9, TabGoes
<1> QED BY <1>1, <1>2, <1>3, <1>4 DEF SigningIn!Navigates

\* A form posts.
LEMMA SignInSubmits ==
  ASSUME SignInKept, NEW t \in Calls, SigningIn!Submits(t)
  PROVE  SignInKept'
<1>0. v1 \in SignPool /\ v2 \in SignBrowser /\ v4 \in SignSso /\ v3[t] \in SignTab
      /\ SigningIn!CallFits(v3[t])
  BY TabOf DEF SignInKept
<1>1. ASSUME NEW op \in SigningIn!FormOps, NEW e \in Mails \cup {""}, NEW h \in Mails \cup {None},
             v3' = [v3 EXCEPT ![t].call = [op |-> op, email |-> e, challenge |-> h,
                                           reply |-> None, form |-> TRUE]],
             v3[t].page # "provider", v5 < ForSigningIn.MaxCalls, v5' = v5 + 1,
             UNCHANGED <<v1, v2, v4, v6>>,
             op \in {"mfa", "newPassword"} => h \in Mails, op = "signUp" => e \in Mails
      PROVE  SignInKept'
  <2> DEFINE c == [op |-> op, email |-> e, challenge |-> h, reply |-> None, form |-> TRUE]
             x == [v3[t] EXCEPT !.call = c]
  <2>1. /\ c \in SigningIn!FormCalls /\ c.op = op /\ c.email = e /\ c.challenge = h
        /\ c.reply = None
    BY DEF SigningIn!FormCalls, Mails
  <2>2. c \notin SigningIn!SsoCalls
    <3>1. op # "sso"
      BY DEF SigningIn!FormOps
    <3> QED BY <2>1, <3>1 DEF SigningIn!SsoCalls
  <2>3. v3' = [v3 EXCEPT ![t] = x]
    BY <1>1
  <2> HIDE DEF c
  <2>4. SigningIn!Answers(c) /\ SigningIn!Asks(c)
    BY <1>1, <2>1 DEF SigningIn!Answers, SigningIn!Asks, Mails
  <2>5. FitCall(c)
    BY <2>1, <2>2, <2>4 DEF FitCall
  <2>6. /\ x \in SignTab /\ x.call = c /\ x.page = v3[t].page /\ x.view = v3[t].view
        /\ x.challenge = v3[t].challenge
    BY <1>0, <2>1 DEF SignTab, AnyCall
  <2> HIDE DEF x
  <2>7. x \in FitTab
    BY <1>0, <1>1, <2>5, <2>6, BusyTab DEF SigningIn!CallFits, Mails
  <2> QED BY <1>0, <1>1, <2>3, <2>7, TabGoes
<1>2. /\ v3[t].challenge \in Mails \cup {None} /\ v3[t].pending \in Mails \cup {""}
      /\ v3[t].reset.of \in Mails \cup {""}
  BY <1>0 DEF SignTab, ResetForm
<1>3. ASSUME NEW op \in SigningIn!FormOps, NEW e \in Mails \cup {""}, SigningIn!Posts(t, op, e),
             op \in {"mfa", "newPassword"} => v3[t].challenge \in Mails, op = "signUp" => e \in Mails
      PROVE  SignInKept'
  BY <1>1, <1>2, <1>3 DEF SigningIn!Posts, SigningIn!OnAuthPage
<1>4. ASSUME NEW e \in Mails, NEW op \in {"signIn", "signUp", "forgot"}, SigningIn!Posts(t, op, e)
      PROVE  SignInKept'
  BY <1>3, <1>4 DEF SigningIn!FormOps
<1>5. CASE SigningIn!SubmitLogin(t) \/ SigningIn!SubmitRegister(t) \/ SigningIn!SendCode(t)
  BY <1>4, <1>5 DEF SigningIn!SubmitLogin, SigningIn!SubmitRegister, SigningIn!SendCode, Mails
<1>6. CASE SigningIn!SubmitMfa(t) \/ SigningIn!SubmitNewPassword(t)
  <2>1. v3[t].challenge \in Mails
    BY <1>0, <1>6 DEF SigningIn!SubmitMfa, SigningIn!SubmitNewPassword, SigningIn!CallFits, Mails
  <2>2. "mfa" \in SigningIn!FormOps /\ "newPassword" \in SigningIn!FormOps
    BY DEF SigningIn!FormOps
  <2> QED BY <1>2, <1>3, <1>6, <2>1, <2>2 DEF SigningIn!SubmitMfa, SigningIn!SubmitNewPassword
<1>7. CASE \/ SigningIn!SubmitVerification(t) \/ SigningIn!Resend(t) \/ SigningIn!ConfirmReset(t)
           \/ SigningIn!EnterAsGuest(t)
  <2>1. {"verify", "resend", "confirmForgot", "guest"} \subseteq SigningIn!FormOps
    BY DEF SigningIn!FormOps
  <2> QED BY <1>2, <1>3, <1>7, <2>1 DEF SigningIn!SubmitVerification, SigningIn!Resend,
             SigningIn!ConfirmReset, SigningIn!EnterAsGuest
<1>8. CASE SigningIn!PressSignOut(t)
  <2>1. "signOut" \in SigningIn!FormOps
    BY DEF SigningIn!FormOps
  <2> QED BY <1>1, <1>8, <2>1 DEF SigningIn!PressSignOut
<1> QED BY <1>5, <1>6, <1>7, <1>8 DEF SigningIn!Submits

\* The call a tab waits on, and a reply that fits it.
LEMMA TabCall ==
  ASSUME SignInKept, NEW t \in Calls, NEW op \in SigningIn!FormOps \cup {"sso"},
         v3[t].call # None, v3[t].call.op = op
  PROVE  /\ FitCall(v3[t].call) /\ v3[t].page # "provider"
         /\ op \in SigningIn!FormOps => v3[t].call \in SigningIn!FormCalls
         /\ op = "sso" => v3[t].call \in SigningIn!SsoCalls
<1>1. v3[t].call \in AnyCall /\ SigningIn!CallFits(v3[t])
  BY TabOf DEF SignTab
<1>2. op # "provider"
  BY DEF SigningIn!FormOps
<1>3. v3[t].call \notin SigningIn!AwayCalls
  BY <1>2 DEF SigningIn!AwayCalls
<1>4. v3[t].call \in SigningIn!FormCalls \cup SigningIn!SsoCalls
  BY <1>1, <1>3 DEF AnyCall
<1>5. v3[t].page # "provider"
  BY <1>1, <1>3 DEF SigningIn!CallFits
<1>6. FitCall(v3[t].call)
  BY <1>1, <1>4 DEF FitCall, SigningIn!CallFits
<1>7. op \in SigningIn!FormOps => v3[t].call \notin SigningIn!SsoCalls
  BY DEF SigningIn!SsoCalls, SigningIn!FormOps
<1>8. op = "sso" => v3[t].call \notin SigningIn!FormCalls
  BY DEF SigningIn!FormCalls, SigningIn!FormOps
<1> QED BY <1>4, <1>5, <1>6, <1>7, <1>8

FitReply(op, e, r) ==
  /\ r.kind = "token" =>
       /\ r.user \in Mails \cup {"guest"} /\ r.way \in SigningIn!Ways
       /\ op = "guest" => r.way = "guest"
       /\ op = "sso" => r.way = "sso" /\ r.user \in Mails
       /\ r.way = "sso" => op = "sso"
       /\ r.way = "password" => r.user = e
  /\ r.kind \in {"mfa", "newPassword"} => r.user \in Mails

LEMMA ReplyTyped ==
  ASSUME NEW c, NEW op, NEW e, NEW r \in SigningIn!Replies, c.op = op, c.email = e, c.reply = r
  PROVE  FitReply(op, e, r) => SigningIn!Answers(c)
  BY DEF FitReply, SigningIn!Answers, SigningIn!TokenFits, Mails

LEMMA Answered ==
  ASSUME SignInKept, NEW t \in Calls, NEW op \in SigningIn!FormOps \cup {"sso"},
         SigningIn!Waiting(t, op), NEW r \in SigningIn!Replies,
         FitReply(op, v3[t].call.email, r), SigningIn!Reply(t, r),
         v1' \in SignPool, v2' \in SignBrowser, v4' \in SignSso, v5' = v5, v6' = v6
  PROVE  SignInKept'
<1> DEFINE c == v3[t].call
           d == [c EXCEPT !.reply = r]
           x == [v3[t] EXCEPT !.call = d]
<1>1. c # None /\ c.op = op
  BY DEF SigningIn!Waiting, SigningIn!Idle
<1>2. /\ FitCall(c) /\ v3[t].page # "provider"
      /\ op \in SigningIn!FormOps => c \in SigningIn!FormCalls
      /\ op = "sso" => c \in SigningIn!SsoCalls
  BY <1>1, TabCall
<1>3. v3' = [v3 EXCEPT ![t] = x]
  BY TabOf DEF SigningIn!Reply, SignInKept
<1>4. v3[t] \in SignTab /\ SigningIn!CallFits(v3[t])
  BY TabOf
<1>a. FitReply(op, c.email, r)
  OBVIOUS
<1> HIDE DEF c
<1>5. CASE op \in SigningIn!FormOps
  <2>1. /\ d \in SigningIn!FormCalls /\ d.op = c.op /\ d.email = c.email
        /\ d.challenge = c.challenge /\ d.reply = r
    BY <1>2, <1>5 DEF SigningIn!FormCalls
  <2> HIDE DEF d
  <2>2. SigningIn!Asks(c)
    BY <1>2, <1>5 DEF FitCall
  <2>3. SigningIn!Asks(d)
    BY <2>1, <2>2 DEF SigningIn!Asks
  <2>4. SigningIn!Answers(d)
    BY <1>1, <1>a, <2>1, ReplyTyped
  <2>5. d \notin SigningIn!SsoCalls
    BY <1>1, <1>5, <2>1 DEF SigningIn!SsoCalls, SigningIn!FormOps
  <2>6. FitCall(d) /\ d \in AnyCall
    BY <2>1, <2>3, <2>4, <2>5 DEF FitCall, AnyCall
  <2>7. x \in SignTab /\ x.call = d /\ x.page = v3[t].page /\ x.view = v3[t].view
        /\ x.challenge = v3[t].challenge
    BY <1>4, <2>6 DEF SignTab
  <2> HIDE DEF x
  <2>8. x \in FitTab
    BY <1>2, <1>4, <2>6, <2>7, BusyTab DEF SigningIn!CallFits, Mails
  <2> QED BY <1>3, <2>8, TabGoes
<1>6. CASE op = "sso"
  <2>1. /\ d \in SigningIn!SsoCalls /\ d.op = c.op /\ d.email = c.email /\ d.reply = r
    BY <1>2, <1>6 DEF SigningIn!SsoCalls
  <2> HIDE DEF d
  <2>4. SigningIn!Answers(d)
    BY <1>1, <1>a, <2>1, ReplyTyped
  <2>5. d \notin SigningIn!FormCalls
    BY <1>1, <1>6, <2>1 DEF SigningIn!FormCalls, SigningIn!FormOps
  <2>6. FitCall(d) /\ d \in AnyCall
    BY <2>1, <2>4, <2>5 DEF FitCall, AnyCall
  <2>7. x \in SignTab /\ x.call = d /\ x.page = v3[t].page /\ x.view = v3[t].view
        /\ x.challenge = v3[t].challenge
    BY <1>4, <2>6 DEF SignTab
  <2> HIDE DEF x
  <2>8. x \in FitTab
    BY <1>2, <1>4, <2>6, <2>7, BusyTab DEF SigningIn!CallFits, Mails
  <2> QED BY <1>3, <2>8, TabGoes
<1> QED BY <1>5, <1>6

\* The replies there are, and the outcomes of the pool's methods.
LEMMA RepliesTyped ==
  /\ SigningIn!Refused \in SigningIn!Replies /\ SigningIn!Refused.kind = "refused"
  /\ SigningIn!Done \in SigningIn!Replies /\ SigningIn!Done.kind = "done"
  /\ \A e \in Mails, kind \in {"verify", "mfa", "newPassword"} :
       /\ SigningIn!Ask(kind, e) \in SigningIn!Replies
       /\ SigningIn!Ask(kind, e).kind = kind /\ SigningIn!Ask(kind, e).user = e
  /\ \A e \in Mails \cup {"guest"}, way \in SigningIn!Ways :
       /\ SigningIn!Token(e, way) \in SigningIn!Replies
       /\ SigningIn!Token(e, way).kind = "token" /\ SigningIn!Token(e, way).user = e
       /\ SigningIn!Token(e, way).way = way
<1>1. /\ SigningIn!Refused \in SigningIn!Replies /\ SigningIn!Refused.kind = "refused"
      /\ SigningIn!Done \in SigningIn!Replies /\ SigningIn!Done.kind = "done"
  BY DEF SigningIn!Refused, SigningIn!Done, SigningIn!Replies
<1>2. ASSUME NEW e \in Mails, NEW kind \in {"verify", "mfa", "newPassword"}
      PROVE  /\ SigningIn!Ask(kind, e) \in SigningIn!Replies
             /\ SigningIn!Ask(kind, e).kind = kind /\ SigningIn!Ask(kind, e).user = e
  BY DEF SigningIn!Ask, SigningIn!Replies, Mails
<1>3. ASSUME NEW e \in Mails \cup {"guest"}, NEW way \in SigningIn!Ways
      PROVE  /\ SigningIn!Token(e, way) \in SigningIn!Replies
             /\ SigningIn!Token(e, way).kind = "token" /\ SigningIn!Token(e, way).user = e
             /\ SigningIn!Token(e, way).way = way
  BY DEF SigningIn!Token, SigningIn!Replies, Mails
<1> QED BY <1>1, <1>2, <1>3

FitOutcome(op, e, o) ==
  o.pool \in SignPool /\ o.reply \in SigningIn!Replies /\ FitReply(op, e, o.reply)

LEMMA CognitoOutcomes ==
  ASSUME NEW p \in SignPool, v1 \in SignPool, NEW r \in SigningIn!Replies, NEW op, NEW e,
         FitReply(op, e, r)
  PROVE  \A o \in SigningIn!CallCognito(p, r) \cup SigningIn!Declined : FitOutcome(op, e, o)
<1>1. FitReply(op, e, SigningIn!Refused)
  BY RepliesTyped DEF FitReply
<1> QED BY <1>1, RepliesTyped DEF SigningIn!CallCognito, SigningIn!Declined, FitOutcome

LEMMA RouteServes ==
  ASSUME SignInKept, NEW t \in Calls, NEW op \in SigningIn!FormOps,
         NEW outcomes, SigningIn!Serves(t, op, outcomes),
         \A o \in outcomes : FitOutcome(op, v3[t].call.email, o)
  PROVE  SignInKept'
<1>1. PICK o \in outcomes : v1' = o.pool /\ SigningIn!Reply(t, o.reply)
  BY DEF SigningIn!Serves
<1>2. FitOutcome(op, v3[t].call.email, o)
  OBVIOUS
<1>3. v1' \in SignPool /\ o.reply \in SigningIn!Replies
      /\ FitReply(op, v3[t].call.email, o.reply)
  BY <1>1, <1>2 DEF FitOutcome
<1>4. SigningIn!Waiting(t, op) /\ v2' = v2 /\ v4' = v4 /\ v5' = v5 /\ v6' = v6
  BY DEF SigningIn!Serves
<1>5. v2' \in SignBrowser /\ v4' \in SignSso
  BY <1>4 DEF SignInKept
<1> QED BY <1>1, <1>3, <1>4, <1>5, Answered

LEMMA SignInServes ==
  ASSUME SignInKept, NEW t \in Calls, SigningIn!Served(t)
  PROVE  SignInKept'
<1> DEFINE c == v3[t].call
<1>0. v1 \in SignPool /\ v2 \in SignBrowser /\ v4 \in SignSso
  BY DEF SignInKept
<1>1. ASSUME NEW op \in SigningIn!FormOps, SigningIn!Waiting(t, op)
      PROVE  c \in SigningIn!FormCalls /\ FitCall(c) /\ c.op = op /\ c.email \in Mails \cup {""}
             /\ c.challenge \in Mails \cup {None}
  <2>1. c \in SigningIn!FormCalls /\ FitCall(c) /\ c.op = op
    BY <1>1, TabCall DEF SigningIn!Waiting, SigningIn!Idle
  <2> QED BY <2>1 DEF SigningIn!FormCalls, Mails
<1>2. FitReply("signUp", c.email, SigningIn!Done) /\ FitReply("forgot", c.email, SigningIn!Done)
      /\ FitReply("confirmForgot", c.email, SigningIn!Done)
      /\ FitReply("verify", c.email, SigningIn!Done) /\ FitReply("resend", c.email, SigningIn!Done)
      /\ FitReply("signOut", c.email, SigningIn!Done)
  BY RepliesTyped DEF FitReply
<1>3. \A op : FitReply(op, c.email, SigningIn!Refused)
  BY RepliesTyped DEF FitReply
<1>d. \A op : \A o \in SigningIn!Declined : FitOutcome(op, c.email, o)
  BY <1>0, <1>3, RepliesTyped DEF SigningIn!Declined, FitOutcome
<1>4. {"signUp", "mfa", "newPassword", "forgot", "confirmForgot", "verify", "resend", "signIn",
       "guest", "signOut"} \subseteq SigningIn!FormOps
  BY DEF SigningIn!FormOps
<1>w. /\ "password" \in SigningIn!Ways /\ "totp" \in SigningIn!Ways
      /\ "guest" \in SigningIn!Ways /\ "sso" \in SigningIn!Ways
  BY DEF SigningIn!Ways
<1>5. CASE SigningIn!ServeSignUp(t)
  <2>1. SigningIn!Serves(t, "signUp", SigningIn!SignUp(c.email))
    BY <1>5 DEF SigningIn!ServeSignUp
  <2>2. c.email \in Mails
    BY <1>1, <1>4, <2>1 DEF SigningIn!Serves, FitCall, SigningIn!Asks, Mails
  <2> DEFINE p == [v1 EXCEPT !.registered = @ \cup {c.email}]
  <2>3. p \in SignPool
    BY <1>0, <2>2 DEF SignPool
  <2>4. SigningIn!SignUp(c.email) \subseteq
          SigningIn!CallCognito(p, SigningIn!Done) \cup SigningIn!Declined
    BY DEF SigningIn!SignUp
  <2> HIDE DEF p
  <2>5. \A o \in SigningIn!SignUp(c.email) : FitOutcome("signUp", c.email, o)
    BY <1>0, <1>2, <2>3, <2>4, CognitoOutcomes, RepliesTyped
  <2> QED BY <1>4, <2>1, <2>5, RouteServes
<1>6. CASE SigningIn!ServeMfa(t)
  <2>1. SigningIn!Serves(t, "mfa", SigningIn!RespondToMfaChallenge(c.challenge))
    BY <1>6 DEF SigningIn!ServeMfa
  <2>2. c.challenge \in Mails
    BY <1>1, <1>4, <2>1 DEF SigningIn!Serves, FitCall, SigningIn!Asks, Mails
  <2>3. SigningIn!RespondToMfaChallenge(c.challenge) =
          SigningIn!CallCognito(v1, SigningIn!Token(c.challenge, "totp"))
    BY DEF SigningIn!RespondToMfaChallenge
  <2>4. FitReply("mfa", c.email, SigningIn!Token(c.challenge, "totp"))
        /\ SigningIn!Token(c.challenge, "totp") \in SigningIn!Replies
    BY <1>w, <2>2, RepliesTyped DEF FitReply
  <2> QED BY <1>0, <1>4, <2>1, <2>3, <2>4, CognitoOutcomes, RouteServes
<1>7. CASE SigningIn!ServeNewPassword(t)
  <2>1. SigningIn!Serves(t, "newPassword",
          SigningIn!RespondToNewPasswordChallenge(c.challenge, c.email))
    BY <1>7 DEF SigningIn!ServeNewPassword
  <2>2. c.challenge \in Mails
    BY <1>1, <1>4, <2>1 DEF SigningIn!Serves, FitCall, SigningIn!Asks, Mails
  <2> DEFINE p == [v1 EXCEPT !.temporary = @ \ {c.email}]
             r == SigningIn!Token(c.email, "password")
  <2>3. p \in SignPool
    BY <1>0 DEF SignPool
  <2>4. CASE c.email = c.challenge
    <3>1. SigningIn!RespondToNewPasswordChallenge(c.challenge, c.email) = SigningIn!CallCognito(p, r)
      BY <2>4 DEF SigningIn!RespondToNewPasswordChallenge
    <3>2. FitReply("newPassword", c.email, r) /\ r \in SigningIn!Replies
      BY <1>w, <2>2, <2>4, RepliesTyped DEF FitReply
    <3> HIDE DEF p, r
    <3> QED BY <1>0, <1>4, <2>1, <2>3, <3>1, <3>2, CognitoOutcomes, RouteServes
  <2>5. CASE c.email # c.challenge
    <3>1. SigningIn!RespondToNewPasswordChallenge(c.challenge, c.email) = SigningIn!Declined
      BY <2>5 DEF SigningIn!RespondToNewPasswordChallenge
    <3> QED BY <1>4, <1>d, <2>1, <3>1, RouteServes
  <2> QED BY <2>4, <2>5
<1>8. CASE SigningIn!ServeForgot(t) \/ SigningIn!ServeResend(t)
  <2>1. /\ SigningIn!ForgotPassword(c.email) = SigningIn!CallCognito(v1, SigningIn!Done)
        /\ SigningIn!ResendEmailVerification(c.email) = SigningIn!CallCognito(v1, SigningIn!Done)
    BY DEF SigningIn!ForgotPassword, SigningIn!ResendEmailVerification
  <2>2. \/ SigningIn!Serves(t, "forgot", SigningIn!CallCognito(v1, SigningIn!Done))
        \/ SigningIn!Serves(t, "resend", SigningIn!CallCognito(v1, SigningIn!Done))
    BY <1>8, <2>1 DEF SigningIn!ServeForgot, SigningIn!ServeResend
  <2> QED BY <1>0, <1>2, <1>4, <2>2, CognitoOutcomes, RepliesTyped, RouteServes
<1>9. CASE SigningIn!ServeConfirmForgot(t)
  <2> DEFINE p == [v1 EXCEPT !.reset = @ \cup {c.email}, !.temporary = @ \ {c.email}]
  <2>1. SigningIn!Serves(t, "confirmForgot", SigningIn!ConfirmForgotPassword(c.email))
    BY <1>9 DEF SigningIn!ServeConfirmForgot
  <2>2. CASE c.email \in v1.confirmed
    <3>1. c.email \in Mails
      BY <1>0, <2>2 DEF SignPool
    <3>2. p \in SignPool
      BY <1>0, <3>1 DEF SignPool
    <3>3. SigningIn!ConfirmForgotPassword(c.email) = SigningIn!CallCognito(p, SigningIn!Done)
      BY <2>2 DEF SigningIn!ConfirmForgotPassword
    <3> HIDE DEF p
    <3> QED BY <1>0, <1>2, <1>4, <2>1, <3>2, <3>3, CognitoOutcomes, RepliesTyped, RouteServes
  <2>3. CASE c.email \notin v1.confirmed
    <3>1. SigningIn!ConfirmForgotPassword(c.email) = SigningIn!Declined
      BY <2>3 DEF SigningIn!ConfirmForgotPassword
    <3> QED BY <1>4, <1>d, <2>1, <3>1, RouteServes
  <2> QED BY <2>2, <2>3
<1>10. CASE SigningIn!ServeVerify(t)
  <2> DEFINE p == [v1 EXCEPT !.confirmed = @ \cup {c.email}]
  <2>1. SigningIn!Serves(t, "verify", SigningIn!ConfirmEmailVerification(c.email))
    BY <1>10 DEF SigningIn!ServeVerify
  <2>2. CASE c.email \in v1.registered
    <3>1. c.email \in Mails
      BY <1>0, <2>2 DEF SignPool
    <3>2. p \in SignPool
      BY <1>0, <3>1 DEF SignPool
    <3>3. SigningIn!ConfirmEmailVerification(c.email) = SigningIn!CallCognito(p, SigningIn!Done)
      BY <2>2 DEF SigningIn!ConfirmEmailVerification
    <3> HIDE DEF p
    <3> QED BY <1>0, <1>2, <1>4, <2>1, <3>2, <3>3, CognitoOutcomes, RepliesTyped, RouteServes
  <2>3. CASE c.email \notin v1.registered
    <3>1. SigningIn!ConfirmEmailVerification(c.email) = SigningIn!Declined
      BY <2>3 DEF SigningIn!ConfirmEmailVerification
    <3> QED BY <1>4, <1>d, <2>1, <3>1, RouteServes
  <2> QED BY <2>2, <2>3
<1>11. CASE SigningIn!ServeSignIn(t)
  <2>1. SigningIn!Waiting(t, "signIn") /\ UNCHANGED <<v1, v4, v5, v6>>
    BY <1>11 DEF SigningIn!ServeSignIn
  <2>2. PICK o \in SigningIn!PasswordSignIn(c.email) :
          SigningIn!Reply(t, o.reply)
          /\ v2' = IF o.reply.kind = "token" THEN [v2 EXCEPT !.cookie = v6 + SigningIn!SessionHours]
                   ELSE v2
    BY <1>11 DEF SigningIn!ServeSignIn
  <2>3. v2' \in SignBrowser
    BY <1>0, <2>2, StoredSession DEF SigningIn!SessionHours
  <2>4. FitOutcome("signIn", c.email, o)
    <3>1. CASE c.email \notin v1.registered \cup v1.confirmed
      <4>1. o \in SigningIn!Declined
        BY <2>2, <3>1 DEF SigningIn!PasswordSignIn
      <4> QED BY <1>d, <4>1
    <3>2. CASE c.email \in v1.registered \cup v1.confirmed
      <4>1. c.email \in Mails
        BY <1>0, <3>2 DEF SignPool
      <4>2. \A kind \in {"verify", "mfa", "newPassword"} :
              SigningIn!Ask(kind, c.email) \in SigningIn!Replies
              /\ FitReply("signIn", c.email, SigningIn!Ask(kind, c.email))
        BY <4>1, RepliesTyped DEF FitReply
      <4>3. SigningIn!Token(c.email, "password") \in SigningIn!Replies
            /\ FitReply("signIn", c.email, SigningIn!Token(c.email, "password"))
        BY <1>w, <4>1, RepliesTyped DEF FitReply
      <4>4. PICK r \in {SigningIn!Ask("verify", c.email), SigningIn!Ask("newPassword", c.email),
                        SigningIn!Ask("mfa", c.email), SigningIn!Token(c.email, "password")} :
              o \in SigningIn!CallCognito(v1, r) \cup SigningIn!Declined
        BY <2>2, <3>2 DEF SigningIn!PasswordSignIn
      <4>5. r \in SigningIn!Replies /\ FitReply("signIn", c.email, r)
        BY <4>2, <4>3, <4>4
      <4> QED BY <1>0, <4>4, <4>5, CognitoOutcomes
    <3> QED BY <3>1, <3>2
  <2>5. o.reply \in SigningIn!Replies /\ FitReply("signIn", c.email, o.reply)
    BY <2>4 DEF FitOutcome
  <2> QED BY <1>0, <1>4, <2>1, <2>2, <2>3, <2>5, Answered
<1>12. CASE SigningIn!ServeGuest(t)
  <2>1. SigningIn!Waiting(t, "guest") /\ UNCHANGED <<v1, v4, v5, v6>>
    BY <1>12 DEF SigningIn!ServeGuest
  <2>2. PICK r \in {SigningIn!Token("guest", "guest"), SigningIn!Refused} :
          SigningIn!Reply(t, r)
          /\ v2' \in {v2, [v2 EXCEPT !.cookie = v6 + SigningIn!GuestHours]}
    BY <1>12 DEF SigningIn!ServeGuest
  <2>3. v2' \in SignBrowser
    BY <1>0, <2>2, StoredSession DEF SigningIn!GuestHours
  <2>4. r \in SigningIn!Replies /\ FitReply("guest", c.email, r)
    <3>1. SigningIn!Token("guest", "guest") \in SigningIn!Replies
          /\ FitReply("guest", c.email, SigningIn!Token("guest", "guest"))
      BY <1>w, RepliesTyped DEF FitReply
    <3> QED BY <1>3, <2>2, <3>1, RepliesTyped
  <2> QED BY <1>0, <1>4, <2>1, <2>2, <2>3, <2>4, Answered
<1>13. CASE SigningIn!ServeSignOut(t)
  <2>1. /\ SigningIn!Waiting(t, "signOut") /\ UNCHANGED <<v1, v4, v5, v6>>
        /\ SigningIn!Reply(t, SigningIn!Done) /\ v2' = [v2 EXCEPT !.cookie = 0]
    BY <1>13 DEF SigningIn!ServeSignOut
  <2>2. v2' \in SignBrowser
    BY <2>1, StoredSession
  <2> QED BY <1>0, <1>2, <1>4, <2>1, <2>2, RepliesTyped, Answered
<1>14. CASE SigningIn!ServeSsoCallback(t)
  <2>1. SigningIn!Waiting(t, "sso") /\ UNCHANGED <<v1, v5, v6>>
    BY <1>14 DEF SigningIn!ServeSsoCallback
  <2>2. c \in SigningIn!SsoCalls
    BY <2>1, TabCall DEF SigningIn!Waiting, SigningIn!Idle
  <2>3. c.code \in SigningIn!Codes
    BY <2>2 DEF SigningIn!SsoCalls
  <2>4. CASE v2.attempt = 0 \/ ~SigningIn!SameAttempt(c.code)
    <3>1. SigningIn!Reply(t, SigningIn!Refused) /\ v2' = [v2 EXCEPT !.attempt = 0] /\ v4' = v4
      BY <1>14, <2>4 DEF SigningIn!ServeSsoCallback
    <3>2. v2' \in SignBrowser
      BY <1>0, <3>1, SignInBounds DEF SignBrowser
    <3> QED BY <1>0, <1>3, <2>1, <3>1, <3>2, RepliesTyped, Answered
  <2>5. CASE v2.attempt # 0 /\ SigningIn!SameAttempt(c.code)
    <3> DEFINE own == [code |-> c.code, verifier |-> v2.attempt]
    <3>1. PICK o \in SigningIn!HandleSsoCallback(c.code, v2.attempt) :
            /\ SigningIn!Reply(t, o.reply)
            /\ v4' = [v4 EXCEPT !.exchanged = @ \cup {own}]
            /\ v2' = [v2 EXCEPT !.attempt = 0,
                        !.cookie = IF o.reply.kind = "token"
                                   THEN v6 + SigningIn!SessionHours ELSE @]
      BY <1>14, <2>5 DEF SigningIn!ServeSsoCallback
    <3>2. c.code.user \in Mails /\ c.code.attempt \in 1..ForSigningIn.MaxAttempts
      BY <2>3 DEF SigningIn!Codes, Mails
    <3>3. v2.attempt = c.code.attempt
      BY <2>5 DEF SigningIn!SameAttempt
    <3>4. own \in OwnExchange
      BY <2>3, <3>2, <3>3 DEF OwnExchange
    <3> HIDE DEF own
    <3>5. v4' \in SignSso
      BY <1>0, <3>1, <3>4 DEF SignSso
    <3>6. v2' \in SignBrowser
      <4>1. v6 \in Nat /\ v6 + 1 \in Nat
        BY SignInBounds DEF SignInKept
      <4> DEFINE n == IF o.reply.kind = "token" THEN v6 + 1 ELSE v2.cookie
      <4>2. v2.cookie \in Nat /\ 0 \in 0..ForSigningIn.MaxAttempts
        BY <1>0, SignInBounds DEF SignBrowser
      <4>3. n \in Nat
        BY <4>1, <4>2
      <4>4. v2' = [v2 EXCEPT !.attempt = 0, !.cookie = n]
        BY <3>1 DEF SigningIn!SessionHours
      <4> HIDE DEF n
      <4> QED BY <1>0, <4>2, <4>3, <4>4 DEF SignBrowser
    <3> DEFINE r == SigningIn!Token(c.code.user, "sso")
    <3>7. r \in SigningIn!Replies /\ FitReply("sso", c.email, r)
      BY <1>w, <3>2, RepliesTyped DEF FitReply
    <3>8. o \in SigningIn!CallCognito(v1, r) \cup SigningIn!Declined
      BY <3>1 DEF SigningIn!HandleSsoCallback
    <3> HIDE DEF r
    <3>9. FitOutcome("sso", c.email, o)
      BY <1>0, <3>7, <3>8, CognitoOutcomes
    <3>10. o.reply \in SigningIn!Replies /\ FitReply("sso", c.email, o.reply)
      BY <3>9 DEF FitOutcome
    <3> QED BY <1>0, <2>1, <3>1, <3>5, <3>6, <3>10, Answered
  <2> QED BY <2>4, <2>5
<1> QED BY <1>5, <1>6, <1>7, <1>8, <1>9, <1>10, <1>11, <1>12, <1>13, <1>14 DEF SigningIn!Served

\* A call that was answered is over.
LEMMA SignInHandles ==
  ASSUME SignInKept, NEW t \in Calls, SigningIn!Handles(t)
  PROVE  SignInKept'
<1> DEFINE c == v3[t].call
<1>0. /\ v1 \in SignPool /\ v2 \in SignBrowser /\ v4 \in SignSso /\ v3[t] \in SignTab
      /\ SigningIn!CallFits(v3[t])
  BY TabOf DEF SignInKept
<1>n. v6 + 1 \in Nat /\ v6 + 2 \in Nat
  BY SignInBounds DEF SignInKept
<1>c. v3[t].view \in {"mfa-challenge", "new-password"} => v3[t].challenge \in Mails
  BY <1>0 DEF SigningIn!CallFits, Mails
<1>d. ASSUME NEW x \in FitTab, v3' = [v3 EXCEPT ![t] = x], UNCHANGED <<v1, v2, v4, v5, v6>>
      PROVE  SignInKept'
  BY <1>0, <1>d, TabGoes
<1>o. SigningIn!FormOps = {"signIn", "signUp", "mfa", "newPassword", "verify", "resend", "forgot",
                           "confirmForgot", "guest", "signOut"}
  BY DEF SigningIn!FormOps
<1>1. ASSUME NEW op \in SigningIn!FormOps, SigningIn!Replied(t, op)
      PROVE  /\ c \in SigningIn!FormCalls /\ FitCall(c) /\ c.op = op
             /\ c.email \in Mails \cup {""} /\ c.reply \in SigningIn!Replies
             /\ SigningIn!Answers(c) /\ SigningIn!Asks(c) /\ v3[t].page # "provider"
  <2>1. c \in SigningIn!FormCalls /\ FitCall(c) /\ c.op = op /\ v3[t].page # "provider"
    BY <1>1, TabCall DEF SigningIn!Replied, SigningIn!Idle
  <2>2. c.reply # None
    BY <1>1 DEF SigningIn!Replied
  <2>3. c.email \in Mails \cup {""} /\ c.reply \in SigningIn!Replies \cup {None}
    BY <2>1 DEF SigningIn!FormCalls, Mails
  <2>4. SigningIn!Answers(c) /\ SigningIn!Asks(c)
    BY <2>1 DEF FitCall
  <2> QED BY <2>1, <2>2, <2>3, <2>4
\* A tab signs in with a session of its own, or stays as it is.
<1>2. ASSUME NEW s \in OwnSession, NEW page \in {"auth", "home"}, SigningIn!SignedIn(t, s, page),
             UNCHANGED <<v1, v4, v5, v6>>
      PROVE  SignInKept'
  <2> DEFINE x == [v3[t] EXCEPT !.call = None, !.held = s, !.page = page]
  <2>1. v3' = [v3 EXCEPT ![t] = x] /\ v2' = SigningIn!SetSession(v2, s)
    BY <1>2 DEF SigningIn!SignedIn
  <2>2. /\ x \in SignTab /\ x.call = None /\ x.page = page /\ x.view = v3[t].view
        /\ x.challenge = v3[t].challenge
    BY <1>0 DEF SignTab
  <2> HIDE DEF x
  <2>3. x \in FitTab
    BY <1>c, <2>2, CalmTab
  <2> QED BY <1>0, <1>2, <2>1, <2>3, StoredSession, TabGoes
<1>3. ASSUME SigningIn!StaysPut(t), v3[t].page # "provider", UNCHANGED <<v1, v4, v5, v6>>
      PROVE  SignInKept'
  <2> DEFINE x == [v3[t] EXCEPT !.call = None]
  <2>1. v3' = [v3 EXCEPT ![t] = x] /\ UNCHANGED <<v1, v2, v4, v5, v6>>
    BY <1>3 DEF SigningIn!StaysPut
  <2>2. /\ x \in SignTab /\ x.call = None /\ x.page = v3[t].page /\ x.view = v3[t].view
        /\ x.challenge = v3[t].challenge
    BY <1>0 DEF SignTab
  <2> HIDE DEF x
  <2>3. x \in FitTab
    BY <1>c, <1>3, <2>2, CalmTab
  <2> QED BY <1>d, <2>1, <2>3
<1>4. ASSUME NEW e \in Mails \cup {""}, NEW r \in SigningIn!Replies,
             r.user \in Mails \cup {"guest"}, r.way \in SigningIn!Ways,
             r.way \in {"password", "sso"} => r.user = e
      PROVE  SigningIn!SessionFor(r, e) \in OwnSession
  <2>1. v6 + SigningIn!Hours(r.way) \in Nat
    <3>1. SigningIn!Hours(r.way) = 1 \/ SigningIn!Hours(r.way) = 2
      BY DEF SigningIn!Hours, SigningIn!GuestHours, SigningIn!SessionHours
    <3> QED BY <1>n, <3>1, Zenon
  <2> DEFINE s == SigningIn!SessionFor(r, e)
  <2>2. s.way = r.way /\ s.email = e /\ s.user = r.user
    BY DEF SigningIn!SessionFor
  <2>3. s \in SigningIn!Session
    BY <1>4, <2>1 DEF SigningIn!SessionFor, SigningIn!Session, Mails
  <2>4. s.way \in {"password", "sso"} => s.email = s.user
    BY <1>4, <2>2
  <2> HIDE DEF s
  <2>5. s \in OwnSession
    BY <2>3, <2>4 DEF OwnSession
  <2> QED BY <2>5 DEF s
\* A form whose reply may be a token.
<1>5. ASSUME NEW op \in {"signIn", "mfa", "newPassword"}, SigningIn!Replied(t, op),
             c.reply.kind = "token"
      PROVE  SigningIn!SessionFor(c.reply, c.email) \in OwnSession
  <2>1. /\ c.op = op /\ c.email \in Mails \cup {""} /\ c.reply \in SigningIn!Replies
        /\ SigningIn!Answers(c)
    BY <1>1, <1>5, <1>o
  <2>2. SigningIn!TokenFits(c)
    BY <1>5, <2>1 DEF SigningIn!Answers, SigningIn!Replied
  <2>3. c.reply.way \in {"password", "sso"} => c.reply.user = c.email
    BY <2>1, <2>2 DEF SigningIn!TokenFits
  <2> QED BY <1>4, <2>1, <2>2, <2>3 DEF SigningIn!TokenFits, Mails
<1>6. CASE SigningIn!HandleLogin(t)
  <2>1. SigningIn!Replied(t, "signIn") /\ UNCHANGED <<v1, v4, v5, v6>>
    BY <1>6 DEF SigningIn!HandleLogin
  <2>2. CASE c.reply.kind = "token"
    <3>1. SigningIn!SignedIn(t, SigningIn!SessionFor(c.reply, c.email), "auth")
      BY <1>6, <2>2 DEF SigningIn!HandleLogin, SigningIn!ReplyOf
    <3> QED BY <1>2, <1>5, <2>1, <2>2, <3>1
  <2>3. CASE c.reply.kind # "token"
    <3> DEFINE x == SigningIn!AfterLogin(t)
    <3>1. v3' = [v3 EXCEPT ![t] = x] /\ UNCHANGED <<v1, v2, v4, v5, v6>>
      BY <1>6, <2>3 DEF SigningIn!HandleLogin, SigningIn!ReplyOf
    <3>2. /\ c.email \in Mails \cup {""} /\ SigningIn!Answers(c) /\ v3[t].page # "provider"
          /\ c.reply # None
      BY <1>1, <1>o, <2>1 DEF SigningIn!Replied
    <3>3. CASE c.reply.kind \in {"mfa", "newPassword"}
      <4>1. c.reply.user \in Mails
        BY <3>2, <3>3 DEF SigningIn!Answers, Mails
      <4>2. /\ x \in SignTab /\ x.call = None /\ x.page = v3[t].page /\ x.challenge = c.reply.user
        BY <1>0, <3>2, <3>3, <4>1 DEF SigningIn!AfterLogin, SigningIn!ReplyOf, SignTab,
             SigningIn!Views
      <4> HIDE DEF x
      <4>3. x \in FitTab
        BY <3>2, <4>1, <4>2, CalmTab
      <4> QED BY <1>d, <3>1, <4>3
    <3>4. CASE c.reply.kind \notin {"mfa", "newPassword"}
      <4>1. x = [v3[t] EXCEPT !.call = None]
        BY <3>4 DEF SigningIn!AfterLogin, SigningIn!ReplyOf
      <4>2. SigningIn!StaysPut(t)
        BY <3>1, <4>1, TabOf DEF SigningIn!StaysPut, SignInKept
      <4> QED BY <1>3, <2>1, <3>2, <4>2
    <3> QED BY <3>3, <3>4
  <2> QED BY <2>2, <2>3
<1>7. CASE SigningIn!HandleRegister(t) \/ SigningIn!HandleVerification(t)
  <2>1. /\ c.email \in Mails \cup {""} /\ v3[t].page # "provider"
    BY <1>1, <1>7, <1>o DEF SigningIn!HandleRegister, SigningIn!HandleVerification
  <2>2. PICK view \in {v3[t].view, "email-verification", "login"},
             mail \in {v3[t].pending, c.email} :
          /\ v3' = [v3 EXCEPT ![t] = [v3[t] EXCEPT !.call = None, !.pending = mail, !.view = view]]
          /\ UNCHANGED <<v1, v2, v4, v5, v6>>
    <3>1. UNCHANGED <<v1, v2, v4, v5, v6>>
      BY <1>7 DEF SigningIn!HandleRegister, SigningIn!HandleVerification
    <3>2. [v3[t] EXCEPT !.call = None] =
            [v3[t] EXCEPT !.call = None, !.pending = v3[t].pending, !.view = v3[t].view]
      BY <1>0 DEF SignTab
    <3>3. \A w \in {v3[t].view, "login"} :
            [v3[t] EXCEPT !.call = None, !.view = w] =
            [v3[t] EXCEPT !.call = None, !.pending = v3[t].pending, !.view = w]
      BY <1>0 DEF SignTab
    <3>4. CASE SigningIn!HandleRegister(t)
      <4>1. \/ v3' = [v3 EXCEPT ![t] = [v3[t] EXCEPT !.call = None, !.pending = c.email,
                                                    !.view = "email-verification"]]
            \/ v3' = [v3 EXCEPT ![t] = [v3[t] EXCEPT !.call = None]]
        BY <3>4 DEF SigningIn!HandleRegister
      <4> QED BY <3>1, <3>2, <4>1
    <3>5. CASE SigningIn!HandleVerification(t)
      <4> DEFINE w == IF SigningIn!ReplyOf(t) = SigningIn!Done THEN "login" ELSE v3[t].view
      <4>1. v3' = [v3 EXCEPT ![t].call = None, ![t].view = w]
        BY <3>5 DEF SigningIn!HandleVerification
      <4>2. w \in {v3[t].view, "login"}
        OBVIOUS
      <4> HIDE DEF w
      <4>3. v3' = [v3 EXCEPT ![t] = [v3[t] EXCEPT !.call = None, !.view = w]]
        BY <4>1, TabOf DEF SignInKept
      <4> QED BY <3>1, <3>3, <4>2, <4>3
    <3> QED BY <1>7, <3>4, <3>5
  <2> DEFINE x == [v3[t] EXCEPT !.call = None, !.pending = mail, !.view = view]
  <2>3. /\ x \in SignTab /\ x.call = None /\ x.page = v3[t].page /\ x.view = view
        /\ x.challenge = v3[t].challenge
    BY <1>0, <2>1 DEF SignTab, SigningIn!Views
  <2> HIDE DEF x
  <2>4. x \in FitTab
    BY <1>c, <2>1, <2>3, CalmTab
  <2>5. v3' = [v3 EXCEPT ![t] = x]
    BY <2>2 DEF x
  <2> QED BY <1>d, <2>2, <2>4, <2>5
<1>8. CASE SigningIn!HandleResend(t)
  BY <1>1, <1>3, <1>8, <1>o DEF SigningIn!HandleResend
\* What the reset form moves on to.
<1>f. ASSUME NEW step \in {"email", "code", "done"}, c.email \in Mails \cup {""}
      PROVE  SigningIn!FormMoves(t, step) \in ResetForm
  <2>1. v3[t].reset \in ResetForm
    BY <1>0 DEF SignTab
  <2> QED BY <1>f, <2>1 DEF SigningIn!FormMoves, ResetForm
<1>9. CASE SigningIn!HandleSendCode(t)
  <2> DEFINE x == [v3[t] EXCEPT !.call = None, !.pending = c.email,
                               !.reset = SigningIn!FormMoves(t, "code")]
  <2>1. v3' = [v3 EXCEPT ![t] = x] /\ UNCHANGED <<v1, v2, v4, v5, v6>>
    BY <1>9 DEF SigningIn!HandleSendCode
  <2>2. c.email \in Mails \cup {""} /\ v3[t].page # "provider"
    BY <1>1, <1>9, <1>o DEF SigningIn!HandleSendCode
  <2>3. SigningIn!FormMoves(t, "code") \in ResetForm
    BY <1>f, <2>2
  <2>4. /\ x \in SignTab /\ x.call = None /\ x.page = v3[t].page /\ x.view = v3[t].view
        /\ x.challenge = v3[t].challenge
    BY <1>0, <2>2, <2>3 DEF SignTab
  <2> HIDE DEF x
  <2>5. x \in FitTab
    BY <1>c, <2>2, <2>4, CalmTab
  <2> QED BY <1>d, <2>1, <2>5
<1>r. ASSUME NEW r \in ResetForm, v3[t].page # "provider", UNCHANGED <<v1, v2, v4, v5, v6>>,
             v3' = [v3 EXCEPT ![t] = [v3[t] EXCEPT !.call = None, !.reset = r]]
      PROVE  SignInKept'
  <2> DEFINE x == [v3[t] EXCEPT !.call = None, !.reset = r]
  <2>1. /\ x \in SignTab /\ x.call = None /\ x.page = v3[t].page /\ x.view = v3[t].view
        /\ x.challenge = v3[t].challenge
    BY <1>0 DEF SignTab
  <2>2. v3' = [v3 EXCEPT ![t] = x]
    BY <1>r
  <2> HIDE DEF x
  <2>3. x \in FitTab
    BY <1>c, <1>r, <2>1, CalmTab
  <2> QED BY <1>d, <1>r, <2>2, <2>3
<1>10. CASE SigningIn!HandleConfirmReset(t)
  <2>1. /\ v3' = [v3 EXCEPT ![t] = [v3[t] EXCEPT !.call = None,
                                                !.reset = SigningIn!FormMoves(t, "done")]]
        /\ UNCHANGED <<v1, v2, v4, v5, v6>>
    BY <1>10 DEF SigningIn!HandleConfirmReset
  <2>2. c.email \in Mails \cup {""} /\ v3[t].page # "provider"
    BY <1>1, <1>10, <1>o DEF SigningIn!HandleConfirmReset
  <2> QED BY <1>f, <1>r, <2>1, <2>2
<1>11. CASE SigningIn!HandleMfa(t) \/ SigningIn!HandleNewPassword(t)
  <2>1. PICK op \in {"mfa", "newPassword"} : SigningIn!HandleChallenge(t, op)
    BY <1>11 DEF SigningIn!HandleMfa, SigningIn!HandleNewPassword
  <2>2. SigningIn!Replied(t, op) /\ UNCHANGED <<v1, v4, v5, v6>>
    BY <2>1 DEF SigningIn!HandleChallenge
  <2>3. CASE c.reply.kind = "token"
    <3>1. SigningIn!SignedIn(t, SigningIn!SessionFor(c.reply, c.email), "auth")
      BY <2>1, <2>3 DEF SigningIn!HandleChallenge, SigningIn!ReplyOf
    <3>2. SigningIn!SessionFor(c.reply, c.email) \in OwnSession
      BY <1>5, <2>1, <2>2, <2>3
    <3> QED BY <1>2, <2>2, <3>1, <3>2
  <2>4. CASE c.reply.kind # "token"
    <3>1. SigningIn!StaysPut(t)
      BY <2>1, <2>4 DEF SigningIn!HandleChallenge, SigningIn!ReplyOf
    <3> QED BY <1>1, <1>3, <1>o, <2>1, <2>2, <3>1
  <2> QED BY <2>3, <2>4
<1>12. CASE SigningIn!HandleGuest(t)
  <2>1. SigningIn!Replied(t, "guest") /\ UNCHANGED <<v1, v4, v5, v6>>
    BY <1>12 DEF SigningIn!HandleGuest
  <2>2. CASE c.reply.kind = "token"
    <3>1. SigningIn!SignedIn(t, SigningIn!SessionFor(c.reply, ""), "auth")
      BY <1>12, <2>2 DEF SigningIn!HandleGuest, SigningIn!ReplyOf
    <3>2. c.op = "guest" /\ c.reply \in SigningIn!Replies /\ SigningIn!Answers(c)
      BY <1>1, <1>o, <2>1
    <3>3. c.reply.way = "guest" /\ c.reply.user \in Mails \cup {"guest"}
          /\ c.reply.way \in SigningIn!Ways
      BY <2>1, <2>2, <3>2 DEF SigningIn!Answers, SigningIn!Replied, SigningIn!TokenFits, Mails
    <3>4. SigningIn!SessionFor(c.reply, "") \in OwnSession
      BY <1>4, <3>2, <3>3
    <3> QED BY <1>2, <2>1, <3>1, <3>4
  <2>3. CASE c.reply.kind # "token"
    <3>1. SigningIn!StaysPut(t)
      BY <1>12, <2>3 DEF SigningIn!HandleGuest, SigningIn!ReplyOf
    <3> QED BY <1>1, <1>3, <1>o, <2>1, <3>1
  <2> QED BY <2>2, <2>3
<1>13. CASE SigningIn!HandleSignOut(t)
  <2>1. /\ v3' = [v3 EXCEPT ![t] = SigningIn!FreshPage]
        /\ v2' = SigningIn!ClearStoredSession(v2) /\ UNCHANGED <<v1, v4, v5, v6>>
    BY <1>13 DEF SigningIn!HandleSignOut
  <2>2. SigningIn!FreshPage \in FitTab
    BY FreshTab
  <2> QED BY <1>0, <2>1, <2>2, StoredSession, TabGoes
<1>14. CASE SigningIn!HandleSso(t)
  <2>1. SigningIn!Replied(t, "sso") /\ UNCHANGED <<v1, v4, v5, v6>>
    BY <1>14 DEF SigningIn!HandleSso
  <2>2. CASE c.reply.kind = "token"
    <3>1. SigningIn!SignedIn(t, SigningIn!SessionFor(c.reply, c.reply.user), "home")
      BY <1>14, <2>2 DEF SigningIn!HandleSso, SigningIn!ReplyOf
    <3>2. c \in SigningIn!SsoCalls /\ FitCall(c) /\ c.op = "sso" /\ c.reply # None
      BY <2>1, TabCall DEF SigningIn!Replied, SigningIn!Idle
    <3>3. c.reply \in SigningIn!Replies /\ SigningIn!Answers(c)
      BY <3>2 DEF FitCall, SigningIn!SsoCalls
    <3>4. c.reply.way \in SigningIn!Ways /\ c.reply.user \in Mails
      BY <2>2, <3>2, <3>3 DEF SigningIn!Answers, SigningIn!TokenFits, Mails
    <3>5. SigningIn!SessionFor(c.reply, c.reply.user) \in OwnSession
      BY <1>4, <3>3, <3>4
    <3> QED BY <1>2, <2>1, <3>1, <3>5
  <2>3. CASE c.reply.kind # "token"
    <3> DEFINE x == [SigningIn!FreshPage EXCEPT !.held = v3[t].held]
    <3>1. v3' = [v3 EXCEPT ![t] = x] /\ UNCHANGED <<v1, v2, v4, v5, v6>>
      BY <1>14, <2>3 DEF SigningIn!HandleSso, SigningIn!ReplyOf
    <3>2. v3[t].held \in OwnSession \cup {None}
      BY <1>0 DEF SignTab
    <3>3. x \in FitTab
      BY <3>2, FreshTab
    <3> HIDE DEF x
    <3> QED BY <1>d, <3>1, <3>3
  <2> QED BY <2>2, <2>3
<1>15. CASE SigningIn!ReplyLost(t)
  <2>1. c # None /\ v3[t].page \in {"auth", "home"} /\ UNCHANGED <<v1, v2, v4, v5, v6>>
    BY <1>15 DEF SigningIn!ReplyLost, SigningIn!Idle
  <2>2. c \in SigningIn!FormCalls \cup SigningIn!SsoCalls
    BY <1>0, <2>1 DEF SigningIn!CallFits, SignTab, AnyCall
  <2>3. c.email \in Mails \cup {""}
    BY <2>2 DEF SigningIn!FormCalls, SigningIn!SsoCalls, Mails
  <2> DEFINE r == CASE c.op = "forgot" -> SigningIn!FormMoves(t, "code")
                    [] c.op = "confirmForgot" -> SigningIn!FormMoves(t, "done")
                    [] OTHER -> v3[t].reset
  <2>4. v3[t].reset \in ResetForm
    BY <1>0 DEF SignTab
  <2>5. r \in ResetForm
    BY <1>f, <2>3, <2>4
  <2>6. v3' = [v3 EXCEPT ![t].call = None, ![t].reset = r]
    BY <1>15 DEF SigningIn!ReplyLost
  <2> HIDE DEF r
  <2>7. v3' = [v3 EXCEPT ![t] = [v3[t] EXCEPT !.call = None, !.reset = r]]
    BY <2>6, TabOf DEF SignInKept
  <2> QED BY <1>r, <2>1, <2>5, <2>7
<1> QED BY <1>6, <1>7, <1>8, <1>9, <1>10, <1>11, <1>12, <1>13, <1>14, <1>15 DEF SigningIn!Handles

\* The callback page with the code of an attempt.
LEMMA CallbackTab ==
  ASSUME SignInKept, NEW code \in SigningIn!Codes
  PROVE  SigningIn!AtCallback(code) \in FitTab
<1> DEFINE f == SigningIn!FreshPage
           d == SigningIn!Posting(code)
           x == [f EXCEPT !.page = "callback", !.held = SigningIn!ReadStoredSession, !.call = d]
<1>1. f \in SignTab /\ f.view = "login"
  BY FreshTab DEF SigningIn!FreshPage, FitTab
<1>2. d \in SigningIn!SsoCalls /\ d.reply = None /\ d.op = "sso"
  BY DEF SigningIn!Posting, SigningIn!SsoCalls
<1> HIDE DEF d, f
<1>3. SigningIn!Answers(d)
  BY <1>2 DEF SigningIn!Answers
<1>4. d \notin SigningIn!FormCalls
  BY <1>2 DEF SigningIn!FormCalls, SigningIn!FormOps
<1>5. FitCall(d) /\ d \in AnyCall
  BY <1>2, <1>3, <1>4 DEF FitCall, AnyCall
<1>6. SigningIn!ReadStoredSession \in OwnSession \cup {None}
  BY StoredSession
<1>7. x \in SignTab /\ x.call = d /\ x.page = "callback" /\ x.view = "login"
  BY <1>1, <1>5, <1>6 DEF SignTab
<1> HIDE DEF x
<1>8. x \in FitTab
  BY <1>5, <1>7, BusyTab
<1> QED BY <1>8 DEF x, d, f, SigningIn!AtCallback

LEMMA SignInSso ==
  ASSUME SignInKept, NEW t \in Calls, SigningIn!SingleSignOn(t)
  PROVE  SignInKept'
<1>0. /\ v1 \in SignPool /\ v2 \in SignBrowser /\ v4 \in SignSso /\ v3[t] \in SignTab
      /\ SigningIn!CallFits(v3[t])
  BY TabOf DEF SignInKept
<1>1. CASE SigningIn!StartSso(t)
  <2> DEFINE n == v4.started + 1
             d == [op |-> "provider", attempt |-> n]
             f == SigningIn!FreshPage
             x == [f EXCEPT !.page = "provider", !.call = d]
  <2>1. /\ v4.started < ForSigningIn.MaxAttempts /\ v5 < ForSigningIn.MaxCalls /\ v5' = v5 + 1
        /\ v4' = [v4 EXCEPT !.started = n] /\ v2' = [v2 EXCEPT !.attempt = n]
        /\ v3' = [v3 EXCEPT ![t] = x] /\ UNCHANGED <<v1, v6>>
    BY <1>1 DEF SigningIn!StartSso
  <2>2. n \in 1..ForSigningIn.MaxAttempts /\ n \in 0..ForSigningIn.MaxAttempts
    <3>1. v4.started \in 0..ForSigningIn.MaxAttempts
      BY <1>0 DEF SignSso
    <3> QED BY <2>1, <3>1, SignInBounds
  <2>3. f \in SignTab /\ f.view = "login"
    BY FreshTab DEF SigningIn!FreshPage, FitTab
  <2> HIDE DEF f, n
  <2>4. v4' \in SignSso /\ v2' \in SignBrowser
    BY <1>0, <2>1, <2>2 DEF SignSso, SignBrowser
  <2>5. d \in SigningIn!AwayCalls /\ d.op = "provider"
    BY <2>2 DEF SigningIn!AwayCalls
  <2> HIDE DEF d
  <2>6. d \notin SigningIn!FormCalls /\ d \notin SigningIn!SsoCalls
    BY <2>5 DEF SigningIn!FormCalls, SigningIn!FormOps, SigningIn!SsoCalls
  <2>7. x \in SignTab /\ x.call = d /\ x.page = "provider" /\ x.view = "login"
    BY <2>3, <2>5 DEF SignTab, AnyCall
  <2> HIDE DEF x
  <2>8. x \in FitTab
    BY <2>5, <2>6, <2>7 DEF FitTab, SigningIn!CallFits
  <2> QED BY <1>0, <2>1, <2>4, <2>8, TabGoes
<1>2. CASE SigningIn!ReturnFromProvider(t)
  <2>1. PICK e \in ForSigningIn.Known :
          LET code == [attempt |-> v3[t].call.attempt, user |-> e] IN
            /\ v4' = [v4 EXCEPT !.codes = @ \cup {code}]
            /\ v3' = [v3 EXCEPT ![t] = SigningIn!AtCallback(code)]
    BY <1>2 DEF SigningIn!ReturnFromProvider
  <2> DEFINE code == [attempt |-> v3[t].call.attempt, user |-> e]
             x == SigningIn!AtCallback(code)
  <2>2. v3[t].page = "provider" /\ v2' = SigningIn!AfterLoad /\ UNCHANGED <<v1, v5, v6>>
    BY <1>2 DEF SigningIn!ReturnFromProvider
  <2>3. v3[t].call \in SigningIn!AwayCalls
    BY <1>0, <2>2 DEF SigningIn!CallFits
  <2>4. v3[t].call.attempt \in 1..ForSigningIn.MaxAttempts
    BY <2>3 DEF SigningIn!AwayCalls
  <2>5. code \in SigningIn!Codes
    BY <2>4, SignInBounds DEF SigningIn!Codes, Mails
  <2>6. v4' = [v4 EXCEPT !.codes = @ \cup {code}] /\ v3' = [v3 EXCEPT ![t] = x]
    BY <2>1
  <2> HIDE DEF code
  <2>7. v4' \in SignSso
    BY <1>0, <2>5, <2>6 DEF SignSso
  <2>8. x \in FitTab
    BY <2>5, CallbackTab
  <2> HIDE DEF x
  <2> QED BY <1>0, <2>2, <2>6, <2>7, <2>8, StoredSession, TabGoes
<1>3. CASE SigningIn!GiveUpAtProvider(t)
  <2> DEFINE x == [SigningIn!FreshPage EXCEPT !.held = SigningIn!ReadStoredSession]
  <2>1. v3' = [v3 EXCEPT ![t] = x] /\ v2' = SigningIn!AfterLoad /\ UNCHANGED <<v1, v4, v5, v6>>
    BY <1>3 DEF SigningIn!GiveUpAtProvider
  <2>2. x \in FitTab
    BY StoredSession, FreshTab
  <2> HIDE DEF x
  <2> QED BY <1>0, <2>1, <2>2, StoredSession, TabGoes
<1>4. CASE SigningIn!ReopenCallback(t)
  <2>1. /\ v5 < ForSigningIn.MaxCalls /\ v5' = v5 + 1 /\ v2' = SigningIn!AfterLoad
        /\ UNCHANGED <<v1, v4, v6>>
    BY <1>4 DEF SigningIn!ReopenCallback
  <2>2. PICK code \in v4.codes : v3' = [v3 EXCEPT ![t] = SigningIn!AtCallback(code)]
    BY <1>4 DEF SigningIn!ReopenCallback
  <2>3. code \in SigningIn!Codes
    BY <1>0, <2>2 DEF SignSso
  <2>4. SigningIn!AtCallback(code) \in FitTab
    BY <2>3, CallbackTab
  <2> QED BY <1>0, <2>1, <2>2, <2>4, StoredSession, TabGoes
<1>5. CASE SigningIn!CallbackLost(t)
  <2> DEFINE x == [SigningIn!FreshPage EXCEPT !.held = v3[t].held]
  <2>1. v3' = [v3 EXCEPT ![t] = x] /\ UNCHANGED <<v1, v2, v4, v5, v6>>
    BY <1>5 DEF SigningIn!CallbackLost
  <2>2. v3[t].held \in OwnSession \cup {None}
    BY <1>0 DEF SignTab
  <2>3. x \in FitTab
    BY <2>2, FreshTab
  <2> HIDE DEF x
  <2> QED BY <1>0, <2>1, <2>3, TabGoes
<1> QED BY <1>1, <1>2, <1>3, <1>4, <1>5 DEF SigningIn!SingleSignOn

LEMMA SignInStep ==
  ASSUME SignInKept, [SigningIn!Next]_(SigningIn!vars)
  PROVE  SignInKept'
<1>1. CASE UNCHANGED SigningIn!vars
  <2>1. UNCHANGED <<v1, v2, v3, v4, v5, v6>>
    BY <1>1 DEF SigningIn!vars
  <2> QED BY <2>1 DEF SignInKept
<1>2. ASSUME NEW t \in Calls,
             \/ SigningIn!Navigates(t) \/ SigningIn!Submits(t) \/ SigningIn!Served(t)
             \/ SigningIn!Handles(t) \/ SigningIn!SingleSignOn(t)
      PROVE  SignInKept'
  BY <1>2, SignInNavigates, SignInSubmits, SignInServes, SignInHandles, SignInSso
<1>3. CASE SigningIn!Tick
  <2>1. /\ v6 < ForSigningIn.MaxTime /\ v6' = v6 + 1 /\ v2' = [v2 EXCEPT !.attempt = 0]
        /\ UNCHANGED <<v1, v3, v4, v5>>
    BY <1>3 DEF SigningIn!Tick
  <2>2. v2' \in SignBrowser
    BY <2>1, SignInBounds DEF SignInKept, SignBrowser
  <2>3. v6' \in 0..ForSigningIn.MaxTime
    BY <2>1, SignInBounds DEF SignInKept
  <2> QED BY <2>1, <2>2, <2>3 DEF SignInKept
<1> QED BY <1>1, <1>2, <1>3 DEF SigningIn!Next

\* A session is stored and shown under the address of the account it was issued to,
\* whatever tab switched its view, acted in between or lost its answer; and a code is
\* exchanged only with the verifier of the attempt that obtained it.
THEOREM SessionsAreTheirOwners == Services => []SessionIsItsOwners
<1> DEFINE Kept == running = "signin" => SignInKept
<1>1. ServicesInit => Kept
  BY SignInAlone, SignInFirst
<1>2. Kept /\ [ServicesNext]_<<running, vars, slots>> => Kept'
  <2> SUFFICES ASSUME Kept, [ServicesNext]_<<running, vars, slots>>, running' = "signin"
               PROVE  SignInKept'
    OBVIOUS
  <2>1. running = "signin"
    BY DEF ServicesNext, In
  <2> QED BY <2>1, SignInAlone, SignInStep
<1>3. Kept => SessionIsItsOwners
  BY SignInHolds DEF SessionIsItsOwners
<1> QED BY <1>1, <1>2, <1>3, PTL DEF Services

-----------------------------------------------------------------------------
(* What costs money.  v1: now, v2: store, v3: entries, v4: used, v5:       *)
(* allowance, v6: breaker, v7: req.                                        *)

\* Only the paid requests' steps change their variables.
LEMMA PaidAlone ==
  ASSUME running = "paid"
  PROVE  /\ ServicesInit => Paid!Init
         /\ [ServicesNext]_<<running, vars, slots>> =>
              running' = running /\ [Paid!Next]_(Paid!vars)
  BY DEF ServicesInit, ServicesNext, In, slots, Paid!vars

LEMMA PaidBounds ==
  /\ None \notin Paid!Actors /\ None \notin {"process", "stream", "name"}
  /\ None \notin Paid!Results
  /\ ForPaid.Users \cap ForPaid.Guests = {} /\ ForPaid.Kinds \subseteq {"process", "stream", "name"}
  /\ \A i \in 1..2 : ForPaid.Cap[i] \in Nat \ {0} /\ ForPaid.Span[i] \in Nat \ {0}
  /\ ForPaid.Allowances \subseteq 1..10
  /\ ForPaid.Threshold \in Nat \ {0} /\ ForPaid.Probes \in Nat \ {0}
  /\ ForPaid.Window \in Nat \ {0} /\ ForPaid.Overlap \in Nat
  /\ ForPaid.Phrase \in Seq(ForPaid.Tokens) /\ Len(ForPaid.Phrase) <= ForPaid.Overlap + 1
  /\ \A s \in ForPaid.Scripts : s \in Seq(Seq(ForPaid.Tokens))
  /\ \A s \in ForPaid.Answers : s \in Seq(ForPaid.Tokens)
  /\ ForPaid.Verdicts \subseteq Paid!Verdict /\ ForPaid.Alarms \subseteq ForPaid.Verdicts
  /\ \A v \in ForPaid.Alarms : ~v.safe
  /\ ForPaid.MaxTime \in Nat
<1>1. Paid!RequestsAssumption
  BY ServicesAssumption
<1>2. /\ ForPaid.Phrase \in Seq(ForPaid.Tokens)
      /\ \A s \in ForPaid.Answers : s \in Seq(ForPaid.Tokens)
  BY <1>1 DEF Paid!RequestsAssumption
<1> QED BY <1>1, <1>2 DEF Paid!RequestsAssumption, Paid!Actors

-----------------------------------------------------------------------------
(* Texts, their ends and phrases in them *)

\* The last o letters of a text, and whether p is somewhere in it.
LastOf(s, o) == IF Len(s) <= o THEN s ELSE SubSeq(s, Len(s) - o + 1, Len(s))
Contains(s, p) ==
  \E i \in 1..Len(s) : i + Len(p) - 1 <= Len(s) /\ SubSeq(s, i, i + Len(p) - 1) = p

\* A part of a text, letter by letter.
LEMMA PartProperties ==
  ASSUME NEW T, NEW a, NEW i \in Int, NEW l \in Nat, NEW n \in Int, n = i + l - 1,
         \A j \in i .. n : a[j] \in T
  PROVE  /\ SubSeq(a, i, n) \in Seq(T) /\ Len(SubSeq(a, i, n)) = l
         /\ \A j \in 1..l : SubSeq(a, i, n)[j] = a[i + j - 1]
<1>1. /\ SubSeq(a, i, n) \in Seq(T)
      /\ Len(SubSeq(a, i, n)) = IF i <= n THEN n - i + 1 ELSE 0
      /\ \A j \in 1 .. n - i + 1 : SubSeq(a, i, n)[j] = a[i + j - 1]
  BY SubSeqProperties
<1>2. n - i + 1 = l /\ (IF i <= n THEN n - i + 1 ELSE 0) = l
  OBVIOUS
<1> QED BY <1>1, <1>2

\* Parts of two texts that have the same letters, d further on in one of them.
LEMMA ShiftedLetters ==
  ASSUME NEW T, NEW a, NEW b, NEW i \in Int, NEW c \in Int, NEW d \in Int, NEW l \in Nat,
         NEW m \in Int, NEW n \in Int, i = c + d, m = i + l - 1, n = c + l - 1,
         \A j \in c .. n : b[j] = a[d + j] /\ b[j] \in T
  PROVE  SubSeq(b, c, n) = SubSeq(a, i, m)
<1>1. \A j \in i .. m : a[j] \in T
  <2>1. ASSUME NEW j \in i .. m PROVE a[j] \in T
    <3>1. PICK k \in c .. n : d + k = j
      <4>1. j - d \in c .. n /\ d + (j - d) = j
        OBVIOUS
      <4> QED BY <4>1
    <3> QED BY <3>1
  <2> QED BY <2>1
<1>2. /\ SubSeq(a, i, m) \in Seq(T) /\ Len(SubSeq(a, i, m)) = l
      /\ \A j \in 1..l : SubSeq(a, i, m)[j] = a[i + j - 1]
  BY <1>1, PartProperties
<1>3. /\ SubSeq(b, c, n) \in Seq(T) /\ Len(SubSeq(b, c, n)) = l
      /\ \A j \in 1..l : SubSeq(b, c, n)[j] = b[c + j - 1]
  BY PartProperties
<1>4. ASSUME NEW j \in 1..l PROVE SubSeq(b, c, n)[j] = SubSeq(a, i, m)[j]
  <2>1. c + j - 1 \in c .. n /\ d + (c + j - 1) = i + j - 1
    OBVIOUS
  <2>2. b[c + j - 1] = a[d + (c + j - 1)]
    BY <2>1
  <2> QED BY <1>2, <1>3, <2>1, <2>2
<1> QED BY <1>2, <1>3, <1>4, SeqEqual

\* u is the last e letters of s, of at most o, and d letters of s precede them.
LastAt(u, s, o, d, e) ==
  /\ Len(s) = d + e /\ Len(u) = e /\ e <= o /\ (d # 0 => e = o)
  /\ \A i \in 1..e : u[i] = s[d + i]

LEMMA LastProperties ==
  ASSUME NEW T, NEW s \in Seq(T), NEW o \in Nat
  PROVE  /\ LastOf(s, o) \in Seq(T)
         /\ \E d \in Nat, e \in Nat : LastAt(LastOf(s, o), s, o, d, e)
<1>1. PICK m \in Nat : m = Len(s) /\ \A i \in 1..m : s[i] \in T
  BY LenProperties
<1>2. CASE m <= o
  <2>1. LastOf(s, o) = s
    BY <1>1, <1>2 DEF LastOf
  <2>2. /\ Len(s) = 0 + m /\ Len(LastOf(s, o)) = m /\ m <= o
        /\ \A i \in 1..m : 0 + i = i
    BY <1>1, <1>2, <2>1
  <2>3. \A i \in 1..m : LastOf(s, o)[i] = s[0 + i]
    BY <2>1, <2>2
  <2>4. LastOf(s, o) \in Seq(T)
    BY <2>1
  <2>5. LastAt(LastOf(s, o), s, o, 0, m)
    BY <2>2, <2>3 DEF LastAt
  <2> QED BY <2>4, <2>5
<1>3. CASE m > o
  <2>1. PICK d \in Nat, c \in Int : m = d + o /\ c = d + 1 /\ d # 0
    <3>1. m - o \in Nat /\ m - o + 1 \in Int /\ m = (m - o) + o /\ m - o # 0
      BY <1>3
    <3> QED BY <3>1
  <2>2. ~(Len(s) <= o) /\ Len(s) - o + 1 = c
    BY <1>1, <1>3, <2>1
  <2>3. LastOf(s, o) = SubSeq(s, c, m)
    BY <1>1, <2>2 DEF LastOf
  <2>4. m = c + o - 1 /\ \A i \in c .. m : i \in 1..m
    BY <2>1
  <2>5. \A i \in c .. m : s[i] \in T
    BY <1>1, <2>4
  <2>6. /\ SubSeq(s, c, m) \in Seq(T) /\ Len(SubSeq(s, c, m)) = o
        /\ \A i \in 1..o : SubSeq(s, c, m)[i] = s[c + i - 1]
    BY <2>4, <2>5, PartProperties
  <2>7. \A i \in 1..o : c + i - 1 = d + i
    BY <2>1
  <2>8. \A i \in 1..o : LastOf(s, o)[i] = s[d + i]
    BY <2>3, <2>6, <2>7
  <2>9. Len(s) = d + o /\ Len(LastOf(s, o)) = o /\ LastOf(s, o) \in Seq(T)
    BY <1>1, <2>1, <2>3, <2>6
  <2>10. LastAt(LastOf(s, o), s, o, d, o)
    BY <2>8, <2>9 DEF LastAt
  <2> QED BY <2>9, <2>10
<1> QED BY <1>2, <1>3

\* b is u and k more letters, those that a has after s.
MoreAt(b, a, s, d, e, k) ==
  /\ Len(a) = d + e + k /\ Len(b) = e + k
  /\ \A i \in 1 .. e + k : b[i] = a[d + i]
  /\ \A i \in 1 .. d + e : a[i] = s[i]

\* What follows a text's end is what follows the text.
LEMMA LastThenMore ==
  ASSUME NEW T, NEW s \in Seq(T), NEW t \in Seq(T), NEW o \in Nat
  PROVE  \E d \in Nat, e \in Nat, k \in Nat :
           /\ LastAt(LastOf(s, o), s, o, d, e)
           /\ MoreAt(LastOf(s, o) \o t, s \o t, s, d, e, k)
<1>1. PICK d \in Nat, e \in Nat : LastAt(LastOf(s, o), s, o, d, e)
  BY LastProperties
<1>2. PICK u \in Seq(T) : u = LastOf(s, o)
  BY LastProperties
<1>3. PICK k \in Nat : k = Len(t)
  BY LenProperties
<1>4. /\ Len(s) = d + e /\ Len(u) = e /\ \A i \in 1..e : u[i] = s[d + i]
  BY <1>1, <1>2 DEF LastAt
<1>5. /\ Len(s \o t) = Len(s) + Len(t)
      /\ \A i \in 1 .. Len(s) + Len(t) : (s \o t)[i] = IF i <= Len(s) THEN s[i] ELSE t[i - Len(s)]
  BY ConcatProperties
<1>6. /\ Len(u \o t) = Len(u) + Len(t)
      /\ \A i \in 1 .. Len(u) + Len(t) : (u \o t)[i] = IF i <= Len(u) THEN u[i] ELSE t[i - Len(u)]
  BY ConcatProperties
<1>7. PICK m \in Nat : m = d + e
  OBVIOUS
<1>8. /\ Len(s \o t) = m + k
      /\ \A i \in 1 .. m + k : (s \o t)[i] = IF i <= m THEN s[i] ELSE t[i - m]
  BY <1>3, <1>4, <1>5, <1>7
<1>9. /\ Len(u \o t) = e + k
      /\ \A i \in 1 .. e + k : (u \o t)[i] = IF i <= e THEN u[i] ELSE t[i - e]
  BY <1>3, <1>4, <1>6
<1>10. ASSUME NEW i \in 1 .. e + k PROVE (u \o t)[i] = (s \o t)[d + i]
  <2>1. d + i \in 1 .. m + k /\ (i <= e <=> d + i <= m) /\ (d + i) - m = i - e
    BY <1>7
  <2>2. CASE i <= e
    <3>1. (s \o t)[d + i] = s[d + i]
      BY <1>8, <2>1, <2>2
    <3>2. (u \o t)[i] = u[i] /\ i \in 1..e
      BY <1>9, <2>2
    <3> QED BY <1>4, <3>1, <3>2
  <2>3. CASE ~(i <= e)
    <3>1. (s \o t)[d + i] = t[(d + i) - m]
      BY <1>8, <2>1, <2>3
    <3>2. (u \o t)[i] = t[i - e]
      BY <1>9, <2>3
    <3> QED BY <2>1, <3>1, <3>2
  <2> QED BY <2>2, <2>3
<1>11. \A i \in 1 .. d + e : (s \o t)[i] = s[i]
  <2>1. \A i \in 1 .. d + e : i \in 1 .. m + k /\ i <= m
    BY <1>7
  <2> QED BY <1>8, <2>1
<1>12. MoreAt(u \o t, s \o t, s, d, e, k)
  BY <1>7, <1>8, <1>9, <1>10, <1>11 DEF MoreAt
<1> QED BY <1>1, <1>2, <1>12

\* The end of a text is found from the end kept of its first part.
LEMMA LastOfLast ==
  ASSUME NEW T, NEW s \in Seq(T), NEW t \in Seq(T), NEW o \in Nat
  PROVE  LastOf(LastOf(s, o) \o t, o) = LastOf(s \o t, o)
<1>1. PICK a \in Seq(T) : a = s \o t
  BY ConcatProperties
<1>2. PICK u \in Seq(T) : u = LastOf(s, o)
  BY LastProperties
<1>3. PICK b \in Seq(T) : b = u \o t
  BY ConcatProperties
<1>4. PICK d \in Nat, e \in Nat, k \in Nat : LastAt(u, s, o, d, e) /\ MoreAt(b, a, s, d, e, k)
  BY <1>1, <1>2, <1>3, LastThenMore
<1>5. PICK x \in Seq(T), p \in Nat, n \in Nat : x = LastOf(a, o) /\ LastAt(x, a, o, p, n)
  BY LastProperties
<1>6. PICK y \in Seq(T), q \in Nat, r \in Nat : y = LastOf(b, o) /\ LastAt(y, b, o, q, r)
  BY LastProperties
<1>7. /\ (d # 0 => e = o) /\ Len(a) = d + e + k /\ Len(b) = e + k
      /\ \A i \in 1 .. e + k : b[i] = a[d + i]
  BY <1>4 DEF LastAt, MoreAt
<1>8. /\ Len(a) = p + n /\ Len(x) = n /\ n <= o /\ (p # 0 => n = o)
      /\ \A i \in 1..n : x[i] = a[p + i]
  BY <1>5 DEF LastAt
<1>9. /\ Len(b) = q + r /\ Len(y) = r /\ r <= o /\ (q # 0 => r = o)
      /\ \A i \in 1..r : y[i] = b[q + i]
  BY <1>6 DEF LastAt
<1>10. n = r /\ p = d + q /\ e + k = q + r
  BY <1>7, <1>8, <1>9
<1>11. ASSUME NEW i \in 1..n PROVE x[i] = y[i]
  <2>1. q + i \in 1 .. e + k /\ d + (q + i) = p + i
    BY <1>10
  <2>2. b[q + i] = a[d + (q + i)]
    BY <1>7, <2>1
  <2> QED BY <1>8, <1>9, <1>10, <2>1, <2>2
<1>12. x = y
  BY <1>8, <1>9, <1>10, <1>11, SeqEqual
<1> QED BY <1>1, <1>2, <1>3, <1>5, <1>6, <1>12

\* A phrase that fits where the windows overlap cannot hide between two of them.
LEMMA NothingBetween ==
  ASSUME NEW T, NEW s \in Seq(T), NEW t \in Seq(T), NEW o \in Nat, NEW p, NEW l \in Nat,
         l = Len(p), l <= o + 1, ~Contains(s, p), ~Contains(LastOf(s, o) \o t, p)
  PROVE  ~Contains(s \o t, p)
<1>1. PICK a \in Seq(T) : a = s \o t
  BY ConcatProperties
<1>2. PICK u \in Seq(T) : u = LastOf(s, o)
  BY LastProperties
<1>3. PICK b \in Seq(T) : b = u \o t
  BY ConcatProperties
<1>4. PICK d \in Nat, e \in Nat, k \in Nat : LastAt(u, s, o, d, e) /\ MoreAt(b, a, s, d, e, k)
  BY <1>1, <1>2, <1>3, LastThenMore
<1>5. /\ Len(s) = d + e /\ (d # 0 => e = o) /\ Len(a) = d + e + k /\ Len(b) = e + k
      /\ \A i \in 1 .. e + k : b[i] = a[d + i]
      /\ \A i \in 1 .. d + e : a[i] = s[i]
  BY <1>4 DEF LastAt, MoreAt
<1>6. \A i \in 1 .. d + e + k : a[i] \in T
  BY <1>5, LenProperties
<1>7. SUFFICES ASSUME NEW i \in 1 .. d + e + k, i + l - 1 <= d + e + k,
                      SubSeq(a, i, i + l - 1) = p
               PROVE  FALSE
  BY <1>1, <1>5 DEF Contains
<1>8. PICK h \in Int : h = i + l - 1
  <2>1. i + l - 1 \in Int
    OBVIOUS
  <2> QED BY <2>1
<1>9. \A j \in i .. h : a[j] \in T
  <2>1. \A j \in i .. h : j \in 1 .. d + e + k
    BY <1>7, <1>8
  <2> QED BY <1>6, <2>1
<1>10. CASE i <= d + e /\ h <= d + e
  <2>1. \A j \in i .. h : j \in 1 .. d + e /\ j = 0 + j
    BY <1>10
  <2>2. \A j \in i .. h : s[j] = a[0 + j] /\ s[j] \in T
    BY <1>5, <1>9, <2>1
  <2>3. i = i + 0 /\ 0 \in Int /\ i \in Int /\ i \in 1 .. d + e
    BY <1>10
  <2>4. SubSeq(s, i, h) = SubSeq(a, i, h)
    BY <1>8, <2>2, <2>3, ShiftedLetters
  <2> QED BY <1>5, <1>7, <1>8, <1>10, <2>3, <2>4 DEF Contains
<1>11. CASE ~(i <= d + e /\ h <= d + e)
  <2>1. /\ i - d >= 1 /\ i - d <= e + k /\ i - d \in Int
        /\ (i - d) + l - 1 \in Int
    <3>1. d # 0 => e = o
      BY <1>5
    <3> QED BY <1>8, <1>11, <3>1
  <2>2. PICK c \in Int : c = i - d
    BY <2>1
  <2>3. PICK g \in Int : g = c + l - 1
    BY <2>1, <2>2
  <2>4. i = c + d /\ c \in 1 .. e + k /\ g <= e + k /\ i \in Int /\ d \in Int
    BY <1>7, <1>8, <2>1, <2>2, <2>3
  <2>5. \A j \in c .. g : j \in 1 .. e + k /\ d + j \in i .. h
    BY <1>8, <2>2, <2>3, <2>4
  <2>6. \A j \in c .. g : b[j] = a[d + j] /\ b[j] \in T
    BY <1>5, <1>9, <2>5
  <2>7. SubSeq(b, c, g) = SubSeq(a, i, h)
    BY <1>8, <2>3, <2>4, <2>6, ShiftedLetters
  <2> QED BY <1>2, <1>3, <1>5, <1>7, <1>8, <2>3, <2>4, <2>7 DEF Contains
<1> QED BY <1>10, <1>11

Texts == Seq(ForPaid.Tokens)

\* The same of the requests' windows: what is kept of what was shown, and what is shown
\* after a window in which no phrase was found.
LEMMA EndsOfTexts ==
  ASSUME NEW s \in Texts, NEW t \in Texts
  PROVE  /\ s \o t \in Texts /\ s \o <<>> = s /\ Paid!EndOf(s) \in Texts
         /\ Paid!EndOf(Paid!EndOf(s) \o t) = Paid!EndOf(s \o t)
         /\ ~Paid!HasPhrase(s) /\ ~Paid!HasPhrase(Paid!EndOf(s) \o t) =>
              ~Paid!HasPhrase(s \o t)
<1>1. PICK T : T = ForPaid.Tokens
  OBVIOUS
<1>2. PICK o \in Nat : o = ForPaid.Overlap
  BY PaidBounds
<1>3. PICK p \in Seq(T) : p = ForPaid.Phrase
  BY <1>1, PaidBounds
<1>4. PICK l \in Nat : l = Len(p) /\ l <= o + 1
  BY <1>2, <1>3, LenProperties, PaidBounds
<1>5. \A x : Paid!EndOf(x) = LastOf(x, o)
  BY <1>2 DEF Paid!EndOf, LastOf
<1>6. \A x : Paid!HasPhrase(x) <=> Contains(x, p)
  BY <1>3 DEF Paid!HasPhrase, Contains
<1>7. s \in Seq(T) /\ t \in Seq(T)
  BY <1>1 DEF Texts
<1>8. s \o t \in Seq(T) /\ s \o <<>> = s /\ LastOf(s, o) \in Seq(T)
  BY <1>7, ConcatProperties, ConcatEmptySeq, LastProperties
<1>9. LastOf(LastOf(s, o) \o t, o) = LastOf(s \o t, o)
  BY <1>7, LastOfLast
<1>10. ~Contains(s, p) /\ ~Contains(LastOf(s, o) \o t, p) => ~Contains(s \o t, p)
  BY <1>4, <1>7, NothingBetween
<1> QED BY <1>1, <1>5, <1>6, <1>8, <1>9, <1>10 DEF Texts

-----------------------------------------------------------------------------
(* The invariant, in the module's variables *)

PaidBreaker ==
  [state : {"closed", "open", "half-open"}, failures : 0..ForPaid.Threshold,
   successes : 0..ForPaid.Probes, since : 0..ForPaid.MaxTime]
PaidEntries == [1..2 -> [Paid!Actors -> SUBSET [req : Calls, at : 0..ForPaid.MaxTime]]]

\* What a request's place says, and what it holds of the text it shows.
Placed(r, t) ==
  /\ r.at <= t
  /\ r.pc # "new" => r.actor \in Paid!Actors /\ r.kind \in ForPaid.Kinds
  /\ r.pc = "new" => r = Paid!Blank
  /\ r.pc \in {"count", "undo", "cap", "allowance", "consume", "work"} => r.kind # "name"
  /\ r.pc \in {"count", "undo"} => Len(r.times) = r.rule - 1
  /\ r.pc = "cap" => Len(r.times) = 1
  /\ r.pc \in {"allowance", "consume"} => Len(r.times) = 2 /\ r.actor \in ForPaid.Guests
  /\ r.pc = "consume" => r.limit \in ForPaid.Allowances
  /\ r.pc = "open" => r.kind = "stream"
  /\ r.pc \in {"source", "whole"} => r.side = "output"
  /\ Paid!Paid(r) => Len(r.times) = 2

Veiled(r) ==
  /\ r.pc # "end" => /\ r.acted = "none" /\ ~r.failed /\ r.result = None
                     /\ r.tail = Paid!EndOf(r.shown)
                     /\ r.side = "output" => r.kind = "stream"
  /\ ~Paid!HasPhrase(r.shown)
  /\ r.acted # "none" => r.pc = "end" /\ r.result = "rejected"
  /\ r.kind # "name" /\ r.failed => r.pc = "end" /\ r.result = "rejected"

RequestHolds(r, t) == r \in Paid!Held /\ Placed(r, t) /\ Veiled(r)

\* The requests of an actor that a rule counted in the window at t, with their entries;
\* and those of a guest that are past the limits.
Windowed(R, t, i, a) ==
  {q \in Calls : R[q].actor = a /\ Len(R[q].times) >= i /\ R[q].times[i] + ForPaid.Span[i] > t}
PaidOf(R, g) == {q \in Calls : R[q].actor = g /\ Paid!Paid(R[q])}

WindowsHold(R, t, E) ==
  \A i \in 1..2 :
    /\ \A q \in Calls :
         Len(R[q].times) >= i /\ R[q].times[i] + ForPaid.Span[i] > t =>
           [req |-> q, at |-> R[q].times[i]] \in E[i][R[q].actor]
    /\ \A a \in Paid!Actors :
         IsFiniteSet(E[i][a]) /\ Cardinality(Windowed(R, t, i, a)) <= ForPaid.Cap[i]

GuestsHold(R, U) ==
  \A g \in ForPaid.Guests :
    /\ IsFiniteSet(PaidOf(R, g)) /\ Cardinality(PaidOf(R, g)) <= U[g]
    /\ \E n \in ForPaid.Allowances : U[g] <= n

PaidHolds(t, S, E, U, A, B, R) ==
  /\ t \in 0..ForPaid.MaxTime /\ S \in ForPaid.Stores /\ A \in ForPaid.Allowances
  /\ E \in PaidEntries /\ U \in [ForPaid.Guests -> 0..10] /\ B \in PaidBreaker
  /\ R \in [Calls -> Paid!Held]
  /\ \A q \in Calls : RequestHolds(R[q], t)
  /\ WindowsHold(R, t, E) /\ GuestsHold(R, U)

LEMMA PaidCounts ==
  /\ \A S : Paid!IsFiniteSet(S) <=> IsFiniteSet(S)
  /\ \A S : Paid!Cardinality(S) = Cardinality(S)
  BY DEF Paid!IsFiniteSet, IsFiniteSet, Paid!Cardinality, Cardinality

LEMMA PaidParts ==
  /\ Paid!IInv <=> PaidHolds(v1, v2, v3, v4, v5, v6, v7)
  /\ Paid!IInv' <=> PaidHolds(v1', v2', v3', v4', v5', v6', v7')
<1>1. Paid!TypeOK <=>
        /\ v1 \in 0..ForPaid.MaxTime /\ v2 \in ForPaid.Stores /\ v5 \in ForPaid.Allowances
        /\ v3 \in PaidEntries /\ v4 \in [ForPaid.Guests -> 0..10] /\ v6 \in PaidBreaker
        /\ v7 \in [Calls -> Paid!Held]
  BY DEF Paid!TypeOK, PaidEntries, PaidBreaker
<1>2. Paid!TypeOK' <=>
        /\ v1' \in 0..ForPaid.MaxTime /\ v2' \in ForPaid.Stores /\ v5' \in ForPaid.Allowances
        /\ v3' \in PaidEntries /\ v4' \in [ForPaid.Guests -> 0..10] /\ v6' \in PaidBreaker
        /\ v7' \in [Calls -> Paid!Held]
  BY DEF Paid!TypeOK, PaidEntries, PaidBreaker
<1>3. \A i, a : Paid!InWindow(i, a) = Windowed(v7, v1, i, a)
  BY DEF Paid!InWindow, Windowed
<1>4. \A i, a : Paid!InWindow(i, a)' = Windowed(v7', v1', i, a)
  BY DEF Paid!InWindow, Windowed
<1>5. \A g : Paid!PaidBy(g) = PaidOf(v7, g)
  BY DEF Paid!PaidBy, PaidOf
<1>6. \A g : Paid!PaidBy(g)' = PaidOf(v7', g)
  BY DEF Paid!PaidBy, PaidOf
<1>7. Paid!InPlace /\ Paid!ScreenedSoFar /\ Paid!OnlyScreenedIsShown
        /\ (\A q \in Calls : Paid!Paid(v7[q]) => Len(v7[q].times) = 2) <=>
      \A q \in Calls : Placed(v7[q], v1) /\ Veiled(v7[q])
  BY DEF Paid!InPlace, Paid!ScreenedSoFar, Paid!OnlyScreenedIsShown, Placed, Veiled
<1>8. Paid!InPlace' /\ Paid!ScreenedSoFar' /\ Paid!OnlyScreenedIsShown'
        /\ (\A q \in Calls : Paid!Paid(v7'[q]) => Len(v7'[q].times) = 2) <=>
      \A q \in Calls : Placed(v7'[q], v1') /\ Veiled(v7'[q])
  BY DEF Paid!InPlace, Paid!ScreenedSoFar, Paid!OnlyScreenedIsShown, Placed, Veiled
<1>9. Paid!CountedIsLogged
        /\ (\A i \in 1..2, a \in Paid!Actors : Cardinality(Windowed(v7, v1, i, a)) <= ForPaid.Cap[i])
      <=> WindowsHold(v7, v1, v3)
  BY PaidCounts DEF Paid!CountedIsLogged, WindowsHold
<1>10. Paid!CountedIsLogged'
         /\ (\A i \in 1..2, a \in Paid!Actors : Cardinality(Windowed(v7', v1', i, a)) <= ForPaid.Cap[i])
       <=> WindowsHold(v7', v1', v3')
  BY PaidCounts DEF Paid!CountedIsLogged, WindowsHold
<1>11. Paid!CountedBeforePaid <=>
         /\ \A i \in 1..2, a \in Paid!Actors : Cardinality(Windowed(v7, v1, i, a)) <= ForPaid.Cap[i]
         /\ \A g \in ForPaid.Guests : /\ Cardinality(PaidOf(v7, g)) <= v4[g]
                                      /\ \E n \in ForPaid.Allowances : v4[g] <= n
         /\ \A q \in Calls : Paid!Paid(v7[q]) => Len(v7[q].times) = 2
  BY <1>3, <1>5, PaidCounts DEF Paid!CountedBeforePaid
<1>12. Paid!CountedBeforePaid' <=>
         /\ \A i \in 1..2, a \in Paid!Actors : Cardinality(Windowed(v7', v1', i, a)) <= ForPaid.Cap[i]
         /\ \A g \in ForPaid.Guests : /\ Cardinality(PaidOf(v7', g)) <= v4'[g]
                                      /\ \E n \in ForPaid.Allowances : v4'[g] <= n
         /\ \A q \in Calls : Paid!Paid(v7'[q]) => Len(v7'[q].times) = 2
  BY <1>4, <1>6, PaidCounts DEF Paid!CountedBeforePaid
<1>13. Paid!PaidAreFinite <=> \A g \in ForPaid.Guests : IsFiniteSet(PaidOf(v7, g))
  BY <1>5, PaidCounts DEF Paid!PaidAreFinite
<1>14. Paid!PaidAreFinite' <=> \A g \in ForPaid.Guests : IsFiniteSet(PaidOf(v7', g))
  BY <1>6, PaidCounts DEF Paid!PaidAreFinite
<1>15. v7 \in [Calls -> Paid!Held] => \A q \in Calls : v7[q] \in Paid!Held
  OBVIOUS
<1>16. v7' \in [Calls -> Paid!Held] => \A q \in Calls : v7'[q] \in Paid!Held
  OBVIOUS
<1>17. Paid!IInv <=> PaidHolds(v1, v2, v3, v4, v5, v6, v7)
  BY <1>1, <1>7, <1>9, <1>11, <1>13, <1>15 DEF Paid!IInv, PaidHolds, RequestHolds, GuestsHold
<1>18. Paid!IInv' <=> PaidHolds(v1', v2', v3', v4', v5', v6', v7')
  BY <1>2, <1>8, <1>10, <1>12, <1>14, <1>16 DEF Paid!IInv, PaidHolds, RequestHolds, GuestsHold
<1> QED BY <1>17, <1>18

-----------------------------------------------------------------------------
(* Requests that go on and requests that end *)

\* s may follow r, at time t, with nothing counted or taken.
Follows(s, r, t) ==
  /\ RequestHolds(s, t) /\ s.times = r.times
  /\ s.actor = r.actor \/ (s.times = <<>> /\ ~Paid!Paid(s))
  /\ Paid!Paid(s) => Paid!Paid(r)

Refusals == {"limited", "unavailable", "invalid"}

LEMMA EndHolds ==
  ASSUME NEW t \in 0..ForPaid.MaxTime, NEW r \in Paid!Held, NEW result \in Paid!Results,
         r.actor \in Paid!Actors, r.kind \in ForPaid.Kinds, ~Paid!HasPhrase(r.shown),
         r.acted # "none" => result = "rejected",
         r.kind # "name" /\ r.failed => result = "rejected",
         result \in Refusals \/ (r.kind \in {"process", "stream"} => Len(r.times) = 2)
  PROVE  LET e == Paid!Ended(r, result)
         IN /\ RequestHolds(e, t) /\ e.times = r.times /\ e.actor = r.actor
            /\ Paid!Paid(e) => r.kind \in {"process", "stream"} /\ result \notin Refusals
<1> DEFINE e == Paid!Ended(r, result)
<1>a. PICK b \in Paid!Held : b = Paid!Blank
  <2>1. 0 \in 0..ForPaid.MaxTime /\ 1 \in 1..2
    BY PaidBounds
  <2>2. <<>> \in Seq(0..ForPaid.MaxTime) /\ <<>> \in Seq(ForPaid.Tokens)
        /\ <<>> \in Seq(Seq(ForPaid.Tokens))
    OBVIOUS
  <2>3. Paid!Blank \in Paid!Held
    BY <2>1, <2>2 DEF Paid!Held, Paid!PC, Paid!Blank
  <2> QED BY <2>3
<1>b. b.at = 0 /\ b.matches = {} /\ b.side = "input"
  BY <1>a DEF Paid!Blank
<1>1. e = [b EXCEPT !.pc = "end", !.result = result, !.actor = r.actor, !.kind = r.kind,
                    !.times = r.times, !.failed = r.failed, !.acted = r.acted,
                    !.shown = r.shown]
  BY <1>a DEF Paid!Ended
<1> HIDE DEF e
<1>2. /\ e.pc = "end" /\ e.actor = r.actor /\ e.kind = r.kind /\ e.at = 0
      /\ e.times = r.times /\ e.acted = r.acted /\ e.shown = r.shown /\ e.result = result
  BY <1>1, <1>b DEF Paid!Held
<1>3. e.failed = r.failed /\ e.matches = {} /\ e.side = "input"
  BY <1>1, <1>b DEF Paid!Held
<1>4. e \in Paid!Held
  <2>1. "end" \in Paid!PC
    BY DEF Paid!PC
  <2> QED BY <1>1, <2>1 DEF Paid!Held
<1>5. Paid!Paid(e) <=> r.kind \in {"process", "stream"} /\ result \in {"done", "rejected", "failed", "gone"}
  BY <1>2 DEF Paid!Paid
<1>6. Placed(e, t)
  <2>1. 0 <= t
    BY PaidBounds
  <2> QED BY <1>2, <1>5, <2>1 DEF Placed, Refusals
<1>7. Veiled(e)
  BY <1>2, <1>3 DEF Veiled
<1> QED BY <1>2, <1>4, <1>5, <1>6, <1>7 DEF RequestHolds, Refusals, e

\* A request that is under way may be refused before it costs anything, and end
\* in any way when it does.
LEMMA EndFollows ==
  ASSUME NEW t \in 0..ForPaid.MaxTime, NEW r, RequestHolds(r, t), NEW result \in Paid!Results,
         r.pc \notin {"new", "end"},
         result \in Refusals \/ r.pc \in {"screen", "asked", "work", "open", "source", "whole"}
  PROVE  Follows(Paid!Ended(r, result), r, t)
<1>1. /\ r \in Paid!Held /\ r.actor \in Paid!Actors /\ r.kind \in ForPaid.Kinds
      /\ ~Paid!HasPhrase(r.shown)
      /\ r.acted = "none" /\ ~r.failed /\ (Paid!Paid(r) => Len(r.times) = 2)
  BY DEF RequestHolds, Placed, Veiled
<1>2. result \in Refusals \/ (r.kind \in {"process", "stream"} => Paid!Paid(r))
  BY DEF Paid!Paid
<1>3. LET e == Paid!Ended(r, result)
      IN /\ RequestHolds(e, t) /\ e.times = r.times /\ e.actor = r.actor
         /\ Paid!Paid(e) => r.kind \in {"process", "stream"} /\ result \notin Refusals
  BY <1>1, <1>2, EndHolds
<1> QED BY <1>2, <1>3 DEF Follows

\* A stream the model's text of which is being shown.
Streaming(s, t) ==
  /\ s \in Paid!Held /\ s.side = "output" /\ s.kind = "stream" /\ s.acted = "none" /\ ~s.failed
  /\ s.result = None /\ s.tail = Paid!EndOf(s.shown) /\ ~Paid!HasPhrase(s.shown)
  /\ s.actor \in Paid!Actors /\ s.kind \in ForPaid.Kinds /\ s.at <= t /\ Len(s.times) = 2

LEMMA StreamingHolds ==
  ASSUME NEW t \in 0..ForPaid.MaxTime, NEW r, RequestHolds(r, t), r.side = "output",
         r.pc \in {"screen", "asked", "source", "whole"}
  PROVE  Streaming(r, t) /\ Paid!Paid(r)
<1>1. r.kind = "stream"
  BY DEF RequestHolds, Veiled
<1>2. Paid!Paid(r)
  BY <1>1 DEF Paid!Paid
<1> QED BY <1>1, <1>2 DEF RequestHolds, Placed, Veiled, Streaming

\* It goes on with the source or to be screened.
LEMMA StreamGoesOn ==
  ASSUME NEW t \in 0..ForPaid.MaxTime, NEW s, Streaming(s, t), NEW pc \in {"source", "screen", "whole", "asked"}
  PROVE  LET n == [s EXCEPT !.pc = pc]
         IN RequestHolds(n, t) /\ n.times = s.times /\ n.actor = s.actor
<1> DEFINE n == [s EXCEPT !.pc = pc]
<1>1. s \in Paid!Held
  BY DEF Streaming
<1>2. n \in Paid!Held /\ n.pc = pc
  <2>1. pc \in Paid!PC
    BY DEF Paid!PC
  <2> QED BY <1>1, <2>1 DEF Paid!Held
<1>3. /\ n.actor = s.actor /\ n.kind = s.kind /\ n.at = s.at /\ n.times = s.times
      /\ n.side = s.side /\ n.acted = s.acted /\ n.failed = s.failed /\ n.result = s.result
      /\ n.tail = s.tail /\ n.shown = s.shown
  BY <1>1 DEF Paid!Held
<1> HIDE DEF n
<1>4. Placed(n, t)
  BY <1>2, <1>3 DEF Streaming, Placed
<1>5. Veiled(n)
  BY <1>2, <1>3 DEF Streaming, Veiled
<1> QED BY <1>2, <1>3, <1>4, <1>5 DEF RequestHolds, n

LEMMA ReleaseHolds ==
  ASSUME NEW t \in 0..ForPaid.MaxTime, NEW s, Streaming(s, t), ~Paid!HasPhrase(s.shown \o s.pending)
  PROVE  LET n == Paid!Release(s)
         IN RequestHolds(n, t) /\ n.times = s.times /\ n.actor = s.actor
<1> DEFINE u == [s EXCEPT !.shown = @ \o s.pending, !.tail = Paid!Tail_(s), !.pending = <<>>]
<1>1. s \in Paid!Held
  BY DEF Streaming
<1>2. s.shown \in Texts /\ s.pending \in Texts /\ s.tail = Paid!EndOf(s.shown)
  BY <1>1 DEF Paid!Held, Texts, Streaming
<1>3. Paid!Tail_(s) = Paid!EndOf(s.shown \o s.pending) /\ s.shown \o s.pending \in Texts
  BY <1>2, EndsOfTexts DEF Paid!Tail_
<1>4. Paid!Tail_(s) \in Texts
  BY <1>3, EndsOfTexts
<1>5. u \in Paid!Held
  <2>1. <<>> \in Seq(ForPaid.Tokens)
    OBVIOUS
  <2> QED BY <1>1, <1>3, <1>4, <2>1 DEF Paid!Held, Texts
<1>6. /\ u.actor = s.actor /\ u.kind = s.kind /\ u.at = s.at /\ u.times = s.times
      /\ u.side = s.side /\ u.acted = s.acted /\ u.failed = s.failed /\ u.result = s.result
      /\ u.tail = Paid!Tail_(s) /\ u.shown = s.shown \o s.pending /\ u.last = s.last
  BY <1>1 DEF Paid!Held
<1>7. Paid!Release(s) = IF s.last THEN Paid!Ended(u, "done") ELSE [u EXCEPT !.pc = "source"]
  BY DEF Paid!Release
<1> HIDE DEF u
<1>8. Streaming(u, t)
  BY <1>3, <1>5, <1>6 DEF Streaming
<1>9. CASE s.last
  <2>1. "done" \in Paid!Results /\ u.actor \in Paid!Actors /\ u.kind \in ForPaid.Kinds /\ ~Paid!HasPhrase(u.shown)
        /\ u.acted = "none" /\ ~u.failed /\ Len(u.times) = 2
    BY <1>8 DEF Streaming, Paid!Results
  <2>2. LET e == Paid!Ended(u, "done")
        IN RequestHolds(e, t) /\ e.times = u.times /\ e.actor = u.actor
    BY <1>5, <2>1, EndHolds
  <2> QED BY <1>6, <1>7, <1>9, <2>2
<1>10. CASE ~s.last
  <2>1. LET n == [u EXCEPT !.pc = "source"]
        IN RequestHolds(n, t) /\ n.times = u.times /\ n.actor = u.actor
    BY <1>8, StreamGoesOn
  <2> QED BY <1>6, <1>7, <1>10, <2>1
<1> QED BY <1>9, <1>10

LEMMA ScreenedHolds ==
  ASSUME NEW t \in 0..ForPaid.MaxTime, NEW s, Streaming(s, t)
  PROVE  LET n == Paid!Screened(s)
         IN RequestHolds(n, t) /\ n.times = s.times /\ n.actor = s.actor
<1>1. CASE s.pending = <<>>
  <2>1. s.shown \in Texts /\ ~Paid!HasPhrase(s.shown)
    BY DEF Streaming, Paid!Held, Texts
  <2>2. ~Paid!HasPhrase(s.shown \o s.pending)
    BY <1>1, <2>1, EndsOfTexts
  <2> QED BY <1>1, <2>2, ReleaseHolds DEF Paid!Screened
<1>2. CASE s.pending # <<>>
  BY <1>2, StreamGoesOn DEF Paid!Screened
<1> QED BY <1>1, <1>2

-----------------------------------------------------------------------------
(* Decisions *)

\* An unsafe verdict lets nothing through outright at the strictest level or the strict
\* thresholds; one of the classifier's failures escalates.
LEMMA UnsafeIsNotAllowed ==
  ASSUME NEW m, NEW v \in Paid!Verdict, ~v.safe, NEW h \in {Paid!Seeded(1), Paid!Strict}
  PROVE  Paid!Decision(m, v, h, 0) # "allow"
<1>1. PICK c \in Nat, y \in Nat : c = v.confidence /\ y = v.severity
  BY DEF Paid!Verdict, Paid!Severity
<1>2. Paid!Reduced(v.severity, 0) = y
  BY <1>1 DEF Paid!Reduced
<1>3. h.warn = 0 /\ h.below \in Nat /\ h.block \in Nat
  BY DEF Paid!Seeded, Paid!Strict
<1>4. Paid!Decision(m, v, h, 0) =
        CASE c < h.below -> "escalate"
          [] c >= h.below /\ y >= h.block -> "block"
          [] c >= h.below /\ y < h.block /\ y >= h.warn -> "warn"
          [] OTHER -> "allow"
  BY <1>1, <1>2 DEF Paid!Decision
<1> QED BY <1>1, <1>3, <1>4

LEMMA FailureEscalates ==
  ASSUME NEW m, NEW h \in {Paid!Seeded(1), Paid!Strict}
  PROVE  Paid!Decision(m, Paid!FailedVerdict, h, 0) = "escalate"
  BY DEF Paid!Decision, Paid!FailedVerdict, Paid!Seeded, Paid!Strict

LEMMA DecisionsAreActions ==
  ASSUME NEW m, NEW v, NEW h
  PROVE  Paid!Decision(m, v, h, 0) \in Paid!Actions
  BY DEF Paid!Decision, Paid!Actions

\* What may be decided of r, f telling that its screening has failed.
Granted(r, action, f) ==
  /\ action \in Paid!Actions
  /\ f => action \notin {"allow", "warn"} \/ r.kind = "name"
  /\ r.side = "output" /\ action = "allow" => ~f /\ ~Paid!HasPhrase(r.tail \o r.pending)

LEMMA AfterFollows ==
  ASSUME NEW t \in 0..ForPaid.MaxTime, NEW r, RequestHolds(r, t), r.pc \in {"screen", "asked"},
         NEW action, NEW f \in BOOLEAN, Granted(r, action, f)
  PROVE  Follows(Paid!After([r EXCEPT !.failed = f], action), r, t)
<1> DEFINE z == [r EXCEPT !.failed = f]
           s == [z EXCEPT !.acted = Paid!Consequence(z, action), !.matches = {}]
<1>1. /\ r \in Paid!Held /\ r.actor \in Paid!Actors /\ r.kind \in ForPaid.Kinds
      /\ ~Paid!HasPhrase(r.shown)
      /\ r.acted = "none" /\ ~r.failed /\ r.result = None /\ r.at <= t
      /\ r.tail = Paid!EndOf(r.shown) /\ (r.side = "output" => r.kind = "stream")
      /\ Paid!Paid(r) => Len(r.times) = 2
  BY DEF RequestHolds, Placed, Veiled
<1>2. r.kind \in {"process", "stream"} => Paid!Paid(r)
  BY DEF Paid!Paid
<1>3. z \in Paid!Held /\ z.failed = f /\ z.side = r.side /\ z.kind = r.kind
      /\ z.actor = r.actor /\ z.acted = "none" /\ z.times = r.times /\ z.shown = r.shown
      /\ z.tail = r.tail /\ z.pending = r.pending /\ z.at = r.at /\ z.result = None
      /\ z.pc = r.pc
  BY <1>1 DEF Paid!Held
<1>4. /\ Paid!Consequence(z, action) \in {"none", "strike", "review"}
      /\ Paid!Consequence(z, action) # "none" =>
           r.side # "output" /\ r.kind # "name" /\ action \in {"block", "escalate"}
  BY <1>3 DEF Paid!Consequence
<1>5. s \in Paid!Held /\ s.failed = f /\ s.side = r.side /\ s.kind = r.kind
      /\ s.actor = r.actor /\ s.acted = Paid!Consequence(z, action) /\ s.times = r.times
      /\ s.shown = r.shown /\ s.tail = r.tail /\ s.pending = r.pending /\ s.at = r.at
      /\ s.result = None /\ s.pc = r.pc
  BY <1>3, <1>4 DEF Paid!Held
<1>6. Paid!After(z, action) =
        IF z.side = "output"
        THEN IF Paid!OutputPasses(action) THEN Paid!Release(s) ELSE Paid!Ended(s, "rejected")
        ELSE IF ~Paid!InputPasses(action) THEN Paid!Ended(s, "rejected")
             ELSE CASE z.kind = "process" -> [s EXCEPT !.pc = "work"]
                    [] z.kind = "stream" -> [s EXCEPT !.pc = "open"]
                    [] z.kind = "name" -> Paid!Ended(s, "done")
  BY DEF Paid!After
<1> HIDE DEF z, s
<1>7. ASSUME NEW n, RequestHolds(n, t), n.times = s.times, n.actor = s.actor,
             Paid!Paid(n) => r.kind \in {"process", "stream"}
      PROVE  Follows(n, r, t)
  BY <1>2, <1>5, <1>7 DEF Follows
<1>8. Follows(Paid!Ended(s, "rejected"), r, t)
  <2>1. "rejected" \in Paid!Results
    BY DEF Paid!Results
  <2>2. LET e == Paid!Ended(s, "rejected")
        IN /\ RequestHolds(e, t) /\ e.times = s.times /\ e.actor = s.actor
           /\ Paid!Paid(e) => s.kind \in {"process", "stream"}
    BY <1>1, <1>2, <1>5, <2>1, EndHolds
  <2> QED BY <1>5, <1>7, <2>2
<1>9. CASE z.side = "output" /\ Paid!OutputPasses(action)
  <2>1. action = "allow" /\ ~f /\ ~Paid!HasPhrase(r.tail \o r.pending)
    BY <1>3, <1>9 DEF Paid!OutputPasses, Granted
  <2>2. r.shown \in Texts /\ r.pending \in Texts
    BY <1>1 DEF Paid!Held, Texts
  <2>3. ~Paid!HasPhrase(s.shown \o s.pending)
    BY <1>1, <1>5, <2>1, <2>2, EndsOfTexts
  <2>4. Streaming(s, t)
    BY <1>1, <1>2, <1>3, <1>4, <1>5, <1>9, <2>1 DEF Streaming
  <2>5. LET n == Paid!Release(s)
        IN RequestHolds(n, t) /\ n.times = s.times /\ n.actor = s.actor
    BY <2>3, <2>4, ReleaseHolds
  <2>6. r.kind \in {"process", "stream"}
    BY <1>1, <1>3, <1>9
  <2> QED BY <1>6, <1>7, <1>9, <2>5, <2>6 DEF z
<1>10. CASE z.side # "output" /\ Paid!InputPasses(action)
  <2>1. action \in {"allow", "warn"} /\ s.acted = "none" /\ (f => r.kind = "name")
    BY <1>4, <1>5, <1>10 DEF Paid!InputPasses, Granted
  <2>2. ASSUME NEW pc \in {"work", "open"}, r.kind = IF pc = "work" THEN "process" ELSE "stream"
        PROVE  Follows([s EXCEPT !.pc = pc], r, t)
    <3> DEFINE n == [s EXCEPT !.pc = pc]
    <3>1. n \in Paid!Held /\ n.pc = pc
      <4>1. pc \in Paid!PC
        BY DEF Paid!PC
      <4> QED BY <1>5, <4>1 DEF Paid!Held
    <3>2. /\ n.actor = s.actor /\ n.kind = s.kind /\ n.at = s.at /\ n.times = s.times
          /\ n.side = s.side /\ n.acted = s.acted /\ n.failed = s.failed
          /\ n.result = s.result /\ n.tail = s.tail /\ n.shown = s.shown
      BY <1>5 DEF Paid!Held
    <3> HIDE DEF n
    <3>3. r.kind \in {"process", "stream"} /\ r.kind # "name"
      BY <2>2
    <3>4. Placed(n, t)
      <4>1. n.pc = "open" => r.kind = "stream"
        BY <2>2, <3>1
      <4> QED BY <1>1, <1>2, <1>5, <3>1, <3>2, <3>3, <4>1 DEF Placed
    <3>5. Veiled(n)
      BY <1>1, <1>5, <2>1, <3>1, <3>2, <3>3 DEF Veiled
    <3>6. RequestHolds(n, t)
      BY <3>1, <3>4, <3>5 DEF RequestHolds
    <3> QED BY <1>7, <3>2, <3>3, <3>6 DEF n
  <2>3. r.kind = "name" => Follows(Paid!Ended(s, "done"), r, t)
    <3> SUFFICES ASSUME r.kind = "name" PROVE Follows(Paid!Ended(s, "done"), r, t)
      OBVIOUS
    <3>1. "done" \in Paid!Results
      BY DEF Paid!Results
    <3>2. LET e == Paid!Ended(s, "done")
          IN /\ RequestHolds(e, t) /\ e.times = s.times /\ e.actor = s.actor
             /\ Paid!Paid(e) => s.kind \in {"process", "stream"}
      BY <1>1, <1>5, <2>1, <3>1, EndHolds
    <3> QED BY <1>5, <1>7, <3>2
  <2>4. r.kind = "process" => Follows([s EXCEPT !.pc = "work"], r, t)
    BY <2>2
  <2>5. r.kind = "stream" => Follows([s EXCEPT !.pc = "open"], r, t)
    BY <2>2
  <2>6. r.kind \in {"process", "stream", "name"}
    BY <1>1, PaidBounds
  <2>7. Paid!After(z, action) =
          CASE r.kind = "process" -> [s EXCEPT !.pc = "work"]
            [] r.kind = "stream" -> [s EXCEPT !.pc = "open"]
            [] r.kind = "name" -> Paid!Ended(s, "done")
    BY <1>3, <1>6, <1>10
  <2> QED BY <2>3, <2>4, <2>5, <2>6, <2>7 DEF z
<1> QED BY <1>6, <1>8, <1>9, <1>10 DEF z

-----------------------------------------------------------------------------
(* What is counted *)

\* The store has the entry of every request that rule i counted in the window at t.
LoggedBy(R, t, E, i) ==
  \A q \in Calls :
    Len(R[q].times) >= i /\ R[q].times[i] + ForPaid.Span[i] > t =>
      [req |-> q, at |-> R[q].times[i]] \in E[i][R[q].actor]

\* A window has no more requests than the store has entries.
LEMMA WindowCounts ==
  ASSUME NEW R, NEW t, NEW E, NEW i, LoggedBy(R, t, E, i), NEW a, IsFiniteSet(E[i][a])
  PROVE  /\ IsFiniteSet(Windowed(R, t, i, a))
         /\ Cardinality(Windowed(R, t, i, a)) <= Cardinality(E[i][a])
<1> DEFINE W == Windowed(R, t, i, a)
           f == [q \in W |-> [req |-> q, at |-> R[q].times[i]]]
<1>1. ASSUME NEW q \in W PROVE [req |-> q, at |-> R[q].times[i]] \in E[i][a]
  BY DEF Windowed, LoggedBy
<1>2. f \in [W -> E[i][a]]
  BY <1>1
<1>3. ASSUME NEW x \in W, NEW y \in W, f[x] = f[y] PROVE x = y
  <2>1. f[x].req = x /\ f[y].req = y
    OBVIOUS
  <2> QED BY <1>3, <2>1
<1> HIDE DEF f, W
<1>4. f \in Injection(W, E[i][a])
  BY <1>2, <1>3 DEF Injection, IsInjective
<1>5. IsFiniteSet(W) /\ Cardinality(W) <= Cardinality(E[i][a])
  BY <1>4, FS_Injection
<1> QED BY <1>5 DEF W

\* A part of a window that was within the rule's cap is so, too.
LEMMA SmallerWindow ==
  ASSUME NEW R, NEW R2, NEW t, NEW t2, NEW E, WindowsHold(R, t, E), NEW i \in 1..2,
         NEW a \in Paid!Actors, Windowed(R2, t2, i, a) \subseteq Windowed(R, t, i, a)
  PROVE  Cardinality(Windowed(R2, t2, i, a)) <= ForPaid.Cap[i]
<1>1. IsFiniteSet(E[i][a]) /\ LoggedBy(R, t, E, i)
      /\ Cardinality(Windowed(R, t, i, a)) <= ForPaid.Cap[i]
  BY DEF WindowsHold, LoggedBy
<1>2. IsFiniteSet(Windowed(R, t, i, a)) /\ IsFiniteSet(E[i][a])
  BY <1>1, WindowCounts
<1>3. /\ IsFiniteSet(Windowed(R2, t2, i, a))
      /\ Cardinality(Windowed(R2, t2, i, a)) <= Cardinality(Windowed(R, t, i, a))
  BY <1>2, FS_Subset
<1>4. PICK m \in Nat, n \in Nat, c \in Nat :
        /\ m = Cardinality(Windowed(R2, t2, i, a)) /\ n = Cardinality(Windowed(R, t, i, a))
        /\ c = ForPaid.Cap[i]
  BY <1>2, <1>3, FS_CardinalityType, PaidBounds
<1> QED BY <1>1, <1>3, <1>4

\* Nothing is counted and nothing that is needed is taken out.
Keeps(R, R2, t, t2, E, E2) ==
  /\ t \in Nat /\ t2 \in Nat /\ t <= t2
  /\ \A q \in Calls : /\ R[q].times \in Seq(Nat) /\ R2[q].times = R[q].times
                      /\ R2[q].actor = R[q].actor \/ R2[q].times = <<>>
  /\ \A i \in 1..2 :
       /\ \A a \in Paid!Actors : IsFiniteSet(E2[i][a])
       /\ \A q \in Calls :
            LET e == [req |-> q, at |-> R[q].times[i]]
            IN Len(R[q].times) >= i /\ e.at + ForPaid.Span[i] > t2 /\ e \in E[i][R[q].actor] =>
                 e \in E2[i][R[q].actor]

LEMMA WindowsKept ==
  ASSUME NEW R, NEW R2, NEW t, NEW t2, NEW E, NEW E2, WindowsHold(R, t, E),
         Keeps(R, R2, t, t2, E, E2)
  PROVE  WindowsHold(R2, t2, E2)
<1> SUFFICES ASSUME NEW i \in 1..2
             PROVE  /\ \A q \in Calls :
                         Len(R2[q].times) >= i /\ R2[q].times[i] + ForPaid.Span[i] > t2 =>
                           [req |-> q, at |-> R2[q].times[i]] \in E2[i][R2[q].actor]
                    /\ \A a \in Paid!Actors :
                         /\ IsFiniteSet(E2[i][a])
                         /\ Cardinality(Windowed(R2, t2, i, a)) <= ForPaid.Cap[i]
  BY DEF WindowsHold
<1>1. ASSUME NEW q \in Calls, Len(R2[q].times) >= i, R2[q].times[i] + ForPaid.Span[i] > t2
      PROVE  /\ Len(R[q].times) >= i /\ R[q].times[i] + ForPaid.Span[i] > t
             /\ R2[q].times = R[q].times /\ R2[q].actor = R[q].actor
  <2>1. PICK x : x = R[q].times /\ x \in Seq(Nat)
    BY DEF Keeps
  <2>2. R2[q].times = x /\ (R2[q].actor = R[q].actor \/ x = <<>>) /\ t <= t2 /\ t \in Nat /\ t2 \in Nat
    BY <2>1 DEF Keeps
  <2>3. Len(x) >= i /\ x # <<>>
    BY <1>1, <2>1, <2>2
  <2>4. PICK n \in Nat : n = x[i]
    BY <2>1, <2>3
  <2>5. PICK m \in Nat : m = ForPaid.Span[i]
    BY PaidBounds
  <2> QED BY <1>1, <2>1, <2>2, <2>3, <2>4, <2>5
<1>2. ASSUME NEW q \in Calls, Len(R2[q].times) >= i, R2[q].times[i] + ForPaid.Span[i] > t2
      PROVE  [req |-> q, at |-> R2[q].times[i]] \in E2[i][R2[q].actor]
  <2>1. /\ Len(R[q].times) >= i /\ R[q].times[i] + ForPaid.Span[i] > t
        /\ R2[q].times = R[q].times /\ R2[q].actor = R[q].actor
    BY <1>1, <1>2
  <2>2. [req |-> q, at |-> R[q].times[i]] \in E[i][R[q].actor]
    BY <2>1 DEF WindowsHold
  <2>3. PICK x : x = R[q].times[i]
    OBVIOUS
  <2>4. PICK e : e = [req |-> q, at |-> x]
    OBVIOUS
  <2>5. e.at = x
    BY <2>4
  <2> QED BY <1>2, <2>1, <2>2, <2>3, <2>4, <2>5 DEF Keeps
<1>3. ASSUME NEW a \in Paid!Actors
      PROVE  IsFiniteSet(E2[i][a]) /\ Cardinality(Windowed(R2, t2, i, a)) <= ForPaid.Cap[i]
  <2>1. Windowed(R2, t2, i, a) \subseteq Windowed(R, t, i, a)
    BY <1>1 DEF Windowed
  <2>2. IsFiniteSet(E2[i][a])
    BY DEF Keeps
  <2> QED BY <2>1, <2>2, SmallerWindow
<1> QED BY <1>2, <1>3

\* Rule n counts q, of actor b, at c; its entries of the actor are then no more than its
\* cap, and those that are still needed are among them.
CountsIn(R, R2, t, E, E2, q, n, b, c) ==
  /\ n \in 1..2 /\ R[q].times \in Seq(Nat) /\ Len(R[q].times) = n - 1
  /\ R[q].actor = b /\ R2[q].actor = b /\ R2[q].times = Append(R[q].times, c)
  /\ \A p \in Calls : p # q => R2[p] = R[p]
  /\ \A i \in 1..2 : \A a \in Paid!Actors : ~(i = n /\ a = b) => E2[i][a] = E[i][a]
  /\ IsFiniteSet(E2[n][b]) /\ Cardinality(E2[n][b]) <= ForPaid.Cap[n]
  /\ [req |-> q, at |-> c] \in E2[n][b]
  /\ \A e \in E[n][b] : e.at + ForPaid.Span[n] > t => e \in E2[n][b]

LEMMA WindowsCount ==
  ASSUME NEW R, NEW R2, NEW t, NEW E, NEW E2, NEW q \in Calls, NEW n, NEW b \in Paid!Actors,
         NEW c \in Nat, WindowsHold(R, t, E), CountsIn(R, R2, t, E, E2, q, n, b, c),
         \A p \in Calls : R[p].times # <<>> => R[p].actor \in Paid!Actors
  PROVE  WindowsHold(R2, t, E2)
<1>1. PICK x \in Seq(Nat) : x = R[q].times
  BY DEF CountsIn
<1>2. /\ n \in 1..2 /\ Len(x) = n - 1 /\ R[q].actor = b /\ R2[q].actor = b
      /\ R2[q].times = Append(x, c)
  BY <1>1 DEF CountsIn
<1>3. /\ Len(Append(x, c)) = n /\ Append(x, c)[n] = c
      /\ \A i \in 1 .. n - 1 : Append(x, c)[i] = x[i]
  BY <1>2
<1>4. ASSUME NEW i \in 1..2, NEW p \in Calls, Len(R2[p].times) >= i,
             R2[p].times[i] + ForPaid.Span[i] > t, ~(p = q /\ i = n)
      PROVE  /\ Len(R[p].times) >= i /\ R[p].times[i] = R2[p].times[i] /\ R[p].actor = R2[p].actor
             /\ R[p].times[i] + ForPaid.Span[i] > t
             /\ [req |-> p, at |-> R2[p].times[i]] \in E[i][R2[p].actor]
             /\ R2[p].actor \in Paid!Actors
  <2>1. /\ Len(R[p].times) >= i /\ R[p].times[i] = R2[p].times[i] /\ R[p].actor = R2[p].actor
        /\ R2[p].actor \in Paid!Actors
    <3>1. CASE p = q
      <4>1. i \in 1 .. n - 1
        BY <1>2, <1>3, <1>4, <3>1
      <4> QED BY <1>1, <1>2, <1>3, <3>1, <4>1
    <3>2. CASE p # q
      <4>1. R2[p] = R[p]
        BY <3>2 DEF CountsIn
      <4>2. R[p].times # <<>>
        BY <1>4, <4>1
      <4> QED BY <1>4, <4>1, <4>2
    <3> QED BY <3>1, <3>2
  <2> QED BY <1>4, <2>1 DEF WindowsHold
<1>5. ASSUME NEW i \in 1..2, NEW p \in Calls, Len(R2[p].times) >= i,
             R2[p].times[i] + ForPaid.Span[i] > t
      PROVE  [req |-> p, at |-> R2[p].times[i]] \in E2[i][R2[p].actor]
  <2>1. CASE p = q /\ i = n
    BY <1>2, <1>3, <2>1 DEF CountsIn
  <2>2. CASE ~(p = q /\ i = n)
    <3>1. PICK e : e = [req |-> p, at |-> R2[p].times[i]]
      OBVIOUS
    <3>2. e \in E[i][R2[p].actor] /\ e.at + ForPaid.Span[i] > t /\ R2[p].actor \in Paid!Actors
      BY <1>4, <1>5, <2>2, <3>1
    <3>3. CASE i = n /\ R2[p].actor = b
      BY <3>1, <3>2, <3>3 DEF CountsIn
    <3>4. CASE ~(i = n /\ R2[p].actor = b)
      <4>1. E2[i][R2[p].actor] = E[i][R2[p].actor]
        BY <3>2, <3>4 DEF CountsIn
      <4> QED BY <3>1, <3>2, <4>1
    <3> QED BY <3>3, <3>4
  <2> QED BY <2>1, <2>2
<1>6. ASSUME NEW i \in 1..2, NEW a \in Paid!Actors
      PROVE  IsFiniteSet(E2[i][a]) /\ Cardinality(Windowed(R2, t, i, a)) <= ForPaid.Cap[i]
  <2>1. CASE i = n /\ a = b
    <3>1. IsFiniteSet(E2[i][a]) /\ Cardinality(E2[i][a]) <= ForPaid.Cap[i]
      BY <2>1 DEF CountsIn
    <3>2. LoggedBy(R2, t, E2, i)
      BY <1>5 DEF LoggedBy
    <3>3. IsFiniteSet(Windowed(R2, t, i, a)) /\ Cardinality(Windowed(R2, t, i, a)) <= Cardinality(E2[i][a])
      BY <3>1, <3>2, WindowCounts
    <3>4. PICK k \in Nat, l \in Nat, m \in Nat :
            /\ k = Cardinality(Windowed(R2, t, i, a)) /\ l = Cardinality(E2[i][a])
            /\ m = ForPaid.Cap[i]
      BY <3>1, <3>3, FS_CardinalityType, PaidBounds
    <3> QED BY <3>1, <3>3, <3>4
  <2>2. CASE ~(i = n /\ a = b)
    <3>1. E2[i][a] = E[i][a] /\ IsFiniteSet(E[i][a])
      BY <2>2 DEF CountsIn, WindowsHold
    <3>2. ASSUME NEW p \in Windowed(R2, t, i, a) PROVE p \in Windowed(R, t, i, a)
      <4>1. p \in Calls /\ R2[p].actor = a /\ Len(R2[p].times) >= i
            /\ R2[p].times[i] + ForPaid.Span[i] > t
        BY DEF Windowed
      <4>2. ~(p = q /\ i = n)
        BY <1>2, <2>2, <4>1
      <4> QED BY <1>4, <4>1, <4>2 DEF Windowed
    <3> QED BY <3>1, <3>2, SmallerWindow
  <2> QED BY <2>1, <2>2
<1> QED BY <1>5, <1>6 DEF WindowsHold

-----------------------------------------------------------------------------
(* The guests *)

\* No more requests are past the limits, and no more is used than is allowed.
LEMMA GuestsKept ==
  ASSUME NEW R, NEW R2, NEW U, NEW U2, GuestsHold(R, U),
         U \in [ForPaid.Guests -> 0..10], U2 \in [ForPaid.Guests -> 0..10],
         \A g \in ForPaid.Guests : U[g] <= U2[g] /\ \E n \in ForPaid.Allowances : U2[g] <= n,
         \A q \in Calls : R2[q].actor \in ForPaid.Guests /\ Paid!Paid(R2[q]) =>
                            R[q].actor = R2[q].actor /\ Paid!Paid(R[q])
  PROVE  GuestsHold(R2, U2)
<1> SUFFICES ASSUME NEW g \in ForPaid.Guests
             PROVE  IsFiniteSet(PaidOf(R2, g)) /\ Cardinality(PaidOf(R2, g)) <= U2[g]
  BY DEF GuestsHold
<1>1. PaidOf(R2, g) \subseteq PaidOf(R, g)
  BY DEF PaidOf
<1>2. IsFiniteSet(PaidOf(R, g)) /\ Cardinality(PaidOf(R, g)) <= U[g] /\ U[g] <= U2[g]
  BY DEF GuestsHold
<1>3. IsFiniteSet(PaidOf(R2, g)) /\ Cardinality(PaidOf(R2, g)) <= Cardinality(PaidOf(R, g))
  BY <1>1, <1>2, FS_Subset
<1>4. PICK k \in Nat, l \in Nat, m \in Nat, n \in Nat :
        /\ k = Cardinality(PaidOf(R2, g)) /\ l = Cardinality(PaidOf(R, g)) /\ m = U[g] /\ n = U2[g]
  <2>1. U[g] \in Nat /\ U2[g] \in Nat
    OBVIOUS
  <2> QED BY <1>2, <1>3, <2>1, FS_CardinalityType
<1> QED BY <1>2, <1>3, <1>4

\* Request q, of guest b, is counted against allowance n, which has room.
GuestCounts(R, R2, U, U2, q, b, n) ==
  /\ R2[q].actor = b /\ \A p \in Calls : p # q => R2[p] = R[p]
  /\ U[b] < n /\ U2 = [U EXCEPT ![b] = @ + 1]

LEMMA GuestConsumes ==
  ASSUME NEW R, NEW R2, NEW U, NEW U2, NEW q \in Calls, NEW b \in ForPaid.Guests,
         NEW n \in ForPaid.Allowances, GuestsHold(R, U), U \in [ForPaid.Guests -> 0..10],
         GuestCounts(R, R2, U, U2, q, b, n)
  PROVE  GuestsHold(R2, U2) /\ U2 \in [ForPaid.Guests -> 0..10]
<1>0. /\ R2[q].actor = b /\ \A p \in Calls : p # q => R2[p] = R[p]
      /\ U[b] < n /\ U2 = [U EXCEPT ![b] = @ + 1]
  BY DEF GuestCounts
<1>1. PICK m \in Nat, h \in Nat : m = U[b] /\ h = n /\ h <= 10
  <2>1. n \in 1..10
    BY PaidBounds
  <2>2. U[b] \in 0..10
    OBVIOUS
  <2> QED BY <2>1, <2>2
<1>2. m + 1 <= h /\ m + 1 \in 0..10
  BY <1>0, <1>1
<1>3. U2[b] = m + 1 /\ U2 \in [ForPaid.Guests -> 0..10]
      /\ \A g \in ForPaid.Guests : g # b => U2[g] = U[g]
  BY <1>0, <1>1, <1>2
<1>4. ASSUME NEW g \in ForPaid.Guests
      PROVE  /\ IsFiniteSet(PaidOf(R2, g)) /\ Cardinality(PaidOf(R2, g)) <= U2[g]
             /\ \E k \in ForPaid.Allowances : U2[g] <= k
  <2>1. /\ IsFiniteSet(PaidOf(R, g)) /\ Cardinality(PaidOf(R, g)) <= U[g]
        /\ \E k \in ForPaid.Allowances : U[g] <= k
    BY DEF GuestsHold
  <2>2. CASE g = b
    <3>1. PaidOf(R2, g) \subseteq PaidOf(R, g) \cup {q}
      BY <1>0 DEF PaidOf
    <3>2. IsFiniteSet(PaidOf(R, g) \cup {q})
          /\ Cardinality(PaidOf(R, g) \cup {q}) <= Cardinality(PaidOf(R, g)) + 1
      <4>1. Cardinality(PaidOf(R, g)) \in Nat
        BY <2>1, FS_CardinalityType
      <4>2. /\ IsFiniteSet(PaidOf(R, g) \cup {q})
            /\ Cardinality(PaidOf(R, g) \cup {q}) =
                 IF q \in PaidOf(R, g) THEN Cardinality(PaidOf(R, g))
                 ELSE Cardinality(PaidOf(R, g)) + 1
        BY <2>1, FS_AddElement
      <4> QED BY <4>1, <4>2
    <3>3. IsFiniteSet(PaidOf(R2, g))
          /\ Cardinality(PaidOf(R2, g)) <= Cardinality(PaidOf(R, g) \cup {q})
      BY <3>1, <3>2, FS_Subset
    <3>4. PICK x \in Nat, y \in Nat, z \in Nat :
            /\ x = Cardinality(PaidOf(R2, g)) /\ y = Cardinality(PaidOf(R, g))
            /\ z = Cardinality(PaidOf(R, g) \cup {q})
      BY <2>1, <3>2, <3>3, FS_CardinalityType
    <3>5. x <= m + 1
      BY <1>1, <2>1, <2>2, <3>2, <3>3, <3>4
    <3> QED BY <1>1, <1>2, <1>3, <2>2, <3>3, <3>4, <3>5
  <2>3. CASE g # b
    <3>1. PaidOf(R2, g) \subseteq PaidOf(R, g)
      BY <1>0, <2>3 DEF PaidOf
    <3>2. IsFiniteSet(PaidOf(R2, g)) /\ Cardinality(PaidOf(R2, g)) <= Cardinality(PaidOf(R, g))
      BY <2>1, <3>1, FS_Subset
    <3>3. PICK x \in Nat, y \in Nat, z \in Nat :
            x = Cardinality(PaidOf(R2, g)) /\ y = Cardinality(PaidOf(R, g)) /\ z = U[g]
      <4>1. U[g] \in Nat
        OBVIOUS
      <4> QED BY <2>1, <3>2, <4>1, FS_CardinalityType
    <3> QED BY <1>3, <2>1, <2>3, <3>2, <3>3
  <2> QED BY <2>2, <2>3
<1> QED BY <1>3, <1>4 DEF GuestsHold

-----------------------------------------------------------------------------
(* The steps *)

LEMMA TimesAreNumbers ==
  ASSUME NEW x \in Seq(0..ForPaid.MaxTime)
  PROVE  x \in Seq(Nat)
<1>1. PICK n \in Nat : n = Len(x) /\ x \in [1..n -> 0..ForPaid.MaxTime]
  BY LenProperties
<1>2. x \in [1..n -> Nat]
  BY <1>1
<1> QED BY <1>2, SeqDef

\* One actor's log is changed: what the entries are then.
LogBecomes(E, F, n, b, e, K) ==
  /\ F = [E EXCEPT ![n][b] = K] /\ K \subseteq E[n][b] \cup {e}
  /\ e \in [req : Calls, at : 0..ForPaid.MaxTime]

LEMMA LogChanged ==
  ASSUME NEW E \in PaidEntries, NEW F, NEW n \in 1..2, NEW b \in Paid!Actors, NEW e, NEW K,
         LogBecomes(E, F, n, b, e, K),
         \A i \in 1..2, a \in Paid!Actors : IsFiniteSet(E[i][a])
  PROVE  /\ F \in PaidEntries /\ F[n][b] = K
         /\ \A i \in 1..2, a \in Paid!Actors : ~(i = n /\ a = b) => F[i][a] = E[i][a]
         /\ \A i \in 1..2, a \in Paid!Actors : IsFiniteSet(F[i][a])
<1>0. /\ F = [E EXCEPT ![n][b] = K] /\ K \subseteq E[n][b] \cup {e}
      /\ e \in [req : Calls, at : 0..ForPaid.MaxTime]
  BY DEF LogBecomes
<1>1. IsFiniteSet(E[n][b] \cup {e})
  BY FS_AddElement
<1>2. IsFiniteSet(K)
  BY <1>0, <1>1, FS_Subset
<1>3. E \in [1..2 -> [Paid!Actors -> SUBSET [req : Calls, at : 0..ForPaid.MaxTime]]]
  BY DEF PaidEntries
<1>4. K \in SUBSET [req : Calls, at : 0..ForPaid.MaxTime]
  <2>1. E[n][b] \in SUBSET [req : Calls, at : 0..ForPaid.MaxTime]
    BY <1>3
  <2> QED BY <1>0, <2>1
<1>5. F \in PaidEntries /\ F[n][b] = K
      /\ \A i \in 1..2, a \in Paid!Actors : ~(i = n /\ a = b) => F[i][a] = E[i][a]
  BY <1>0, <1>3, <1>4 DEF PaidEntries
<1>6. ASSUME NEW i \in 1..2, NEW a \in Paid!Actors PROVE IsFiniteSet(F[i][a])
  <2>1. CASE i = n /\ a = b
    BY <1>2, <1>5, <2>1
  <2>2. CASE ~(i = n /\ a = b)
    BY <1>5, <2>2
  <2> QED BY <2>1, <2>2
<1> QED BY <1>5, <1>6

\* The entries that are still needed, kept.
EntriesKept(R, t, E, E2) ==
  \A i \in 1..2 :
    /\ \A a \in Paid!Actors : IsFiniteSet(E2[i][a])
    /\ \A q \in Calls :
         LET e == [req |-> q, at |-> R[q].times[i]]
         IN Len(R[q].times) >= i /\ e.at + ForPaid.Span[i] > t /\ e \in E[i][R[q].actor] =>
              e \in E2[i][R[q].actor]

\* What a step of one request needs to keep.
LEMMA OneMoves ==
  ASSUME NEW t, NEW S, NEW E, NEW U, NEW A, NEW B, NEW R, PaidHolds(t, S, E, U, A, B, R),
         NEW q \in Calls, NEW s, Follows(s, R[q], t),
         NEW E2 \in PaidEntries, NEW U2 \in [ForPaid.Guests -> 0..10], NEW B2 \in PaidBreaker,
         \A g \in ForPaid.Guests : U[g] <= U2[g] /\ \E n \in ForPaid.Allowances : U2[g] <= n,
         EntriesKept(R, t, E, E2)
  PROVE  PaidHolds(t, S, E2, U2, A, B2, [R EXCEPT ![q] = s])
<1> DEFINE R2 == [R EXCEPT ![q] = s]
<1>1. /\ t \in 0..ForPaid.MaxTime /\ S \in ForPaid.Stores /\ A \in ForPaid.Allowances
      /\ U \in [ForPaid.Guests -> 0..10] /\ R \in [Calls -> Paid!Held]
      /\ WindowsHold(R, t, E) /\ GuestsHold(R, U)
      /\ \A p \in Calls : RequestHolds(R[p], t)
  BY DEF PaidHolds
<1>2. s \in Paid!Held /\ RequestHolds(s, t)
  BY DEF Follows, RequestHolds
<1>3. R2 \in [Calls -> Paid!Held] /\ R2[q] = s /\ \A p \in Calls : p # q => R2[p] = R[p]
  BY <1>1, <1>2
<1> HIDE DEF R2
<1>4. \A p \in Calls : RequestHolds(R2[p], t)
  BY <1>1, <1>2, <1>3
<1>5. ASSUME NEW p \in Calls
      PROVE  /\ R[p].times \in Seq(Nat) /\ R2[p].times = R[p].times
             /\ R2[p].actor = R[p].actor \/ R2[p].times = <<>>
             /\ R2[p].actor \in ForPaid.Guests /\ Paid!Paid(R2[p]) =>
                  R[p].actor = R2[p].actor /\ Paid!Paid(R[p])
  <2>1. R[p].times \in Seq(Nat)
    <3>1. R[p] \in Paid!Held
      BY <1>1
    <3>2. R[p].times \in Seq(0..ForPaid.MaxTime)
      BY <3>1 DEF Paid!Held
    <3> QED BY <3>2, TimesAreNumbers
  <2>2. CASE p = q
    BY <1>3, <2>1, <2>2 DEF Follows
  <2>3. CASE p # q
    BY <1>3, <2>1, <2>3
  <2> QED BY <2>2, <2>3
<1>6. Keeps(R, R2, t, t, E, E2)
  <2>1. t \in Nat /\ t <= t
    BY <1>1, PaidBounds
  <2> QED BY <1>5, <2>1 DEF Keeps, EntriesKept
<1>7. WindowsHold(R2, t, E2)
  BY <1>1, <1>6, WindowsKept
<1>8. GuestsHold(R2, U2)
  BY <1>1, <1>5, GuestsKept
<1> QED BY <1>1, <1>3, <1>4, <1>7, <1>8 DEF PaidHolds, R2

\* Most steps only move the request, and perhaps the breaker.
LEMMA JustMoves ==
  ASSUME PaidHolds(v1, v2, v3, v4, v5, v6, v7), NEW q \in Calls, NEW s, Follows(s, v7[q], v1),
         v7' = [v7 EXCEPT ![q] = s], v6' \in PaidBreaker, UNCHANGED <<v1, v2, v3, v4, v5>>
  PROVE  PaidHolds(v1', v2', v3', v4', v5', v6', v7')
<1>1. v3 \in PaidEntries /\ v4 \in [ForPaid.Guests -> 0..10]
  BY DEF PaidHolds
<1>2. EntriesKept(v7, v1, v3, v3)
  BY DEF PaidHolds, WindowsHold, EntriesKept
<1>3. \A g \in ForPaid.Guests : v4[g] <= v4[g] /\ \E n \in ForPaid.Allowances : v4[g] <= n
  <2>1. \A g \in ForPaid.Guests : v4[g] \in 0..10
    BY <1>1
  <2> QED BY <2>1 DEF PaidHolds, GuestsHold
<1>4. PaidHolds(v1, v2, v3, v4, v5, v6', [v7 EXCEPT ![q] = s])
  BY <1>1, <1>2, <1>3, OneMoves
<1> QED BY <1>4

LEMMA PaidNow ==
  ASSUME PaidHolds(v1, v2, v3, v4, v5, v6, v7), NEW q \in Calls
  PROVE  /\ v1 \in 0..ForPaid.MaxTime /\ v6 \in PaidBreaker /\ v3 \in PaidEntries
         /\ v4 \in [ForPaid.Guests -> 0..10] /\ v5 \in ForPaid.Allowances
         /\ RequestHolds(v7[q], v1) /\ v7[q] \in Paid!Held /\ v7 \in [Calls -> Paid!Held]
  BY DEF PaidHolds

\* The breaker after an answer, a failure, and a call let through.
LEMMA BreakerTyped ==
  ASSUME v6 \in PaidBreaker, v1 \in 0..ForPaid.MaxTime
  PROVE  Paid!Succeeded \in PaidBreaker /\ Paid!Failed \in PaidBreaker /\ Paid!Entered \in PaidBreaker
<1>1. PICK f \in Nat, c \in Nat, h \in Nat, p \in Nat :
        f = v6.failures /\ c = v6.successes /\ h = ForPaid.Threshold /\ p = ForPaid.Probes
        /\ f <= h /\ c <= p /\ h # 0 /\ p # 0
  <2>1. v6.failures \in 0..ForPaid.Threshold /\ v6.successes \in 0..ForPaid.Probes
    BY DEF PaidBreaker
  <2>2. ForPaid.Threshold \in Nat \ {0} /\ ForPaid.Probes \in Nat \ {0}
    BY PaidBounds
  <2> QED BY <2>1, <2>2
<1>2. PaidBreaker = [state : {"closed", "open", "half-open"}, failures : 0..h, successes : 0..p,
                     since : 0..ForPaid.MaxTime]
      /\ 0 \in 0..ForPaid.MaxTime /\ 0 \in 0..h /\ 0 \in 0..p
  BY <1>1, PaidBounds DEF PaidBreaker
<1>3. Paid!Succeeded \in PaidBreaker
  <2>1. Paid!Closed \in PaidBreaker /\ [v6 EXCEPT !.failures = 0] \in PaidBreaker
    BY <1>2 DEF Paid!Closed
  <2>2. c + 1 < p => [v6 EXCEPT !.successes = c + 1] \in PaidBreaker
    BY <1>1, <1>2
  <2> QED BY <1>1, <2>1, <2>2 DEF Paid!Succeeded
<1>4. Paid!Failed \in PaidBreaker
  <2>1. PICK g \in 0..h : g = IF f < h THEN f + 1 ELSE f
    BY <1>1
  <2>2. PICK b \in PaidBreaker : b = [v6 EXCEPT !.failures = g, !.since = v1]
    BY <1>2
  <2>3. [b EXCEPT !.state = "open"] \in PaidBreaker
    BY <1>2
  <2> QED BY <1>1, <2>1, <2>2, <2>3 DEF Paid!Failed
<1>5. Paid!Entered \in PaidBreaker
  BY <1>2 DEF Paid!Entered
<1> QED BY <1>3, <1>4, <1>5

\* A step of a request that leaves what it shows and was counted alone.
LEMMA GoesOn ==
  ASSUME NEW t \in 0..ForPaid.MaxTime, NEW r, RequestHolds(r, t), r.pc \notin {"new", "end"},
         NEW n \in Paid!Held, n.pc \notin {"new", "end"},
         n.actor = r.actor, n.kind = r.kind, n.times = r.times, n.acted = r.acted,
         n.failed = r.failed, n.result = r.result, n.tail = r.tail, n.shown = r.shown,
         n.side = "output" => r.kind = "stream", Placed(n, t), Paid!Paid(n) => Paid!Paid(r)
  PROVE  Follows(n, r, t)
<1>1. Veiled(n)
  BY DEF RequestHolds, Veiled
<1> QED BY <1>1 DEF RequestHolds, Follows

LEMMA EndKeeps ==
  ASSUME PaidHolds(v1, v2, v3, v4, v5, v6, v7), NEW q \in Calls, NEW result \in Paid!Results,
         v7[q].pc \notin {"new", "end"},
         result \in Refusals \/ v7[q].pc \in {"screen", "asked", "work", "open", "source", "whole"},
         Paid!End(q, result), v6' \in PaidBreaker, UNCHANGED <<v1, v2, v3, v4, v5>>
  PROVE  PaidHolds(v1', v2', v3', v4', v5', v6', v7')
<1>1. Follows(Paid!Ended(v7[q], result), v7[q], v1)
  BY PaidNow, EndFollows
<1>2. v7' = [v7 EXCEPT ![q] = Paid!Ended(v7[q], result)]
  BY DEF Paid!End, Paid!Set
<1> QED BY <1>1, <1>2, JustMoves

-----------------------------------------------------------------------------

LEMMA ArriveKeeps ==
  ASSUME PaidHolds(v1, v2, v3, v4, v5, v6, v7), NEW q \in Calls, NEW actor \in Paid!Actors,
         NEW kind \in ForPaid.Kinds, NEW m \in ForPaid.Matches, Paid!Arrive(q, actor, kind, m)
  PROVE  PaidHolds(v1', v2', v3', v4', v5', v6', v7')
<1> DEFINE n == [Paid!Blank EXCEPT !.actor = actor, !.kind = kind, !.at = v1, !.matches = m,
                                   !.pc = IF kind = "name" THEN "screen" ELSE "count"]
<1>1. /\ v7[q].pc = "new" /\ v7' = [v7 EXCEPT ![q] = n]
      /\ UNCHANGED <<v1, v2, v3, v4, v5, v6>>
  BY DEF Paid!Arrive, Paid!At, Paid!Set, Paid!Limits
<1>2. PICK r : r = v7[q] /\ r \in Paid!Held /\ RequestHolds(r, v1) /\ r = Paid!Blank
  BY <1>1, PaidNow DEF RequestHolds, Placed
<1>3. n = [r EXCEPT !.actor = actor, !.kind = kind, !.at = v1, !.matches = m,
                    !.pc = IF kind = "name" THEN "screen" ELSE "count"]
  BY <1>2
<1>4. r.times = <<>> /\ r.rule = 1 /\ r.side = "input" /\ r.result = None
      /\ r.acted = "none" /\ ~r.failed /\ r.pc = "new"
  BY <1>2 DEF Paid!Blank
<1> HIDE DEF n
<1>5. /\ v1 \in 0..ForPaid.MaxTime
      /\ (IF kind = "name" THEN "screen" ELSE "count") \in Paid!PC
  BY PaidNow DEF Paid!PC
<1>6. n \in Paid!Held
  BY <1>2, <1>3, <1>5 DEF Paid!Held
<1>7. /\ n.actor = actor /\ n.kind = kind /\ n.at = v1
      /\ n.pc = IF kind = "name" THEN "screen" ELSE "count"
      /\ n.times = <<>> /\ n.rule = 1 /\ n.side = "input" /\ n.result = None
      /\ n.acted = "none" /\ n.failed = r.failed /\ n.tail = r.tail /\ n.shown = r.shown
  BY <1>2, <1>3, <1>4 DEF Paid!Held
<1>8. ~Paid!Paid(n)
  BY <1>7, PaidBounds DEF Paid!Paid, Paid!Results
<1>9. Placed(n, v1)
  <2>1. Len(n.times) = n.rule - 1 /\ v1 <= v1
    BY <1>5, <1>7, PaidBounds
  <2> QED BY <1>7, <1>8, <2>1 DEF Placed
<1>10. Veiled(n)
  BY <1>2, <1>4, <1>7 DEF RequestHolds, Veiled
<1>11. Follows(n, v7[q], v1)
  BY <1>2, <1>4, <1>6, <1>7, <1>8, <1>9, <1>10 DEF Follows, RequestHolds
<1> QED BY <1>1, <1>11, PaidNow, JustMoves

\* Counted by the rule it was at.
LEMMA CountedHolds ==
  ASSUME NEW t \in 0..ForPaid.MaxTime, NEW r, RequestHolds(r, t), r.pc = "count",
         NEW c \in 0..ForPaid.MaxTime
  PROVE  LET n == Paid!Counted(r, c)
         IN /\ RequestHolds(n, t) /\ n.times = Append(r.times, c) /\ n.actor = r.actor
            /\ n.actor \notin ForPaid.Guests \/ ~Paid!Paid(n)
<1> DEFINE pc == CASE r.rule = 1 -> "cap"
                   [] r.rule = 2 /\ r.actor \in ForPaid.Guests -> "allowance"
                   [] OTHER -> "screen"
           n == [r EXCEPT !.times = Append(@, c), !.at = 0, !.pc = pc]
<1>1. Paid!Counted(r, c) = n
  BY DEF Paid!Counted
<1>2. /\ r \in Paid!Held /\ r.actor \in Paid!Actors /\ r.kind \in ForPaid.Kinds
      /\ r.kind # "name" /\ Len(r.times) = r.rule - 1 /\ r.rule \in 1..2
      /\ r.acted = "none" /\ ~r.failed /\ r.result = None
  BY DEF RequestHolds, Placed, Veiled, Paid!Held
<1>3. /\ pc \in {"cap", "allowance", "screen"} /\ pc \in Paid!PC
      /\ pc = "cap" <=> r.rule = 1
      /\ pc = "allowance" => r.actor \in ForPaid.Guests
      /\ pc = "screen" => r.actor \notin ForPaid.Guests
  BY <1>2 DEF Paid!PC
<1> HIDE DEF pc
<1>4. PICK x \in Seq(0..ForPaid.MaxTime) : x = r.times
  BY <1>2 DEF Paid!Held
<1>5. Append(x, c) \in Seq(0..ForPaid.MaxTime) /\ Len(Append(x, c)) = r.rule
      /\ 0 \in 0..ForPaid.MaxTime
  <2>1. Len(Append(x, c)) = Len(x) + 1 /\ Append(x, c) \in Seq(0..ForPaid.MaxTime)
    OBVIOUS
  <2>2. 0 \in 0..ForPaid.MaxTime
    BY PaidBounds
  <2> QED BY <1>2, <1>4, <2>1, <2>2
<1>6. n \in Paid!Held
  BY <1>2, <1>3, <1>4, <1>5 DEF Paid!Held
<1>7. /\ n.pc = pc /\ n.at = 0 /\ n.times = Append(x, c) /\ n.actor = r.actor
      /\ n.kind = r.kind /\ n.side = r.side /\ n.acted = r.acted /\ n.failed = r.failed
      /\ n.result = r.result /\ n.tail = r.tail /\ n.shown = r.shown
  BY <1>2, <1>4 DEF Paid!Held
<1> HIDE DEF n
<1>8. Paid!Paid(n) => pc = "screen"
  BY <1>2, <1>3, <1>7, PaidBounds DEF Paid!Paid, Paid!Results
<1>9. Placed(n, t)
  <2>1. 0 <= t
    BY PaidBounds
  <2>2. pc # "cap" => Len(n.times) = 2
    BY <1>2, <1>3, <1>5, <1>7
  <2>3. pc = "cap" => Len(n.times) = 1
    BY <1>3, <1>5, <1>7
  <2> QED BY <1>2, <1>3, <1>7, <1>8, <2>1, <2>2, <2>3 DEF Placed
<1>10. Veiled(n)
  BY <1>2, <1>3, <1>7 DEF RequestHolds, Veiled
<1> QED BY <1>1, <1>3, <1>4, <1>6, <1>7, <1>8, <1>9, <1>10 DEF RequestHolds

\* A rule counts a request within its cap.
LEMMA RuleCounts ==
  ASSUME PaidHolds(v1, v2, v3, v4, v5, v6, v7), NEW q \in Calls, v7[q].pc = "count",
         NEW c \in 0..ForPaid.MaxTime, c <= v1, NEW K,
         K \subseteq Paid!Log(q) \cup {[req |-> q, at |-> c]}, [req |-> q, at |-> c] \in K,
         \A e \in Paid!Log(q) : e.at + ForPaid.Span[v7[q].rule] > v1 => e \in K,
         Cardinality(K) <= ForPaid.Cap[v7[q].rule],
         Paid!Logged(q, K), Paid!Set(q, Paid!Counted(v7[q], c)), UNCHANGED <<v1, v2, v4, v5, v6>>
  PROVE  PaidHolds(v1', v2', v3', v4', v5', v6', v7')
<1>1. PICK r \in Paid!Held : r = v7[q] /\ RequestHolds(r, v1)
  BY PaidNow
<1>2. PICK n \in 1..2, b \in Paid!Actors : n = r.rule /\ b = r.actor
  BY <1>1 DEF RequestHolds, Placed, Paid!Held
<1>3. PICK s : /\ s = Paid!Counted(r, c) /\ RequestHolds(s, v1) /\ s.times = Append(r.times, c)
              /\ s.actor = r.actor /\ (s.actor \notin ForPaid.Guests \/ ~Paid!Paid(s))
  BY <1>1, CountedHolds, PaidNow
<1>4. PICK e \in [req : Calls, at : 0..ForPaid.MaxTime] : e = [req |-> q, at |-> c]
  OBVIOUS
<1>5. Paid!Log(q) = v3[n][b]
  BY <1>1, <1>2 DEF Paid!Log
<1>6. \A i \in 1..2, a \in Paid!Actors : IsFiniteSet(v3[i][a])
  BY DEF PaidHolds, WindowsHold
<1>7. PICK F : F = [v3 EXCEPT ![n][b] = K]
  OBVIOUS
<1>8. /\ F \in PaidEntries /\ F[n][b] = K
      /\ \A i \in 1..2, a \in Paid!Actors : ~(i = n /\ a = b) => F[i][a] = v3[i][a]
      /\ \A i \in 1..2, a \in Paid!Actors : IsFiniteSet(F[i][a])
  <2>1. v3 \in PaidEntries /\ K \subseteq v3[n][b] \cup {e}
    BY <1>4, <1>5, PaidNow
  <2>2. LogBecomes(v3, F, n, b, e, K)
    BY <1>7, <2>1 DEF LogBecomes
  <2> QED BY <1>6, <2>1, <2>2, LogChanged
<1>9. PICK R2 \in [Calls -> Paid!Held] :
        R2 = [v7 EXCEPT ![q] = s] /\ R2[q] = s /\ \A p \in Calls : p # q => R2[p] = v7[p]
  <2>1. s \in Paid!Held /\ v7 \in [Calls -> Paid!Held]
    BY <1>3, PaidNow DEF RequestHolds
  <2>2. [v7 EXCEPT ![q] = s] \in [Calls -> Paid!Held] /\ [v7 EXCEPT ![q] = s][q] = s
    BY <2>1
  <2>3. \A p \in Calls : p # q => [v7 EXCEPT ![q] = s][p] = v7[p]
    BY <2>1
  <2> QED BY <2>2, <2>3
<1>10. v3' = F /\ v7' = R2
  BY <1>1, <1>2, <1>3, <1>7, <1>9 DEF Paid!Logged, Paid!Set
<1>11. CountsIn(v7, R2, v1, v3, F, q, n, b, c)
  <2>1. r.times \in Seq(Nat)
    BY TimesAreNumbers DEF Paid!Held
  <2>2. Len(r.times) = n - 1
    BY <1>1, <1>2 DEF RequestHolds, Placed
  <2>3. \A x \in v3[n][b] : x.at + ForPaid.Span[n] > v1 => x \in K
    BY <1>1, <1>2, <1>5
  <2>4. Cardinality(K) <= ForPaid.Cap[n]
    BY <1>1, <1>2
  <2> QED BY <1>1, <1>2, <1>3, <1>8, <1>9, <2>1, <2>2, <2>3, <2>4 DEF CountsIn
<1>12. \A p \in Calls : v7[p].times # <<>> => v7[p].actor \in Paid!Actors
  <2>1. \A p \in Calls : RequestHolds(v7[p], v1)
    BY DEF PaidHolds
  <2>2. Paid!Blank.times = <<>>
    BY DEF Paid!Blank
  <2> QED BY <2>1, <2>2 DEF RequestHolds, Placed
<1>13. WindowsHold(R2, v1, F)
  <2>1. WindowsHold(v7, v1, v3) /\ c \in Nat
    BY PaidBounds DEF PaidHolds
  <2> QED BY <1>11, <1>12, <2>1, WindowsCount
<1>14. GuestsHold(R2, v4)
  <2>1. \A p \in Calls : R2[p].actor \in ForPaid.Guests /\ Paid!Paid(R2[p]) =>
                           v7[p].actor = R2[p].actor /\ Paid!Paid(v7[p])
    BY <1>3, <1>9
  <2>2. \A g \in ForPaid.Guests : v4[g] <= v4[g] /\ \E k \in ForPaid.Allowances : v4[g] <= k
    <3>1. \A g \in ForPaid.Guests : v4[g] \in 0..10
      BY PaidNow
    <3> QED BY <3>1 DEF PaidHolds, GuestsHold
  <2>3. GuestsHold(v7, v4) /\ v4 \in [ForPaid.Guests -> 0..10]
    BY DEF PaidHolds
  <2> QED BY <2>1, <2>2, <2>3, GuestsKept
<1>15. \A p \in Calls : RequestHolds(R2[p], v1)
  BY <1>3, <1>9 DEF PaidHolds
<1> QED BY <1>8, <1>9, <1>10, <1>13, <1>14, <1>15 DEF PaidHolds

\* The log of a request's rule and actor changes; what is still needed stays.
LEMMA LogMoves ==
  ASSUME PaidHolds(v1, v2, v3, v4, v5, v6, v7), NEW q \in Calls,
         v7[q].pc \in {"count", "undo"}, NEW c \in 0..ForPaid.MaxTime, NEW K,
         K \subseteq Paid!Log(q) \cup {[req |-> q, at |-> c]},
         \A e \in Paid!Log(q) : e.at + ForPaid.Span[v7[q].rule] > v1 /\ e.req # q => e \in K,
         NEW s, Follows(s, v7[q], v1),
         Paid!Logged(q, K), Paid!Set(q, s), UNCHANGED <<v1, v2, v4, v5, v6>>
  PROVE  PaidHolds(v1', v2', v3', v4', v5', v6', v7')
<1>1. PICK r \in Paid!Held : r = v7[q] /\ RequestHolds(r, v1)
  BY PaidNow
<1>2. PICK n \in 1..2, b \in Paid!Actors : n = r.rule /\ b = r.actor /\ Len(r.times) = n - 1
  BY <1>1 DEF RequestHolds, Placed, Paid!Held
<1>3. PICK e \in [req : Calls, at : 0..ForPaid.MaxTime] : e = [req |-> q, at |-> c]
  OBVIOUS
<1>4. Paid!Log(q) = v3[n][b]
  BY <1>1, <1>2 DEF Paid!Log
<1>5. \A i \in 1..2, a \in Paid!Actors : IsFiniteSet(v3[i][a])
  BY DEF PaidHolds, WindowsHold
<1>6. PICK F : F = [v3 EXCEPT ![n][b] = K]
  OBVIOUS
<1>7. /\ F \in PaidEntries /\ F[n][b] = K
      /\ \A i \in 1..2, a \in Paid!Actors : ~(i = n /\ a = b) => F[i][a] = v3[i][a]
      /\ \A i \in 1..2, a \in Paid!Actors : IsFiniteSet(F[i][a])
  <2>1. v3 \in PaidEntries /\ K \subseteq v3[n][b] \cup {e}
    BY <1>3, <1>4, PaidNow
  <2>2. LogBecomes(v3, F, n, b, e, K)
    BY <1>6, <2>1 DEF LogBecomes
  <2> QED BY <1>5, <2>1, <2>2, LogChanged
<1>8. v3' = F /\ v7' = [v7 EXCEPT ![q] = s]
  BY <1>1, <1>2, <1>6 DEF Paid!Logged, Paid!Set
<1>9. EntriesKept(v7, v1, v3, F)
  <2>1. ASSUME NEW i \in 1..2, NEW p \in Calls, NEW x, x = [req |-> p, at |-> v7[p].times[i]],
               Len(v7[p].times) >= i, x.at + ForPaid.Span[i] > v1, x \in v3[i][v7[p].actor]
        PROVE  x \in F[i][v7[p].actor]
    <3>1. v7[p].actor \in Paid!Actors
      <4>1. v7[p] \in Paid!Held /\ RequestHolds(v7[p], v1)
        BY PaidNow
      <4>2. v7[p].times # <<>>
        BY <2>1
      <4>3. Paid!Blank.times = <<>>
        BY DEF Paid!Blank
      <4> QED BY <4>1, <4>2, <4>3 DEF RequestHolds, Placed
    <3>2. CASE i = n /\ v7[p].actor = b
      <4>1. p # q
        BY <1>1, <1>2, <2>1, <3>2
      <4>2. x.req # q
        BY <2>1, <4>1
      <4> QED BY <1>1, <1>2, <1>4, <1>7, <2>1, <3>2, <4>2
    <3>3. CASE ~(i = n /\ v7[p].actor = b)
      BY <1>7, <2>1, <3>1, <3>3
    <3> QED BY <3>2, <3>3
  <2> QED BY <1>7, <2>1 DEF EntriesKept
<1>10. /\ v6 \in PaidBreaker /\ v4 \in [ForPaid.Guests -> 0..10]
       /\ \A g \in ForPaid.Guests : v4[g] <= v4[g] /\ \E k \in ForPaid.Allowances : v4[g] <= k
  <2>1. \A g \in ForPaid.Guests : v4[g] \in 0..10
    BY PaidNow
  <2> QED BY <2>1, PaidNow DEF PaidHolds, GuestsHold
<1>11. PaidHolds(v1, v2, F, v4, v5, v6, [v7 EXCEPT ![q] = s])
  BY <1>7, <1>9, <1>10, OneMoves
<1> QED BY <1>8, <1>11

\* What a request at a place before the limits are passed becomes next.
PlaceBecomes(r, n, t, rule, at, limit, pc) ==
  /\ n = [r EXCEPT !.rule = rule, !.at = at, !.limit = limit, !.pc = pc]
  /\ rule \in 1..2 /\ at \in 0..t /\ limit \in ForPaid.Allowances \cup {0}
  /\ \/ r.pc = "count" /\ pc = "undo" /\ rule = r.rule
     \/ r.pc = "cap" /\ pc = "count" /\ rule = 2
     \/ r.pc = "allowance" /\ pc = "consume" /\ limit \in ForPaid.Allowances

LEMMA PlaceChanges ==
  ASSUME NEW t \in 0..ForPaid.MaxTime, NEW r, RequestHolds(r, t), NEW rule, NEW at,
         NEW limit, NEW pc, NEW n, PlaceBecomes(r, n, t, rule, at, limit, pc)
  PROVE  Follows(n, r, t)
<1>0. /\ n = [r EXCEPT !.rule = rule, !.at = at, !.limit = limit, !.pc = pc]
      /\ rule \in 1..2 /\ at \in 0..t /\ limit \in ForPaid.Allowances \cup {0}
      /\ \/ r.pc = "count" /\ pc = "undo" /\ rule = r.rule
         \/ r.pc = "cap" /\ pc = "count" /\ rule = 2
         \/ r.pc = "allowance" /\ pc = "consume" /\ limit \in ForPaid.Allowances
  BY DEF PlaceBecomes
<1>1. /\ r \in Paid!Held /\ r.pc \in {"count", "cap", "allowance"} /\ r.kind # "name"
      /\ r.actor \in Paid!Actors /\ r.kind \in ForPaid.Kinds /\ r.result = None
      /\ (r.side = "output" => r.kind = "stream")
      /\ Placed(r, t)
  BY <1>0 DEF RequestHolds, Placed, Veiled
<1>2. at \in 0..ForPaid.MaxTime /\ at <= t
  BY <1>0, PaidBounds
<1>3. pc \in Paid!PC /\ pc \in {"undo", "count", "consume"}
  BY <1>0 DEF Paid!PC
<1>4. n \in Paid!Held
  BY <1>0, <1>1, <1>2, <1>3 DEF Paid!Held
<1>5. /\ n.pc = pc /\ n.at = at /\ n.rule = rule /\ n.limit = limit
      /\ n.actor = r.actor /\ n.kind = r.kind /\ n.times = r.times /\ n.acted = r.acted
      /\ n.failed = r.failed /\ n.result = r.result /\ n.tail = r.tail /\ n.shown = r.shown
      /\ n.side = r.side
  BY <1>0, <1>1 DEF Paid!Held
<1>6. ~Paid!Paid(n)
  BY <1>1, <1>3, <1>5, PaidBounds DEF Paid!Paid, Paid!Results
<1>7. Placed(n, t)
  <2>1. /\ pc = "count" => rule = 2 /\ Len(r.times) = 1
        /\ pc = "undo" => rule = r.rule /\ Len(r.times) = r.rule - 1
        /\ pc = "consume" => /\ Len(r.times) = 2 /\ r.actor \in ForPaid.Guests
                             /\ limit \in ForPaid.Allowances
    BY <1>0, <1>1 DEF Placed
  <2>2. pc = "count" => Len(r.times) = rule - 1
    <3>1. 2 - 1 = 1
      OBVIOUS
    <3> QED BY <2>1, <3>1
  <2>3. pc = "undo" => Len(r.times) = rule - 1
    BY <2>1
  <2> QED BY <1>0, <1>1, <1>2, <1>3, <1>5, <1>6, <2>1, <2>2, <2>3 DEF Placed
<1> QED BY <1>1, <1>3, <1>4, <1>5, <1>6, <1>7, GoesOn

LEMMA EntryTyped ==
  ASSUME PaidHolds(v1, v2, v3, v4, v5, v6, v7), NEW q \in Calls, v7[q].pc \in {"count", "undo"}
  PROVE  /\ \A e \in Paid!Log(q) : e.at \in Nat /\ e.req \in Calls
         /\ IsFiniteSet(Paid!Log(q)) /\ v7[q].at \in 0..v1 /\ v1 \in Nat
         /\ v7[q].at \in 0..ForPaid.MaxTime /\ v7[q].rule \in 1..2
         /\ ForPaid.Span[v7[q].rule] \in Nat /\ ForPaid.Cap[v7[q].rule] \in Nat
<1>1. PICK r \in Paid!Held : r = v7[q] /\ RequestHolds(r, v1)
  BY PaidNow
<1>2. PICK n \in 1..2, b \in Paid!Actors : n = r.rule /\ b = r.actor
  BY <1>1 DEF RequestHolds, Placed, Paid!Held
<1>3. Paid!Log(q) = v3[n][b]
  BY <1>1, <1>2 DEF Paid!Log
<1>4. IsFiniteSet(v3[n][b])
  BY DEF PaidHolds, WindowsHold
<1>5. v3[n][b] \subseteq [req : Calls, at : 0..ForPaid.MaxTime]
  BY PaidNow DEF PaidEntries
<1>6. \A e \in [req : Calls, at : 0..ForPaid.MaxTime] : e.at \in Nat /\ e.req \in Calls
  BY PaidBounds
<1>7. r.at \in 0..ForPaid.MaxTime /\ r.at <= v1 /\ v1 \in Nat
  BY <1>1, PaidNow, PaidBounds DEF RequestHolds, Placed, Paid!Held
<1>8. ForPaid.Span[n] \in Nat /\ ForPaid.Cap[n] \in Nat
  BY PaidBounds
<1>9. r.at \in 0..v1
  BY <1>7, PaidBounds
<1> QED BY <1>1, <1>2, <1>3, <1>4, <1>5, <1>6, <1>7, <1>8, <1>9

LEMMA CountAtomicallyKeeps ==
  ASSUME PaidHolds(v1, v2, v3, v4, v5, v6, v7), NEW q \in Calls, Paid!CountAtomically(q)
  PROVE  PaidHolds(v1', v2', v3', v4', v5', v6', v7')
<1>1. v7[q].pc = "count" /\ UNCHANGED <<v1, v2, v4, v5, v6>>
  BY DEF Paid!CountAtomically, Paid!At
<1>2. PICK kept : kept = Paid!Log(q) \ Paid!Expired(q, v1)
  OBVIOUS
<1>3. /\ kept \subseteq Paid!Log(q)
      /\ \A e \in Paid!Log(q) : e.at + ForPaid.Span[v7[q].rule] > v1 => e \in kept
  <2>1. ASSUME NEW e \in Paid!Log(q), e.at + ForPaid.Span[v7[q].rule] > v1 PROVE e \in kept
    <3>1. PICK a \in Nat, l \in Nat, t \in Nat :
            a = e.at /\ l = ForPaid.Span[v7[q].rule] /\ t = v1
      BY <1>1, EntryTyped
    <3>2. ~(e.at + ForPaid.Span[v7[q].rule] <= v1)
      BY <2>1, <3>1
    <3> QED BY <1>2, <3>2 DEF Paid!Expired
  <2> QED BY <1>2, <2>1
<1>4. IsFiniteSet(kept)
  BY <1>1, <1>3, EntryTyped, FS_Subset
<1>5. CASE Paid!WithinCap(Paid!Cardinality(kept) + 1, v7[q].rule)
  <2>1. PICK K : K = kept \cup {[req |-> q, at |-> v1]}
    OBVIOUS
  <2>2. Paid!Logged(q, K) /\ Paid!Set(q, Paid!Counted(v7[q], v1))
    BY <1>2, <1>5, <2>1 DEF Paid!CountAtomically
  <2>3. Cardinality(K) <= ForPaid.Cap[v7[q].rule]
    <3>1. Cardinality(kept) + 1 <= ForPaid.Cap[v7[q].rule]
      BY <1>5, PaidCounts DEF Paid!WithinCap
    <3>2. Cardinality(kept) \in Nat
      BY <1>4, FS_CardinalityType
    <3>3. Cardinality(K) = IF [req |-> q, at |-> v1] \in kept THEN Cardinality(kept) ELSE Cardinality(kept) + 1
      BY <1>4, <2>1, FS_AddElement
    <3>4. ForPaid.Cap[v7[q].rule] \in Nat
      BY <1>1, EntryTyped
    <3> QED BY <3>1, <3>2, <3>3, <3>4
  <2>4. v1 \in 0..ForPaid.MaxTime /\ v1 <= v1
    BY PaidNow, PaidBounds
  <2> QED BY <1>1, <1>3, <2>1, <2>2, <2>3, <2>4, RuleCounts
<1>6. CASE ~Paid!WithinCap(Paid!Cardinality(kept) + 1, v7[q].rule)
  <2>1. Paid!Logged(q, kept) /\ Paid!Set(q, Paid!Ended(v7[q], "limited"))
    BY <1>2, <1>6 DEF Paid!CountAtomically, Paid!End
  <2>2. Follows(Paid!Ended(v7[q], "limited"), v7[q], v1)
    BY <1>1, PaidNow, EndFollows DEF Paid!Results, Refusals
  <2>3. v1 \in 0..ForPaid.MaxTime
    BY PaidNow
  <2> QED BY <1>1, <1>3, <2>1, <2>2, <2>3, LogMoves
<1> QED BY <1>5, <1>6

LEMMA CountByPipelineKeeps ==
  ASSUME PaidHolds(v1, v2, v3, v4, v5, v6, v7), NEW q \in Calls, Paid!CountByPipeline(q)
  PROVE  PaidHolds(v1', v2', v3', v4', v5', v6', v7')
<1>1. v7[q].pc = "count" /\ UNCHANGED <<v1, v2, v4, v5, v6>>
  BY DEF Paid!CountByPipeline, Paid!At
<1>2. PICK r \in Paid!Held : r = v7[q] /\ RequestHolds(r, v1) /\ v1 \in 0..ForPaid.MaxTime
  BY PaidNow
<1>3. PICK c \in 0..ForPaid.MaxTime : c = r.at /\ c <= v1 /\ c \in 0..v1
  BY <1>1, <1>2, EntryTyped DEF RequestHolds, Placed
<1>4. PICK K : K = (Paid!Log(q) \ Paid!Expired(q, c)) \cup {[req |-> q, at |-> c]}
  OBVIOUS
<1>5. \A e \in Paid!Log(q) : e.at + ForPaid.Span[v7[q].rule] > v1 => e \in K
  <2>1. ASSUME NEW e \in Paid!Log(q), e.at + ForPaid.Span[v7[q].rule] > v1 PROVE e \in K
    <3>1. PICK a \in Nat, l \in Nat, t \in Nat :
            a = e.at /\ l = ForPaid.Span[v7[q].rule] /\ t = v1
      BY <1>1, EntryTyped
    <3>2. ~(e.at + ForPaid.Span[v7[q].rule] <= c)
      BY <1>3, <2>1, <3>1
    <3> QED BY <1>4, <3>2 DEF Paid!Expired
  <2> QED BY <2>1
<1>6. K \subseteq Paid!Log(q) \cup {[req |-> q, at |-> c]} /\ [req |-> q, at |-> c] \in K
  BY <1>4
<1>7. Paid!Logged(q, K)
      /\ IF Paid!WithinCap(Paid!Cardinality(K), r.rule) THEN Paid!Set(q, Paid!Counted(r, c))
         ELSE Paid!Set(q, [r EXCEPT !.pc = "undo"])
  BY <1>2, <1>3, <1>4 DEF Paid!CountByPipeline, Paid!Goto
<1>8. CASE Paid!WithinCap(Paid!Cardinality(K), r.rule)
  <2>1. Cardinality(K) <= ForPaid.Cap[v7[q].rule]
    BY <1>2, <1>8, PaidCounts DEF Paid!WithinCap
  <2>2. Paid!Set(q, Paid!Counted(v7[q], c))
    BY <1>2, <1>7, <1>8
  <2> QED BY <1>1, <1>3, <1>5, <1>6, <1>7, <2>1, <2>2, RuleCounts
<1>9. CASE ~Paid!WithinCap(Paid!Cardinality(K), r.rule)
  <2>1. PICK n : n = [r EXCEPT !.pc = "undo"]
    OBVIOUS
  <2>2. n = [r EXCEPT !.rule = r.rule, !.at = c, !.limit = r.limit, !.pc = "undo"]
    BY <1>3, <2>1 DEF Paid!Held
  <2>3. r.rule \in 1..2 /\ r.limit \in ForPaid.Allowances \cup {0}
    BY DEF Paid!Held
  <2>4. PlaceBecomes(r, n, v1, r.rule, c, r.limit, "undo")
    BY <1>1, <1>2, <1>3, <2>2, <2>3 DEF PlaceBecomes
  <2>5. Follows(n, r, v1)
    BY <1>2, <2>4, PlaceChanges
  <2>6. Paid!Set(q, n) /\ Follows(n, v7[q], v1)
    BY <1>2, <1>7, <1>9, <2>1, <2>5
  <2> QED BY <1>1, <1>5, <1>6, <1>7, <2>6, LogMoves
<1> QED BY <1>8, <1>9

LEMMA TakeOutKeeps ==
  ASSUME PaidHolds(v1, v2, v3, v4, v5, v6, v7), NEW q \in Calls, Paid!TakeOut(q)
  PROVE  PaidHolds(v1', v2', v3', v4', v5', v6', v7')
<1>1. v7[q].pc = "undo" /\ UNCHANGED <<v1, v2, v4, v5, v6>>
  BY DEF Paid!TakeOut, Paid!At
<1>2. {"limited", "unavailable"} \subseteq Paid!Results \cap Refusals
  BY DEF Paid!Results, Refusals
<1>3. CASE Paid!Logged(q, {e \in Paid!Log(q) : e.req # q}) /\ Paid!End(q, "limited")
  <2>1. PICK K : K = {e \in Paid!Log(q) : e.req # q}
    OBVIOUS
  <2>2. Paid!Logged(q, K) /\ Paid!Set(q, Paid!Ended(v7[q], "limited"))
    BY <1>3, <2>1 DEF Paid!End
  <2>3. Follows(Paid!Ended(v7[q], "limited"), v7[q], v1)
    BY <1>1, <1>2, PaidNow, EndFollows
  <2>4. /\ v1 \in 0..ForPaid.MaxTime /\ K \subseteq Paid!Log(q) \cup {[req |-> q, at |-> v1]}
        /\ \A e \in Paid!Log(q) : e.at + ForPaid.Span[v7[q].rule] > v1 /\ e.req # q => e \in K
    BY <2>1, PaidNow
  <2> QED BY <1>1, <2>2, <2>3, <2>4, LogMoves
<1>4. CASE UNCHANGED v3 /\ Paid!End(q, "unavailable")
  <2>1. v6' \in PaidBreaker
    BY <1>1, PaidNow
  <2> QED BY <1>1, <1>2, <1>4, <2>1, EndKeeps
<1> QED BY <1>3, <1>4 DEF Paid!TakeOut

LEMMA CountFailsKeeps ==
  ASSUME PaidHolds(v1, v2, v3, v4, v5, v6, v7), NEW q \in Calls, Paid!CountFails(q)
  PROVE  PaidHolds(v1', v2', v3', v4', v5', v6', v7')
<1>1. v7[q].pc = "count" /\ UNCHANGED <<v1, v2, v4, v5, v6>> /\ Paid!End(q, "unavailable")
  BY DEF Paid!CountFails, Paid!At
<1>2. "unavailable" \in Paid!Results /\ "unavailable" \in Refusals
  BY DEF Paid!Results, Refusals
<1>3. CASE UNCHANGED v3
  <2>1. v6' \in PaidBreaker
    BY <1>1, PaidNow
  <2> QED BY <1>1, <1>2, <1>3, <2>1, EndKeeps
<1>4. CASE ~(UNCHANGED v3)
  <2>1. PICK c \in 0..ForPaid.MaxTime : c = IF v2 = "redis" THEN v7[q].at ELSE v1
    BY <1>1, EntryTyped, PaidNow
  <2>2. PICK K : K = Paid!Log(q) \cup {[req |-> q, at |-> c]}
    OBVIOUS
  <2>3. Paid!Logged(q, K) /\ Paid!Set(q, Paid!Ended(v7[q], "unavailable"))
    BY <1>1, <1>4, <2>1, <2>2 DEF Paid!CountFails, Paid!End
  <2>4. Follows(Paid!Ended(v7[q], "unavailable"), v7[q], v1)
    BY <1>1, <1>2, PaidNow, EndFollows
  <2>5. /\ K \subseteq Paid!Log(q) \cup {[req |-> q, at |-> c]}
        /\ \A e \in Paid!Log(q) : e.at + ForPaid.Span[v7[q].rule] > v1 /\ e.req # q => e \in K
    BY <2>2
  <2> QED BY <1>1, <2>3, <2>4, <2>5, LogMoves
<1> QED BY <1>3, <1>4

LEMMA RefuseBodyKeeps ==
  ASSUME PaidHolds(v1, v2, v3, v4, v5, v6, v7), NEW q \in Calls, Paid!RefuseBody(q)
  PROVE  PaidHolds(v1', v2', v3', v4', v5', v6', v7')
<1>1. v7[q].pc = "cap" /\ Paid!End(q, "invalid") /\ UNCHANGED <<v1, v2, v3, v4, v5, v6>>
  BY DEF Paid!RefuseBody, Paid!At, Paid!Limits
<1>2. "invalid" \in Paid!Results /\ "invalid" \in Refusals /\ v6' \in PaidBreaker
  BY <1>1, PaidNow DEF Paid!Results, Refusals
<1> QED BY <1>1, <1>2, EndKeeps

LEMMA ReadCapKeeps ==
  ASSUME PaidHolds(v1, v2, v3, v4, v5, v6, v7), NEW q \in Calls, Paid!ReadCap(q)
  PROVE  PaidHolds(v1', v2', v3', v4', v5', v6', v7')
<1>1. PICK r \in Paid!Held : r = v7[q] /\ RequestHolds(r, v1) /\ v1 \in 0..ForPaid.MaxTime
  BY PaidNow
<1>2. /\ r.pc = "cap" /\ v7' = [v7 EXCEPT ![q] = [r EXCEPT !.rule = 2, !.at = v1, !.pc = "count"]]
      /\ UNCHANGED <<v1, v2, v3, v4, v5, v6>>
  BY <1>1 DEF Paid!ReadCap, Paid!At, Paid!Set, Paid!Limits
<1>3. PICK n : n = [r EXCEPT !.rule = 2, !.at = v1, !.pc = "count"]
  OBVIOUS
<1>4. n = [r EXCEPT !.rule = 2, !.at = v1, !.limit = r.limit, !.pc = "count"]
  BY <1>3 DEF Paid!Held
<1>5. 2 \in 1..2 /\ v1 \in 0..v1 /\ r.limit \in ForPaid.Allowances \cup {0}
  BY <1>1, PaidBounds DEF Paid!Held
<1>6. PlaceBecomes(r, n, v1, 2, v1, r.limit, "count")
  BY <1>1, <1>2, <1>4, <1>5 DEF PlaceBecomes
<1>7. Follows(n, r, v1)
  BY <1>1, <1>6, PlaceChanges
<1> QED BY <1>1, <1>2, <1>3, <1>7, PaidNow, JustMoves

LEMMA ReadAllowanceKeeps ==
  ASSUME PaidHolds(v1, v2, v3, v4, v5, v6, v7), NEW q \in Calls, Paid!ReadAllowance(q)
  PROVE  PaidHolds(v1', v2', v3', v4', v5', v6', v7')
<1>1. PICK r \in Paid!Held : r = v7[q] /\ RequestHolds(r, v1) /\ v1 \in 0..ForPaid.MaxTime
                             /\ v5 \in ForPaid.Allowances
  BY PaidNow
<1>2. /\ r.pc = "allowance"
      /\ v7' = [v7 EXCEPT ![q] = [r EXCEPT !.limit = v5, !.pc = "consume"]]
      /\ UNCHANGED <<v1, v2, v3, v4, v5, v6>>
  BY <1>1 DEF Paid!ReadAllowance, Paid!At, Paid!Set, Paid!Limits
<1>3. PICK n : n = [r EXCEPT !.limit = v5, !.pc = "consume"]
  OBVIOUS
<1>4. n = [r EXCEPT !.rule = r.rule, !.at = r.at, !.limit = v5, !.pc = "consume"]
  BY <1>3 DEF Paid!Held
<1>5. r.rule \in 1..2 /\ r.at \in 0..v1 /\ v5 \in ForPaid.Allowances \cup {0}
  <2>1. r.at \in 0..ForPaid.MaxTime /\ r.at <= v1 /\ r.rule \in 1..2
    BY <1>1 DEF Paid!Held, RequestHolds, Placed
  <2> QED BY <1>1, <2>1, PaidBounds
<1>6. PlaceBecomes(r, n, v1, r.rule, r.at, v5, "consume")
  BY <1>1, <1>2, <1>4, <1>5 DEF PlaceBecomes
<1>7. Follows(n, r, v1)
  BY <1>1, <1>6, PlaceChanges
<1> QED BY <1>1, <1>2, <1>3, <1>7, PaidNow, JustMoves

LEMMA ConsumeKeeps ==
  ASSUME PaidHolds(v1, v2, v3, v4, v5, v6, v7), NEW q \in Calls, Paid!Consume(q)
  PROVE  PaidHolds(v1', v2', v3', v4', v5', v6', v7')
<1>1. PICK r \in Paid!Held : r = v7[q] /\ RequestHolds(r, v1)
  BY PaidNow
<1>2. r.pc = "consume" /\ UNCHANGED <<v1, v2, v3, v5, v6>>
  BY <1>1 DEF Paid!Consume, Paid!At
<1>3. PICK g \in ForPaid.Guests, l \in ForPaid.Allowances : g = r.actor /\ l = r.limit
  BY <1>1, <1>2 DEF RequestHolds, Placed
<1>4. PICK U : U = [v4 EXCEPT ![g] = @ + 1]
  OBVIOUS
<1>5. \/ v4[g] < l /\ v4' = U /\ Paid!Set(q, [r EXCEPT !.limit = 0, !.pc = "screen"])
      \/ UNCHANGED v4 /\ Paid!End(q, "limited")
      \/ v4' \in {v4, IF v4[g] < l THEN U ELSE v4} /\ Paid!End(q, "unavailable")
  <2>1. PICK W : W = [v4 EXCEPT ![v7[q].actor] = @ + 1]
    OBVIOUS
  <2>2. \/ v4[v7[q].actor] < v7[q].limit /\ v4' = W
            /\ Paid!Set(q, [v7[q] EXCEPT !.limit = 0, !.pc = "screen"])
        \/ UNCHANGED v4 /\ Paid!End(q, "limited")
        \/ v4' \in {v4, IF v4[v7[q].actor] < v7[q].limit THEN W ELSE v4}
              /\ Paid!End(q, "unavailable")
    BY <2>1 DEF Paid!Consume
  <2>3. W = U /\ v7[q].actor = g /\ v7[q].limit = l /\ v7[q] = r
    BY <1>1, <1>3, <1>4, <2>1
  <2> QED BY <2>2, <2>3
<1>6. v4[g] < l => U \in [ForPaid.Guests -> 0..10]
                   /\ \A h \in ForPaid.Guests : v4[h] <= U[h] /\ \E n \in ForPaid.Allowances : U[h] <= n
  <2>1. PICK m \in Nat, k \in Nat : m = v4[g] /\ k = l /\ k <= 10
    <3>1. l \in 1..10
      BY PaidBounds
    <3>2. v4[g] \in 0..10
      BY PaidNow
    <3> QED BY <3>1, <3>2
  <2>2. m < k => m + 1 \in 0..10 /\ m + 1 <= k /\ m <= m + 1
    BY <2>1
  <2>3. v4 \in [ForPaid.Guests -> 0..10] /\ U = [v4 EXCEPT ![g] = m + 1]
    BY <1>4, <2>1, PaidNow
  <2>4. m < k => U \in [ForPaid.Guests -> 0..10] /\ U[g] = m + 1
    BY <2>2, <2>3
  <2>5. \A h \in ForPaid.Guests : h # g => U[h] = v4[h]
    BY <2>3
  <2>6. \A h \in ForPaid.Guests : v4[h] \in 0..10 /\ \E n \in ForPaid.Allowances : v4[h] <= n
    BY PaidNow DEF PaidHolds, GuestsHold
  <2> QED BY <2>1, <2>2, <2>4, <2>5, <2>6
<1>7. CASE v4[g] < l /\ v4' = U /\ Paid!Set(q, [r EXCEPT !.limit = 0, !.pc = "screen"])
  <2>1. PICK n : n = [r EXCEPT !.limit = 0, !.pc = "screen"]
    OBVIOUS
  <2>2. "screen" \in Paid!PC
    BY DEF Paid!PC
  <2>3. n \in Paid!Held
    BY <2>1, <2>2 DEF Paid!Held
  <2>4. /\ n.pc = "screen" /\ n.at = r.at /\ n.actor = r.actor /\ n.kind = r.kind
        /\ n.times = r.times /\ n.acted = r.acted /\ n.failed = r.failed
        /\ n.result = r.result /\ n.tail = r.tail /\ n.shown = r.shown /\ n.side = r.side
    BY <2>1 DEF Paid!Held
  <2>5. Placed(n, v1)
    BY <1>1, <1>2, <2>4 DEF RequestHolds, Placed
  <2>6. Veiled(n)
    BY <1>1, <1>2, <2>4 DEF RequestHolds, Veiled
  <2>7. RequestHolds(n, v1)
    BY <2>3, <2>5, <2>6 DEF RequestHolds
  <2>8. PICK R2 \in [Calls -> Paid!Held] :
          R2 = [v7 EXCEPT ![q] = n] /\ R2[q] = n /\ \A p \in Calls : p # q => R2[p] = v7[p]
    <3>1. v7 \in [Calls -> Paid!Held]
      BY PaidNow
    <3>2. [v7 EXCEPT ![q] = n] \in [Calls -> Paid!Held] /\ [v7 EXCEPT ![q] = n][q] = n
      BY <2>3, <3>1
    <3>3. \A p \in Calls : p # q => [v7 EXCEPT ![q] = n][p] = v7[p]
      BY <3>1
    <3> QED BY <3>2, <3>3
  <2>9. v7' = R2
    BY <1>7, <2>1, <2>8 DEF Paid!Set
  <2>10. GuestsHold(R2, U) /\ U \in [ForPaid.Guests -> 0..10]
    <3>1. GuestsHold(v7, v4) /\ v4 \in [ForPaid.Guests -> 0..10]
      BY DEF PaidHolds
    <3>2. R2[q].actor = g
      BY <1>3, <2>4, <2>8
    <3>3. GuestCounts(v7, R2, v4, U, q, g, l)
      BY <1>4, <1>7, <2>8, <3>2 DEF GuestCounts
    <3> QED BY <3>1, <3>3, GuestConsumes
  <2>11. WindowsHold(R2, v1, v3)
    <3>1. WindowsHold(v7, v1, v3)
      BY DEF PaidHolds
    <3>2. Keeps(v7, R2, v1, v1, v3, v3)
      <4>1. v1 \in Nat /\ v1 <= v1
        BY PaidNow, PaidBounds
      <4>2. ASSUME NEW p \in Calls
            PROVE  v7[p].times \in Seq(Nat) /\ R2[p].times = v7[p].times /\ R2[p].actor = v7[p].actor
        <5>1. v7[p].times \in Seq(0..ForPaid.MaxTime)
          BY PaidNow DEF Paid!Held
        <5>2. v7[p].times \in Seq(Nat)
          BY <5>1, TimesAreNumbers
        <5> QED BY <1>1, <2>4, <2>8, <5>2
      <4> QED BY <3>1, <4>1, <4>2 DEF Keeps, WindowsHold
    <3> QED BY <3>1, <3>2, WindowsKept
  <2>12. \A p \in Calls : RequestHolds(R2[p], v1)
    BY <2>7, <2>8 DEF PaidHolds
  <2> QED BY <1>2, <1>7, <2>8, <2>9, <2>10, <2>11, <2>12 DEF PaidHolds
<1>8. ASSUME NEW result \in {"limited", "unavailable"}, Paid!End(q, result),
             v4' \in {v4, IF v4[g] < l THEN U ELSE v4}
      PROVE  PaidHolds(v1', v2', v3', v4', v5', v6', v7')
  <2>1. result \in Paid!Results /\ result \in Refusals
    BY DEF Paid!Results, Refusals
  <2>2. CASE UNCHANGED v4
    <3>1. v6' \in PaidBreaker
      BY <1>2, PaidNow
    <3> QED BY <1>1, <1>2, <1>8, <2>1, <2>2, <3>1, EndKeeps
  <2>3. CASE v4' # v4
    <3>0. v4[g] < l /\ v4' = U
      <4>1. CASE v4[g] < l
        BY <1>8, <2>3, <4>1
      <4>2. CASE ~(v4[g] < l)
        BY <1>8, <2>3, <4>2
      <4> QED BY <4>1, <4>2
    <3>1. PICK n : n = Paid!Ended(r, result)
      OBVIOUS
    <3>2. Follows(n, v7[q], v1)
      BY <1>1, <1>2, <2>1, <3>1, PaidNow, EndFollows
    <3>3. v7' = [v7 EXCEPT ![q] = n]
      BY <1>1, <1>8, <3>1 DEF Paid!End, Paid!Set
    <3>4. EntriesKept(v7, v1, v3, v3)
      BY DEF PaidHolds, WindowsHold, EntriesKept
    <3>5. PaidHolds(v1, v2, v3, U, v5, v6, [v7 EXCEPT ![q] = n])
      BY <1>6, <3>0, <3>2, <3>4, PaidNow, OneMoves
    <3> QED BY <1>2, <3>0, <3>3, <3>5
  <2> QED BY <2>2, <2>3
<1> QED BY <1>5, <1>7, <1>8

-----------------------------------------------------------------------------

\* What a screening decides, the request's screening having failed or not.
LEMMA ScreeningKeeps ==
  ASSUME PaidHolds(v1, v2, v3, v4, v5, v6, v7), NEW q \in Calls,
         v7[q].pc \in {"screen", "asked"}, NEW f \in BOOLEAN, NEW action,
         Granted(v7[q], action, f),
         Paid!Set(q, Paid!After([v7[q] EXCEPT !.failed = f], action)),
         v6' \in PaidBreaker, UNCHANGED <<v1, v2, v3, v4, v5>>
  PROVE  PaidHolds(v1', v2', v3', v4', v5', v6', v7')
<1>1. PICK s : s = Paid!After([v7[q] EXCEPT !.failed = f], action)
  OBVIOUS
<1>2. Follows(s, v7[q], v1)
  BY <1>1, PaidNow, AfterFollows
<1>3. v7' = [v7 EXCEPT ![q] = s]
  BY <1>1 DEF Paid!Set
<1> QED BY <1>2, <1>3, JustMoves

\* A screening that has not failed leaves the request as it is.
LEMMA NotFailed ==
  ASSUME PaidHolds(v1, v2, v3, v4, v5, v6, v7), NEW q \in Calls,
         v7[q].pc \in {"screen", "asked"}
  PROVE  [v7[q] EXCEPT !.failed = FALSE] = v7[q]
<1>1. PICK r \in Paid!Held : r = v7[q] /\ ~r.failed
  BY PaidNow DEF RequestHolds, Veiled
<1>2. r.failed = FALSE
  BY <1>1
<1>3. [r EXCEPT !.failed = FALSE] = r
  BY <1>2 DEF Paid!Held
<1> QED BY <1>1, <1>3

\* One that failed withholds what is not a name.
LEMMA FailureDecides ==
  ASSUME PaidHolds(v1, v2, v3, v4, v5, v6, v7), NEW q \in Calls,
         v7[q].pc \in {"screen", "asked"}, NEW h \in Paid!Thresholds(v7[q]), NEW m
  PROVE  Granted(v7[q], Paid!Decision(m, Paid!FailedVerdict, h, 0), TRUE)
<1>1. PICK a : a = Paid!Decision(m, Paid!FailedVerdict, h, 0)
  OBVIOUS
<1>2. a \in Paid!Actions
  BY <1>1, DecisionsAreActions
<1>3. v7[q].kind # "name" => a = "escalate"
  <2>1. v7[q].kind # "name" => h \in {Paid!Seeded(1), Paid!Strict}
    BY DEF Paid!Thresholds, Paid!Level
  <2> QED BY <1>1, <2>1, FailureEscalates
<1>4. v7[q].side = "output" => v7[q].kind = "stream"
  BY PaidNow DEF RequestHolds, Veiled
<1> QED BY <1>1, <1>2, <1>3, <1>4 DEF Granted

LEMMA ScreenKeeps ==
  ASSUME PaidHolds(v1, v2, v3, v4, v5, v6, v7), NEW q \in Calls, Paid!Screen(q)
  PROVE  PaidHolds(v1', v2', v3', v4', v5', v6', v7')
<1>1. PICK r \in Paid!Held : r = v7[q] /\ RequestHolds(r, v1)
  BY PaidNow
<1>2. r.pc = "screen" /\ UNCHANGED <<v1, v2, v3, v4, v5>>
  BY <1>1 DEF Paid!Screen, Paid!At, Paid!Limits
<1>3. v6 \in PaidBreaker /\ Paid!Entered \in PaidBreaker
  BY PaidNow, BreakerTyped
<1>4. {"block", "escalate"} \subseteq Paid!Actions
  BY DEF Paid!Actions
<1>5. CASE Paid!Set(q, Paid!After(r, "block")) /\ UNCHANGED v6
  <2>1. Granted(v7[q], "block", FALSE)
    BY <1>4 DEF Granted
  <2>2. Paid!Set(q, Paid!After([v7[q] EXCEPT !.failed = FALSE], "block"))
    BY <1>1, <1>2, <1>5, NotFailed
  <2> QED BY <1>1, <1>2, <1>3, <1>5, <2>1, <2>2, ScreeningKeeps
<1>6. CASE Paid!Goto(q, "asked") /\ v6' = Paid!Entered
  <2>1. PICK n : n = [r EXCEPT !.pc = "asked"]
    OBVIOUS
  <2>2. "asked" \in Paid!PC
    BY DEF Paid!PC
  <2>3. n \in Paid!Held /\ n.pc = "asked"
    BY <2>1, <2>2 DEF Paid!Held
  <2>4. /\ n.at = r.at /\ n.actor = r.actor /\ n.kind = r.kind
        /\ n.times = r.times /\ n.acted = r.acted /\ n.failed = r.failed
        /\ n.result = r.result /\ n.tail = r.tail /\ n.shown = r.shown /\ n.side = r.side
    BY <2>1 DEF Paid!Held
  <2>5. Paid!Paid(n) => Paid!Paid(r)
    BY <1>2, <2>3, <2>4 DEF Paid!Paid
  <2>6. Placed(n, v1)
    BY <1>1, <1>2, <2>3, <2>4, <2>5 DEF RequestHolds, Placed
  <2>7. n.side = "output" => r.kind = "stream"
    BY <1>1, <1>2, <2>4 DEF RequestHolds, Veiled
  <2>8. Follows(n, r, v1)
    BY <1>1, <1>2, <2>3, <2>4, <2>5, <2>6, <2>7, PaidNow, GoesOn
  <2>9. v7' = [v7 EXCEPT ![q] = n]
    BY <1>1, <1>6, <2>1 DEF Paid!Goto, Paid!Set
  <2> QED BY <1>1, <1>2, <1>3, <1>6, <2>8, <2>9, JustMoves
<1>7. ASSUME NEW h \in Paid!Thresholds(r), UNCHANGED v6,
             Paid!Set(q, Paid!After([r EXCEPT !.failed = TRUE],
                                    Paid!Decision(r.matches, Paid!FailedVerdict, h, 0)))
      PROVE  PaidHolds(v1', v2', v3', v4', v5', v6', v7')
  <2>1. PICK a : a = Paid!Decision(r.matches, Paid!FailedVerdict, h, 0)
    OBVIOUS
  <2>2. Granted(v7[q], a, TRUE)
    BY <1>1, <1>2, <2>1, FailureDecides
  <2>3. Paid!Set(q, Paid!After([v7[q] EXCEPT !.failed = TRUE], a))
    BY <1>1, <1>7, <2>1
  <2> QED BY <1>1, <1>2, <1>3, <1>7, <2>2, <2>3, ScreeningKeeps
<1>8. CASE Paid!Set(q, Paid!After([r EXCEPT !.failed = TRUE], "escalate")) /\ UNCHANGED v6
  <2>1. Granted(v7[q], "escalate", TRUE)
    BY <1>4 DEF Granted
  <2> QED BY <1>1, <1>2, <1>3, <1>8, <2>1, ScreeningKeeps
<1> QED BY <1>1, <1>5, <1>6, <1>7, <1>8 DEF Paid!Screen

LEMMA JudgedKeeps ==
  ASSUME PaidHolds(v1, v2, v3, v4, v5, v6, v7), NEW q \in Calls, Paid!Judged(q)
  PROVE  PaidHolds(v1', v2', v3', v4', v5', v6', v7')
<1>1. PICK r \in Paid!Held : r = v7[q] /\ RequestHolds(r, v1)
  BY PaidNow
<1>2. r.pc = "asked" /\ UNCHANGED <<v1, v2, v3, v4, v5>> /\ v6' \in PaidBreaker
  <2>1. v6' = Paid!Succeeded
    BY DEF Paid!Judged
  <2> QED BY <1>1, <2>1, PaidNow, BreakerTyped DEF Paid!Judged, Paid!At, Paid!Limits
<1>3. PICK v \in (IF Paid!HasPhrase(Paid!Text(r)) THEN ForPaid.Alarms ELSE ForPaid.Verdicts),
           h \in Paid!Thresholds(r) :
             Paid!Set(q, Paid!After(r, Paid!Decision(r.matches, v, h, 0)))
  BY <1>1 DEF Paid!Judged
<1>4. PICK a : a = Paid!Decision(r.matches, v, h, 0)
  OBVIOUS
<1>5. Granted(r, a, FALSE)
  <2>1. a \in Paid!Actions
    BY <1>4, DecisionsAreActions
  <2>2. ASSUME r.side = "output", a = "allow" PROVE ~Paid!HasPhrase(r.tail \o r.pending)
    <3>1. r.kind = "stream"
      BY <1>1, <1>2, <2>2 DEF RequestHolds, Veiled
    <3>2. h \in {Paid!Seeded(1), Paid!Strict}
      BY <3>1 DEF Paid!Thresholds, Paid!Level
    <3>3. v \in Paid!Verdict /\ (v \in ForPaid.Alarms => ~v.safe)
      BY <1>3, PaidBounds
    <3>4. v.safe
      BY <1>4, <2>2, <3>2, <3>3, UnsafeIsNotAllowed
    <3>5. ~Paid!HasPhrase(Paid!Text(r))
      BY <1>3, <3>3, <3>4
    <3>6. Paid!Text(r) = r.tail \o r.pending
      BY <2>2 DEF Paid!Text
    <3> QED BY <3>5, <3>6
  <2> QED BY <2>1, <2>2 DEF Granted
<1>6. Paid!Set(q, Paid!After([v7[q] EXCEPT !.failed = FALSE], a))
  BY <1>1, <1>2, <1>3, <1>4, NotFailed
<1>7. Granted(v7[q], a, FALSE) /\ v7[q].pc \in {"screen", "asked"}
  BY <1>1, <1>2, <1>5
<1> QED BY <1>2, <1>6, <1>7, ScreeningKeeps

LEMMA JudgeFailsKeeps ==
  ASSUME PaidHolds(v1, v2, v3, v4, v5, v6, v7), NEW q \in Calls, Paid!JudgeFails(q)
  PROVE  PaidHolds(v1', v2', v3', v4', v5', v6', v7')
<1>1. PICK r : r = v7[q] /\ r.pc = "asked"
  BY DEF Paid!JudgeFails, Paid!At
<1>2. UNCHANGED <<v1, v2, v3, v4, v5>> /\ v6' \in PaidBreaker
  <2>1. v6' \in {v6, Paid!Failed}
    BY DEF Paid!JudgeFails
  <2> QED BY <2>1, PaidNow, BreakerTyped DEF Paid!JudgeFails, Paid!Limits
<1>3. PICK h \in Paid!Thresholds(r) :
        Paid!Set(q, Paid!After([r EXCEPT !.failed = TRUE],
                               Paid!Decision(r.matches, Paid!FailedVerdict, h, 0)))
  BY <1>1 DEF Paid!JudgeFails
<1>4. PICK a : a = Paid!Decision(r.matches, Paid!FailedVerdict, h, 0)
  OBVIOUS
<1>5. Granted(v7[q], a, TRUE)
  BY <1>1, <1>3, <1>4, FailureDecides
<1>6. Paid!Set(q, Paid!After([v7[q] EXCEPT !.failed = TRUE], a))
  BY <1>1, <1>3, <1>4
<1> QED BY <1>1, <1>2, <1>5, <1>6, ScreeningKeeps

-----------------------------------------------------------------------------

LEMMA TranslateKeeps ==
  ASSUME PaidHolds(v1, v2, v3, v4, v5, v6, v7), NEW q \in Calls, Paid!Translate(q)
  PROVE  PaidHolds(v1', v2', v3', v4', v5', v6', v7')
<1>1. PICK result \in {"done", "failed"} :
        v7[q].pc = "work" /\ Paid!End(q, result) /\ UNCHANGED <<v1, v2, v3, v4, v5, v6>>
  BY DEF Paid!Translate, Paid!At, Paid!Limits
<1>2. result \in Paid!Results /\ v6' \in PaidBreaker
  BY <1>1, PaidNow DEF Paid!Results
<1> QED BY <1>1, <1>2, EndKeeps

LEMMA OpenStreamKeeps ==
  ASSUME PaidHolds(v1, v2, v3, v4, v5, v6, v7), NEW q \in Calls, Paid!OpenStream(q)
  PROVE  PaidHolds(v1', v2', v3', v4', v5', v6', v7')
<1>1. PICK r \in Paid!Held : r = v7[q] /\ RequestHolds(r, v1)
  BY PaidNow
<1>2. r.pc = "open" /\ UNCHANGED <<v1, v2, v3, v4, v5>>
  BY <1>1, Zenon DEF Paid!OpenStream, Paid!At, Paid!Limits
<1>3. v6 \in PaidBreaker /\ Paid!Entered \in PaidBreaker
  BY PaidNow, BreakerTyped
<1>4. ASSUME NEW c \in ForPaid.Scripts, v6' = Paid!Entered,
             Paid!Set(q, [r EXCEPT !.pc = "source", !.left = c, !.side = "output"])
      PROVE  PaidHolds(v1', v2', v3', v4', v5', v6', v7')
  <2>1. PICK n : n = [r EXCEPT !.pc = "source", !.left = c, !.side = "output"]
    OBVIOUS
  <2>2. "source" \in Paid!PC /\ c \in Seq(Seq(ForPaid.Tokens))
    BY PaidBounds DEF Paid!PC
  <2>3. n \in Paid!Held /\ n.pc = "source" /\ n.side = "output"
    BY <2>1, <2>2 DEF Paid!Held
  <2>4. /\ n.at = r.at /\ n.actor = r.actor /\ n.kind = r.kind
        /\ n.times = r.times /\ n.acted = r.acted /\ n.failed = r.failed
        /\ n.result = r.result /\ n.tail = r.tail /\ n.shown = r.shown
    BY <2>1 DEF Paid!Held
  <2>5. r.kind = "stream"
    BY <1>1, <1>2 DEF RequestHolds, Placed
  <2>6. Paid!Paid(r)
    BY <1>2, <2>5 DEF Paid!Paid
  <2>7. Placed(n, v1)
    BY <1>1, <1>2, <2>3, <2>4, <2>6 DEF RequestHolds, Placed
  <2>8. Follows(n, r, v1)
    BY <1>1, <1>2, <2>3, <2>4, <2>5, <2>6, <2>7, PaidNow, GoesOn
  <2>9. v7' = [v7 EXCEPT ![q] = n]
    BY <1>1, <1>4, <2>1 DEF Paid!Set
  <2> QED BY <1>1, <1>2, <1>3, <1>4, <2>8, <2>9, JustMoves
<1>5. CASE Paid!End(q, "failed") /\ UNCHANGED v6
  <2>1. "failed" \in Paid!Results
    BY DEF Paid!Results
  <2> QED BY <1>1, <1>2, <1>3, <1>5, <2>1, EndKeeps
<1> QED BY <1>1, <1>4, <1>5, Zenon DEF Paid!OpenStream

\* u is stream r, except for what has been read of the source.
Reads(u, r) ==
  /\ u \in Paid!Held /\ u.at = r.at /\ u.actor = r.actor /\ u.kind = r.kind
  /\ u.times = r.times /\ u.acted = r.acted /\ u.failed = r.failed /\ u.side = r.side
  /\ u.result = r.result /\ u.tail = r.tail /\ u.shown = r.shown

\* What a stream has read is held back, or what is pending goes on to be screened.
LEMMA StreamKeeps ==
  ASSUME PaidHolds(v1, v2, v3, v4, v5, v6, v7), NEW q \in Calls,
         v7[q].pc \in {"source", "whole"}, NEW u, Reads(u, v7[q]),
         Paid!Set(q, Paid!Screened(u)) \/ (u.pc = "source" /\ Paid!Set(q, u)),
         v6' \in PaidBreaker, UNCHANGED <<v1, v2, v3, v4, v5>>
  PROVE  PaidHolds(v1', v2', v3', v4', v5', v6', v7')
<1>1. PICK r \in Paid!Held : r = v7[q] /\ RequestHolds(r, v1) /\ v1 \in 0..ForPaid.MaxTime
  BY PaidNow
<1>2. r.side = "output"
  BY <1>1 DEF RequestHolds, Placed
<1>3. Streaming(r, v1) /\ Paid!Paid(r)
  BY <1>1, <1>2, StreamingHolds
<1>4. Streaming(u, v1) /\ u \in Paid!Held /\ u.times = r.times /\ u.actor = r.actor
  BY <1>1, <1>3 DEF Reads, Streaming
<1>5. ASSUME NEW n, RequestHolds(n, v1), n.times = u.times, n.actor = u.actor, Paid!Set(q, n)
      PROVE  PaidHolds(v1', v2', v3', v4', v5', v6', v7')
  <2>1. Follows(n, v7[q], v1)
    BY <1>1, <1>3, <1>4, <1>5 DEF Follows
  <2>2. v7' = [v7 EXCEPT ![q] = n]
    BY <1>5 DEF Paid!Set
  <2> QED BY <2>1, <2>2, JustMoves
<1>6. CASE Paid!Set(q, Paid!Screened(u))
  <2>1. PICK n : n = Paid!Screened(u)
    OBVIOUS
  <2>2. RequestHolds(n, v1) /\ n.times = u.times /\ n.actor = u.actor
    BY <1>1, <1>4, <2>1, ScreenedHolds
  <2> QED BY <1>5, <1>6, <2>1, <2>2
<1>7. CASE u.pc = "source" /\ Paid!Set(q, u)
  <2>1. [u EXCEPT !.pc = "source"] = u
    BY <1>4, <1>7 DEF Paid!Held
  <2>2. LET n == [u EXCEPT !.pc = "source"]
        IN RequestHolds(n, v1) /\ n.times = u.times /\ n.actor = u.actor
    BY <1>1, <1>4, StreamGoesOn
  <2> QED BY <1>5, <1>7, <2>1, <2>2
<1> QED BY <1>6, <1>7

LEMMA ChunkKeeps ==
  ASSUME PaidHolds(v1, v2, v3, v4, v5, v6, v7), NEW q \in Calls, Paid!Chunk(q)
  PROVE  PaidHolds(v1', v2', v3', v4', v5', v6', v7')
<1>1. PICK r \in Paid!Held : r = v7[q]
  BY PaidNow
<1>2. r.pc = "source" /\ r.left # <<>> /\ UNCHANGED <<v1, v2, v3, v4, v5, v6>>
  BY <1>1 DEF Paid!Chunk, Paid!At, Paid!Limits
<1>3. PICK u : u = [r EXCEPT !.pending = @ \o Head(r.left), !.left = Tail(@), !.got = TRUE]
  OBVIOUS
<1>4. Paid!Set(q, IF Len(u.pending) < ForPaid.Window THEN u ELSE Paid!Screened(u))
  BY <1>1, <1>3 DEF Paid!Chunk
<1>5. r.pending \o Head(r.left) \in Seq(ForPaid.Tokens) /\ Tail(r.left) \in Seq(Seq(ForPaid.Tokens))
  <2>1. PICK l \in Seq(Seq(ForPaid.Tokens)), p \in Seq(ForPaid.Tokens) : l = r.left /\ p = r.pending
    BY DEF Paid!Held
  <2>2. Head(l) \in Seq(ForPaid.Tokens) /\ Tail(l) \in Seq(Seq(ForPaid.Tokens))
    BY <1>2, <2>1, HeadTailProperties
  <2>3. p \o Head(l) \in Seq(ForPaid.Tokens)
    BY <2>2, ConcatProperties
  <2> QED BY <2>1, <2>2, <2>3
<1>6. Reads(u, r) /\ u.pc = "source"
  <2>1. u \in Paid!Held
    BY <1>3, <1>5 DEF Paid!Held
  <2>2. /\ u.at = r.at /\ u.actor = r.actor /\ u.kind = r.kind /\ u.side = r.side
        /\ u.times = r.times /\ u.acted = r.acted /\ u.failed = r.failed
        /\ u.result = r.result /\ u.tail = r.tail /\ u.shown = r.shown /\ u.pc = r.pc
    BY <1>3 DEF Paid!Held
  <2> QED BY <1>2, <2>1, <2>2 DEF Reads
<1>7. Reads(u, v7[q]) /\ v7[q].pc \in {"source", "whole"} /\ v6' \in PaidBreaker
  BY <1>1, <1>2, <1>6, PaidNow
<1>8. Paid!Set(q, Paid!Screened(u)) \/ (u.pc = "source" /\ Paid!Set(q, u))
  BY <1>4, <1>6
<1> QED BY <1>2, <1>7, <1>8, StreamKeeps

LEMMA SourceEndsKeeps ==
  ASSUME PaidHolds(v1, v2, v3, v4, v5, v6, v7), NEW q \in Calls, Paid!SourceEnds(q)
  PROVE  PaidHolds(v1', v2', v3', v4', v5', v6', v7')
<1>1. PICK r \in Paid!Held : r = v7[q]
  BY PaidNow
<1>2. r.pc = "source" /\ UNCHANGED <<v1, v2, v3, v4, v5>>
  BY <1>1 DEF Paid!SourceEnds, Paid!At, Paid!Limits
<1>3. PICK u : u = [r EXCEPT !.last = TRUE]
  OBVIOUS
<1>4. Paid!Set(q, Paid!Screened(u)) /\ v6' \in {v6, Paid!Succeeded}
  BY <1>1, <1>3 DEF Paid!SourceEnds
<1>5. Reads(u, r)
  BY <1>3 DEF Paid!Held, Reads
<1>6. Reads(u, v7[q]) /\ v7[q].pc \in {"source", "whole"} /\ v6' \in PaidBreaker
  BY <1>1, <1>2, <1>4, <1>5, PaidNow, BreakerTyped
<1> QED BY <1>2, <1>4, <1>6, StreamKeeps

LEMMA SourceBreaksKeeps ==
  ASSUME PaidHolds(v1, v2, v3, v4, v5, v6, v7), NEW q \in Calls, Paid!SourceBreaks(q)
  PROVE  PaidHolds(v1', v2', v3', v4', v5', v6', v7')
<1>1. PICK r \in Paid!Held : r = v7[q] /\ RequestHolds(r, v1) /\ v1 \in 0..ForPaid.MaxTime
  BY PaidNow
<1>2. r.pc = "source" /\ UNCHANGED <<v1, v2, v3, v4, v5>>
  BY <1>1 DEF Paid!SourceBreaks, Paid!At, Paid!Limits
<1>3. v6' \in PaidBreaker
  <2>1. v6' \in {v6, Paid!Failed}
    BY DEF Paid!SourceBreaks
  <2> QED BY <2>1, PaidNow, BreakerTyped
<1>4. CASE Paid!End(q, "failed")
  <2>1. "failed" \in Paid!Results
    BY DEF Paid!Results
  <2> QED BY <1>1, <1>2, <1>3, <1>4, <2>1, EndKeeps
<1>5. CASE Paid!Goto(q, "whole")
  <2>1. PICK n : n = [r EXCEPT !.pc = "whole"]
    OBVIOUS
  <2>2. r.side = "output"
    BY <1>1, <1>2 DEF RequestHolds, Placed
  <2>3. Streaming(r, v1) /\ Paid!Paid(r)
    BY <1>1, <1>2, <2>2, StreamingHolds
  <2>4. RequestHolds(n, v1) /\ n.times = r.times /\ n.actor = r.actor
    BY <1>1, <2>1, <2>3, StreamGoesOn
  <2>5. Follows(n, v7[q], v1)
    BY <1>1, <2>3, <2>4 DEF Follows
  <2>6. v7' = [v7 EXCEPT ![q] = n]
    BY <1>1, <1>5, <2>1 DEF Paid!Goto, Paid!Set
  <2> QED BY <1>2, <1>3, <2>5, <2>6, JustMoves
<1> QED BY <1>4, <1>5 DEF Paid!SourceBreaks

LEMMA WholeAnswerKeeps ==
  ASSUME PaidHolds(v1, v2, v3, v4, v5, v6, v7), NEW q \in Calls, Paid!WholeAnswer(q)
  PROVE  PaidHolds(v1', v2', v3', v4', v5', v6', v7')
<1>1. PICK r \in Paid!Held : r = v7[q]
  BY PaidNow
<1>2. r.pc = "whole" /\ UNCHANGED <<v1, v2, v3, v4, v5>>
  BY <1>1, Zenon DEF Paid!WholeAnswer, Paid!At, Paid!Limits
<1>3. ASSUME NEW a \in ForPaid.Answers, v6' = Paid!Succeeded,
             Paid!Set(q, Paid!Screened([r EXCEPT !.pending = a, !.left = <<>>, !.last = TRUE]))
      PROVE  PaidHolds(v1', v2', v3', v4', v5', v6', v7')
  <2>1. PICK u : u = [r EXCEPT !.pending = a, !.left = <<>>, !.last = TRUE]
    OBVIOUS
  <2>2. a \in Seq(ForPaid.Tokens) /\ <<>> \in Seq(Seq(ForPaid.Tokens))
    BY PaidBounds
  <2>3. u \in Paid!Held
    BY <2>1, <2>2 DEF Paid!Held
  <2>4. Reads(u, r)
    BY <2>1, <2>3 DEF Paid!Held, Reads
  <2>5. Reads(u, v7[q]) /\ v7[q].pc \in {"source", "whole"} /\ v6' \in PaidBreaker
    BY <1>1, <1>2, <1>3, <2>4, PaidNow, BreakerTyped
  <2>6. Paid!Set(q, Paid!Screened(u))
    BY <1>3, <2>1
  <2> QED BY <1>2, <2>5, <2>6, StreamKeeps
<1>4. CASE Paid!End(q, "failed") /\ UNCHANGED v6
  <2>1. "failed" \in Paid!Results /\ v6' \in PaidBreaker
    BY <1>4, PaidNow DEF Paid!Results
  <2> QED BY <1>1, <1>2, <1>4, <2>1, EndKeeps
<1> QED BY <1>1, <1>3, <1>4, Zenon DEF Paid!WholeAnswer

LEMMA ClientGoneKeeps ==
  ASSUME PaidHolds(v1, v2, v3, v4, v5, v6, v7), NEW q \in Calls, Paid!ClientGone(q)
  PROVE  PaidHolds(v1', v2', v3', v4', v5', v6', v7')
<1>1. v7[q].pc = "source" /\ Paid!End(q, "gone") /\ UNCHANGED <<v1, v2, v3, v4, v5, v6>>
  BY DEF Paid!ClientGone, Paid!At, Paid!Limits
<1>2. "gone" \in Paid!Results /\ v6' \in PaidBreaker
  BY <1>1, PaidNow DEF Paid!Results
<1> QED BY <1>1, <1>2, EndKeeps

\* Time passes: windows only get smaller.
LEMMA PaidTickKeeps ==
  ASSUME PaidHolds(v1, v2, v3, v4, v5, v6, v7), Paid!Tick
  PROVE  PaidHolds(v1', v2', v3', v4', v5', v6', v7')
<1>1. PICK t \in Nat, m \in Nat : t = v1 /\ m = ForPaid.MaxTime /\ t < m
  <2>1. ForPaid.MaxTime \in Nat
    BY PaidBounds
  <2>2. v1 \in 0..ForPaid.MaxTime /\ v1 < ForPaid.MaxTime
    BY DEF PaidHolds, Paid!Tick
  <2> QED BY <2>1, <2>2
<1>2. v1' = t + 1 /\ UNCHANGED <<v2, v3, v4, v5, v6, v7>>
  BY <1>1 DEF Paid!Tick, Paid!Limits
<1>3. t + 1 \in 0..m /\ t + 1 \in Nat /\ t <= t + 1
  BY <1>1
<1>4. ASSUME NEW p \in Calls PROVE RequestHolds(v7[p], t + 1) /\ v7[p].times \in Seq(Nat)
  <2>1. PICK r \in Paid!Held : r = v7[p] /\ RequestHolds(r, t)
    BY <1>1 DEF PaidHolds
  <2>2. PICK a \in Nat : a = r.at /\ a <= t
    BY <2>1, PaidBounds DEF Paid!Held, RequestHolds, Placed
  <2>3. a <= t + 1
    BY <2>2
  <2>4. Placed(r, t + 1)
    BY <2>1, <2>2, <2>3 DEF RequestHolds, Placed
  <2>5. r.times \in Seq(Nat)
    BY TimesAreNumbers DEF Paid!Held
  <2> QED BY <2>1, <2>4, <2>5 DEF RequestHolds
<1>5. Keeps(v7, v7, t, t + 1, v3, v3)
  <2>1. \A i \in 1..2, a \in Paid!Actors : IsFiniteSet(v3[i][a])
    BY DEF PaidHolds, WindowsHold
  <2> QED BY <1>3, <1>4, <2>1 DEF Keeps
<1>6. WindowsHold(v7, t, v3)
  BY <1>1 DEF PaidHolds
<1>7. WindowsHold(v7, t + 1, v3)
  BY <1>5, <1>6, WindowsKept
<1>8. PaidHolds(t + 1, v2, v3, v4, v5, v6, v7)
  BY <1>1, <1>3, <1>4, <1>7 DEF PaidHolds
<1> QED BY <1>2, <1>8

-----------------------------------------------------------------------------
(* The invariant holds at first and is kept *)

LEMMA PaidFirst ==
  ASSUME Paid!Init
  PROVE  PaidHolds(v1, v2, v3, v4, v5, v6, v7)
<1>1. PICK r : r = Paid!Blank
  OBVIOUS
<1>2. /\ v1 = 0 /\ v2 \in ForPaid.Stores /\ v3 = [i \in 1..2 |-> [a \in Paid!Actors |-> {}]]
      /\ v4 = [g \in ForPaid.Guests |-> 0] /\ v5 \in ForPaid.Allowances /\ v6 = Paid!Closed
      /\ v7 = [q \in Calls |-> r]
  BY <1>1 DEF Paid!Init
<1>3. 0 \in 0..ForPaid.MaxTime /\ 0 <= 0 /\ 0 \in 0..10 /\ v6 \in PaidBreaker
  BY <1>2, PaidBounds DEF Paid!Closed, PaidBreaker
<1>4. RequestHolds(r, 0)
  <2>1. <<>> \in Seq(0..ForPaid.MaxTime) /\ <<>> \in Seq(ForPaid.Tokens)
        /\ <<>> \in Seq(Seq(ForPaid.Tokens)) /\ 1 \in 1..2
    OBVIOUS
  <2>2. r \in Paid!Held
    BY <1>1, <1>3, <2>1 DEF Paid!Held, Paid!PC, Paid!Blank
  <2>3. /\ r.pc = "new" /\ r.kind = None /\ r.at = 0 /\ r.side = "input" /\ ~r.failed
        /\ r.acted = "none" /\ r.tail = <<>> /\ r.shown = <<>> /\ r.result = None
    BY <1>1 DEF Paid!Blank
  <2>4. Placed(r, 0)
    <3>1. ~Paid!Paid(r)
      BY <2>3, PaidBounds DEF Paid!Paid
    <3> QED BY <1>1, <1>3, <2>3, <3>1 DEF Placed
  <2>5. Paid!EndOf(<<>>) = <<>> /\ ~Paid!HasPhrase(<<>>)
    <3>1. ForPaid.Overlap \in Nat /\ Len(<<>>) = 0
      BY PaidBounds
    <3> QED BY <3>1 DEF Paid!EndOf, Paid!HasPhrase
  <2>6. Veiled(r)
    BY <2>3, <2>5 DEF Veiled
  <2> QED BY <2>2, <2>4, <2>6 DEF RequestHolds
<1>5. \A q \in Calls : v7[q] = r
  BY <1>2
<1>6. r.times = <<>> /\ ~Paid!Paid(r) /\ r \in Paid!Held
  <2>1. r.times = <<>> /\ r.kind = None
    BY <1>1 DEF Paid!Blank
  <2> QED BY <1>4, <2>1, PaidBounds DEF RequestHolds, Paid!Paid
<1>7. v7 \in [Calls -> Paid!Held] /\ v3 \in PaidEntries /\ v4 \in [ForPaid.Guests -> 0..10]
  BY <1>2, <1>3, <1>6 DEF PaidEntries
<1>8. WindowsHold(v7, v1, v3)
  <2>1. ASSUME NEW i \in 1..2, NEW q \in Calls, Len(v7[q].times) >= i PROVE FALSE
    BY <1>5, <1>6, <2>1
  <2>2. ASSUME NEW i \in 1..2, NEW a \in Paid!Actors
        PROVE  IsFiniteSet(v3[i][a]) /\ Cardinality(Windowed(v7, v1, i, a)) <= ForPaid.Cap[i]
    <3>1. v3[i][a] = {} /\ Windowed(v7, v1, i, a) = {}
      BY <1>2, <2>1 DEF Windowed
    <3>2. ForPaid.Cap[i] \in Nat
      BY PaidBounds
    <3> QED BY <3>1, <3>2, FS_EmptySet
  <2> QED BY <2>1, <2>2 DEF WindowsHold
<1>9. GuestsHold(v7, v4)
  <2>1. ASSUME NEW g \in ForPaid.Guests
        PROVE  /\ IsFiniteSet(PaidOf(v7, g)) /\ Cardinality(PaidOf(v7, g)) <= v4[g]
               /\ \E n \in ForPaid.Allowances : v4[g] <= n
    <3>1. PaidOf(v7, g) = {} /\ v4[g] = 0
      BY <1>2, <1>5, <1>6 DEF PaidOf
    <3>2. v5 \in 1..10
      BY <1>2, PaidBounds
    <3>3. 0 <= v5
      BY <3>2
    <3> QED BY <1>2, <3>1, <3>3, FS_EmptySet
  <2> QED BY <2>1 DEF GuestsHold
<1> QED BY <1>2, <1>3, <1>4, <1>5, <1>7, <1>8, <1>9 DEF PaidHolds

LEMMA PaidInductive ==
  ASSUME PaidHolds(v1, v2, v3, v4, v5, v6, v7), [Paid!Next]_(Paid!vars)
  PROVE  PaidHolds(v1', v2', v3', v4', v5', v6', v7')
<1>1. CASE UNCHANGED Paid!vars
  BY <1>1 DEF Paid!vars
<1>2. CASE Paid!Tick
  BY <1>2, PaidTickKeeps
<1>3. ASSUME NEW n \in ForPaid.Allowances, Paid!SetAllowance(n)
      PROVE  PaidHolds(v1', v2', v3', v4', v5', v6', v7')
  BY <1>3 DEF Paid!SetAllowance, PaidHolds
<1>4. ASSUME NEW q \in Calls, Paid!Step(q) PROVE PaidHolds(v1', v2', v3', v4', v5', v6', v7')
  <2>1. CASE Paid!Ask(q)
    BY <2>1, ArriveKeeps DEF Paid!Ask
  <2>2. CASE Paid!CountAtomically(q)
    BY <2>2, CountAtomicallyKeeps
  <2>3. CASE Paid!CountByPipeline(q)
    BY <2>3, CountByPipelineKeeps
  <2>4. CASE Paid!TakeOut(q)
    BY <2>4, TakeOutKeeps
  <2>5. CASE Paid!CountFails(q)
    BY <2>5, CountFailsKeeps
  <2>6. CASE Paid!RefuseBody(q)
    BY <2>6, RefuseBodyKeeps
  <2>7. CASE Paid!ReadCap(q)
    BY <2>7, ReadCapKeeps
  <2>8. CASE Paid!ReadAllowance(q)
    BY <2>8, ReadAllowanceKeeps
  <2>9. CASE Paid!Consume(q)
    BY <2>9, ConsumeKeeps
  <2>10. CASE Paid!Screen(q)
    BY <2>10, ScreenKeeps
  <2>11. CASE Paid!Judged(q)
    BY <2>11, JudgedKeeps
  <2>12. CASE Paid!JudgeFails(q)
    BY <2>12, JudgeFailsKeeps
  <2>13. CASE Paid!Translate(q)
    BY <2>13, TranslateKeeps
  <2>14. CASE Paid!OpenStream(q)
    BY <2>14, OpenStreamKeeps
  <2>15. CASE Paid!Chunk(q)
    BY <2>15, ChunkKeeps
  <2>16. CASE Paid!SourceEnds(q)
    BY <2>16, SourceEndsKeeps
  <2>17. CASE Paid!SourceBreaks(q)
    BY <2>17, SourceBreaksKeeps
  <2>18. CASE Paid!WholeAnswer(q)
    BY <2>18, WholeAnswerKeeps
  <2>19. CASE Paid!ClientGone(q)
    BY <2>19, ClientGoneKeeps
  <2> QED BY <1>4, <2>1, <2>2, <2>3, <2>4, <2>5, <2>6, <2>7, <2>8, <2>9, <2>10, <2>11, <2>12,
             <2>13, <2>14, <2>15, <2>16, <2>17, <2>18, <2>19 DEF Paid!Step
<1> QED BY <1>1, <1>2, <1>3, <1>4 DEF Paid!Next

\* However many requests arrive at once and whichever store calls fail, no actor gets more
\* of them past the limits than its rules allow and none that costs money goes uncounted;
\* what is shown was screened, a phrase across two windows included; and what struck its
\* author, went to review or could not be screened is withheld (PaidRequests).
THEOREM OnlyCountedAndScreened == Services => []PaidAndScreened
<1> DEFINE I == running = "paid" => PaidHolds(v1, v2, v3, v4, v5, v6, v7)
<1>1. ServicesInit => I
  BY PaidAlone, PaidFirst
<1>2. I /\ [ServicesNext]_<<running, vars, slots>> => I'
  <2> SUFFICES ASSUME I, [ServicesNext]_<<running, vars, slots>>, running' = "paid"
               PROVE  PaidHolds(v1', v2', v3', v4', v5', v6', v7')
    OBVIOUS
  <2>1. running = "paid"
    BY DEF ServicesNext, In, slots
  <2> QED BY <2>1, PaidAlone, PaidInductive
<1>3. I => PaidAndScreened
  BY PaidParts DEF PaidAndScreened, Paid!IInv
<1> QED BY <1>1, <1>2, <1>3, PTL DEF Services

=============================================================================
