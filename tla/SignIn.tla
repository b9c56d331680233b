------------------------------- MODULE SignIn -------------------------------
(***************************************************************************)
(* Signing in from a browser: the tabs that show the sign-in page, the     *)
(* session they share through local storage and one indicator cookie, the  *)
(* auth routes, and the user pool behind the Cognito provider.             *)
(*                                                                         *)
(* A submit is three steps - the tab posts, the route serves, the tab      *)
(* handles the reply - and between them the user may switch the view,      *)
(* another tab may act, and either the request or the reply may be lost.   *)
(* The page keeps one call in flight (isLoading), and the e-mail address   *)
(* it remembers between two views is the one the later views use.          *)
(***************************************************************************)
EXTENDS Naturals, FiniteSets

CONSTANTS
  Tabs,          \* tabs of one browser
  Emails,        \* e-mail addresses; an account is named by its address
  WithTotp,      \* accounts that must also answer a TOTP challenge
  Temporary,     \* accounts whose first sign-in must set a new password
  Known,         \* accounts that exist and are confirmed at the start
  None,          \* no session, no call, no challenge
  MaxTime,       \* bound: hours the clock advances
  MaxCalls,      \* bound: the user's inputs in a behaviour
  MaxAttempts    \* bound: SSO attempts in a behaviour

\* What the constants are to satisfy (Services assumes it).
SignInAssumption ==
  /\ Known \subseteq Emails /\ Temporary \subseteq Emails
  /\ MaxTime \in Nat /\ MaxCalls \in Nat /\ MaxAttempts \in Nat

VARIABLES
  pool,      \* the user pool: registered, confirmed, temporary, reset
  browser,   \* what the tabs share: stored session, indicator cookie, SSO attempt
  tab,       \* per tab: page, view, what the page remembers, the call in flight
  sso,       \* attempts started, codes returned, codes exchanged
  calls, time

vars == <<pool, browser, tab, sso, calls, time>>

Views == {"login", "register", "forgot-password", "mfa-challenge", "new-password",
          "email-verification"}

Ways == {"password", "totp", "sso", "guest"}

Session == [user : Emails \cup {"guest"}, email : Emails \cup {""}, way : Ways, exp : Nat]

Codes == [attempt : 1 .. MaxAttempts, user : Emails]

TypeOK ==
  /\ pool \in [registered : SUBSET Emails, confirmed : SUBSET Emails,
               temporary : SUBSET Emails, reset : SUBSET Emails]
  /\ browser.stored \in Session \cup {None}
  /\ browser.cookie \in Nat /\ browser.attempt \in 0 .. MaxAttempts
  /\ \A t \in Tabs :
       /\ tab[t].page \in {"auth", "home", "provider", "callback"}
       /\ tab[t].held \in Session \cup {None}
       /\ tab[t].view \in Views
       /\ tab[t].pending \in Emails \cup {""}
       /\ tab[t].challenge \in Emails \cup {None}
       /\ tab[t].reset \in [step : {"email", "code", "done"}, of : Emails \cup {""}]
  /\ sso.started \in 0 .. MaxAttempts
  /\ sso.codes \subseteq Codes
  /\ sso.exchanged \subseteq [code : Codes, verifier : 1 .. MaxAttempts]
  /\ calls \in 0 .. MaxCalls /\ time \in 0 .. MaxTime

----------------------------------------------------------------------------
(***************************************************************************)
(* The session the tabs share.                                             *)
(***************************************************************************)

SessionHours == 1
GuestHours == 2

CookieLive == browser.cookie > time

Expired(s) == s.exp <= time

\* What storage holds at load: a session to restore, or nothing; a stale one
\* is discarded.
ReadStoredSession ==
  IF browser.stored = None \/ Expired(browser.stored) THEN None ELSE browser.stored

\* The effect after a load: a stale session is purged with the cookie, a
\* restored one issues the cookie again.
AfterLoad ==
  CASE browser.stored = None -> browser
    [] browser.stored # None /\ ReadStoredSession = None ->
         [browser EXCEPT !.stored = None, !.cookie = 0]
    [] OTHER -> [browser EXCEPT !.cookie = time + SessionHours]

SetSession(b, s) == [b EXCEPT !.stored = s, !.cookie = time + SessionHours]

ClearStoredSession(b) == [b EXCEPT !.stored = None, !.cookie = 0]

\* A page the proxy lets through only with the indicator cookie.
Proxy(page) == IF page = "home" /\ ~CookieLive THEN "auth" ELSE page

FreshPage == [page |-> "auth", held |-> None, view |-> "login", pending |-> "",
              challenge |-> None, reset |-> [step |-> "email", of |-> ""], call |-> None]

----------------------------------------------------------------------------
(***************************************************************************)
(* The user pool through the provider: a method returns the outcomes its   *)
(* call may have. A call that fails may have been executed all the same.   *)
(***************************************************************************)

Refused == [kind |-> "refused", user |-> None, way |-> None]
Done == [kind |-> "done", user |-> None, way |-> None]
Ask(kind, e) == [kind |-> kind, user |-> e, way |-> None]
Token(e, way) == [kind |-> "token", user |-> e, way |-> way]

CallCognito(pool2, reply) ==
  {[pool |-> pool2, reply |-> reply], [pool |-> pool2, reply |-> Refused],
   [pool |-> pool, reply |-> Refused]}

Declined == {[pool |-> pool, reply |-> Refused]}

SignUp(e) ==
  IF e \in pool.registered THEN Declined
  ELSE CallCognito([pool EXCEPT !.registered = @ \cup {e}], Done)

PasswordSignIn(e) ==
  CASE e \notin pool.registered -> Declined
    [] e \in pool.registered \ pool.confirmed -> CallCognito(pool, Ask("verify", e))
    [] e \in pool.confirmed /\ e \in pool.temporary -> CallCognito(pool, Ask("newPassword", e))
    [] e \in (pool.confirmed \ pool.temporary) \cap WithTotp -> CallCognito(pool, Ask("mfa", e))
    [] OTHER -> CallCognito(pool, Token(e, "password"))

RespondToMfaChallenge(challenge) == CallCognito(pool, Token(challenge, "totp"))

\* The user name sent must be the challenged account's.
RespondToNewPasswordChallenge(challenge, e) ==
  IF e # challenge THEN Declined
  ELSE CallCognito([pool EXCEPT !.temporary = @ \ {e}], Token(e, "password"))

ForgotPassword(e) == CallCognito(pool, Done)

ConfirmForgotPassword(e) ==
  IF e \notin pool.confirmed THEN Declined
  ELSE CallCognito([pool EXCEPT !.reset = @ \cup {e}, !.temporary = @ \ {e}], Done)

ConfirmEmailVerification(e) ==
  IF e \notin pool.registered THEN Declined
  ELSE CallCognito([pool EXCEPT !.confirmed = @ \cup {e}], Done)

ResendEmailVerification(e) == CallCognito(pool, Done)

\* The code exchange: a code is good once, with its own attempt's verifier.
HandleSsoCallback(code, verifier) ==
  IF verifier # code.attempt \/ code \in {x.code : x \in sso.exchanged} THEN Declined
  ELSE CallCognito(pool, Token(code.user, "sso"))

----------------------------------------------------------------------------
(***************************************************************************)
(* Opening and moving between pages.                                       *)
(***************************************************************************)

Idle(t) == tab[t].call = None

\* A full load, from a bookmark or a reload: whatever the tab had is gone.
Open(t, page) ==
  /\ tab[t].page # "provider"
  /\ calls < MaxCalls /\ calls' = calls + 1
  /\ tab' = [tab EXCEPT ![t] =
               [FreshPage EXCEPT !.page = Proxy(page), !.held = ReadStoredSession]]
  /\ browser' = AfterLoad
  /\ UNCHANGED <<pool, sso, time>>

\* The sign-in page sends whoever holds a session home; without the cookie
\* the proxy sends the tab back and the page stays blank.
LeaveSignIn(t) ==
  /\ tab[t].page = "auth" /\ tab[t].held # None
  /\ Proxy("home") = "home"
  /\ tab' = [tab EXCEPT ![t].page = "home", ![t].call = None]
  /\ UNCHANGED <<pool, browser, sso, calls, time>>

\* A guest asks for the sign-in page.
AskToSignIn(t) ==
  /\ tab[t].page = "home" /\ tab[t].held # None /\ tab[t].held.way = "guest"
  /\ tab' = [tab EXCEPT ![t] = [FreshPage EXCEPT !.held = tab[t].held]]
  /\ UNCHANGED <<pool, browser, sso, calls, time>>

\* Home without a session leads to the sign-in page.
LeaveHome(t) ==
  /\ tab[t].page = "home" /\ tab[t].held = None
  /\ tab' = [tab EXCEPT ![t] = FreshPage]
  /\ UNCHANGED <<pool, browser, sso, calls, time>>

OnAuthPage(t) == tab[t].page = "auth" /\ tab[t].held = None

\* The links between the views are not disabled while a call is in flight;
\* the forms that leave the screen forget what they held.
SwitchView(t, view) ==
  /\ OnAuthPage(t) /\ view # tab[t].view
  /\ calls < MaxCalls /\ calls' = calls + 1
  /\ \/ tab[t].view = "login" /\ view \in {"register", "forgot-password"}
     \/ tab[t].view # "login" /\ view = "login"
  /\ tab' = [tab EXCEPT ![t].view = view, ![t].reset = [step |-> "email", of |-> ""],
                        ![t].call = IF @ = None THEN None ELSE [@ EXCEPT !.form = FALSE]]
  /\ UNCHANGED <<pool, browser, sso, time>>

----------------------------------------------------------------------------
(***************************************************************************)
(* The forms post.                                                         *)
(***************************************************************************)

Posts(t, op, e) ==
  /\ OnAuthPage(t) /\ Idle(t)
  /\ calls < MaxCalls /\ calls' = calls + 1
  /\ tab' = [tab EXCEPT ![t].call = [op |-> op, email |-> e, challenge |-> tab[t].challenge,
                                     reply |-> None, form |-> TRUE]]
  /\ UNCHANGED <<pool, browser, sso, time>>

SubmitLogin(t) == tab[t].view = "login" /\ \E e \in Emails : Posts(t, "signIn", e)
SubmitRegister(t) == tab[t].view = "register" /\ \E e \in Emails : Posts(t, "signUp", e)
SubmitMfa(t) == tab[t].view = "mfa-challenge" /\ Posts(t, "mfa", tab[t].pending)
SubmitNewPassword(t) == tab[t].view = "new-password" /\ Posts(t, "newPassword", tab[t].pending)
SubmitVerification(t) ==
  tab[t].view = "email-verification" /\ Posts(t, "verify", tab[t].pending)
Resend(t) == tab[t].view = "email-verification" /\ Posts(t, "resend", tab[t].pending)
SendCode(t) ==
  /\ tab[t].view = "forgot-password" /\ tab[t].reset.step = "email"
  /\ \E e \in Emails : Posts(t, "forgot", e)
ConfirmReset(t) ==
  /\ tab[t].view = "forgot-password" /\ tab[t].reset.step = "code"
  /\ Posts(t, "confirmForgot", tab[t].reset.of)
EnterAsGuest(t) == tab[t].view = "login" /\ Posts(t, "guest", "")

\* Home: the server is told first; the browser forgets only after its answer.
PressSignOut(t) ==
  /\ tab[t].page = "home" /\ tab[t].held # None /\ Idle(t)
  /\ calls < MaxCalls /\ calls' = calls + 1
  /\ tab' = [tab EXCEPT ![t].call = [op |-> "signOut", email |-> "", challenge |-> None,
                                     reply |-> None, form |-> TRUE]]
  /\ UNCHANGED <<pool, browser, sso, time>>

----------------------------------------------------------------------------
(***************************************************************************)
(* The routes serve.                                                       *)
(***************************************************************************)

Waiting(t, op) == ~Idle(t) /\ tab[t].call.op = op /\ tab[t].call.reply = None

Reply(t, reply) == tab' = [tab EXCEPT ![t].call.reply = reply]

\* A route that sets no cookie.
Serves(t, op, outcomes) ==
  /\ Waiting(t, op)
  /\ \E o \in outcomes : pool' = o.pool /\ Reply(t, o.reply)
  /\ UNCHANGED <<browser, sso, calls, time>>

ServeSignUp(t) == Serves(t, "signUp", SignUp(tab[t].call.email))
ServeMfa(t) == Serves(t, "mfa", RespondToMfaChallenge(tab[t].call.challenge))
ServeNewPassword(t) ==
  Serves(t, "newPassword",
         RespondToNewPasswordChallenge(tab[t].call.challenge, tab[t].call.email))
ServeForgot(t) == Serves(t, "forgot", ForgotPassword(tab[t].call.email))
ServeConfirmForgot(t) == Serves(t, "confirmForgot", ConfirmForgotPassword(tab[t].call.email))
ServeVerify(t) == Serves(t, "verify", ConfirmEmailVerification(tab[t].call.email))
ServeResend(t) == Serves(t, "resend", ResendEmailVerification(tab[t].call.email))

ServeSignIn(t) ==
  /\ Waiting(t, "signIn")
  /\ \E o \in PasswordSignIn(tab[t].call.email) :
       /\ Reply(t, o.reply)
       /\ browser' = IF o.reply.kind = "token"
                     THEN [browser EXCEPT !.cookie = time + SessionHours] ELSE browser
  /\ UNCHANGED <<pool, sso, calls, time>>

ServeGuest(t) ==
  /\ Waiting(t, "guest")
  /\ \/ /\ Reply(t, Token("guest", "guest"))
        /\ browser' = [browser EXCEPT !.cookie = time + GuestHours]
     \/ Reply(t, Refused) /\ UNCHANGED browser
  /\ UNCHANGED <<pool, sso, calls, time>>

\* The cookie is cleared whether or not the pool revoked the tokens.
ServeSignOut(t) ==
  /\ Waiting(t, "signOut")
  /\ Reply(t, Done)
  /\ browser' = [browser EXCEPT !.cookie = 0]
  /\ UNCHANGED <<pool, sso, calls, time>>

\* Mutant of SameAttempt: any attempt in the cookie will do.
AnyAttempt(code) == browser.attempt # 0

SameAttempt(code) == browser.attempt = code.attempt

\* Only the attempt this browser started is exchanged; whatever the outcome,
\* the attempt is over.
ServeSsoCallback(t) ==
  /\ Waiting(t, "sso")
  /\ LET code == tab[t].call.code IN
       IF browser.attempt = 0 \/ ~SameAttempt(code)
       THEN /\ Reply(t, Refused)
            /\ browser' = [browser EXCEPT !.attempt = 0]
            /\ UNCHANGED sso
       ELSE \E o \in HandleSsoCallback(code, browser.attempt) :
              /\ Reply(t, o.reply)
              /\ sso' = [sso EXCEPT !.exchanged =
                           @ \cup {[code |-> code, verifier |-> browser.attempt]}]
              /\ browser' = [browser EXCEPT !.attempt = 0,
                               !.cookie = IF o.reply.kind = "token"
                                          THEN time + SessionHours ELSE @]
  /\ UNCHANGED <<pool, calls, time>>

----------------------------------------------------------------------------
(***************************************************************************)
(* The page handles the reply. What the page remembers changes only here.  *)
(***************************************************************************)

Replied(t, op) == ~Idle(t) /\ tab[t].call.op = op /\ tab[t].call.reply # None

ReplyOf(t) == tab[t].call.reply

Hours(way) == IF way = "guest" THEN GuestHours ELSE SessionHours

SessionFor(token, email) ==
  [user |-> token.user, email |-> email, way |-> token.way, exp |-> time + Hours(token.way)]

SignedIn(t, session, page) ==
  /\ tab' = [tab EXCEPT ![t].call = None, ![t].held = session, ![t].page = page]
  /\ browser' = SetSession(browser, session)

StaysPut(t) ==
  /\ tab' = [tab EXCEPT ![t].call = None]
  /\ UNCHANGED browser

AfterLogin(t) ==
  CASE ReplyOf(t).kind = "mfa" ->
         [tab[t] EXCEPT !.call = None, !.challenge = ReplyOf(t).user, !.view = "mfa-challenge"]
    [] ReplyOf(t).kind = "newPassword" ->
         [tab[t] EXCEPT !.call = None, !.challenge = ReplyOf(t).user,
                        !.pending = tab[t].call.email, !.view = "new-password"]
    [] OTHER -> [tab[t] EXCEPT !.call = None]

HandleLogin(t) ==
  /\ Replied(t, "signIn")
  /\ IF ReplyOf(t).kind = "token"
     THEN SignedIn(t, SessionFor(ReplyOf(t), tab[t].call.email), "auth")
     ELSE tab' = [tab EXCEPT ![t] = AfterLogin(t)] /\ UNCHANGED browser
  /\ UNCHANGED <<pool, sso, calls, time>>

HandleRegister(t) ==
  /\ Replied(t, "signUp")
  /\ tab' = [tab EXCEPT ![t] =
               IF ReplyOf(t) = Done
               THEN [@ EXCEPT !.call = None, !.pending = tab[t].call.email,
                              !.view = "email-verification"]
               ELSE [@ EXCEPT !.call = None]]
  /\ UNCHANGED <<pool, browser, sso, calls, time>>

HandleVerification(t) ==
  /\ Replied(t, "verify")
  /\ tab' = [tab EXCEPT ![t].call = None, ![t].view = IF ReplyOf(t) = Done THEN "login" ELSE @]
  /\ UNCHANGED <<pool, browser, sso, calls, time>>

HandleResend(t) ==
  /\ Replied(t, "resend")
  /\ StaysPut(t)
  /\ UNCHANGED <<pool, sso, calls, time>>

\* The form moves on after every answer, also a failed one, if it is still
\* on the screen.
FormMoves(t, step) ==
  IF tab[t].call.form THEN [step |-> step, of |-> tab[t].call.email] ELSE tab[t].reset

HandleSendCode(t) ==
  /\ Replied(t, "forgot")
  /\ tab' = [tab EXCEPT ![t].call = None, ![t].pending = tab[t].call.email,
                        ![t].reset = FormMoves(t, "code")]
  /\ UNCHANGED <<pool, browser, sso, calls, time>>

HandleConfirmReset(t) ==
  /\ Replied(t, "confirmForgot")
  /\ tab' = [tab EXCEPT ![t].call = None, ![t].reset = FormMoves(t, "done")]
  /\ UNCHANGED <<pool, browser, sso, calls, time>>

\* The address comes from what the page remembers when the code is sent.
HandleChallenge(t, op) ==
  /\ Replied(t, op)
  /\ IF ReplyOf(t).kind = "token"
     THEN SignedIn(t, SessionFor(ReplyOf(t), tab[t].call.email), "auth")
     ELSE StaysPut(t)
  /\ UNCHANGED <<pool, sso, calls, time>>

HandleMfa(t) == HandleChallenge(t, "mfa")
HandleNewPassword(t) == HandleChallenge(t, "newPassword")

HandleGuest(t) ==
  /\ Replied(t, "guest")
  /\ IF ReplyOf(t).kind = "token"
     THEN SignedIn(t, SessionFor(ReplyOf(t), ""), "auth")
     ELSE StaysPut(t)
  /\ UNCHANGED <<pool, sso, calls, time>>

HandleSignOut(t) ==
  /\ Replied(t, "signOut")
  /\ tab' = [tab EXCEPT ![t] = FreshPage]
  /\ browser' = ClearStoredSession(browser)
  /\ UNCHANGED <<pool, sso, calls, time>>

HandleSso(t) ==
  /\ Replied(t, "sso")
  /\ IF ReplyOf(t).kind = "token"
     THEN SignedIn(t, SessionFor(ReplyOf(t), ReplyOf(t).user), "home")
     ELSE tab' = [tab EXCEPT ![t] = [FreshPage EXCEPT !.held = tab[t].held]] /\ UNCHANGED browser
  /\ UNCHANGED <<pool, sso, calls, time>>

\* The request or its reply never arrives: an error is shown. The reset form
\* moves on after this answer as after any other; a sign-out changes nothing.
ReplyLost(t) ==
  /\ ~Idle(t) /\ tab[t].page \in {"auth", "home"}
  /\ tab' = [tab EXCEPT ![t].call = None,
                        ![t].reset = CASE tab[t].call.op = "forgot" -> FormMoves(t, "code")
                                       [] tab[t].call.op = "confirmForgot" -> FormMoves(t, "done")
                                       [] OTHER -> @]
  /\ UNCHANGED <<pool, browser, sso, calls, time>>

----------------------------------------------------------------------------
(***************************************************************************)
(* Single sign-on: one attempt cookie in the browser, the code and the     *)
(* state in the address the provider sends the tab back to.                *)
(***************************************************************************)

\* Leaving for the provider with a new attempt, whatever attempt the cookie
\* held; a refused start comes back by opening the sign-in page.
StartSso(t) ==
  /\ OnAuthPage(t) /\ Idle(t) /\ tab[t].view = "login"
  /\ sso.started < MaxAttempts
  /\ calls < MaxCalls /\ calls' = calls + 1
  /\ sso' = [sso EXCEPT !.started = @ + 1]
  /\ browser' = [browser EXCEPT !.attempt = sso.started + 1]
  /\ tab' = [tab EXCEPT ![t] = [FreshPage EXCEPT !.page = "provider", !.call =
                                       [op |-> "provider", attempt |-> sso.started + 1]]]
  /\ UNCHANGED <<pool, time>>

Posting(code) == [op |-> "sso", code |-> code, email |-> "", reply |-> None, form |-> TRUE]

AtCallback(code) ==
  [FreshPage EXCEPT !.page = "callback", !.held = ReadStoredSession, !.call = Posting(code)]

ReturnFromProvider(t) ==
  /\ tab[t].page = "provider"
  /\ \E e \in Known :
       LET code == [attempt |-> tab[t].call.attempt, user |-> e] IN
         /\ sso' = [sso EXCEPT !.codes = @ \cup {code}]
         /\ tab' = [tab EXCEPT ![t] = AtCallback(code)]
  /\ browser' = AfterLoad
  /\ UNCHANGED <<pool, calls, time>>

GiveUpAtProvider(t) ==
  /\ tab[t].page = "provider"
  /\ tab' = [tab EXCEPT ![t] = [FreshPage EXCEPT !.held = ReadStoredSession]]
  /\ browser' = AfterLoad
  /\ UNCHANGED <<pool, sso, calls, time>>

\* A callback address from the history, or one still loading, opened again.
ReopenCallback(t) ==
  /\ tab[t].page # "provider"
  /\ calls < MaxCalls /\ calls' = calls + 1
  /\ \E code \in sso.codes : tab' = [tab EXCEPT ![t] = AtCallback(code)]
  /\ browser' = AfterLoad
  /\ UNCHANGED <<pool, sso, time>>

CallbackLost(t) ==
  /\ tab[t].page = "callback" /\ ~Idle(t)
  /\ tab' = [tab EXCEPT ![t] = [FreshPage EXCEPT !.held = tab[t].held]]
  /\ UNCHANGED <<pool, browser, sso, calls, time>>

\* An hour passes; an attempt lives ten minutes.
Tick ==
  /\ time < MaxTime /\ time' = time + 1
  /\ browser' = [browser EXCEPT !.attempt = 0]
  /\ UNCHANGED <<pool, tab, sso, calls>>

----------------------------------------------------------------------------
Init ==
  /\ pool = [registered |-> Known, confirmed |-> Known, temporary |-> Temporary, reset |-> {}]
  /\ browser = [stored |-> None, cookie |-> 0, attempt |-> 0]
  /\ tab = [t \in Tabs |-> FreshPage]
  /\ sso = [started |-> 0, codes |-> {}, exchanged |-> {}]
  /\ calls = 0 /\ time = 0

Navigates(t) ==
  \/ \E page \in {"auth", "home"} : Open(t, page)
  \/ LeaveSignIn(t) \/ AskToSignIn(t) \/ LeaveHome(t)
  \/ \E view \in Views : SwitchView(t, view)

Submits(t) ==
  \/ SubmitLogin(t) \/ SubmitRegister(t) \/ SubmitMfa(t) \/ SubmitNewPassword(t)
  \/ SubmitVerification(t) \/ Resend(t) \/ SendCode(t) \/ ConfirmReset(t)
  \/ EnterAsGuest(t) \/ PressSignOut(t)

Served(t) ==
  \/ ServeSignIn(t) \/ ServeSignUp(t) \/ ServeMfa(t) \/ ServeNewPassword(t)
  \/ ServeForgot(t) \/ ServeConfirmForgot(t) \/ ServeVerify(t) \/ ServeResend(t)
  \/ ServeGuest(t) \/ ServeSignOut(t) \/ ServeSsoCallback(t)

Handles(t) ==
  \/ HandleLogin(t) \/ HandleRegister(t) \/ HandleVerification(t) \/ HandleResend(t)
  \/ HandleSendCode(t) \/ HandleConfirmReset(t) \/ HandleMfa(t) \/ HandleNewPassword(t)
  \/ HandleGuest(t) \/ HandleSignOut(t) \/ HandleSso(t) \/ ReplyLost(t)

SingleSignOn(t) ==
  \/ StartSso(t) \/ ReturnFromProvider(t) \/ GiveUpAtProvider(t)
  \/ ReopenCallback(t) \/ CallbackLost(t)

Next ==
  \/ \E t \in Tabs : Navigates(t) \/ Submits(t) \/ Served(t) \/ Handles(t) \/ SingleSignOn(t)
  \/ Tick

Spec == Init /\ [][Next]_vars

----------------------------------------------------------------------------
(***************************************************************************)
(* Properties.                                                             *)
(***************************************************************************)

Held == ({tab[t].held : t \in Tabs} \cup {browser.stored}) \ {None}

\* The address a session shows is its account's, except after a TOTP
\* challenge: the new-password view, the e-mail verification and the late
\* replies all share one remembered address (AuthPage.tsx pendingEmail).
RightAddress == \A s \in Held : s.way \in {"password", "sso"} => s.email = s.user

\* A code is exchanged only with the verifier of the attempt that obtained it,
\* whatever other tab started, finished or reopened an attempt meanwhile
\* (api/auth/sso/callback: "never exchange").
OwnAttempt == \A x \in sso.exchanged : x.verifier = x.code.attempt

\* A session is shown under the account it belongs to, and single sign-on
\* completes only what this browser started.
SessionIsItsOwners == RightAddress /\ OwnAttempt

\* The inductive invariant: a call asks and is answered in one of three ways, and a
\* token that says "password" is for the address the call was sent with.
Replies ==
  [kind : {"refused", "done", "verify", "mfa", "newPassword", "token"},
   user : Emails \cup {"guest", None}, way : Ways \cup {None}]

FormOps ==
  {"signIn", "signUp", "mfa", "newPassword", "verify", "resend", "forgot", "confirmForgot",
   "guest", "signOut"}

FormCalls ==
  [op : FormOps, email : Emails \cup {""}, challenge : Emails \cup {None},
   reply : Replies \cup {None}, form : BOOLEAN]
SsoCalls ==
  [op : {"sso"}, code : Codes, email : {""}, reply : Replies \cup {None}, form : BOOLEAN]
AwayCalls == [op : {"provider"}, attempt : 1 .. MaxAttempts]

TokenFits(c) ==
  /\ c.reply.user \in Emails \cup {"guest"} /\ c.reply.way \in Ways
  /\ c.op = "guest" => c.reply.way = "guest"
  /\ c.op = "sso" => c.reply.way = "sso" /\ c.reply.user \in Emails
  /\ c.reply.way = "sso" => c.op = "sso"
  /\ c.reply.way = "password" => c.reply.user = c.email

Answers(c) ==
  /\ c.reply # None /\ c.reply.kind = "token" => TokenFits(c)
  /\ c.reply # None /\ c.reply.kind \in {"mfa", "newPassword"} => c.reply.user \in Emails

Asks(c) ==
  /\ c.op \in {"mfa", "newPassword"} => c.challenge \in Emails
  /\ c.op = "signUp" => c.email \in Emails

CallFits(x) ==
  /\ x.call # None /\ x.call \in FormCalls => Answers(x.call) /\ Asks(x.call)
  /\ x.call # None /\ x.call \in SsoCalls => Answers(x.call)
  /\ x.page = "provider" => x.call \in AwayCalls
  /\ x.call # None /\ x.call \in AwayCalls => x.page = "provider"
  /\ x.view \in {"mfa-challenge", "new-password"} => x.challenge \in Emails

TabsTyped ==
  tab \in [Tabs -> [page : {"auth", "home", "provider", "callback"},
                   held : Session \cup {None}, view : Views, pending : Emails \cup {""},
                   challenge : Emails \cup {None},
                   reset : [step : {"email", "code", "done"}, of : Emails \cup {""}],
                   call : FormCalls \cup SsoCalls \cup AwayCalls \cup {None}]]

SharedTyped ==
  /\ browser \in [stored : Session \cup {None}, cookie : Nat, attempt : 0 .. MaxAttempts]
  /\ sso \in [started : 0 .. MaxAttempts, codes : SUBSET Codes,
              exchanged : SUBSET [code : Codes, verifier : 1 .. MaxAttempts]]

IInv ==
  /\ TypeOK /\ TabsTyped /\ SharedTyped
  /\ \A t \in Tabs : CallFits(tab[t])
  /\ RightAddress /\ OwnAttempt

\* "Your password has been reset successfully" is shown only for an account
\* whose password the pool has reset (ForgotPasswordForm.tsx:57).
ResetSaysSuccess ==
  \A t \in Tabs : tab[t].reset.step = "done" => tab[t].reset.of \in pool.reset

=============================================================================
