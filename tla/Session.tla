------------------------------- MODULE Session -------------------------------
(* The organizer's session in the web app: signing in through BigFred,     *)
(* the access token and what is loaded with it, the configuration that is  *)
(* polled, the idle timer (web/src/auth/AuthContext.tsx), the pages that   *)
(* need a session (web/src/App.tsx, LoginPage.tsx, CallbackPage.tsx), and  *)
(* with CreateAccount one of them in full; "home" stands for the others.   *)
(*                                                                         *)
(* Signing in leaves the app for BigFred, and a reload starts it anew: all *)
(* that survives is the token in sessionStorage.                           *)
(*                                                                         *)
(* Effects are what makes this hard.  `navigate` of react-router is a new  *)
(* function on every path, hence so is `logout`: a change of page runs     *)
(* the token's and the idle timer's effects again.  Every configuration    *)
(* polled is a new object, and runs the timer's effect again.              *)
(*                                                                         *)
(* A tick is 15 s, the interval of the poll.                               *)
(***************************************************************************)
EXTENDS CreateAccount

CONSTANTS Configs,  \* configurations that the daemon may serve
          MaxIdle,  \* bound: idle timeouts, in ticks
          MaxPolls, \* bound: polls in flight
          MaxLoads  \* bound: times the app is loaded

NoConfig == [loaded |-> FALSE, enabled |-> TRUE, idle |-> 0]

ASSUME SessionAssumption ==
    /\ Configs \subseteq [loaded : {TRUE}, enabled : BOOLEAN, idle : 0 .. MaxIdle]
    /\ MaxIdle \in Nat /\ MaxPolls \in Nat /\ MaxLoads \in Nat

VARIABLES page, token, me,
          config, ready, polls, \* polls in flight
          timer,      \* ticks left, when it is armed
          quiet,      \* armed ticks since the operator did something, or got to a page
          effect,     \* how far the token's effect is
          exchange,   \* signing in: "none", "code", "me"
          exchanged, codeUsed, failed, \* the callback page's; BigFred's; an error is shown
          idleReason,
          programmingError, retrying,
          loads       \* bounded

polling == <<config, ready, polls>>
signIn == <<exchange, exchanged, codeUsed>>
programming == <<programmingError, retrying>>
session == <<page, token, me, polling, timer, quiet, effect, signIn, failed, idleReason,
             programming, loads>>
vars == <<session, accountVars>>

Protected == {"home", "account"}
Pages == Protected \cup {"login", "callback", "about", "bigfred"}

SessionTypeOK ==
    /\ page \in Pages /\ token \in BOOLEAN /\ me \in BOOLEAN
    /\ config \in Configs \cup {NoConfig} /\ ready \in BOOLEAN /\ polls \in 0 .. MaxPolls + 1
    /\ timer \in 0 .. MaxIdle /\ quiet \in 0 .. MaxIdle + 1
    /\ effect \in {"none", "me", "warm"}
    /\ exchange \in {"none", "code", "me"} /\ exchanged \in BOOLEAN /\ codeUsed \in BOOLEAN
    /\ failed \in BOOLEAN /\ idleReason \in BOOLEAN
    /\ programmingError \in BOOLEAN /\ retrying \in BOOLEAN /\ loads \in 0 .. MaxLoads
    /\ AccountTypeOK

Armed == token /\ config.idle > 0

AccountShown == page = "account" /\ ready /\ token /\ config.enabled

(* Where the routes take the browser that asks for p *)
Landing(p) ==
    IF p \in Protected /\ ready' /\ ~token' THEN "login"
    ELSE IF p = "login" /\ token' THEN "home" ELSE p

Account == IF AccountShown' THEN UNCHANGED accountVars ELSE Unmount

(* What every change of state brings with it: the page the routes lead to, *)
(* and the effects that depend on what changed.  e, m, t and f are what    *)
(* the step makes of effect, me, timer and failed.                         *)
Render(p, e, m, t, f) ==
    /\ page' = Landing(p)
    /\ LET again == page' # page \/ token' # token
       IN  /\ effect' = (IF ~token' THEN "none" ELSE IF again THEN "me" ELSE e)
           /\ me' = (m /\ (again => token'))
           /\ timer' = (IF ~token' \/ config'.idle = 0 THEN 0 ELSE IF again THEN config'.idle ELSE t)
    /\ failed' = (f /\ page' = "callback")
    /\ Account

(* The app is loaded at p, or left for BigFred's pages. *)
Load(p) ==
    /\ config' = NoConfig /\ ready' = FALSE /\ polls' = (IF p = "bigfred" THEN 0 ELSE 1)
    /\ token' = token /\ page' = Landing(p)
    /\ effect' = (IF token' /\ p # "bigfred" THEN "me" ELSE "none") /\ me' = FALSE
    /\ timer' = 0 /\ quiet' = 0 /\ failed' = FALSE /\ idleReason' = FALSE
    /\ exchange' = "none" /\ exchanged' = FALSE
    /\ programmingError' = FALSE /\ retrying' = FALSE
    /\ Account

Init ==
    /\ page = "login" /\ token = FALSE /\ me = FALSE
    /\ config = NoConfig /\ ready = FALSE /\ polls = 1
    /\ timer = 0 /\ quiet = 0 /\ effect = "none"
    /\ exchange = "none" /\ exchanged = FALSE /\ codeUsed = FALSE /\ failed = FALSE
    /\ idleReason = FALSE /\ programmingError = FALSE /\ retrying = FALSE /\ loads = 0
    /\ AccountInit

Loaded == page # "bigfred"

-----------------------------------------------------------------------------
(* The configuration and the timer *)

ConfigArrives(c) ==
    /\ polls > 0
    /\ polls' = polls - 1 /\ config' = c /\ ready' = TRUE
    /\ UNCHANGED <<token, quiet, signIn, idleReason, programming, loads>>
    /\ Render(page, effect, me, c.idle, failed)

(* Faulty variant: without a configuration, the pages wait for one. *)
WaitForConfig == ready

ReadyAnyway == TRUE

ConfigFails ==
    /\ polls > 0
    /\ polls' = polls - 1 /\ ready' = ReadyAnyway
    /\ UNCHANGED <<token, config, quiet, signIn, idleReason, programming, loads>>
    /\ Render(page, effect, me, timer, failed)

BecomesVisible ==
    /\ Loaded /\ polls < MaxPolls
    /\ polls' = polls + 1
    /\ UNCHANGED <<page, token, me, config, ready, timer, quiet, effect, signIn, failed, idleReason,
                   programming, loads, accountVars>>

Tick ==
    /\ Loaded /\ polls < MaxPolls /\ (Armed => timer > 0)
    /\ timer' = (IF Armed THEN timer - 1 ELSE 0)
    /\ quiet' = (IF ~Armed THEN 0 ELSE IF quiet > MaxIdle THEN quiet ELSE quiet + 1)
    /\ polls' = polls + 1
    /\ UNCHANGED <<page, token, me, config, ready, effect, signIn, failed, idleReason, programming,
                   loads, accountVars>>

Logout(idle) ==
    /\ token /\ token' = FALSE
    /\ idleReason' = idle /\ programmingError' = FALSE
    /\ UNCHANGED <<polling, signIn, retrying, loads>>
    /\ Render("login", "none", FALSE, 0, failed)

TimerFires == Armed /\ timer = 0 /\ Logout(TRUE) /\ UNCHANGED quiet

-----------------------------------------------------------------------------
(* The operator, each of whose steps restarts the timer *)

(* Faulty variant: the timer runs on. *)
NotRestarted == timer

Restarted == config.idle

Touch ==
    /\ Loaded
    /\ quiet' = 0
    /\ UNCHANGED <<token, polling, signIn, idleReason, programming, loads>>
    /\ Render(page, effect, me, Restarted, failed)

Follow(p) ==
    /\ quiet' = 0
    /\ UNCHANGED <<token, polling, signIn, idleReason, programming, loads>>
    /\ Render(p, effect, me, Restarted, failed)

(* The links: the gear on every page, and those of the pages themselves    *)
OpenAbout == Loaded /\ page # "about" /\ Follow("about")
OpenAccount == page = "home" /\ ready /\ token /\ config.enabled /\ Follow("account")
GoHome == page \in {"account", "about"} /\ Follow("home")
TryAgain == page = "callback" /\ failed /\ Follow("login")

LogOut == Loaded /\ quiet' = 0 /\ Logout(FALSE)

Retry ==
    /\ Loaded /\ token /\ me /\ programmingError
    /\ retrying' = TRUE /\ quiet' = 0
    /\ UNCHANGED <<token, polling, signIn, idleReason, programmingError, loads>>
    /\ Render(page, effect, me, Restarted, failed)

(* clearIdleReason *)
CloseNotice ==
    /\ page = "login" /\ idleReason
    /\ idleReason' = FALSE /\ quiet' = 0
    /\ UNCHANGED <<page, token, me, polling, timer, effect, signIn, failed, programming, loads,
                   accountVars>>

OperateAccount ==
    /\ AccountShown /\ AccountOperator
    /\ quiet' = 0 /\ timer' = (IF Armed THEN Restarted ELSE 0)
    /\ UNCHANGED <<page, token, me, polling, effect, signIn, failed, idleReason, programming, loads>>

(* There is a layout to sign in to whenever there is a configuration.      *)
SignInOffered == page = "login" /\ config.loaded /\ ready

StartSso ==
    /\ SignInOffered
    /\ Load("bigfred")
    /\ UNCHANGED <<codeUsed, loads>>

Reload ==
    /\ Loaded /\ loads < MaxLoads
    /\ loads' = loads + 1
    /\ Load(page)
    /\ UNCHANGED codeUsed

-----------------------------------------------------------------------------
(* BigFred *)

SignedIn ==
    /\ page = "bigfred" /\ loads < MaxLoads
    /\ loads' = loads + 1 /\ codeUsed' = FALSE
    /\ Load("callback")

(* The callback page, once there is a configuration or an error *)
ExchangeCode ==
    /\ page = "callback" /\ ready /\ ~exchanged /\ ~failed
    /\ exchanged' = TRUE /\ exchange' = "code"
    /\ UNCHANGED <<page, token, me, polling, timer, quiet, effect, codeUsed, failed, idleReason,
                   programming, loads, accountVars>>

(* No code, or a state that is not the expected one *)
RefuseCallback ==
    /\ page = "callback" /\ ready /\ ~exchanged /\ ~failed
    /\ failed' = TRUE
    /\ UNCHANGED <<page, token, me, polling, timer, quiet, effect, signIn, idleReason, programming,
                   loads, accountVars>>

(* adoptToken: the token is set before `me` is asked for. *)
TokenArrives ==
    /\ exchange = "code" /\ ~codeUsed
    /\ codeUsed' = TRUE /\ token' = TRUE /\ exchange' = "me"
    /\ UNCHANGED <<polling, quiet, exchanged, idleReason, programming, loads>>
    /\ Render(page, effect, me, timer, failed)

ExchangeFails ==
    /\ exchange = "code" /\ codeUsed' \in {codeUsed, TRUE} /\ exchange' = "none"
    /\ UNCHANGED <<token, polling, quiet, exchanged, idleReason, programming, loads>>
    /\ Render(page, effect, me, timer, TRUE)

(* The operator may have logged out meanwhile: home leads to login then.   *)
AdoptEnds ==
    /\ exchange = "me" /\ exchange' = "none"
    /\ UNCHANGED <<token, polling, exchanged, codeUsed, idleReason, programming, loads>>
    /\ \/ Render("home", effect, TRUE, timer, failed) /\ quiet' = (IF page' # page THEN 0 ELSE quiet)
       \/ Render(page, effect, me, timer, TRUE) /\ UNCHANGED quiet

(* The token's effect *)
MeArrives ==
    /\ effect = "me"
    /\ UNCHANGED <<token, polling, quiet, signIn, idleReason, programming, loads>>
    /\ Render(page, "warm", TRUE, timer, failed)

MeFails == effect = "me" /\ Logout(FALSE) /\ UNCHANGED quiet

(* warmProgramming; the answer to a retry is taken even after a logout.    *)
Warmed ==
    /\ \/ effect = "warm" /\ effect' = "none" /\ UNCHANGED retrying
       \/ retrying /\ retrying' = FALSE /\ UNCHANGED effect
    /\ programmingError' \in BOOLEAN
    /\ UNCHANGED <<page, token, me, polling, timer, quiet, signIn, failed, idleReason, loads,
                   accountVars>>

AnswerAccount == AccountAnswers /\ UNCHANGED session

SomebodyElse == (\E l \in Logins : OthersCreate(l)) /\ UNCHANGED session

-----------------------------------------------------------------------------
Operator ==
    \/ Touch \/ OpenAbout \/ OpenAccount \/ GoHome \/ TryAgain \/ LogOut \/ Retry \/ CloseNotice
    \/ OperateAccount \/ StartSso \/ Reload

PollEnds == ConfigFails \/ \E c \in Configs : ConfigArrives(c)
CallbackEffect == ExchangeCode \/ RefuseCallback
ExchangeEnds == TokenArrives \/ ExchangeFails

Next ==
    \/ Operator
    \/ PollEnds \/ BecomesVisible \/ Tick \/ TimerFires
    \/ SignedIn \/ CallbackEffect \/ ExchangeEnds \/ AdoptEnds
    \/ MeArrives \/ MeFails \/ Warmed
    \/ AnswerAccount \/ SomebodyElse

(* Every call is answered or fails, and effects run.                       *)
Fairness ==
    WF_vars(PollEnds) /\ WF_vars(CallbackEffect) /\ WF_vars(ExchangeEnds) /\ WF_vars(AdoptEnds)

Spec == Init /\ [][Next]_vars /\ Fairness

-----------------------------------------------------------------------------
(* Properties *)

(* The idle timer logs nobody out who did something within the timeout     *)
(* that is configured now, although the timeout may change, and the timer  *)
(* is set anew on every page and with every poll (AuthContext.tsx:158-179).*)
IdleOnlyWhenIdle == [][idleReason' /\ ~idleReason => quiet >= config.idle]_vars

(* The page that BigFred returns to does not wait forever: it leads on or  *)
(* shows an error, also when no configuration can be had                   *)
(* (AuthContext.tsx:71-80, CallbackPage.tsx:24-46).                        *)
SignInEnds == (page = "callback" /\ ~failed) ~> (page # "callback" \/ failed)

(* "Idle timeout (`idleTimeoutSecs`, default 86400) logs the kiosk out"    *)
(* (ARCHITECTURE.md:214): nobody is signed in, with nothing done, for      *)
(* longer than the timeout.                                                *)
IdleLogsOut == Armed => quiet <= config.idle
=============================================================================
