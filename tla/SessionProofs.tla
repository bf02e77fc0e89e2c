---------------------------- MODULE SessionProofs ----------------------------
(* Proofs about the organizer's session and the page that creates          *)
(* accounts, for any configurations, logins and PINs.                      *)
EXTENDS Session, TLAPS

(* What happens to the account page, whatever happens to the session       *)
AccountStep ==
    \/ AccountOperator \/ AccountAnswers \/ Unmount
    \/ \E l \in Logins : OthersCreate(l)
    \/ UNCHANGED accountVars

(* The summary is reached with a PIN entered twice; the call that creates  *)
(* the account sends what the summary shows, and nothing is edited         *)
(* meanwhile, while the login may be during its check.                     *)
PinConfirmed == step \in {3, 4} => PinsMatch

CallMatchesPage ==
    /\ request # NoRequest => request.kind \in {"check", "create"} /\ busy
    /\ request.kind = "check" => step = 0
    /\ request.kind = "create" => step = 3 /\ request.login = login /\ request.pin = pin

AccountInv == AccountTypeOK /\ PinConfirmed /\ CallMatchesPage /\ AccountAsConfirmed

LEMMA NoRequestKind == NoRequest.kind = "none"
  BY DEF NoRequest

(* The page is left, or starts anew. *)
LEMMA BlankInv ==
  ASSUME users' \in [Logins -> Pins \cup {None}],
         Blank(step', login', pin', pinRepeat', busy', request', created')
  PROVE  AccountInv'
<1>1. AccountTypeOK'
  <2>1. (request \in Requests \cup {NoRequest})'
    BY DEF Blank
  <2>2. (step \in 0 .. 4)'
    BY DEF Blank
  <2>5. (busy \in BOOLEAN)'
    BY DEF Blank
  <2>3. (login \in Logins \cup {None} /\ pin \in Pins \cup {None})'
    BY DEF Blank
  <2>4. (pinRepeat \in Pins \cup {None} /\ created \in Logins \cup {None})'
    BY DEF Blank
  <2> QED
    BY <2>1, <2>2, <2>3, <2>4, <2>5 DEF AccountTypeOK
<1>2. PinConfirmed' /\ AccountAsConfirmed'
  BY DEF Blank, PinConfirmed, AccountAsConfirmed
<1>3. CallMatchesPage'
  BY NoRequestKind DEF Blank, CallMatchesPage
<1> QED
  BY <1>1, <1>2, <1>3 DEF AccountInv

LEMMA AccountInitInv == ASSUME AccountInit PROVE AccountInv
<1>1. AccountTypeOK
  <2>1. request \in Requests \cup {NoRequest}
    BY DEF AccountInit, Blank
  <2>2. step \in 0 .. 4
    BY DEF AccountInit, Blank
  <2>6. busy \in BOOLEAN
    BY DEF AccountInit, Blank
  <2>3. users \in [Logins -> Pins \cup {None}]
    BY DEF AccountInit
  <2>4. login \in Logins \cup {None} /\ pin \in Pins \cup {None}
    BY DEF AccountInit, Blank
  <2>5. pinRepeat \in Pins \cup {None} /\ created \in Logins \cup {None}
    BY DEF AccountInit, Blank
  <2> QED
    BY <2>1, <2>2, <2>3, <2>4, <2>5, <2>6 DEF AccountTypeOK
<1>2. PinConfirmed /\ AccountAsConfirmed
  BY DEF AccountInit, Blank, PinConfirmed, AccountAsConfirmed
<1>3. CallMatchesPage
  BY NoRequestKind DEF AccountInit, Blank, CallMatchesPage
<1> QED
  BY <1>1, <1>2, <1>3 DEF AccountInv

(* BigFred has an account more, or not. *)
LEMMA MayHaveCreatedTypeOK ==
  ASSUME AccountTypeOK, MayHaveCreated
  PROVE  users' \in [Logins -> Pins \cup {None}]
  BY AccountAssumption DEF AccountTypeOK, MayHaveCreated, WithAccount, Creatable, Requests, NoRequest

LEMMA AccountStepInv ==
  ASSUME AccountInv, AccountStep PROVE AccountInv'
<1> USE AccountAssumption DEF AccountInv, AccountTypeOK
<1>1. CASE \E l \in Logins \cup {None} : TypeLogin(l)
  BY <1>1 DEF TypeLogin, PinConfirmed, PinsMatch, CallMatchesPage, AccountAsConfirmed
<1>2. CASE \E p \in Pins \cup {None} : TypePin(p) \/ TypeRepeat(p)
  BY <1>2 DEF TypePin, TypeRepeat, PinConfirmed, PinsMatch, CallMatchesPage, AccountAsConfirmed
<1>3. CASE CheckLogin \/ Submit
  <2>1. /\ request' \in Requests /\ request'.login = login /\ request'.pin = pin
        /\ request'.kind = (IF step = 0 THEN "check" ELSE "create") /\ step \in {0, 3}
    BY <1>3 DEF CheckLogin, Submit, Ask, Requests
  <2>2. UNCHANGED <<users, step, login, pin, pinRepeat, created>> /\ busy' = TRUE
    BY <1>3 DEF CheckLogin, Submit, Ask, fields
  <2>3. AccountTypeOK'
    BY <2>1, <2>2
  <2>4. PinConfirmed' /\ CallMatchesPage' /\ AccountAsConfirmed'
    BY <2>1, <2>2 DEF PinConfirmed, PinsMatch, CallMatchesPage, AccountAsConfirmed
  <2> QED
    BY <2>3, <2>4
<1>4. CASE PinEntered \/ PinRepeated \/ GoBack
  BY <1>4 DEF PinEntered, PinRepeated, GoBack, fields, PinConfirmed, PinsMatch, CallMatchesPage,
              AccountAsConfirmed, Requests, NoRequest
<1>5. CASE Reset
  BY <1>5, BlankInv DEF Reset
<1>6. CASE LoginChecked
  <2>1. /\ UNCHANGED <<users, login, pin, pinRepeat, created>> /\ step' \in {0, 1}
        /\ request' = NoRequest /\ busy' = FALSE
    BY <1>6 DEF LoginChecked, fields
  <2>2. PinConfirmed' /\ CallMatchesPage' /\ AccountAsConfirmed'
    BY <2>1, NoRequestKind DEF PinConfirmed, CallMatchesPage, AccountAsConfirmed
  <2>3. (busy \in BOOLEAN)'
    BY <2>1
  <2>4. (step \in 0 .. 4)' /\ (request \in Requests \cup {NoRequest})'
    BY <2>1
  <2>5. UNCHANGED <<users, login, pin, pinRepeat, created>>
    BY <2>1
  <2> QED
    BY <2>2, <2>3, <2>4, <2>5
<1>7. CASE Created
  <2>1. step = 3 /\ request.login = login /\ request.pin = pin /\ login \in Logins
    BY <1>7 DEF Created, Creatable, CallMatchesPage
  <2>2. pin = pinRepeat /\ pin \in Pins
    BY <2>1 DEF PinConfirmed, PinsMatch
  <2>3. /\ UNCHANGED <<login, pin, pinRepeat>> /\ step' = 4 /\ created' = login
        /\ request' = NoRequest /\ busy' = FALSE /\ users' = [users EXCEPT ![login] = pin]
    BY <1>7, <2>1 DEF Created, WithAccount, fields
  <2>4. AccountTypeOK'
    <3>1. (request \in Requests \cup {NoRequest})'
      BY <2>3
    <3>2. (users \in [Logins -> Pins \cup {None}])'
      BY <2>1, <2>2, <2>3
    <3>3. (busy \in BOOLEAN)'
      BY <2>3
    <3>4. (step \in 0 .. 4)'
      BY <2>3
    <3> QED
      BY <2>1, <2>2, <2>3, <3>1, <3>2, <3>3, <3>4
  <2>5. PinConfirmed' /\ AccountAsConfirmed'
    BY <2>1, <2>2, <2>3 DEF PinConfirmed, PinsMatch, AccountAsConfirmed
  <2>6. CallMatchesPage'
    BY <2>3, NoRequestKind DEF CallMatchesPage
  <2> QED
    BY <2>4, <2>5, <2>6
<1>8. CASE RequestFails
  <2>1. users' \in [Logins -> Pins \cup {None}]
    BY <1>8, MayHaveCreatedTypeOK DEF RequestFails
  <2>2. step # 4
    BY <1>8 DEF RequestFails, CallMatchesPage
  <2> QED
    BY <1>8, <2>1, <2>2 DEF RequestFails, fields, PinConfirmed, PinsMatch, CallMatchesPage,
                            AccountAsConfirmed, NoRequest
<1>9. CASE Unmount
  BY <1>9, MayHaveCreatedTypeOK, BlankInv DEF Unmount
<1>10. CASE \E l \in Logins : OthersCreate(l)
  BY <1>10 DEF OthersCreate, Creatable, WithAccount, pageVars, fields, PinConfirmed, PinsMatch,
               CallMatchesPage, AccountAsConfirmed
<1>11. CASE UNCHANGED accountVars
  BY <1>11 DEF accountVars, pageVars, fields, PinConfirmed, PinsMatch, CallMatchesPage,
               AccountAsConfirmed
<1> QED
  BY <1>1, <1>2, <1>3, <1>4, <1>5, <1>6, <1>7, <1>8, <1>9, <1>10, <1>11
  DEF AccountStep, AccountOperator, AccountAnswers

-----------------------------------------------------------------------------
(* The account page in the session *)

LEMMA AccountIsStep == ASSUME Account PROVE AccountStep
  BY DEF Account, AccountStep

(* Whatever the session does, the account page is left alone, does a step  *)
(* of its own, or is left.                                                 *)
LEMMA NextIsAccountStep == ASSUME [Next]_vars PROVE AccountStep
<1>1. CASE Operator
  <2>1. CASE Touch \/ OpenAbout \/ OpenAccount \/ GoHome \/ TryAgain \/ Retry
    BY <2>1, AccountIsStep
    DEF Touch, OpenAbout, OpenAccount, GoHome, TryAgain, Retry, Follow, Render
  <2>2. CASE LogOut \/ StartSso \/ Reload
    BY <2>2, AccountIsStep DEF LogOut, Logout, StartSso, Reload, Load, Render
  <2>3. CASE CloseNotice \/ OperateAccount
    BY <2>3 DEF CloseNotice, OperateAccount, AccountStep
  <2> QED
    BY <1>1, <2>1, <2>2, <2>3 DEF Operator
<1>2. CASE PollEnds \/ TimerFires \/ MeArrives \/ MeFails
  BY <1>2, AccountIsStep
  DEF PollEnds, ConfigArrives, ConfigFails, TimerFires, MeArrives, MeFails, Logout, Render
<1>3. CASE SignedIn \/ ExchangeEnds \/ AdoptEnds
  BY <1>3, AccountIsStep
  DEF SignedIn, ExchangeEnds, TokenArrives, ExchangeFails, AdoptEnds, Load, Render
<1>4. CASE BecomesVisible \/ Tick \/ CallbackEffect \/ Warmed
  BY <1>4 DEF BecomesVisible, Tick, CallbackEffect, ExchangeCode, RefuseCallback, Warmed, AccountStep
<1>5. CASE AnswerAccount \/ SomebodyElse
  BY <1>5 DEF AnswerAccount, SomebodyElse, AccountStep
<1>6. CASE UNCHANGED vars
  BY <1>6 DEF vars, AccountStep
<1> QED
  BY <1>1, <1>2, <1>3, <1>4, <1>5, <1>6 DEF Next

(* The account page's invariant holds throughout the session.              *)
LEMMA AccountInvHolds == Spec => []AccountInv
<1>1. Init => AccountInv
  BY AccountInitInv DEF Init
<1>2. AccountInv /\ [Next]_vars => AccountInv'
  BY NextIsAccountStep, AccountStepInv
<1> QED
  BY <1>1, <1>2, PTL DEF Spec

(* The account that the page says it has created is the one confirmed,     *)
(* with the PIN entered twice, for any logins and PINs and whatever the    *)
(* session does meanwhile (CreateAccountPage.tsx:57-126).                  *)
THEOREM AccountIsAsConfirmed == Spec => []AccountAsConfirmed
<1>1. AccountInv => AccountAsConfirmed
  BY DEF AccountInv
<1> QED
  BY <1>1, AccountInvHolds, PTL

-----------------------------------------------------------------------------
(* Types of the session.  Those of what Render decides come first.         *)

ConfigTypeOK == config \in Configs \cup {NoConfig}

ShownTypeOK ==
    /\ page \in Pages /\ me \in BOOLEAN /\ timer \in 0 .. MaxIdle
    /\ effect \in {"none", "me", "warm"} /\ failed \in BOOLEAN

KeptTypeOK ==
    /\ token \in BOOLEAN /\ ready \in BOOLEAN /\ polls \in 0 .. MaxPolls + 1
    /\ quiet \in 0 .. MaxIdle + 1
    /\ exchange \in {"none", "code", "me"} /\ exchanged \in BOOLEAN /\ codeUsed \in BOOLEAN
    /\ idleReason \in BOOLEAN
    /\ programmingError \in BOOLEAN /\ retrying \in BOOLEAN /\ loads \in 0 .. MaxLoads

LEMMA IdleType ==
  /\ \A c \in Configs \cup {NoConfig} : c.idle \in 0 .. MaxIdle
  /\ NoConfig.idle = 0
<1>1. \A c \in Configs : c.idle \in 0 .. MaxIdle
  BY SessionAssumption
<1>2. NoConfig.idle = 0
  BY DEF NoConfig
<1>3. 0 \in 0 .. MaxIdle
  BY SessionAssumption
<1> QED
  BY <1>1, <1>2, <1>3

LEMMA LandingType == ASSUME NEW p \in Pages PROVE Landing(p) \in Pages
  BY DEF Landing, Pages, Protected

(* Whatever a step shows is of its type. *)
LEMMA RenderTypeOK ==
  ASSUME ConfigTypeOK', token' \in BOOLEAN,
         NEW p \in Pages, NEW e \in {"none", "me", "warm"}, NEW m \in BOOLEAN,
         NEW t \in 0 .. MaxIdle, NEW f \in BOOLEAN, Render(p, e, m, t, f)
  PROVE  ShownTypeOK'
<1>1. page' \in Pages
  BY LandingType DEF Render
<1>2. me' \in BOOLEAN /\ failed' \in BOOLEAN
  BY DEF Render
<1>3. config'.idle \in 0 .. MaxIdle
  BY IdleType DEF ConfigTypeOK
<1>4. timer' \in 0 .. MaxIdle
  BY <1>3, SessionAssumption DEF Render
<1>5. effect' \in {"none", "me", "warm"}
  BY DEF Render
<1> QED
  BY <1>1, <1>2, <1>4, <1>5 DEF ShownTypeOK

LEMMA InitTypeOK == ASSUME Init PROVE ConfigTypeOK /\ ShownTypeOK /\ KeptTypeOK
<1>1. ConfigTypeOK /\ ShownTypeOK
  <2>1. timer \in 0 .. MaxIdle
    BY SessionAssumption DEF Init
  <2>2. me \in BOOLEAN /\ failed \in BOOLEAN
    BY DEF Init
  <2> QED
    BY <2>1, <2>2 DEF Init, ConfigTypeOK, ShownTypeOK, Pages, Protected
<1>2. KeptTypeOK
  <2>1. polls \in 0 .. MaxPolls + 1 /\ quiet \in 0 .. MaxIdle + 1 /\ loads \in 0 .. MaxLoads
    BY SessionAssumption DEF Init
  <2> QED
    BY <2>1 DEF Init, KeptTypeOK
<1> QED
  BY <1>1, <1>2

(* The app is loaded, or left. *)
LEMMA LoadTypeOK ==
  ASSUME ConfigTypeOK, KeptTypeOK, NEW p \in Pages, Load(p),
         codeUsed' \in BOOLEAN, loads' \in 0 .. MaxLoads
  PROVE  ConfigTypeOK' /\ ShownTypeOK' /\ KeptTypeOK'
<1>1. ConfigTypeOK'
  BY DEF Load, ConfigTypeOK
<1>2. page' \in Pages
  BY LandingType DEF Load
<1>3. timer' \in 0 .. MaxIdle /\ quiet' \in 0 .. MaxIdle + 1 /\ polls' \in 0 .. MaxPolls + 1
  BY SessionAssumption DEF Load
<1>4. me' \in BOOLEAN /\ effect' \in {"none", "me", "warm"} /\ failed' \in BOOLEAN
  BY DEF Load
<1>5. ShownTypeOK'
  BY <1>2, <1>3, <1>4 DEF ShownTypeOK
<1>6. KeptTypeOK'
  BY <1>3 DEF Load, KeptTypeOK
<1> QED
  BY <1>1, <1>5, <1>6

LEMMA NextTypeOK ==
  ASSUME ConfigTypeOK, ShownTypeOK, KeptTypeOK, [Next]_vars
  PROVE  ConfigTypeOK' /\ ShownTypeOK' /\ KeptTypeOK'
<1>0. /\ config.idle \in 0 .. MaxIdle /\ 0 \in 0 .. MaxIdle /\ 0 \in 0 .. MaxIdle + 1
      /\ Pages = {"home", "account", "login", "callback", "about", "bigfred"}
  BY IdleType, SessionAssumption DEF ConfigTypeOK, Pages, Protected
<1>1. CASE Touch \/ OpenAbout \/ OpenAccount \/ GoHome \/ TryAgain \/ Retry
  <2>1. UNCHANGED config /\ ConfigTypeOK'
    BY <1>1 DEF Touch, OpenAbout, OpenAccount, GoHome, TryAgain, Retry, Follow, polling, ConfigTypeOK
  <2>2. KeptTypeOK'
    BY <1>1, <1>0, ZenonT(60)
    DEF Touch, OpenAbout, OpenAccount, GoHome, TryAgain, Retry, Follow, polling, signIn,
        programming, KeptTypeOK
  <2>3. PICK p \in Pages : Render(p, effect, me, config.idle, failed)
    BY <1>1, <1>0
    DEF Touch, OpenAbout, OpenAccount, GoHome, TryAgain, Retry, Follow, Restarted, ShownTypeOK
  <2>4. ShownTypeOK'
    BY <2>1, <2>2, <2>3, <1>0, RenderTypeOK DEF ShownTypeOK, KeptTypeOK
  <2> QED
    BY <2>1, <2>2, <2>4
<1>2. CASE StartSso \/ Reload \/ SignedIn
  <2>1. PICK p \in Pages : Load(p)
    BY <1>2, <1>0 DEF StartSso, Reload, SignedIn, ShownTypeOK
  <2>2. codeUsed' \in BOOLEAN
    BY <1>2 DEF StartSso, Reload, SignedIn, KeptTypeOK
  <2>3. loads' \in 0 .. MaxLoads
    BY <1>2, SessionAssumption DEF StartSso, Reload, SignedIn, KeptTypeOK
  <2> QED
    BY <2>1, <2>2, <2>3, LoadTypeOK
<1>3. CASE LogOut \/ TimerFires \/ MeFails
  <2>1. PICK i \in BOOLEAN : Logout(i)
    BY <1>3 DEF LogOut, TimerFires, MeFails
  <2>2. quiet' \in 0 .. MaxIdle + 1
    BY <1>3, <1>0 DEF LogOut, TimerFires, MeFails, KeptTypeOK
  <2>3. ConfigTypeOK' /\ KeptTypeOK'
    BY <2>1, <2>2 DEF Logout, polling, signIn, ConfigTypeOK, KeptTypeOK
  <2>4. Render("login", "none", FALSE, 0, failed)
    BY <2>1 DEF Logout
  <2>5. ShownTypeOK'
    BY <2>3, <2>4, <1>0, RenderTypeOK DEF ShownTypeOK, KeptTypeOK
  <2> QED
    BY <2>3, <2>5
<1>4. CASE PollEnds
  <2>1. polls' \in 0 .. MaxPolls + 1
    BY <1>4, SessionAssumption DEF PollEnds, ConfigArrives, ConfigFails, KeptTypeOK
  <2>2. ConfigTypeOK' /\ KeptTypeOK'
    BY <1>4, <2>1
    DEF PollEnds, ConfigArrives, ConfigFails, ReadyAnyway, signIn, programming, ConfigTypeOK, KeptTypeOK
  <2>3. PICK t \in 0 .. MaxIdle : Render(page, effect, me, t, failed)
    BY <1>4, IdleType DEF PollEnds, ConfigArrives, ConfigFails, ShownTypeOK
  <2>4. ShownTypeOK'
    BY <2>2, <2>3, <1>0, RenderTypeOK DEF ShownTypeOK, KeptTypeOK
  <2> QED
    BY <2>2, <2>4
<1>5. CASE ExchangeEnds \/ AdoptEnds \/ MeArrives
  <2>1. quiet' \in 0 .. MaxIdle + 1
    BY <1>5, <1>0 DEF ExchangeEnds, TokenArrives, ExchangeFails, AdoptEnds, MeArrives, KeptTypeOK
  <2>2. ConfigTypeOK' /\ KeptTypeOK'
    BY <1>5, <2>1
    DEF ExchangeEnds, TokenArrives, ExchangeFails, AdoptEnds, MeArrives, polling, signIn, programming,
        ConfigTypeOK, KeptTypeOK
  <2>3. PICK p \in Pages, e \in {"none", "me", "warm"}, m \in BOOLEAN, f \in BOOLEAN :
            Render(p, e, m, timer, f)
    BY <1>5, <1>0 DEF ExchangeEnds, TokenArrives, ExchangeFails, AdoptEnds, MeArrives, ShownTypeOK
  <2>4. ShownTypeOK'
    BY <2>2, <2>3, <1>0, RenderTypeOK DEF ShownTypeOK, KeptTypeOK
  <2> QED
    BY <2>2, <2>4
<1>6. CASE BecomesVisible
  BY <1>6, SessionAssumption DEF BecomesVisible, ConfigTypeOK, ShownTypeOK, KeptTypeOK, signIn, programming
<1>7. CASE Tick
  <2>1. timer' \in 0 .. MaxIdle
    BY <1>7, SessionAssumption DEF Tick, ShownTypeOK
  <2>2. quiet' \in 0 .. MaxIdle + 1 /\ polls' \in 0 .. MaxPolls + 1
    BY <1>7, SessionAssumption DEF Tick, KeptTypeOK
  <2>3. ConfigTypeOK' /\ ShownTypeOK'
    BY <1>7, <2>1 DEF Tick, ConfigTypeOK, ShownTypeOK
  <2>4. KeptTypeOK'
    BY <1>7, <2>2 DEF Tick, KeptTypeOK, signIn, programming
  <2> QED
    BY <2>3, <2>4
<1>8. CASE CloseNotice \/ OperateAccount
  <2>1. timer' \in 0 .. MaxIdle /\ quiet' \in 0 .. MaxIdle + 1
    BY <1>8, <1>0 DEF CloseNotice, OperateAccount, Restarted, ShownTypeOK
  <2>2. ConfigTypeOK' /\ ShownTypeOK'
    BY <1>8, <2>1 DEF CloseNotice, OperateAccount, polling, ConfigTypeOK, ShownTypeOK
  <2>3. KeptTypeOK'
    BY <1>8, <2>1 DEF CloseNotice, OperateAccount, polling, signIn, programming, KeptTypeOK
  <2> QED
    BY <2>2, <2>3
<1>9. CASE CallbackEffect \/ Warmed
  <2>1. ConfigTypeOK' /\ UNCHANGED <<page, me, timer>>
    BY <1>9 DEF CallbackEffect, ExchangeCode, RefuseCallback, Warmed, polling, ConfigTypeOK
  <2>2. failed' \in BOOLEAN /\ effect' \in {"none", "me", "warm"}
    BY <1>9 DEF CallbackEffect, ExchangeCode, RefuseCallback, Warmed, ShownTypeOK
  <2>3. ShownTypeOK'
    BY <2>1, <2>2 DEF ShownTypeOK
  <2>4. /\ UNCHANGED <<token, ready, polls, quiet, codeUsed, idleReason, loads>>
        /\ exchange' \in {"none", "code", "me"}
    BY <1>9 DEF CallbackEffect, ExchangeCode, RefuseCallback, Warmed, polling, signIn, KeptTypeOK
  <2>5. exchanged' \in BOOLEAN /\ programmingError' \in BOOLEAN /\ retrying' \in BOOLEAN
    BY <1>9 DEF CallbackEffect, ExchangeCode, RefuseCallback, Warmed, signIn, programming, KeptTypeOK
  <2>6. KeptTypeOK'
    BY <2>4, <2>5 DEF KeptTypeOK
  <2> QED
    BY <2>1, <2>3, <2>6
<1>10. CASE AnswerAccount \/ SomebodyElse \/ UNCHANGED vars
  BY <1>10 DEF AnswerAccount, SomebodyElse, vars, session, polling, signIn, programming,
               ConfigTypeOK, ShownTypeOK, KeptTypeOK
<1> QED
  BY <1>1, <1>2, <1>3, <1>4, <1>5, <1>6, <1>7, <1>8, <1>9, <1>10 DEF Next, Operator

LEMMA TypesHold == Spec => [](ConfigTypeOK /\ ShownTypeOK /\ KeptTypeOK)
<1>1. Init => ConfigTypeOK /\ ShownTypeOK /\ KeptTypeOK
  BY InitTypeOK
<1>2. ConfigTypeOK /\ ShownTypeOK /\ KeptTypeOK /\ [Next]_vars
        => (ConfigTypeOK /\ ShownTypeOK /\ KeptTypeOK)'
  BY NextTypeOK
<1> QED
  BY <1>1, <1>2, PTL DEF Spec

(* Every variable of the session and of the account page keeps its type,   *)
(* for any configurations and bounds.                                      *)
THEOREM SessionTypeCorrect == Spec => []SessionTypeOK
<1>1. AccountInv /\ ConfigTypeOK /\ ShownTypeOK /\ KeptTypeOK => SessionTypeOK
  BY DEF AccountInv, ConfigTypeOK, ShownTypeOK, KeptTypeOK, SessionTypeOK
<1> QED
  BY <1>1, AccountInvHolds, TypesHold, PTL

-----------------------------------------------------------------------------
(* The idle timer.  What is left on it and the time that has passed with   *)
(* nothing done make up the timeout, or more: an effect that runs again    *)
(* may set it anew, and nothing sets it short.  Nobody is at the login     *)
(* page with a token, so that closing its notice restarts no timer.        *)

TimerInv ==
    /\ Armed => timer + quiet >= config.idle
    /\ page = "login" => ~token

Types == ConfigTypeOK /\ ShownTypeOK /\ KeptTypeOK

(* A step that renders with a timer that is as good as the one it had      *)
LEMMA RenderTimer ==
  ASSUME TimerInv, Types, Types', NEW p \in Pages, NEW e \in {"none", "me", "warm"},
         NEW m \in BOOLEAN, NEW t \in 0 .. MaxIdle, NEW f \in BOOLEAN, Render(p, e, m, t, f),
         \/ ~token'
         \/ t + quiet' >= config'.idle
         \/ page' # page \/ token' # token
  PROVE  TimerInv'
<1>1. quiet' \in Nat /\ config'.idle \in Nat /\ t \in Nat /\ timer' \in Nat
  BY IdleType, SessionAssumption DEF Types, ConfigTypeOK, ShownTypeOK, KeptTypeOK
<1>2. ASSUME token', config'.idle > 0 PROVE timer' + quiet' >= config'.idle
  <2>1. config'.idle # 0
    BY <1>1, <1>2
  <2>2. CASE page' # page \/ token' # token
    <3>1. timer' = config'.idle
      BY <1>2, <2>1, <2>2, Zenon DEF Render
    <3> QED
      BY <1>1, <3>1
  <2>3. CASE ~(page' # page \/ token' # token)
    <3>1. timer' = t
      BY <1>2, <2>1, <2>3, Zenon DEF Render
    <3>2. t + quiet' >= config'.idle
      BY <1>2, <2>3
    <3> QED
      BY <3>1, <3>2
  <2> QED
    BY <2>2, <2>3
<1>3. (page = "login" => ~token)'
  BY DEF Render, Landing, Types, KeptTypeOK
<1> QED
  BY <1>2, <1>3 DEF TimerInv, Armed

LEMMA NextTimerInv ==
  ASSUME TimerInv, Types, Types', [Next]_vars
  PROVE  TimerInv'
<1>0. /\ config.idle \in 0 .. MaxIdle /\ timer \in 0 .. MaxIdle /\ quiet \in Nat
      /\ config'.idle \in 0 .. MaxIdle /\ timer' \in 0 .. MaxIdle /\ quiet' \in Nat
      /\ Pages = {"home", "account", "login", "callback", "about", "bigfred"}
      /\ MaxIdle \in Nat
  BY IdleType, SessionAssumption DEF Types, ConfigTypeOK, ShownTypeOK, KeptTypeOK, Pages, Protected
<1>1. CASE Touch \/ OpenAbout \/ OpenAccount \/ GoHome \/ TryAgain \/ Retry
  <2>1. UNCHANGED config /\ quiet' = 0
    BY <1>1 DEF Touch, OpenAbout, OpenAccount, GoHome, TryAgain, Retry, Follow, polling
  <2>2. PICK p \in Pages : Render(p, effect, me, config.idle, failed)
    BY <1>1, <1>0
    DEF Touch, OpenAbout, OpenAccount, GoHome, TryAgain, Retry, Follow, Restarted, Types, ShownTypeOK
  <2>3. config.idle + quiet' >= config'.idle
    BY <2>1, <1>0
  <2> QED
    BY <2>2, <2>3, <1>0, RenderTimer DEF Types, ShownTypeOK
<1>2. CASE StartSso \/ Reload \/ SignedIn
  <2>1. PICK p \in Pages : Load(p)
    BY <1>2, <1>0 DEF StartSso, Reload, SignedIn, Types, ShownTypeOK
  <2>2. config'.idle = 0
    BY <2>1, IdleType DEF Load
  <2>3. (page = "login" => ~token)'
    BY <2>1 DEF Load, Landing, Types, KeptTypeOK
  <2> QED
    BY <2>2, <2>3 DEF TimerInv, Armed
<1>3. CASE LogOut \/ TimerFires \/ MeFails
  BY <1>3 DEF LogOut, TimerFires, MeFails, Logout, TimerInv, Armed
<1>4. CASE ConfigFails
  <2>1. UNCHANGED <<config, token, quiet>> /\ Render(page, effect, me, timer, failed)
    BY <1>4 DEF ConfigFails
  <2>2. ~token' \/ timer + quiet' >= config'.idle
    BY <2>1, <1>0 DEF TimerInv, Armed
  <2> QED
    BY <2>1, <2>2, <1>0, RenderTimer DEF Types, ShownTypeOK
<1>5. CASE \E c \in Configs : ConfigArrives(c)
  <2>1. PICK c \in Configs : ConfigArrives(c)
    BY <1>5
  <2>2. config' = c /\ Render(page, effect, me, c.idle, failed)
    BY <2>1 DEF ConfigArrives
  <2>3. c.idle + quiet' >= config'.idle /\ c.idle \in 0 .. MaxIdle
    BY <2>2, <1>0
  <2> QED
    BY <2>2, <2>3, <1>0, RenderTimer DEF Types, ShownTypeOK
<1>6. CASE ExchangeEnds \/ MeArrives
  <2>1. UNCHANGED <<config, quiet>> /\ (token' = token \/ token' # token)
    BY <1>6 DEF ExchangeEnds, TokenArrives, ExchangeFails, MeArrives, polling
  <2>2. PICK e \in {"none", "me", "warm"}, m \in BOOLEAN, f \in BOOLEAN : Render(page, e, m, timer, f)
    BY <1>6, <1>0 DEF ExchangeEnds, TokenArrives, ExchangeFails, MeArrives, Types, ShownTypeOK
  <2>3. ~token' \/ timer + quiet' >= config'.idle \/ token' # token
    BY <2>1, <1>0 DEF TimerInv, Armed
  <2> QED
    BY <2>2, <2>3, <1>0, RenderTimer DEF Types, ShownTypeOK
<1>7. CASE AdoptEnds
  <2>1. UNCHANGED <<config, token>> /\ (page' # page \/ quiet' = quiet)
    BY <1>7 DEF AdoptEnds, polling
  <2>2. PICK p \in Pages, m \in BOOLEAN, f \in BOOLEAN : Render(p, effect, m, timer, f)
    BY <1>7, <1>0 DEF AdoptEnds, Types, ShownTypeOK
  <2>3. ~token' \/ timer + quiet' >= config'.idle \/ page' # page
    BY <2>1, <1>0 DEF TimerInv, Armed
  <2> QED
    BY <2>2, <2>3, <1>0, RenderTimer DEF Types, ShownTypeOK
<1>8. CASE Tick
  <2>1. UNCHANGED <<config, token, page>>
    BY <1>8 DEF Tick
  <2>2. Armed => timer' + quiet' >= config.idle
    BY <1>8, <1>0 DEF Tick, TimerInv
  <2> QED
    BY <2>1, <2>2 DEF TimerInv, Armed
<1>9. CASE CloseNotice
  BY <1>9 DEF CloseNotice, TimerInv, Armed
<1>10. CASE OperateAccount
  BY <1>10, <1>0 DEF OperateAccount, Restarted, polling, TimerInv, Armed
<1>11. CASE BecomesVisible \/ CallbackEffect \/ Warmed \/ AnswerAccount \/ SomebodyElse \/ UNCHANGED vars
  BY <1>11
  DEF BecomesVisible, CallbackEffect, ExchangeCode, RefuseCallback, Warmed, AnswerAccount,
      SomebodyElse, vars, session, polling, TimerInv, Armed
<1> QED
  BY <1>1, <1>2, <1>3, <1>4, <1>5, <1>6, <1>7, <1>8, <1>9, <1>10, <1>11 DEF Next, Operator, PollEnds

(* Nobody is logged out for being idle who did something within the        *)
(* timeout now configured (AuthContext.tsx:158-179), for any timeouts and  *)
(* any number of polls.                                                    *)
THEOREM NobodyIsLoggedOutEarly == Spec => IdleOnlyWhenIdle
<1>1. Init => TimerInv
  BY IdleType DEF Init, TimerInv, Armed
<1>2. TimerInv /\ Types /\ Types' /\ [Next]_vars => TimerInv'
  BY NextTimerInv
<1>3. Spec => []Types
  BY TypesHold DEF Types
<1>4. TimerInv /\ Types /\ [Next]_vars => [idleReason' /\ ~idleReason => quiet >= config.idle]_vars
  <2> SUFFICES ASSUME TimerInv, Types, Next, idleReason', ~idleReason
               PROVE  quiet >= config.idle
    OBVIOUS
  <2>1. TimerFires
    BY DEF Next, Operator, PollEnds, ConfigArrives, ConfigFails, BecomesVisible, Tick, SignedIn, Load,
           CallbackEffect, ExchangeCode, RefuseCallback, ExchangeEnds, TokenArrives, ExchangeFails,
           AdoptEnds, MeArrives, MeFails, Logout, Warmed, AnswerAccount, SomebodyElse, session,
           Touch, OpenAbout, OpenAccount, GoHome, TryAgain, Follow, LogOut, Retry, CloseNotice,
           OperateAccount, StartSso, Reload
  <2>2. Armed /\ timer = 0 /\ timer + quiet >= config.idle
    BY <2>1 DEF TimerFires, TimerInv
  <2>3. quiet \in Nat
    BY SessionAssumption DEF Types, KeptTypeOK
  <2> QED
    BY <2>2, <2>3
<1> QED
  BY <1>1, <1>2, <1>3, <1>4, PTL DEF Spec, IdleOnlyWhenIdle
=============================================================================
