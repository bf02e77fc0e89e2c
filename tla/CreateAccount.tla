---------------------------- MODULE CreateAccount ----------------------------
(* The page that creates a participant's account                           *)
(* (web/src/pages/CreateAccountPage.tsx): a login that BigFred does not    *)
(* have yet, a PIN entered twice, a summary, and one call that creates the *)
(* account.  Texts that the page does not accept are None.                 *)
(*                                                                         *)
(* The login can be edited while its check is in flight: the page then     *)
(* goes on with a login nobody has checked, valid or not, which only       *)
(* BigFred can refuse.  Other tablets create accounts too.                 *)
(***************************************************************************)
EXTENDS Naturals

CONSTANTS None, Logins, Pins

ASSUME AccountAssumption == None \notin Logins \cup Pins

VARIABLES users, \* BigFred's accounts: login -> PIN, or None
          step, login, pin, pinRepeat, busy,
          request, \* the page's call in flight, with what it sent
          created  \* the login of the account created

fields == <<login, pin, pinRepeat>>
pageVars == <<step, fields, busy, request, created>>
accountVars == <<users, pageVars>>

NoRequest == [kind |-> "none", login |-> None, pin |-> None]
Requests == [kind : {"check", "create"}, login : Logins \cup {None}, pin : Pins \cup {None}]

AccountTypeOK ==
    /\ users \in [Logins -> Pins \cup {None}]
    /\ step \in 0 .. 4 /\ busy \in BOOLEAN
    /\ login \in Logins \cup {None}
    /\ pin \in Pins \cup {None} /\ pinRepeat \in Pins \cup {None}
    /\ request \in Requests \cup {NoRequest} /\ created \in Logins \cup {None}

Blank(s, l, p, r, b, q, c) ==
    s = 0 /\ l = None /\ p = None /\ r = None /\ b = FALSE /\ q = NoRequest /\ c = None

AccountInit ==
    /\ users = [l \in Logins |-> None]
    /\ Blank(step, login, pin, pinRepeat, busy, request, created)

Creatable(l) == l # None /\ users[l] = None
WithAccount(l, p) == [users EXCEPT ![l] = p]

-----------------------------------------------------------------------------
(* The operator; the buttons wait for `busy`, the login's field does not.  *)

TypeLogin(l) ==
    /\ step = 0 /\ login' = l
    /\ UNCHANGED <<users, step, pin, pinRepeat, busy, request, created>>

TypePin(p) ==
    /\ step = 1 /\ pin' = p
    /\ UNCHANGED <<users, step, login, pinRepeat, busy, request, created>>

TypeRepeat(p) ==
    /\ step = 2 /\ pinRepeat' = p
    /\ UNCHANGED <<users, step, login, pin, busy, request, created>>

Ask(kind) ==
    /\ request' = [kind |-> kind, login |-> login, pin |-> pin]
    /\ busy' = TRUE
    /\ UNCHANGED <<users, step, fields, created>>

(* goNext *)
CheckLogin == step = 0 /\ ~busy /\ login # None /\ Ask("check")

PinEntered ==
    /\ step = 1 /\ ~busy /\ pin # None
    /\ pinRepeat' = None /\ step' = 2
    /\ UNCHANGED <<users, login, pin, busy, request, created>>

(* Faulty variant: any PIN may be repeated. *)
AnyRepeat == pinRepeat # None

PinsMatch == pinRepeat # None /\ pin = pinRepeat

PinRepeated ==
    /\ step = 2 /\ ~busy /\ PinsMatch
    /\ step' = 3
    /\ UNCHANGED <<users, fields, busy, request, created>>

(* goBack, but for the first page's, which leaves *)
GoBack ==
    /\ step \in 1 .. 3 /\ ~busy
    /\ pinRepeat' = (IF step = 2 THEN None ELSE pinRepeat) /\ step' = step - 1
    /\ UNCHANGED <<users, login, pin, busy, request, created>>

Submit == step = 3 /\ ~busy /\ Ask("create")

Reset ==
    /\ step = 4
    /\ Blank(step', login', pin', pinRepeat', busy', request', created')
    /\ UNCHANGED users

-----------------------------------------------------------------------------
(* The answers *)

LoginChecked ==
    /\ request.kind = "check"
    /\ step' = (IF Creatable(request.login) THEN 1 ELSE 0)
    /\ busy' = FALSE /\ request' = NoRequest
    /\ UNCHANGED <<users, fields, created>>

Created ==
    /\ request.kind = "create" /\ Creatable(request.login)
    /\ users' = WithAccount(request.login, request.pin)
    /\ created' = request.login /\ step' = 4
    /\ busy' = FALSE /\ request' = NoRequest
    /\ UNCHANGED fields

(* What a call leaves behind that is refused, lost, or answers nobody *)
MayHaveCreated ==
    \/ UNCHANGED users
    \/ /\ request.kind = "create" /\ Creatable(request.login)
       /\ users' = WithAccount(request.login, request.pin)

RequestFails ==
    /\ request # NoRequest
    /\ MayHaveCreated
    /\ busy' = FALSE /\ request' = NoRequest
    /\ UNCHANGED <<step, fields, created>>

(* The page is left. *)
Unmount ==
    /\ MayHaveCreated
    /\ Blank(step', login', pin', pinRepeat', busy', request', created')

OthersCreate(l) ==
    /\ Creatable(l)
    /\ \E p \in Pins : users' = WithAccount(l, p)
    /\ UNCHANGED pageVars

AccountOperator ==
    \/ \E l \in Logins \cup {None} : TypeLogin(l)
    \/ \E p \in Pins \cup {None} : TypePin(p) \/ TypeRepeat(p)
    \/ CheckLogin \/ PinEntered \/ PinRepeated \/ GoBack \/ Submit \/ Reset

AccountAnswers == LoginChecked \/ Created \/ RequestFails

-----------------------------------------------------------------------------
(* Properties *)

(* The account that the page says it has created is the one of the summary *)
(* before it, with the PIN that was entered twice, whatever was edited,    *)
(* gone back to or tried again on the way (CreateAccountPage.tsx:57-126).  *)
AccountAsConfirmed ==
    step = 4 =>
        created # None /\ created = login /\ pin = pinRepeat /\ users[login] = pin
=============================================================================
