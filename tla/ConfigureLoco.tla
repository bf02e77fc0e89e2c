--------------------------- MODULE ConfigureLoco ---------------------------
(***************************************************************************)
(* The page web/src/pages/ConfigureLocoPage.tsx: the organizer picks a     *)
(* participant and a locomotive (or adds one), chooses its address and its *)
(* function list, saves them to BigFred, programs the decoder on the       *)
(* programming track and tries F2.                                         *)
(*                                                                         *)
(* The page's state is React's; a call to the server is a continuation     *)
(* that holds the values of the render that started it and may end while   *)
(* the page shows something else.  Most buttons are disabled while `busy`, *)
(* but not the list of users, the address field, Back while F2 is tested,  *)
(* and the app bar.                                                        *)
(*                                                                         *)
(* A model of one visit; after the operator left, calls in flight end as   *)
(* they would have, and nothing shows them.  BigFred answers a list as it  *)
(* is when the answer arrives; of its vehicles only the function lists are *)
(* changed by others, and none is on the layout at first.  A hurried       *)
(* operator picks another user while a list is loading, edits the address  *)
(* while it is being saved, or goes back while F2 is tested; a patient one *)
(* waits.  At most one save and one programming call are in flight: more   *)
(* take a hurried operator.                                                *)
(***************************************************************************)
EXTENDS Naturals, Sequences, FiniteSets

CONSTANTS Users,
          Pool,      \* user -> the addresses of dccPool, in order
          Ids,       \* vehicle ids, positive numbers
          Fleets,    \* the vehicles BigFred may have at first, each with its
                     \* owner and its address, if any; other ids are yet to be made
          Typed,     \* addresses an operator may type
          NoUser,
          Hurried,   \* whether the operator is
          MaxLoads   \* bound: lists of vehicles in flight

NoId == 0
NoAddress == 0
Addresses == {NoAddress} \cup Typed
             \cup (UNION { { Pool[u][i] : i \in DOMAIN Pool[u] } : u \in Users })
             \cup (UNION { { f[i].dcc : i \in DOMAIN f } : f \in Fleets })

ASSUME LocoAssumption ==
    /\ NoUser \notin Users
    /\ Ids \subseteq Nat \ {NoId} /\ IsFiniteSet(Ids)
    /\ Pool \in [Users -> Seq(Nat \ {NoAddress})]
    /\ \A f \in Fleets :
         /\ DOMAIN f \subseteq Ids
         /\ f \in [DOMAIN f -> [owner : Users, dcc : Nat]]
    /\ Typed \subseteq Nat \ {NoAddress}
    /\ Hurried \in BOOLEAN
    /\ MaxLoads \in Nat

VARIABLES phase, user, vehicles, existing, saved, addingNew, address,
          template, templates, programmed, busy,
          loads,     \* user -> the lists asked for and not answered
          catalogue, \* the call of the template effect: "off", "fresh", "known"
          fred,      \* an entry from the FRED page and what is loaded for it
          saving, setting, testing, \* persistAndGoProgram, programAddress, testF2
          owner, dcc, onLayout, \* BigFred's vehicles
          custom,    \* those with a function list that somebody chose or made
          decoder,   \* the address of the locomotive on the programming track
          created, lost \* vehicles made since "add new"; the answer to a creation was lost

choice  == <<user, vehicles, existing, addingNew>>
form    == <<address, template, templates>>
calls   == <<loads, saving, setting, testing>>
fleet   == <<owner, dcc, onLayout, custom>>
making  == <<created, lost>>
vars == <<phase, choice, saved, form, programmed, busy, calls, catalogue, fred,
          fleet, decoder, making>>

None == [stage |-> "none"]
Live == DOMAIN owner

LocoTypeOK ==
    /\ phase \in {"user", "noPool", "pickLoco", "details", "address", "program"}
    /\ user \in Users \cup {NoUser}
    /\ vehicles \subseteq [id : Ids, dcc : Addresses]
    /\ existing \in Ids \cup {NoId} /\ saved \in Ids \cup {NoId}
    /\ addingNew \in BOOLEAN /\ programmed \in BOOLEAN /\ busy \in BOOLEAN
    /\ templates \in BOOLEAN /\ lost \in BOOLEAN
    /\ address \in Addresses
    /\ template \in {"none", "default", "chosen"}
    /\ loads \in [Users -> 0 .. MaxLoads]
    /\ catalogue \in {"off", "fresh", "known"}
    /\ setting \in Addresses
    /\ saving \in {None} \cup [stage : {"save", "attach"}, id : Ids \cup {NoId}, user : Users,
                               address : Addresses, template : {"none", "default", "chosen"}]
    /\ testing \in {None} \cup [stage : {"roster", "pulse"}, id : Ids,
                                address : Addresses]
    /\ Live \subseteq Ids /\ owner \in [Live -> Users] /\ dcc \in [Live -> Addresses]
    /\ custom \subseteq Live /\ onLayout \subseteq Live
    /\ decoder \in Addresses /\ created \in Nat

-----------------------------------------------------------------------------
(* The list of vehicles and the address it suggests *)

(* Faulty variant: the layout's vehicles, whoever owns them. *)
EverybodysVehicles(u) == { [id |-> i, dcc |-> dcc[i]] : i \in Live }

OwnedByUser(u) == { [id |-> i, dcc |-> dcc[i]] : i \in { j \in Live : owner[j] = u } }

InPool(u, a) == \E i \in DOMAIN Pool[u] : Pool[u][i] = a

(* The lowest address of the pool that no vehicle of the list has. *)
SuggestFreeAddress(u, list) ==
    LET free == { i \in DOMAIN Pool[u] : \A v \in list : v.dcc # Pool[u][i] }
    IN  IF free = {} THEN NoAddress ELSE Pool[u][CHOOSE i \in free : \A j \in free : i <= j]

-----------------------------------------------------------------------------
PageInit ==
    /\ vehicles = {} /\ existing = NoId /\ saved = NoId /\ addingNew = FALSE
    /\ template = "none" /\ templates = FALSE /\ programmed = FALSE /\ busy = FALSE
    /\ user = NoUser
    /\ loads = [u \in Users |-> 0] /\ catalogue = "off"
    /\ saving = None /\ setting = NoAddress /\ testing = None
    /\ \E f \in Fleets :
         /\ owner = [i \in DOMAIN f |-> f[i].owner]
         /\ dcc = [i \in DOMAIN f |-> f[i].dcc]
         /\ custom = DOMAIN f
    /\ onLayout = {}
    /\ decoder = NoAddress /\ created = 0 /\ lost = FALSE

(* The page is opened from the menu, or from the FRED page with the        *)
(* address a FRED was given and the vehicle that has it, if any.           *)
Init ==
    /\ PageInit
    /\ \/ phase = "user" /\ address = NoAddress /\ fred = None
       \/ /\ phase = "program"
          /\ \/ \E a \in Typed : address = a /\ fred = [stage |-> "done"]
             \/ \E i \in Live :
                  /\ address = dcc[i] /\ address # NoAddress
                  /\ fred = [stage |-> "users", login |-> owner[i], id |-> i]

(* The effect on [phase, existing, savedVehicle] asks for the templates    *)
(* and remembers whether the vehicle is known; its cleanup drops the       *)
(* answer of its last call.                                                *)
TemplateEffect ==
    catalogue' = IF phase' # "address" THEN "off"
                 ELSE IF existing' # NoId \/ saved' # NoId THEN "known" ELSE "fresh"

InFlight == { u \in Users : loads[u] > 0 }

-----------------------------------------------------------------------------
(* Choosing the user and the locomotive *)

(* onUserPicked *)
PickUser(u) ==
    /\ phase = "user" /\ (busy => Hurried)
    /\ Cardinality(InFlight) < MaxLoads /\ loads[u] < MaxLoads
    /\ user' = u /\ existing' = NoId /\ addingNew' = FALSE /\ saved' = NoId
    /\ programmed' = FALSE /\ vehicles' = {}
    /\ IF Pool[u] = <<>>
       THEN phase' = "noPool" /\ UNCHANGED <<busy, loads>>
       ELSE busy' = TRUE /\ loads' = [loads EXCEPT ![u] = @ + 1] /\ UNCHANGED phase
    /\ TemplateEffect
    /\ UNCHANGED <<form, saving, setting, testing, fred, fleet, decoder, making>>

(* Faulty variant: busy is cleared only when the list arrives. *)
NoListForgotten(u) ==
    /\ UNCHANGED <<vehicles, phase, catalogue>>
    /\ busy' = busy

NoList(u) ==
    /\ UNCHANGED <<vehicles, phase, catalogue>>
    /\ busy' = FALSE

(* loadVehicles: the list of the user it was asked for, whoever is chosen. *)
ListArrives(u) ==
    /\ vehicles' = OwnedByUser(u)
    /\ phase' = "pickLoco"
    /\ TemplateEffect
    /\ busy' = FALSE

LoadEnds(u) ==
    /\ loads[u] > 0
    /\ loads' = [loads EXCEPT ![u] = @ - 1]
    /\ UNCHANGED <<user, existing, addingNew, saved>>
    /\ ListArrives(u) \/ NoList(u)
    /\ UNCHANGED <<form, programmed, saving, setting, testing, fred, fleet, decoder, making>>

(* suggestAddress: the one the vehicle has, or else a free one. *)
SuggestAddress(a) == IF a # NoAddress THEN a ELSE SuggestFreeAddress(user, vehicles)

(* goToAddress: without a user it does nothing. *)
GoToAddress(a) ==
    IF user = NoUser THEN UNCHANGED <<form, phase>>
    ELSE /\ address' = SuggestAddress(a)
         /\ template' = "none" /\ templates' = FALSE
         /\ phase' = "address"

PickExisting(v) ==
    /\ phase = "pickLoco" /\ ~busy /\ v \in vehicles
    /\ existing' = v.id /\ addingNew' = FALSE /\ saved' = NoId /\ programmed' = FALSE
    /\ GoToAddress(v.dcc)
    /\ TemplateEffect
    /\ UNCHANGED <<user, vehicles, busy, calls, fred, fleet, decoder, making>>

PickAddNew ==
    /\ phase = "pickLoco" /\ ~busy
    /\ existing' = NoId /\ addingNew' = TRUE /\ saved' = NoId /\ programmed' = FALSE
    /\ phase' = "details"
    /\ created' = 0 /\ lost' = FALSE
    /\ TemplateEffect
    /\ UNCHANGED <<user, vehicles, form, busy, calls, fred, fleet, decoder>>

(* onDetailsNext, with a name *)
DetailsNext ==
    /\ phase = "details" /\ ~busy
    /\ GoToAddress(NoAddress)
    /\ UNCHANGED <<existing, saved>>
    /\ TemplateEffect
    /\ UNCHANGED <<user, vehicles, addingNew, programmed, busy, calls, fred, fleet,
                   decoder, making>>

-----------------------------------------------------------------------------
(* The address and the function list *)

TypeAddress(a) ==
    /\ phase = "address" /\ user # NoUser /\ (busy => Hurried)
    /\ address' = a
    /\ UNCHANGED <<phase, choice, saved, template, templates, programmed, busy, calls,
                   catalogue, fred, fleet, decoder, making>>

(* The templates arrive; "Basic" is chosen for a vehicle that is new, if   *)
(* there is one.                                                           *)
TemplatesArrive ==
    /\ catalogue \in {"fresh", "known"}
    /\ catalogue' = "off" /\ templates' = TRUE
    /\ template' \in IF catalogue = "fresh" /\ template = "none" THEN {"none", "default"}
                                                                 ELSE {template}
    /\ UNCHANGED <<phase, choice, saved, address, programmed, busy, calls, fred,
                   fleet, decoder, making>>

TemplatesFail ==
    /\ catalogue \in {"fresh", "known"}
    /\ catalogue' = "off"
    /\ UNCHANGED <<phase, choice, saved, form, programmed, busy, calls, fred,
                   fleet, decoder, making>>

ChooseTemplate(t) ==
    /\ phase = "address" /\ user # NoUser /\ templates
    /\ template' = t
    /\ UNCHANGED <<phase, choice, saved, address, templates, programmed, busy, calls,
                   catalogue, fred, fleet, decoder, making>>

-----------------------------------------------------------------------------
(* Saving: persistAndGoProgram *)

Save ==
    /\ phase = "address" /\ ~busy /\ user # NoUser
    /\ InPool(user, address)
    /\ saving = None
    /\ busy' = TRUE
    /\ saving' = [stage |-> "save", id |-> IF saved # NoId THEN saved ELSE existing,
                  user |-> user, address |-> address, template |-> template]
    /\ UNCHANGED <<phase, choice, saved, form, programmed, loads, setting, testing,
                   catalogue, fred, fleet, decoder, making>>

(* createVehicle or updateVehicle at the server, as the chosen user *)
Store(i) ==
    IF saving.id = NoId
    THEN /\ i \in Ids \ Live /\ \A j \in Ids \ Live : i <= j
         /\ owner' = [k \in Live \cup {i} |-> IF k = i THEN saving.user ELSE owner[k]]
         /\ dcc' = [k \in Live \cup {i} |-> IF k = i THEN saving.address ELSE dcc[k]]
         /\ created' = created + 1
    ELSE /\ i = saving.id
         /\ dcc' = [dcc EXCEPT ![i] = saving.address]
         /\ UNCHANGED <<owner, created>>

SaveOver == saving' = None /\ busy' = FALSE

(* The page moves on to the programming track. *)
SaveSucceeds ==
    /\ SaveOver
    /\ programmed' = FALSE
    /\ phase' = "program"

(* Faulty variant: the vehicle is remembered after the template is attached. *)
StoredRememberedLate(i) ==
    IF saving.template = "none"
    THEN saved' = i /\ SaveSucceeds
    ELSE /\ saving' = [saving EXCEPT !.stage = "attach", !.id = i]
         /\ UNCHANGED <<phase, programmed, busy, saved>>

(* setSavedVehicle, then the template is attached if there is one. *)
Stored(i) ==
    /\ saved' = i
    /\ IF saving.template = "none"
       THEN SaveSucceeds
       ELSE /\ saving' = [saving EXCEPT !.stage = "attach", !.id = i]
            /\ UNCHANGED <<phase, programmed, busy>>

SaveDone(i) ==
    /\ saving.stage = "save"
    /\ Store(i)
    /\ Stored(i)
    /\ UNCHANGED choice
    /\ TemplateEffect
    /\ UNCHANGED <<form, loads, setting, testing, fred, custom, onLayout, decoder, lost>>

(* The server refuses, or its answer is lost after it stored the vehicle. *)
SaveFails ==
    /\ saving.stage = "save"
    /\ \/ UNCHANGED <<owner, dcc, making>>
       \/ (\E i \in Ids : Store(i)) /\ lost' = (lost \/ saving.id = NoId)
    /\ SaveOver
    /\ UNCHANGED <<phase, choice, saved, form, programmed, loads, setting, testing,
                   catalogue, fred, custom, onLayout, decoder>>

AttachAtServer ==
    custom' = IF saving.template = "chosen" THEN custom \cup {saving.id}
                                            ELSE custom \ {saving.id}

AttachDone ==
    /\ saving.stage = "attach"
    /\ AttachAtServer
    /\ SaveSucceeds
    /\ UNCHANGED <<choice, saved>>
    /\ TemplateEffect
    /\ UNCHANGED <<form, loads, setting, testing, fred, owner, dcc, onLayout,
                   decoder, making>>

AttachFails ==
    /\ saving.stage = "attach"
    /\ AttachAtServer \/ UNCHANGED custom
    /\ SaveOver
    /\ UNCHANGED <<phase, choice, saved, form, programmed, loads, setting, testing,
                   catalogue, fred, owner, dcc, onLayout, decoder, making>>

-----------------------------------------------------------------------------
(* Programming and the F2 test *)

(* programAddress, with the address the page shows *)
ProgramAddress ==
    /\ phase = "program" /\ ~programmed /\ ~busy /\ setting = NoAddress
    /\ address # NoAddress
    /\ busy' = TRUE /\ setting' = address
    /\ UNCHANGED <<phase, choice, saved, form, programmed, loads, saving, testing,
                   catalogue, fred, fleet, decoder, making>>

ProgramDone ==
    /\ setting # NoAddress
    /\ decoder' = setting
    /\ setting' = NoAddress /\ programmed' = TRUE /\ busy' = FALSE
    /\ UNCHANGED <<phase, choice, saved, form, loads, saving, testing, catalogue, fred,
                   fleet, making>>

(* Faulty variant: the failure is shown, and the page goes on. *)
ProgramFailsUnnoticed ==
    /\ setting # NoAddress
    /\ decoder' \in {decoder, setting}
    /\ setting' = NoAddress /\ busy' = FALSE /\ programmed' = TRUE
    /\ UNCHANGED <<phase, choice, saved, form, loads, saving, testing, catalogue, fred, fleet, making>>

ProgramFails ==
    /\ setting # NoAddress
    /\ decoder' \in {decoder, setting}
    /\ setting' = NoAddress /\ busy' = FALSE
    /\ UNCHANGED <<phase, choice, saved, form, programmed, loads, saving, testing,
                   catalogue, fred, fleet, making>>

TestF2 ==
    /\ phase = "program" /\ programmed /\ ~busy /\ testing = None
    /\ user # NoUser /\ saved # NoId
    /\ testing' = [stage |-> "roster", id |-> saved, address |-> address]
    /\ UNCHANGED <<phase, choice, saved, form, programmed, busy, loads, saving, setting,
                   catalogue, fred, fleet, decoder, making>>

Pulse == testing' = [testing EXCEPT !.stage = "pulse"]

(* Faulty variant: every failure of addVehicleToLayout is passed over. *)
RosterFailsPassedOver == Pulse

RosterFails == testing' = None

(* addVehicleToLayout: the vehicle joins the layout or is on it already,   *)
(* or the call fails, perhaps after it took effect.                        *)
RosterAnswers ==
    /\ testing.stage = "roster"
    /\ \/ onLayout' = onLayout \cup {testing.id} /\ Pulse
       \/ onLayout' \in {onLayout, onLayout \cup {testing.id}} /\ RosterFails
    /\ UNCHANGED <<phase, choice, saved, form, programmed, busy, loads, saving, setting,
                   catalogue, fred, owner, dcc, custom, decoder, making>>

(* pulseFunction answers, well or not. *)
PulseEnds ==
    /\ testing.stage = "pulse"
    /\ testing' = None
    /\ UNCHANGED <<phase, choice, saved, form, programmed, busy, loads, saving, setting,
                   catalogue, fred, fleet, decoder, making>>

-----------------------------------------------------------------------------
(* Entry from the FRED page *)

FredAnswers ==
    /\ \/ /\ fred.stage = "users"
          /\ user' \in {fred.login, NoUser}
          /\ fred' = [fred EXCEPT !.stage = "vehicles"]
          /\ UNCHANGED <<saved, existing>>
       \/ /\ fred.stage = "vehicles"
          /\ saved' = fred.id /\ existing' = fred.id
          /\ fred' = [stage |-> "done"]
          /\ UNCHANGED user
    /\ UNCHANGED <<phase, vehicles, addingNew, form, programmed, busy, calls, catalogue,
                   fleet, decoder, making>>

FredFails ==
    /\ fred.stage \in {"users", "vehicles"}
    /\ fred' = [stage |-> "done"]
    /\ UNCHANGED <<phase, choice, saved, form, programmed, busy, calls, catalogue,
                   fleet, decoder, making>>

-----------------------------------------------------------------------------
(* The participant edits the functions of the saved vehicle in BigFred     *)
(* while it is being programmed.  (An edit before that can be overwritten  *)
(* by the attachment the operator asked for, which the page cannot know.)  *)
ParticipantEdits ==
    /\ phase = "program" /\ saved # NoId
    /\ custom' = custom \cup {saved}
    /\ UNCHANGED <<phase, choice, saved, form, programmed, busy, calls, catalogue, fred,
                   owner, dcc, onLayout, decoder, making>>

-----------------------------------------------------------------------------
(* Going back: goBack *)

BackFromNoPool == phase = "noPool" /\ phase' = "user" /\ user' = NoUser
                  /\ UNCHANGED <<vehicles, existing, addingNew, template, programmed>>

BackFromPick == phase = "pickLoco" /\ phase' = "user" /\ user' = NoUser /\ vehicles' = {}
                /\ UNCHANGED <<existing, addingNew, template, programmed>>

BackFromDetails == phase = "details" /\ phase' = "pickLoco" /\ addingNew' = FALSE
                   /\ UNCHANGED <<user, vehicles, existing, template, programmed>>

BackFromAddress ==
    /\ phase = "address"
    /\ IF addingNew THEN phase' = "details" /\ UNCHANGED existing
                    ELSE phase' = "pickLoco" /\ existing' = NoId
    /\ UNCHANGED <<user, vehicles, addingNew, template, programmed>>

(* Faulty variant: the chosen template stays and is attached once more. *)
BackFromProgramKeeping ==
    /\ phase = "program" /\ phase' = "address" /\ programmed' = FALSE
    /\ UNCHANGED <<user, vehicles, existing, addingNew, template>>

BackFromProgram ==
    /\ phase = "program" /\ phase' = "address" /\ programmed' = FALSE
    /\ template' = "none"
    /\ UNCHANGED <<user, vehicles, existing, addingNew>>

(* A page opened from the FRED page goes back to the menu, like "user". *)
GoBack ==
    /\ ~busy /\ fred = None /\ (testing # None => Hurried)
    /\ BackFromNoPool \/ BackFromPick \/ BackFromDetails \/ BackFromAddress \/ BackFromProgram
    /\ UNCHANGED saved
    /\ TemplateEffect
    /\ UNCHANGED <<address, templates, busy, calls, fred, fleet, decoder, making>>

-----------------------------------------------------------------------------
Operator ==
    \/ \E u \in Users : PickUser(u)
    \/ \E v \in vehicles : PickExisting(v)
    \/ \E a \in Typed : TypeAddress(a)
    \/ \E t \in {"none", "chosen"} : ChooseTemplate(t)
    \/ PickAddNew \/ DetailsNext \/ Save \/ ProgramAddress \/ TestF2 \/ GoBack

SaveAnswers == (\E i \in Ids : SaveDone(i)) \/ SaveFails \/ AttachDone \/ AttachFails

ProgramAnswers == ProgramDone \/ ProgramFails

TestAnswers == RosterAnswers \/ PulseEnds

Answers ==
    \/ \E u \in Users : LoadEnds(u)
    \/ TemplatesArrive \/ TemplatesFail \/ FredAnswers \/ FredFails
    \/ SaveAnswers \/ ProgramAnswers \/ TestAnswers

Next == Operator \/ Answers \/ ParticipantEdits

Spec == Init /\ [][Next]_vars

(* A call to the server ends, well or not; the operator owes nothing. *)
FairSpec ==
    /\ Spec
    /\ \A u \in Users : WF_vars(LoadEnds(u))
    /\ WF_vars(SaveAnswers) /\ WF_vars(ProgramAnswers)

-----------------------------------------------------------------------------
(* Properties *)

(* The page offers and edits vehicles of the chosen participant only       *)
(* ("keep only vehicles owned by the participant").  A hurried operator    *)
(* sees it fail: the list of a user picked earlier arrives late.           *)
OwnVehicles ==
    phase \in {"pickLoco", "details", "address"} =>
      /\ \A v \in vehicles : owner[v.id] = user
      /\ \A i \in {existing, saved} \ {NoId} : owner[i] = user

(* When the page says a vehicle is programmed, the locomotive on the       *)
(* track, the vehicle BigFred stores and the number on the screen agree,   *)
(* whatever was saved, refused, lost or retried before.                    *)
ProgrammedIsSaved ==
    phase = "program" /\ programmed =>
      /\ decoder = address
      /\ saved # NoId => dcc[saved] = address

(* A function list that somebody made in BigFred or chose here is replaced *)
(* only by one the operator chooses or the participant makes, never by the *)
(* suggested "Basic" ("leave template empty so we don't overwrite          *)
(* functions"; "Clear template so [Next] does not re-attach and overwrite  *)
(* functions").                                                            *)
FunctionsKept == [][custom \subseteq custom']_custom

(* Adding a vehicle makes one vehicle, however often a later step fails    *)
(* and Next is pressed again, unless the answer to its creation is lost.   *)
OneVehiclePerAdd == ~lost => created <= 1

(* F2 is pulsed for a vehicle of the layout only (every failure but        *)
(* "already on the roster" ends the test) and at the address that the      *)
(* locomotive on the track and BigFred's vehicle have.                     *)
PulseRunsTheLoco ==
    testing.stage = "pulse" =>
      /\ testing.id \in onLayout
      /\ testing.address = decoder /\ dcc[testing.id] = decoder

(* The page never keeps its buttons disabled, whichever call fails. *)
BusyEnds == busy ~> ~busy
=============================================================================
