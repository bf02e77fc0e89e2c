---------------------------- MODULE DrivePairing ----------------------------
(***************************************************************************)
(* Pairing a handset with BigFred: the page of web/src/pages/drive for the *)
(* devices that a participant pairs by typing a code (WlanMaus, RailBOX,   *)
(* any other WiThrottle), with the state they share in useDriveSession.ts. *)
(*                                                                         *)
(* A visit is: pick the device, the participant, read some instructions,   *)
(* begin a pairing at a command station (replacing a paired handset after  *)
(* a question), wait for the handset, list the participant's locomotives.  *)
(* A call to BigFred is a continuation that keeps the values of the render *)
(* that started it; the page asks every three seconds whether the handset  *)
(* is paired.  BigFred has one open pairing per participant and station.   *)
(*                                                                         *)
(* The buttons are those the code leaves enabled, and the operator waits   *)
(* for the answer of a call before the next step.  An answer to a poll     *)
(* that was sent for an earlier pairing has `crossed`; a cancellation that *)
(* did not reach BigFred leaves `uncancelled`: properties name those they  *)
(* depend on.  One clock decides when a code expires.                      *)
(*                                                                         *)
(* /me has been answered before the page opens, the network name and       *)
(* password that some pages show are left out, every participant has a     *)
(* locomotive, and no handset leaves by itself.                            *)
(***************************************************************************)
EXTENDS Pairings, FiniteSets

CONSTANTS Lists,       \* the lists of usable stations BigFred may answer
          None,        \* no user, no station
          MaxPolls     \* bound: answers to polls on their way

ASSUME DriveAssumption ==
    /\ None \notin Users \cup Stations
    /\ Lists \subseteq Seq(Stations)
    /\ MaxPolls \in Nat

VARIABLES device, phase, user, station, stations,
          listing,   \* the list of stations: "idle", "loading", "failed", "loaded"
          pairing,   \* the pairing shown, a position in `pairings`
          paired,
          ticking,   \* the interval that polls runs
          existing, vehicles, picked, busy,
          calls, polls, \* in flight
          crossed, uncancelled

choice == <<device, user, station>>
list   == <<stations, listing>>
pair   == <<pairing, paired, ticking>>
locos  == <<vehicles, picked>>
mishaps == <<crossed, uncancelled>>
page   == <<choice, list, phase, pair, existing, locos, busy>>
vars == <<page, calls, polls, bigfred, mishaps>>

Devices == {"wlanmaus", "railbox", "withrottle-advanced"}

(* The pages before a pairing, in order; the pages that end a visit.       *)
Before(d) ==
    CASE d = "wlanmaus" -> <<"user", "wlanmausWifi">>
      [] d = "railbox"  -> <<"phoneWifi", "user", "railboxAppQr", "railboxConnect",
                             "railboxPairingSetup">>
      [] OTHER          -> <<"user", "wtWifi">>
LastPage(d) == Before(d)[Len(Before(d))]

ListPage(d) == CASE d = "wlanmaus" -> "wlanmausLocoList"
                 [] d = "railbox"  -> "railboxLocoList"
                 [] OTHER          -> "pickLoco"

Gone == phase \in {"home", "left"}

Phases == {"device", "station", "rePairConfirm", "pairing", "wlanmausDriveMode", "howToEnter",
           "home", "left"}
          \cup UNION { { Before(d)[i] : i \in DOMAIN Before(d) } \cup {ListPage(d)} : d \in Devices }

Calls == [kind : {"status", "start"}, user : Users, station : Stations]
         \cup [kind : {"unpair"}, user : Users, station : Stations, key : Nat]
         \cup [kind : {"cancel"}, user : Users, station : Stations, device : Devices]
         \cup [kind : {"load"}, user : Users, page : {ListPage(d) : d \in Devices}]

DriveTypeOK ==
    /\ device \in Devices \cup {"none"} /\ phase \in Phases
    /\ user \in Users \cup {None} /\ station \in Stations \cup {None}
    /\ listing \in {"idle", "loading", "failed", "loaded"} /\ stations \in Lists \cup {<<>>}
    /\ pairing \in 0 .. Len(pairings) /\ paired \in BOOLEAN /\ ticking \in BOOLEAN
    /\ existing \in 0 .. OldHandset /\ busy \in BOOLEAN
    /\ vehicles \in Users \cup {None} /\ picked \in Users \cup {None}
    /\ \A c \in calls : c \in Calls
    /\ polls \subseteq 1 .. Len(pairings)
    /\ PairingsTypeOK
    /\ crossed \in BOOLEAN /\ uncancelled \in BOOLEAN

Init ==
    /\ phase = "device" /\ device = "none" /\ user = None /\ station = None
    /\ stations = <<>> /\ listing = "idle"
    /\ pairing = NoPairing /\ paired = FALSE /\ ticking = FALSE
    /\ existing = NoHandset
    /\ vehicles = None /\ picked = None /\ busy = FALSE
    /\ calls = {} /\ polls = {}
    /\ PairingsInit
    /\ crossed = FALSE /\ uncancelled = FALSE

-----------------------------------------------------------------------------
(* BigFred *)

(* The participant types the code into the handset, perhaps one that the   *)
(* page could not cancel.                                                  *)
HandsetPairs(n) ==
    /\ ~Gone /\ Joins(n)
    /\ UNCHANGED <<page, calls, polls, mishaps>>

PairingExpires(n) ==
    /\ ~Gone /\ Expires(n)
    /\ UNCHANGED <<page, calls, polls, mishaps>>

-----------------------------------------------------------------------------
(* What every handler of the page begins with, and its calls *)

Acts ==
    /\ ~Gone /\ calls = {}
    /\ UNCHANGED <<mishaps, bigfred>>

(* The page is left for the home page: React discards its state.           *)
Unmount(p) ==
    /\ phase' = p /\ device' = "none" /\ user' = None /\ station' = None
    /\ stations' = <<>> /\ listing' = "idle"
    /\ pairing' = NoPairing /\ paired' = FALSE /\ ticking' = FALSE
    /\ existing' = NoHandset
    /\ vehicles' = None /\ picked' = None /\ busy' = FALSE
    /\ polls' = {}

(* Faulty variant: asks the first station whatever was chosen. *)
BeginAtFirstStation(u, s) ==
    /\ busy' = TRUE /\ station' = s
    /\ calls' = calls \cup {[kind |-> "status", user |-> u, station |-> stations[1]]}

(* beginPairing, up to its first answer *)
BeginPairing(u, s) ==
    /\ busy' = TRUE /\ station' = s
    /\ calls' = calls \cup {[kind |-> "status", user |-> u, station |-> s]}

(* loadVehicles, and the page its caller shows then *)
LoadVehicles ==
    /\ user # None
    /\ busy' = TRUE
    /\ calls' = calls \cup {[kind |-> "load", user |-> user, page |-> ListPage(device)]}

-----------------------------------------------------------------------------
(* Before the pairing *)

(* The effect on [me, device, stationsReload] *)
LoadStations == listing' = "loading" /\ stations' = <<>> /\ station' = None

PickDevice(d) ==
    /\ Acts
    /\ device = "none" \/ phase = "device"
    /\ device' = d /\ phase' = Before(d)[1]
    /\ LoadStations
    /\ UNCHANGED <<user, pair, existing, locos, busy, calls, polls>>

StationsArrive(stns) ==
    /\ listing = "loading"
    /\ listing' = "loaded" /\ stations' = stns
    /\ station' = IF stns = <<>> THEN None ELSE stns[1]
    /\ UNCHANGED <<device, user, phase, pair, existing, locos, busy, calls, polls, bigfred, mishaps>>

StationsFail ==
    /\ listing = "loading"
    /\ listing' = "failed"
    /\ UNCHANGED <<choice, stations, phase, pair, existing, locos, busy, calls, polls, bigfred,
                   mishaps>>

RetryStations ==
    /\ Acts
    /\ device # "none" /\ phase = LastPage(device) /\ listing = "failed"
    /\ LoadStations
    /\ UNCHANGED <<device, user, phase, pair, existing, locos, busy, calls, polls>>

(* onUserPicked.  connectDrive is called and its answer is ignored.        *)
PickUser(u) ==
    /\ Acts
    /\ device # "none" /\ phase = "user"
    /\ user' = u /\ busy' = FALSE
    /\ \E i \in 2 .. Len(Before(device)) :
         Before(device)[i - 1] = "user" /\ phase' = Before(device)[i]
    /\ UNCHANGED <<device, station, list, pair, existing, locos, calls, polls>>

(* A page of instructions, left for the next one *)
Forward ==
    /\ Acts
    /\ device # "none" /\ phase # "user"
    /\ \E i \in 2 .. Len(Before(device)) :
         Before(device)[i - 1] = phase /\ phase' = Before(device)[i]
    /\ UNCHANGED <<choice, list, pair, existing, locos, busy, calls, polls>>

(* onBackToDevices *)
BackToDevices ==
    /\ phase' = "device" /\ device' = "none" /\ user' = None /\ station' = None
    /\ pairing' = NoPairing /\ ticking' = FALSE
    /\ listing' = IF listing = "loading" THEN "idle" ELSE listing
    /\ UNCHANGED <<stations, paired>>

ForgetsUser(d, p) == <<d, p>> \in {<<"wlanmaus", "wlanmausWifi">>, <<"railbox", "user">>,
                                   <<"railbox", "railboxAppQr">>}

(* The first page of WlanMaus leaves, the others' show the devices.        *)
Back ==
    /\ Acts
    /\ device # "none"
    /\ \E i \in DOMAIN Before(device) :
         /\ phase = Before(device)[i]
         /\ \/ i = 1 /\ device = "wlanmaus" /\ Unmount("home")
            \/ /\ i = 1 /\ device # "wlanmaus"
               /\ BackToDevices
               /\ UNCHANGED <<existing, locos, busy, polls>>
            \/ /\ i > 1
               /\ phase' = Before(device)[i - 1]
               /\ user' = IF ForgetsUser(device, phase) THEN None ELSE user
               /\ ticking' = (ticking /\ user' # None)
               /\ UNCHANGED <<device, station, list, pairing, paired, existing, locos, busy, polls>>
    /\ UNCHANGED calls

(* proceedToPairingIfReady; the other cases only show an error.            *)
Proceed ==
    /\ Acts
    /\ device # "none" /\ phase = LastPage(device) /\ user # None
    /\ listing = "loaded" /\ stations # <<>>
    /\ IF Len(stations) = 1
       THEN BeginPairing(user, stations[1]) /\ UNCHANGED phase
       ELSE phase' = "station" /\ UNCHANGED <<station, busy, calls>>
    /\ UNCHANGED <<device, user, list, pair, existing, locos, polls>>

ChooseStation(s) ==
    /\ Acts
    /\ device # "none" /\ phase = "station" /\ user # None
    /\ s \in { stations[i] : i \in DOMAIN stations }
    /\ station' = s
    /\ UNCHANGED <<device, user, phase, list, pair, existing, locos, busy, calls, polls>>

StartAtStation ==
    /\ Acts
    /\ device # "none" /\ phase = "station" /\ user # None /\ station # None /\ ~busy
    /\ BeginPairing(user, station)
    /\ UNCHANGED <<device, user, phase, list, pair, existing, locos, polls>>

BackFromStation ==
    /\ Acts
    /\ device # "none" /\ phase = "station" /\ user # None
    /\ phase' = LastPage(device)
    /\ UNCHANGED <<choice, list, pair, existing, locos, busy, calls, polls>>

-----------------------------------------------------------------------------
(* Beginning a pairing: remoteStatus, then startPairing *)

Start(c) == [kind |-> "start", user |-> c.user, station |-> c.station]

Fails(c) ==
    /\ calls' = calls \ {c} /\ busy' = FALSE
    /\ UNCHANGED <<choice, list, phase, pair, existing, locos, polls, mishaps>>

(* Faulty variant: the question is asked, and its buttons stay disabled. *)
StatusAnswersBusy(c) ==
    /\ c.kind = "status"
    /\ existing' = handset[<<c.user, c.station>>]
    /\ busy' = TRUE
    /\ IF existing' # NoHandset
       THEN phase' = "rePairConfirm" /\ calls' = calls \ {c}
       ELSE UNCHANGED phase /\ calls' = (calls \ {c}) \cup {Start(c)}
    /\ UNCHANGED <<choice, list, pair, locos, polls, bigfred, mishaps>>

StatusAnswers(c) ==
    /\ c.kind = "status"
    /\ existing' = handset[<<c.user, c.station>>]
    /\ IF existing' # NoHandset
       THEN phase' = "rePairConfirm" /\ busy' = FALSE /\ calls' = calls \ {c}
       ELSE UNCHANGED phase /\ busy' = TRUE /\ calls' = (calls \ {c}) \cup {Start(c)}
    /\ UNCHANGED <<choice, list, pair, locos, polls, bigfred, mishaps>>

StatusFails(c) ==
    /\ c.kind = "status"
    /\ Fails(c) /\ UNCHANGED bigfred

(* Faulty variant: an interval that was stopped is not started again. *)
StartDoneSilently(c) ==
    /\ c.kind = "start" /\ Len(pairings) < MaxPairings
    /\ pairings' = Opened(c.user, c.station)
    /\ pairing' = Len(pairings) + 1 /\ paired' = FALSE
    /\ phase' = "pairing"
    /\ calls' = calls \ {c} /\ busy' = FALSE
    /\ UNCHANGED <<choice, list, ticking, existing, locos, polls, handset, mishaps>>

(* The poll's effect, whose dependencies change, starts the interval.      *)
StartDone(c) ==
    /\ c.kind = "start" /\ Len(pairings) < MaxPairings
    /\ pairings' = Opened(c.user, c.station)
    /\ pairing' = Len(pairings) + 1 /\ paired' = FALSE /\ ticking' = TRUE
    /\ phase' = "pairing"
    /\ calls' = calls \ {c} /\ busy' = FALSE
    /\ UNCHANGED <<choice, list, existing, locos, polls, handset, mishaps>>

(* BigFred refuses, or its answer, with the code, is lost.                 *)
StartFails(c) ==
    /\ c.kind = "start"
    /\ Fails(c) /\ UNCHANGED handset
    /\ pairings' \in {pairings, Closed(c.user, c.station)}

(* confirmReplacePairing *)
Replace ==
    /\ Acts
    /\ device # "none" /\ phase = "rePairConfirm" /\ ~busy
    /\ user # None /\ station # None
    /\ busy' = TRUE
    /\ calls' = calls \cup {[kind |-> "unpair", user |-> user, station |-> station,
                             key |-> existing]}
    /\ UNCHANGED <<choice, list, phase, pair, existing, locos, polls>>

UnpairDone(c) ==
    /\ c.kind = "unpair"
    /\ Unpaired(c.user, c.station, c.key)
    /\ existing' = NoHandset
    /\ calls' = (calls \ {c}) \cup {Start(c)} /\ busy' = TRUE
    /\ UNCHANGED <<choice, list, phase, pair, locos, polls, mishaps>>

UnpairFails(c) ==
    /\ c.kind = "unpair"
    /\ Fails(c)
    /\ Unpaired(c.user, c.station, c.key) \/ UNCHANGED bigfred

(* declineReplacePairing *)
Keep ==
    /\ Acts
    /\ device # "none" /\ phase = "rePairConfirm" /\ ~busy
    /\ existing' = NoHandset /\ phase' = "user" /\ user' = None
    /\ ticking' = FALSE
    /\ UNCHANGED <<device, station, list, pairing, paired, locos, busy, calls, polls>>

-----------------------------------------------------------------------------
(* Waiting for the handset *)

OnPairing == device # "none" /\ phase = "pairing" /\ pairing # NoPairing

Expired == pairing # NoPairing /\ ~paired /\ pairings[pairing].state = "expired"

(* Faulty variant: takes every answer for that of a paired handset. *)
SendPollAnything ==
    /\ ~Gone /\ ticking
    /\ Cardinality(polls) < MaxPolls
    /\ polls' = polls \cup {pairing}
    /\ UNCHANGED <<page, calls, bigfred, mishaps>>

(* The effect on [pairing, paired, me, user, station].  The interval is    *)
(* not cleared when the pairing expires, and not started again when one of *)
(* these changes after that.  A poll that fails or finds no handset does   *)
(* nothing and is left out; another is an answer on its way, known by the  *)
(* pairing that was shown when BigFred gave it.                            *)
SendPoll ==
    /\ ~Gone /\ ticking
    /\ handset[<<user, station>>] # NoHandset
    /\ Cardinality(polls) < MaxPolls
    /\ polls' = polls \cup {pairing}
    /\ UNCHANGED <<page, calls, bigfred, mishaps>>

(* Clearing the interval does not recall an answer that is on its way.     *)
PollAnswers(p) ==
    /\ paired' = TRUE /\ ticking' = FALSE
    /\ crossed' = (crossed \/ p # pairing)
    /\ polls' = polls \ {p}
    /\ UNCHANGED <<choice, phase, list, pairing, existing, locos, busy, calls, bigfred, uncancelled>>

(* The answer is lost.                                                     *)
PollLost(p) ==
    /\ polls' = polls \ {p}
    /\ UNCHANGED <<page, calls, bigfred, mishaps>>

Retry ==
    /\ Acts
    /\ OnPairing /\ Expired /\ ~busy /\ user # None /\ station # None
    /\ BeginPairing(user, station)
    /\ UNCHANGED <<device, user, phase, list, pair, existing, locos, polls>>

(* Faulty variant: stays on the page it has emptied. *)
LeavePairingBlank(d) ==
    /\ pairing' = NoPairing /\ paired' = FALSE /\ ticking' = FALSE
    /\ UNCHANGED <<choice, list, phase, existing, locos, busy, polls>>

(* The end of backFromPairing, for the device of its render *)
LeavePairing(d) ==
    IF d = "withrottle-advanced"
    THEN /\ phase' = "wtWifi"
         /\ pairing' = NoPairing /\ paired' = FALSE /\ ticking' = FALSE
         /\ UNCHANGED <<choice, list, existing, locos, busy, polls>>
    ELSE Unmount("home")

(* Faulty variant: leaves without cancelling. *)
BackFromPairingOnly == Acts /\ OnPairing /\ LeavePairing(device) /\ UNCHANGED calls

BackFromPairing ==
    /\ Acts
    /\ OnPairing
    /\ IF user # None /\ station # None /\ ~paired
       THEN /\ calls' = calls \cup {[kind |-> "cancel", user |-> user, station |-> station,
                                     device |-> device]}
            /\ UNCHANGED <<page, polls>>
       ELSE LeavePairing(device) /\ UNCHANGED calls

(* cancelPairing names the slot only; the page goes on if it fails.        *)
CancelEnds(c) ==
    /\ c.kind = "cancel"
    /\ \/ pairings' = Closed(c.user, c.station) /\ UNCHANGED uncancelled
       \/ uncancelled' = TRUE /\ UNCHANGED pairings
    /\ LeavePairing(c.device)
    /\ calls' = calls \ {c}
    /\ UNCHANGED <<handset, crossed>>

-----------------------------------------------------------------------------
(* After the pairing *)

Continue ==
    /\ Acts
    /\ OnPairing /\ paired /\ ~busy
    /\ IF device = "wlanmaus"
       THEN phase' = "wlanmausDriveMode" /\ UNCHANGED <<busy, calls>>
       ELSE LoadVehicles /\ UNCHANGED phase
    /\ UNCHANGED <<choice, list, pair, existing, locos, polls>>

DriveModeDone ==
    /\ Acts
    /\ device = "wlanmaus" /\ phase = "wlanmausDriveMode" /\ ~busy
    /\ LoadVehicles
    /\ UNCHANGED <<choice, list, phase, pair, existing, locos, polls>>

BackToPairing ==
    /\ Acts
    /\ \/ device = "wlanmaus" /\ phase = "wlanmausDriveMode"
       \/ device = "withrottle-advanced" /\ phase = "pickLoco"
    /\ phase' = "pairing"
    /\ UNCHANGED <<choice, list, pair, existing, locos, busy, calls, polls>>

LoadDone(c) ==
    /\ c.kind = "load"
    /\ vehicles' = c.user /\ phase' = c.page
    /\ calls' = calls \ {c} /\ busy' = FALSE
    /\ UNCHANGED <<choice, list, pair, existing, picked, polls, bigfred, mishaps>>

LoadFails(c) ==
    /\ c.kind = "load"
    /\ Fails(c) /\ UNCHANGED bigfred

(* A locomotive is known by its owner.                                     *)
PickLoco ==
    /\ Acts
    /\ device = "withrottle-advanced" /\ phase = "pickLoco"
    /\ vehicles # None /\ picked' = vehicles
    /\ UNCHANGED <<choice, list, phase, pair, existing, vehicles, busy, calls, polls>>

LocoNext ==
    /\ Acts
    /\ device = "withrottle-advanced" /\ phase = "pickLoco" /\ picked # None
    /\ phase' = "howToEnter"
    /\ UNCHANGED <<choice, list, pair, existing, locos, busy, calls, polls>>

Finish ==
    /\ Acts
    /\ \/ device \in {"wlanmaus", "railbox"} /\ phase = ListPage(device)
       \/ device = "withrottle-advanced" /\ phase = "howToEnter" /\ picked # None
    /\ Unmount("home") /\ UNCHANGED calls

(* The app bar leaves from everywhere, and cancels nothing.                *)
AppBar ==
    /\ Acts
    /\ Unmount("left") /\ UNCHANGED calls

-----------------------------------------------------------------------------
CallEnds ==
    \E c \in calls :
        \/ StatusAnswers(c) \/ StatusFails(c)
        \/ StartDone(c) \/ StartFails(c)
        \/ UnpairDone(c) \/ UnpairFails(c)
        \/ CancelEnds(c)
        \/ LoadDone(c) \/ LoadFails(c)

SomePollAnswers == \E p \in polls : PollAnswers(p)
SomePollLost == \E p \in polls : PollLost(p)

Operator ==
    \/ \E d \in Devices : PickDevice(d)
    \/ \E u \in Users : PickUser(u)
    \/ Forward \/ Back \/ Proceed \/ RetryStations
    \/ \E s \in Stations : ChooseStation(s)
    \/ StartAtStation \/ BackFromStation
    \/ Replace \/ Keep \/ Retry \/ BackFromPairing \/ Continue
    \/ DriveModeDone \/ BackToPairing \/ PickLoco \/ LocoNext \/ Finish \/ AppBar

BigFred ==
    \/ \E stns \in Lists : StationsArrive(stns)
    \/ StationsFail
    \/ \E n \in DOMAIN pairings : HandsetPairs(n) \/ PairingExpires(n)

Next == Operator \/ BigFred \/ CallEnds
        \/ SendPoll \/ SomePollAnswers \/ SomePollLost

(* A call is answered or fails; the interval fires; not every answer to a  *)
(* poll is lost.                                                           *)
Fairness == WF_vars(CallEnds) /\ WF_vars(SendPoll) /\ SF_vars(SomePollAnswers)

Spec == Init /\ [][Next]_vars /\ Fairness

-----------------------------------------------------------------------------
(* Properties *)

(* The code on the screen is the code BigFred waits for, from the          *)
(* participant and at the station the page asks about: nobody types a code *)
(* that is another's, closed or already used by another pairing            *)
(* (useDriveSession.ts: startPairing, the poll, backFromPairing).          *)
ShownCodeIsOpen ==
    OnPairing /\ calls = {} =>
        /\ pairings[pairing].user = user /\ pairings[pairing].station = station
        /\ pairings[pairing].state # "closed"

(* "Done - the device is paired" is shown, and the locomotives offered,    *)
(* only after a handset of this participant has paired at this station and *)
(* was not unpaired since, unless an answer to an older poll crossed it    *)
(* (useDriveSession.ts:321).                                               *)
PairedIsTrue ==
    OnPairing /\ paired /\ ~crossed =>
        \E n \in DOMAIN pairings : /\ pairings[n].user = user /\ pairings[n].station = station
                                   /\ pairings[n].state = "joined"

(* Leaving a pairing by its own Back or Cancel, or replacing it after it   *)
(* expired, leaves no pairing open that the next handset could take by     *)
(* accident (useDriveSession.ts:340).                                      *)
NothingLeftOpen ==
    ~crossed /\ ~uncancelled /\ phase # "left" =>
        \A n \in DOMAIN pairings : Open(n) => n = pairing

(* Every page the operator can get to shows something: no step leaves a    *)
(* phase whose data is missing or that belongs to another device.          *)
NeverBlank ==
    ~Gone /\ device # "none" =>
        \/ phase \in {"device", "rePairConfirm", ListPage(device)}
        \/ \E i \in DOMAIN Before(device) : phase = Before(device)[i]
        \/ phase = "station" /\ user # None
        \/ OnPairing
        \/ phase = "wlanmausDriveMode" /\ device = "wlanmaus"
        \/ phase = "howToEnter" /\ device = "withrottle-advanced" /\ picked # None

(* Whatever fails, the buttons work again (useDriveSession.ts:160-164,      *)
(* 182-185, 249-253).                                                      *)
BusyEnds == busy ~> ~busy

(* A handset that pairs is noticed, unless the operator leaves the page:   *)
(* the interval runs for every new pairing (useDriveSession.ts:307).       *)
PairedIsNoticed ==
    OnPairing /\ pairings[pairing].state = "joined" ~> paired \/ ~OnPairing
=============================================================================
