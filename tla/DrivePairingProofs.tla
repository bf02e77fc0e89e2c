------------------------- MODULE DrivePairingProofs -------------------------
(***************************************************************************)
(* Proofs about the pairing pages, for any participants, stations, lists   *)
(* of stations and handsets that were there before.                        *)
(*                                                                         *)
(* The invariant has four parts: what is where (TypeInv); which pages a    *)
(* device has and what each of them needs, and that the one call in flight *)
(* was made for what is shown (VisitInv); that BigFred knows the pairing   *)
(* of every handset that paired during the visit (HandsetInv); and what    *)
(* the screen may conclude from that (Screen): the code shown is open,     *)
(* "paired" is true, and nothing else is open.  VisitInv holds by itself,  *)
(* and the last part needs the others.                                     *)
(***************************************************************************)
EXTENDS DrivePairing, TLAPS

Pairing == [user : Users, station : Stations, state : {"open", "closed", "expired", "joined"}]

(* The pages that show, or come after, a pairing.                          *)
Shown == {"pairing", "wlanmausDriveMode", "howToEnter"} \cup { ListPage(d) : d \in Devices }
ShownOf(d) ==
    {"pairing", ListPage(d)} \cup (IF d = "wlanmaus" THEN {"wlanmausDriveMode"} ELSE {})
    \cup (IF d = "withrottle-advanced" THEN {"howToEnter"} ELSE {})
Pages(d) == { Before(d)[i] : i \in DOMAIN Before(d) }

Slot == <<user, station>>

TypeInv == DriveTypeOK /\ pairings \in Seq(Pairing)

(* Which page of which device, and what it needs.                          *)
PageInv ==
    /\ IF device = "none" THEN phase \in {"device", "home", "left"}
       ELSE phase \in Pages(device) \cup {"station", "rePairConfirm"} \cup ShownOf(device)
    /\ Gone => calls = {} /\ polls = {} /\ listing = "idle" /\ pairing = NoPairing
    /\ phase \in {"station", "rePairConfirm"} \cup Shown => listing = "loaded" /\ user # None
    /\ phase \in {"rePairConfirm"} \cup Shown => station # None
    /\ phase \in Shown => pairing # NoPairing
    /\ phase \in Shown \ {"pairing"} => paired
    /\ phase = "howToEnter" => picked # None
    /\ ticking => pairing # NoPairing

(* One call at a time, made for the participant and station shown.         *)
CallInv ==
    /\ \A c, d \in calls : c = d
    /\ \A c \in calls :
         /\ c.user = user /\ listing = "loaded" /\ device # "none"
         /\ c.kind # "load" => c.station = station
         /\ c.kind \in {"status", "start"} => phase \notin Shown \ {"pairing"}
         /\ c.kind = "unpair" => phase = "rePairConfirm" /\ c.key = existing
         /\ c.kind = "cancel" => phase = "pairing" /\ c.device = device
         /\ c.kind = "load" => phase \in Shown /\ paired /\ c.page = ListPage(device)

VisitInv == PageInv /\ CallInv

(* A handset that paired during the visit is known by its pairing.         *)
HandsetOK(s) ==
    /\ handset[s] \in {NoHandset, OldHandset} \cup DOMAIN pairings
    /\ handset[s] \in DOMAIN pairings =>
         /\ pairings[handset[s]].user = s[1] /\ pairings[handset[s]].station = s[2]
         /\ pairings[handset[s]].state = "joined"

HandsetInv == \A s \in Slots : HandsetOK(s)

(* The code shown belongs to the slot asked about, where no handset is     *)
(* older than it.                                                          *)
CodeInv ==
    /\ phase \in Shown =>
         /\ pairings[pairing].user = user /\ pairings[pairing].station = station
         /\ pairings[pairing].state # "closed"
         /\ handset[Slot] # OldHandset
    /\ \A c \in calls : c.kind \in {"status", "start"} /\ phase = "pairing"
                          => pairings[pairing].state = "expired"
    /\ \A c \in calls : c.kind = "start" => handset[Slot] # OldHandset
    /\ phase = "rePairConfirm" /\ handset[Slot] = OldHandset => existing \in {NoHandset, OldHandset}

(* Somebody's handset has paired here, and is still paired.                *)
JoinedHere == \E n \in DOMAIN pairings : /\ pairings[n].user = user /\ pairings[n].station = station
                                   /\ pairings[n].state = "joined"
JoinedInv ==
    phase \in Shown =>
      /\ paired /\ ~crossed => JoinedHere
      /\ pairing \in polls => JoinedHere

(* Without a crossed poll or a lost cancellation, what is open is shown.   *)
Clean == ~crossed /\ ~uncancelled /\ phase # "left"
CleanInv ==
    Clean =>
    /\ phase \notin Shown => \A n \in DOMAIN pairings : ~Open(n)
    /\ phase \in Shown =>
         /\ \A n \in DOMAIN pairings : Open(n) => n = pairing
         /\ handset[Slot] \in {NoHandset, pairing}
         /\ paired \/ pairing \in polls => pairings[pairing].state = "joined"
    /\ phase = "rePairConfirm"
         => handset[Slot] = NoHandset \/ existing \in {NoHandset, handset[Slot]}
    /\ \A c \in calls : c.kind = "start" => handset[Slot] = NoHandset

-----------------------------------------------------------------------------
(* The pages of a visit *)

LEMMA DevicePages ==
    ASSUME NEW d \in Devices
    PROVE  /\ Pages(d) \subseteq Phases /\ ShownOf(d) \subseteq Phases /\ ShownOf(d) \subseteq Shown
           /\ \A p \in Pages(d) :
                p \notin Shown \cup {"station", "rePairConfirm", "device", "home", "left"}
           /\ "user" \in Pages(d) /\ LastPage(d) \in Pages(d) /\ Before(d)[1] \in Pages(d)
           /\ \A i \in DOMAIN Before(d) : Before(d)[i] \in Pages(d)
           /\ DOMAIN Before(d) = 1 .. Len(Before(d)) /\ Len(Before(d)) \in Nat
           /\ ListPage(d) \in ShownOf(d) /\ ListPage(d) \in Shown
           /\ d = "withrottle-advanced" => "wtWifi" \in Pages(d)
<1>1. Shown = {"pairing", "wlanmausDriveMode", "howToEnter", "wlanmausLocoList", "railboxLocoList",
               "pickLoco"}
  BY DEF Shown, ListPage, Devices
<1>2. /\ Before(d) \in Seq(Phases) /\ Len(Before(d)) > 0
      /\ "user" \in Pages(d)
      /\ \A i \in DOMAIN Before(d) :
           Before(d)[i] \notin Shown \cup {"station", "rePairConfirm", "device", "home", "left"}
      /\ d = "withrottle-advanced" => "wtWifi" \in Pages(d)
  <2>0. Pages(d) \subseteq Phases
    BY DEF Phases, Pages
  <2>1. CASE d = "wlanmaus"
    <3>1. Before(d) = <<"user", "wlanmausWifi">>
      BY <2>1 DEF Before
    <3>2. QED
      BY <1>1, <2>0, <2>1, <3>1 DEF Pages
  <2>2. CASE d = "railbox"
    <3>1. Before(d) = <<"phoneWifi", "user", "railboxAppQr", "railboxConnect",
                        "railboxPairingSetup">>
      BY <2>2 DEF Before
    <3>2. QED
      BY <1>1, <2>0, <2>2, <3>1 DEF Pages
  <2>3. CASE d = "withrottle-advanced"
    <3>1. Before(d) = <<"user", "wtWifi">>
      BY <2>3 DEF Before
    <3>2. QED
      BY <1>1, <2>0, <2>3, <3>1 DEF Pages
  <2>4. QED
    BY <2>1, <2>2, <2>3 DEF Devices
<1>3. DOMAIN Before(d) = 1 .. Len(Before(d)) /\ Len(Before(d)) \in Nat /\ 1 \in DOMAIN Before(d)
      /\ Len(Before(d)) \in DOMAIN Before(d)
  BY <1>2
<1>4. ShownOf(d) \subseteq Phases /\ ShownOf(d) \subseteq Shown /\ ListPage(d) \in ShownOf(d)
  BY DEF ShownOf, Phases, Shown
<1>5. QED
  BY <1>2, <1>3, <1>4 DEF Pages, Phases, LastPage

LEMMA PageFacts ==
    /\ Shown = {"pairing", "wlanmausDriveMode", "howToEnter", "wlanmausLocoList",
                "railboxLocoList", "pickLoco"}
    /\ "none" \notin Devices
    /\ \A d \in Devices : "pairing" \in ShownOf(d)
    /\ "wlanmausDriveMode" \in ShownOf("wlanmaus")
    /\ "howToEnter" \in ShownOf("withrottle-advanced")
    /\ ListPage("withrottle-advanced") = "pickLoco"
    /\ \A d \in Devices : ListPage(d) \in {"wlanmausLocoList", "railboxLocoList", "pickLoco"}
  BY DEF Devices, Shown, ShownOf, ListPage

LEMMA CallParts ==
    ASSUME TypeInv, NEW c \in calls
    PROVE  /\ c \in Calls /\ c.user \in Users /\ c.user # None
           /\ c.kind \in {"status", "start", "unpair", "cancel", "load"}
           /\ c.kind # "load" => c.station \in Stations /\ c.station # None
           /\ c.kind = "cancel" => c.device \in Devices
<1>1. c \in Calls
  BY DEF TypeInv, DriveTypeOK
<1>2. QED
  BY <1>1, DriveAssumption DEF Calls

LEMMA OperatorVisit ==
    ASSUME TypeInv, VisitInv, Operator
    PROVE  VisitInv'
<1>0. /\ device \in Devices \cup {"none"} /\ None \notin Users \cup Stations
      /\ pairing \in Nat
  BY DriveAssumption DEF TypeInv, DriveTypeOK
<1>1. CASE Forward
  BY <1>1, <1>0, PageFacts, DevicePages DEF Forward, Acts, choice, list, pair,
    locos, mishaps, bigfred, VisitInv, PageInv, CallInv, NoPairing, Gone
<1>2. CASE Back
  <2>1. /\ Acts /\ device \in Devices /\ UNCHANGED calls /\ phase \in Pages(device)
        /\ phase \notin Shown \cup {"station", "rePairConfirm"}
    BY <1>2, <1>0, DevicePages DEF Back
  <2>2. CASE Unmount("home")
    BY <2>1, <2>2, <1>0, PageFacts DEF Acts, Unmount, VisitInv, PageInv, CallInv, NoPairing, Gone
  <2>3. CASE BackToDevices /\ UNCHANGED <<existing, locos, busy, polls>>
    BY <2>1, <2>3, <1>0, PageFacts DEF Acts, BackToDevices, locos, VisitInv, PageInv, CallInv,
       NoPairing, Gone
  <2>4. ASSUME NEW i \in DOMAIN Before(device), i > 1, phase' = Before(device)[i - 1],
               ticking' = (ticking /\ user' # None),
               UNCHANGED <<device, station, list, pairing, paired, existing, locos, busy, polls>>
        PROVE  VisitInv'
    <3>1. phase' \in Pages(device)
      BY <2>1, <2>4, DevicePages
    <3>2. phase' \notin Shown \cup {"station", "rePairConfirm", "home", "left"}
      BY <2>1, <3>1, DevicePages
    <3>3. QED
      BY <2>1, <2>4, <3>1, <3>2, PageFacts DEF Acts, list, VisitInv, PageInv, CallInv, Gone
  <2>5. QED
    BY <1>2, <2>2, <2>3, <2>4 DEF Back
<1>3. CASE Proceed
  BY <1>3, <1>0, PageFacts, DevicePages DEF Proceed, Acts, BeginPairing, list, pair,
    locos, mishaps, bigfred, VisitInv, PageInv, CallInv, NoPairing, Gone
<1>4. CASE RetryStations
  BY <1>4, <1>0, PageFacts, DevicePages DEF RetryStations, Acts, LoadStations, pair,
    locos, mishaps, bigfred, VisitInv, PageInv, CallInv, NoPairing, Gone
<1>5. CASE StartAtStation
  BY <1>5, <1>0, PageFacts, DevicePages DEF StartAtStation, Acts, BeginPairing,
    list, pair, locos, mishaps, bigfred, VisitInv, PageInv, CallInv, NoPairing, Gone
<1>6. CASE BackFromStation
  BY <1>6, <1>0, PageFacts, DevicePages DEF BackFromStation, Acts, choice, list,
    pair, locos, mishaps, bigfred, VisitInv, PageInv, CallInv, NoPairing, Gone
<1>7. CASE Replace
  BY <1>7, <1>0, PageFacts, DevicePages DEF Replace, Acts, choice, list, pair,
    locos, mishaps, bigfred, VisitInv, PageInv, CallInv, NoPairing, Gone
<1>8. CASE Keep
  BY <1>8, <1>0, PageFacts, DevicePages DEF Keep, Acts, list, locos, mishaps,
    bigfred, VisitInv, PageInv, CallInv, NoPairing, Gone
<1>9. CASE Retry
  BY <1>9, <1>0, PageFacts, DevicePages DEF Retry, Acts, OnPairing, BeginPairing,
    list, pair, locos, mishaps, bigfred, VisitInv, PageInv, CallInv, NoPairing, Gone
<1>10. CASE BackFromPairing
  BY <1>10, <1>0, PageFacts, DevicePages DEF BackFromPairing, Acts, OnPairing, page,
    LeavePairing, choice, list, locos, Unmount, pair, mishaps, bigfred, VisitInv,
    PageInv, CallInv, NoPairing, Gone
<1>11. CASE Continue
  BY <1>11, <1>0, PageFacts, DevicePages DEF Continue, Acts, OnPairing,
    LoadVehicles, choice, list, pair, locos, page, mishaps, bigfred, VisitInv,
    PageInv, CallInv, NoPairing, Gone
<1>12. CASE DriveModeDone
  BY <1>12, <1>0, PageFacts, DevicePages DEF DriveModeDone, Acts, LoadVehicles,
    choice, list, pair, locos, page, mishaps, bigfred, VisitInv, PageInv, CallInv,
    NoPairing, Gone
<1>13. CASE BackToPairing
  BY <1>13, <1>0, PageFacts, DevicePages DEF BackToPairing, Acts, choice, list,
    pair, locos, mishaps, bigfred, VisitInv, PageInv, CallInv, NoPairing, Gone
<1>14. CASE PickLoco
  BY <1>14, <1>0, PageFacts, DevicePages DEF PickLoco, Acts, choice, list, pair,
    mishaps, bigfred, VisitInv, PageInv, CallInv, NoPairing, Gone
<1>15. CASE LocoNext
  BY <1>15, <1>0, PageFacts, DevicePages DEF LocoNext, Acts, choice, list, pair,
    locos, mishaps, bigfred, VisitInv, PageInv, CallInv, NoPairing, Gone
<1>16. CASE Finish
  BY <1>16, <1>0, PageFacts, DevicePages DEF Finish, Acts, Unmount, mishaps,
    bigfred, VisitInv, PageInv, CallInv, NoPairing, Gone
<1>17. CASE AppBar
  BY <1>17, <1>0, PageFacts, DevicePages DEF AppBar, Acts, Unmount, mishaps,
    bigfred, VisitInv, PageInv, CallInv, NoPairing, Gone
<1>18. ASSUME NEW d \in Devices, PickDevice(d) PROVE VisitInv'
  BY <1>18, <1>0, PageFacts, DevicePages DEF PickDevice, Acts, LoadStations, pair,
    locos, mishaps, bigfred, VisitInv, PageInv, CallInv, NoPairing, Gone
<1>19. ASSUME NEW u \in Users, PickUser(u) PROVE VisitInv'
  BY <1>19, <1>0, PageFacts, DevicePages DEF PickUser, Acts, list, pair, locos,
    mishaps, bigfred, VisitInv, PageInv, CallInv, NoPairing, Gone
<1>20. ASSUME NEW s \in Stations, ChooseStation(s) PROVE VisitInv'
  BY <1>20, <1>0, PageFacts, DevicePages DEF ChooseStation, Acts, list, pair, locos,
    mishaps, bigfred, VisitInv, PageInv, CallInv, NoPairing, Gone
<1>21. QED
  BY <1>1, <1>2, <1>3, <1>4, <1>5, <1>6, <1>7, <1>8, <1>9, <1>10, <1>11, <1>12,
     <1>13, <1>14, <1>15, <1>16, <1>17, <1>18, <1>19, <1>20 DEF Operator

LEMMA AnswerVisit ==
    ASSUME TypeInv, VisitInv, Next, ~Operator
    PROVE  VisitInv'
<1>0. /\ device \in Devices \cup {"none"} /\ None \notin Users \cup Stations
      /\ pairing \in Nat /\ Len(pairings) \in Nat
  BY DriveAssumption DEF TypeInv, DriveTypeOK
<1>1. CASE StationsFail
  BY <1>1, <1>0, PageFacts, DevicePages DEF StationsFail, choice, pair, locos,
    bigfred, mishaps, VisitInv, PageInv, CallInv, NoPairing, Gone
<1>2. CASE SendPoll
  BY <1>2, <1>0, PageFacts, DevicePages DEF SendPoll, page, bigfred, mishaps,
    choice, list, pair, locos, VisitInv, PageInv, CallInv, NoPairing, Gone
<1>3. ASSUME NEW stns \in Lists, StationsArrive(stns) PROVE VisitInv'
  BY <1>3, <1>0, PageFacts, DevicePages DEF StationsArrive, pair, locos, bigfred,
    mishaps, VisitInv, PageInv, CallInv, NoPairing, Gone
<1>4. ASSUME NEW n \in DOMAIN pairings, HandsetPairs(n) PROVE VisitInv'
  BY <1>4, <1>0, PageFacts, DevicePages DEF HandsetPairs, page, mishaps, choice,
    list, pair, locos, VisitInv, PageInv, CallInv, NoPairing, Gone
<1>5. ASSUME NEW n \in DOMAIN pairings, PairingExpires(n) PROVE VisitInv'
  BY <1>5, <1>0, PageFacts, DevicePages DEF PairingExpires, page, mishaps, choice,
    list, pair, locos, VisitInv, PageInv, CallInv, NoPairing, Gone
<1>6. ASSUME NEW p \in polls, PollAnswers(p) PROVE VisitInv'
  BY <1>6, <1>0, PageFacts, DevicePages DEF PollAnswers, choice, list, locos,
    bigfred, VisitInv, PageInv, CallInv, NoPairing, Gone
<1>7. ASSUME NEW p \in polls, PollLost(p) PROVE VisitInv'
  BY <1>7, <1>0, PageFacts, DevicePages DEF PollLost, page, bigfred, mishaps,
    choice, list, pair, locos, VisitInv, PageInv, CallInv, NoPairing, Gone
<1>8. ASSUME NEW c \in calls, StatusAnswers(c) PROVE VisitInv'
  BY <1>8, <1>0, PageFacts, DevicePages, CallParts DEF StatusAnswers, Start, choice,
    list, pair, locos, bigfred, mishaps, VisitInv, PageInv, CallInv, NoPairing, Gone
<1>9. ASSUME NEW c \in calls, StatusFails(c) PROVE VisitInv'
  BY <1>9, <1>0, PageFacts, DevicePages, CallParts DEF StatusFails, Fails, bigfred,
    choice, list, pair, locos, mishaps, VisitInv, PageInv, CallInv, NoPairing, Gone
<1>10. ASSUME NEW c \in calls, StartDone(c) PROVE VisitInv'
  BY <1>10, <1>0, PageFacts, DevicePages, CallParts DEF StartDone, choice, list,
    locos, mishaps, VisitInv, PageInv, CallInv, NoPairing, Gone
<1>11. ASSUME NEW c \in calls, StartFails(c) PROVE VisitInv'
  BY <1>11, <1>0, PageFacts, DevicePages, CallParts DEF StartFails, Fails, choice,
    list, pair, locos, mishaps, VisitInv, PageInv, CallInv, NoPairing, Gone
<1>12. ASSUME NEW c \in calls, UnpairDone(c) PROVE VisitInv'
  BY <1>12, <1>0, PageFacts, DevicePages, CallParts DEF UnpairDone, Start, choice,
    list, pair, locos, mishaps, VisitInv, PageInv, CallInv, NoPairing, Gone
<1>13. ASSUME NEW c \in calls, UnpairFails(c) PROVE VisitInv'
  BY <1>13, <1>0, PageFacts, DevicePages, CallParts DEF UnpairFails, Fails, bigfred,
    choice, list, pair, locos, mishaps, VisitInv, PageInv, CallInv, NoPairing, Gone
<1>14. ASSUME NEW c \in calls, CancelEnds(c) PROVE VisitInv'
  BY <1>14, <1>0, PageFacts, DevicePages, CallParts DEF CancelEnds, LeavePairing,
    choice, list, locos, Unmount, VisitInv, PageInv, CallInv, NoPairing, Gone
<1>15. ASSUME NEW c \in calls, LoadDone(c) PROVE VisitInv'
  BY <1>15, <1>0, PageFacts, DevicePages, CallParts DEF LoadDone, page, choice,
    list, pair, bigfred, mishaps, locos, VisitInv, PageInv, CallInv, NoPairing, Gone
<1>16. ASSUME NEW c \in calls, LoadFails(c) PROVE VisitInv'
  BY <1>16, <1>0, PageFacts, DevicePages, CallParts DEF LoadFails, Fails, bigfred,
    choice, list, pair, locos, mishaps, VisitInv, PageInv, CallInv, NoPairing, Gone
<1>17. QED
  BY <1>1, <1>2, <1>3, <1>4, <1>5, <1>6, <1>7, <1>8, <1>9, <1>10, <1>11, <1>12,
     <1>13, <1>14, <1>15, <1>16 DEF Next, BigFred, CallEnds, SomePollAnswers,
     SomePollLost

-----------------------------------------------------------------------------
(* What BigFred does to its pairings *)

(* A pairing keeps its participant and station.                            *)
LEMMA ClosedParts ==
    ASSUME pairings \in Seq(Pairing), NEW u, NEW s
    PROVE  /\ Closed(u, s) \in Seq(Pairing) /\ Len(Closed(u, s)) = Len(pairings)
           /\ DOMAIN Closed(u, s) = DOMAIN pairings
           /\ \A n \in DOMAIN pairings :
                /\ Closed(u, s)[n].user = pairings[n].user
                /\ Closed(u, s)[n].station = pairings[n].station
                /\ Closed(u, s)[n].state =
                     IF pairings[n].user = u /\ pairings[n].station = s /\ Open(n)
                     THEN "closed" ELSE pairings[n].state
<1>1. DOMAIN pairings = 1 .. Len(pairings) /\ Len(pairings) \in Nat
  OBVIOUS
<1>2. \A n \in DOMAIN pairings : pairings[n] \in Pairing
  OBVIOUS
<1>3. \A p \in Pairing : /\ [p EXCEPT !.state = "closed"] \in Pairing
                         /\ [p EXCEPT !.state = "closed"].user = p.user
                         /\ [p EXCEPT !.state = "closed"].station = p.station
                         /\ [p EXCEPT !.state = "closed"].state = "closed"
  BY DEF Pairing
<1>4. \A n \in DOMAIN pairings :
        /\ Closed(u, s)[n] = IF pairings[n].user = u /\ pairings[n].station = s /\ Open(n)
                             THEN [pairings[n] EXCEPT !.state = "closed"] ELSE pairings[n]
        /\ Closed(u, s)[n] \in Pairing
  BY <1>2, <1>3 DEF Closed
<1>5. Closed(u, s) = [n \in 1 .. Len(pairings) |-> Closed(u, s)[n]]
  BY <1>1 DEF Closed
<1>6. Closed(u, s) \in Seq(Pairing) /\ Len(Closed(u, s)) = Len(pairings)
  BY <1>1, <1>4, <1>5
<1>7. ASSUME NEW n \in DOMAIN pairings
      PROVE  /\ Closed(u, s)[n].user = pairings[n].user
             /\ Closed(u, s)[n].station = pairings[n].station
             /\ Closed(u, s)[n].state =
                  IF pairings[n].user = u /\ pairings[n].station = s /\ Open(n)
                  THEN "closed" ELSE pairings[n].state
  <2>1. pairings[n] \in Pairing
    BY <1>2
  <2>2. CASE pairings[n].user = u /\ pairings[n].station = s /\ Open(n)
    BY <1>3, <1>4, <2>1, <2>2
  <2>3. CASE ~(pairings[n].user = u /\ pairings[n].station = s /\ Open(n))
    BY <1>4, <2>3
  <2>4. QED
    BY <2>2, <2>3
<1>8. DOMAIN Closed(u, s) = DOMAIN pairings
  BY DEF Closed
<1>9. QED
  BY <1>6, <1>7, <1>8

LEMMA OpenedParts ==
    ASSUME pairings \in Seq(Pairing), NEW u \in Users, NEW s \in Stations
    PROVE  /\ Opened(u, s) \in Seq(Pairing) /\ Len(Opened(u, s)) = Len(pairings) + 1
           /\ DOMAIN Opened(u, s) = DOMAIN pairings \cup {Len(pairings) + 1}
           /\ \A n \in DOMAIN pairings : Opened(u, s)[n] = Closed(u, s)[n]
           /\ Opened(u, s)[Len(pairings) + 1] = [user |-> u, station |-> s, state |-> "open"]
<1>1. Closed(u, s) \in Seq(Pairing) /\ Len(Closed(u, s)) = Len(pairings)
      /\ DOMAIN Closed(u, s) = DOMAIN pairings
  BY ClosedParts
<1>2. [user |-> u, station |-> s, state |-> "open"] \in Pairing
  BY DEF Pairing
<1>3. DOMAIN pairings = 1 .. Len(pairings) /\ Len(pairings) \in Nat
  OBVIOUS
<1>4. QED
  BY <1>1, <1>2, <1>3 DEF Opened

LEMMA SetParts ==
    ASSUME pairings \in Seq(Pairing), NEW n \in DOMAIN pairings,
           NEW s \in {"open", "closed", "expired", "joined"}
    PROVE  /\ Set(n, s) \in Seq(Pairing) /\ Len(Set(n, s)) = Len(pairings)
           /\ DOMAIN Set(n, s) = DOMAIN pairings
           /\ \A k \in DOMAIN pairings :
                /\ Set(n, s)[k].user = pairings[k].user
                /\ Set(n, s)[k].station = pairings[k].station
                /\ Set(n, s)[k].state = IF k = n THEN s ELSE pairings[k].state
<1>1. \A k \in DOMAIN pairings : pairings[k] \in Pairing
  OBVIOUS
<1>2. \A p \in Pairing : /\ [p EXCEPT !.state = s] \in Pairing
                         /\ [p EXCEPT !.state = s].user = p.user
                         /\ [p EXCEPT !.state = s].station = p.station
                         /\ [p EXCEPT !.state = s].state = s
  BY DEF Pairing
<1>3. Set(n, s) = [pairings EXCEPT ![n] = [pairings[n] EXCEPT !.state = s]]
  BY DEF Set
<1>4. QED
  BY <1>1, <1>2, <1>3

(* A joined handset is unpaired, or there is none to unpair.               *)
LEMMA UnpairedParts ==
    ASSUME TypeInv, HandsetInv, NEW u \in Users, NEW s \in Stations, NEW key, Unpaired(u, s, key)
    PROVE  /\ handset' \in [Slots -> 0 .. OldHandset]
           /\ \A x \in Slots \ {<<u, s>>} : handset'[x] = handset[x]
           /\ IF handset[<<u, s>>] # NoHandset /\ key \in {NoHandset, handset[<<u, s>>]}
              THEN handset'[<<u, s>>] = NoHandset ELSE handset'[<<u, s>>] = handset[<<u, s>>]
           /\ pairings' \in Seq(Pairing) /\ Len(pairings') = Len(pairings)
           /\ DOMAIN pairings' = DOMAIN pairings
           /\ \A k \in DOMAIN pairings :
                /\ pairings'[k].user = pairings[k].user
                /\ pairings'[k].station = pairings[k].station
                /\ pairings'[k].state # pairings[k].state
                     => /\ pairings'[k].state = "closed" /\ pairings[k].state = "joined"
                        /\ pairings[k].user = u /\ pairings[k].station = s
                        /\ k = handset[<<u, s>>]
<1> DEFINE h == handset[<<u, s>>]
<1>1. /\ pairings \in Seq(Pairing) /\ <<u, s>> \in Slots
      /\ handset \in [Slots -> 0 .. OldHandset] /\ 0 \in 0 .. OldHandset
  BY PairingsAssumption DEF TypeInv, DriveTypeOK, PairingsTypeOK, Slots, OldHandset
<1>2. CASE h # NoHandset /\ key \in {NoHandset, h}
  <2>1. /\ handset' = [handset EXCEPT ![<<u, s>>] = NoHandset]
        /\ pairings' = IF h \in DOMAIN pairings THEN Set(h, "closed") ELSE pairings
    BY <1>2 DEF Unpaired
  <2>2. h \in DOMAIN pairings => /\ pairings[h].user = u /\ pairings[h].station = s
                                 /\ pairings[h].state = "joined"
    BY <1>1 DEF HandsetInv, HandsetOK
  <2> HIDE DEF h
  <2>3. /\ handset' \in [Slots -> 0 .. OldHandset] /\ handset'[<<u, s>>] = NoHandset
        /\ \A x \in Slots \ {<<u, s>>} : handset'[x] = handset[x]
    BY <1>1, <2>1 DEF NoHandset
  <2>4. CASE h \in DOMAIN pairings
    <3>1. pairings' = Set(h, "closed")
      BY <2>1, <2>4
    <3>2. /\ pairings' \in Seq(Pairing) /\ Len(pairings') = Len(pairings)
          /\ DOMAIN pairings' = DOMAIN pairings
          /\ \A k \in DOMAIN pairings :
               /\ pairings'[k].user = pairings[k].user
               /\ pairings'[k].station = pairings[k].station
               /\ pairings'[k].state = IF k = h THEN "closed" ELSE pairings[k].state
      BY <1>1, <2>4, <3>1, SetParts
    <3>3. QED
      BY <1>2, <2>2, <2>3, <2>4, <3>2 DEF h
  <2>5. CASE h \notin DOMAIN pairings
    BY <1>1, <1>2, <2>1, <2>3, <2>5 DEF h
  <2>6. QED
    BY <2>4, <2>5
<1>3. CASE ~(h # NoHandset /\ key \in {NoHandset, h})
  BY <1>1, <1>3 DEF Unpaired, bigfred
<1>4. QED
  BY <1>2, <1>3

(* The only ways in which a step changes BigFred.                          *)
BigFredMoves ==
    \/ UNCHANGED bigfred
    \/ \E n \in DOMAIN pairings : Joins(n) \/ Expires(n)
    \/ UNCHANGED handset /\ \E u \in Users, s \in Stations : pairings' = Closed(u, s)
    \/ /\ UNCHANGED handset /\ Len(pairings) < MaxPairings
       /\ \E u \in Users, s \in Stations : pairings' = Opened(u, s)
    \/ \E u \in Users, s \in Stations, key \in Nat : Unpaired(u, s, key)

LEMMA StepMoves ==
    ASSUME TypeInv, [Next]_vars
    PROVE  BigFredMoves
<1>1. CASE Operator
  <2>1. UNCHANGED bigfred
    BY <1>1 DEF Operator, Acts, PickDevice, PickUser, Forward, Back, Proceed, RetryStations,
                ChooseStation, StartAtStation, BackFromStation, Replace, Keep, Retry,
                BackFromPairing, Continue, DriveModeDone, BackToPairing, PickLoco, LocoNext,
                Finish, AppBar
  <2>2. QED
    BY <2>1 DEF BigFredMoves
<1>2. CASE BigFred
  BY <1>2 DEF BigFred, BigFredMoves, StationsArrive, StationsFail, HandsetPairs, PairingExpires
<1>3. ASSUME NEW c \in calls,
             \/ StatusAnswers(c) \/ StatusFails(c) \/ StartDone(c) \/ StartFails(c)
             \/ UnpairDone(c) \/ UnpairFails(c) \/ CancelEnds(c) \/ LoadDone(c) \/ LoadFails(c)
      PROVE  BigFredMoves
  <2>1. /\ c.user \in Users
        /\ c.kind # "load" => c.station \in Stations
        /\ c.kind = "unpair" => c.key \in Nat
    BY CallParts DEF Calls
  <2>2. CASE StatusAnswers(c) \/ StatusFails(c) \/ LoadDone(c) \/ LoadFails(c)
    BY <2>2 DEF StatusAnswers, StatusFails, LoadDone, LoadFails, BigFredMoves
  <2>3. CASE StartDone(c) \/ StartFails(c)
    BY <2>1, <2>3 DEF StartDone, StartFails, BigFredMoves, bigfred
  <2>4. CASE UnpairDone(c) \/ UnpairFails(c)
    BY <2>1, <2>4 DEF UnpairDone, UnpairFails, BigFredMoves
  <2>5. CASE CancelEnds(c)
    BY <2>1, <2>5 DEF CancelEnds, BigFredMoves, bigfred
  <2>6. QED
    BY <1>3, <2>2, <2>3, <2>4, <2>5
<1>4. CASE SendPoll \/ SomePollAnswers \/ SomePollLost \/ UNCHANGED vars
  BY <1>4 DEF SendPoll, SomePollAnswers, SomePollLost, PollAnswers, PollLost, vars, BigFredMoves
<1>5. QED
  BY <1>1, <1>2, <1>3, <1>4 DEF Next, CallEnds

(* Pairings are not forgotten, keep their slot, and once joined stay so    *)
(* unless unpaired.                                                        *)
LEMMA MovesParts ==
    ASSUME TypeInv, HandsetInv, BigFredMoves
    PROVE  /\ pairings' \in Seq(Pairing) /\ PairingsTypeOK'
           /\ Len(pairings) <= Len(pairings') /\ DOMAIN pairings \subseteq DOMAIN pairings'
           /\ \A n \in DOMAIN pairings : /\ pairings'[n].user = pairings[n].user
                                         /\ pairings'[n].station = pairings[n].station
           /\ HandsetInv'
<1>0. /\ pairings \in Seq(Pairing) /\ handset \in [Slots -> 0 .. OldHandset]
      /\ Len(pairings) \in Nat /\ Len(pairings) <= MaxPairings /\ MaxPairings \in Nat
      /\ DOMAIN pairings = 1 .. Len(pairings) /\ \A n \in DOMAIN pairings : pairings[n] \in Pairing
      /\ OldHandset = MaxPairings + 1
  BY PairingsAssumption DEF TypeInv, DriveTypeOK, PairingsTypeOK, OldHandset
<1>1. ASSUME pairings' \in Seq(Pairing), Len(pairings') <= MaxPairings,
             handset' \in [Slots -> 0 .. OldHandset]
      PROVE  PairingsTypeOK'
  <2>1. \A n \in DOMAIN pairings' : pairings'[n] \in Pairing
    BY <1>1
  <2>2. QED
    BY <1>1, <2>1 DEF PairingsTypeOK, Pairing, Slots, OldHandset
<1>2. CASE UNCHANGED bigfred
  BY <1>0, <1>1, <1>2 DEF bigfred, HandsetInv, HandsetOK
<1>3. ASSUME NEW n \in DOMAIN pairings, Joins(n)
      PROVE  /\ pairings' \in Seq(Pairing) /\ PairingsTypeOK' /\ HandsetInv'
             /\ Len(pairings) = Len(pairings') /\ DOMAIN pairings = DOMAIN pairings'
             /\ \A k \in DOMAIN pairings : /\ pairings'[k].user = pairings[k].user
                                           /\ pairings'[k].station = pairings[k].station
  <2> DEFINE s == <<pairings[n].user, pairings[n].station>>
  <2>1. /\ pairings' = Set(n, "joined") /\ handset' = [handset EXCEPT ![s] = n]
        /\ pairings[n].user \in Users /\ pairings[n].station \in Stations
    BY <1>0, <1>3 DEF Joins, Pairing
  <2>2. /\ pairings' \in Seq(Pairing) /\ Len(pairings') = Len(pairings)
        /\ DOMAIN pairings' = DOMAIN pairings
        /\ \A k \in DOMAIN pairings :
             /\ pairings'[k].user = pairings[k].user
             /\ pairings'[k].station = pairings[k].station
             /\ pairings'[k].state = IF k = n THEN "joined" ELSE pairings[k].state
    BY <1>0, <2>1, SetParts
  <2>3. s \in Slots /\ n \in 0 .. OldHandset
    BY <1>0, <2>1 DEF Slots
  <2> HIDE DEF s
  <2>4. /\ handset' \in [Slots -> 0 .. OldHandset] /\ handset'[s] = n
        /\ \A x \in Slots \ {s} : handset'[x] = handset[x]
    BY <1>0, <2>1, <2>3
  <2>5. HandsetInv'
    <3> SUFFICES ASSUME NEW x \in Slots PROVE HandsetOK(x)'
      BY DEF HandsetInv
    <3>0. HandsetOK(x)
      BY DEF HandsetInv
    <3>1. CASE x = s
      BY <2>2, <2>4, <3>1 DEF HandsetOK, s
    <3>2. CASE x # s
      BY <2>2, <2>4, <3>0, <3>2 DEF HandsetOK
    <3>3. QED
      BY <3>1, <3>2
  <2>6. QED
    BY <1>0, <1>1, <2>2, <2>4, <2>5
<1>4. ASSUME NEW n \in DOMAIN pairings, Expires(n)
      PROVE  /\ pairings' \in Seq(Pairing) /\ PairingsTypeOK' /\ HandsetInv'
             /\ Len(pairings) = Len(pairings') /\ DOMAIN pairings = DOMAIN pairings'
             /\ \A k \in DOMAIN pairings : /\ pairings'[k].user = pairings[k].user
                                           /\ pairings'[k].station = pairings[k].station
  <2>1. pairings' = Set(n, "expired") /\ handset' = handset /\ pairings[n].state = "open"
    BY <1>4 DEF Expires, Open
  <2>2. /\ pairings' \in Seq(Pairing) /\ Len(pairings') = Len(pairings)
        /\ DOMAIN pairings' = DOMAIN pairings
        /\ \A k \in DOMAIN pairings :
             /\ pairings'[k].user = pairings[k].user
             /\ pairings'[k].station = pairings[k].station
             /\ pairings'[k].state = IF k = n THEN "expired" ELSE pairings[k].state
    BY <1>0, <2>1, SetParts
  <2>3. HandsetInv'
    BY <2>1, <2>2 DEF HandsetInv, HandsetOK
  <2>4. QED
    BY <1>0, <1>1, <2>1, <2>2, <2>3
<1>5. ASSUME NEW u \in Users, NEW s \in Stations, UNCHANGED handset, pairings' = Closed(u, s)
      PROVE  /\ pairings' \in Seq(Pairing) /\ PairingsTypeOK' /\ HandsetInv'
             /\ Len(pairings) = Len(pairings') /\ DOMAIN pairings = DOMAIN pairings'
             /\ \A k \in DOMAIN pairings : /\ pairings'[k].user = pairings[k].user
                                           /\ pairings'[k].station = pairings[k].station
  <2>1. /\ pairings' \in Seq(Pairing) /\ Len(pairings') = Len(pairings)
        /\ DOMAIN pairings' = DOMAIN pairings
        /\ \A k \in DOMAIN pairings :
             /\ pairings'[k].user = pairings[k].user
             /\ pairings'[k].station = pairings[k].station
             /\ pairings[k].state = "joined" => pairings'[k].state = "joined"
    BY <1>0, <1>5, ClosedParts DEF Open
  <2>2. HandsetInv'
    BY <1>5, <2>1 DEF HandsetInv, HandsetOK
  <2>3. QED
    BY <1>0, <1>1, <1>5, <2>1, <2>2
<1>6. ASSUME NEW u \in Users, NEW s \in Stations, UNCHANGED handset, pairings' = Opened(u, s),
             Len(pairings) < MaxPairings
      PROVE  /\ pairings' \in Seq(Pairing) /\ PairingsTypeOK' /\ HandsetInv'
             /\ Len(pairings) <= Len(pairings') /\ DOMAIN pairings \subseteq DOMAIN pairings'
             /\ \A k \in DOMAIN pairings : /\ pairings'[k].user = pairings[k].user
                                           /\ pairings'[k].station = pairings[k].station
  <2>1. /\ pairings' \in Seq(Pairing) /\ Len(pairings') = Len(pairings) + 1
        /\ DOMAIN pairings' = DOMAIN pairings \cup {Len(pairings) + 1}
        /\ pairings'[Len(pairings) + 1] = [user |-> u, station |-> s, state |-> "open"]
        /\ \A n \in DOMAIN pairings : pairings'[n] = Closed(u, s)[n]
    BY <1>0, <1>6, OpenedParts
  <2>2. \A k \in DOMAIN pairings :
             /\ pairings'[k].user = pairings[k].user
             /\ pairings'[k].station = pairings[k].station
             /\ pairings[k].state = "joined" => pairings'[k].state = "joined"
    BY <1>0, <2>1, ClosedParts DEF Open
  <2>3. HandsetInv'
    <3> SUFFICES ASSUME NEW x \in Slots PROVE HandsetOK(x)'
      BY DEF HandsetInv
    <3>0. HandsetOK(x)
      BY DEF HandsetInv
    <3>1. handset'[x] = handset[x] /\ Len(pairings) + 1 \notin {NoHandset, OldHandset}
      BY <1>0, <1>6 DEF NoHandset
    <3>2. QED
      BY <1>0, <2>1, <2>2, <3>0, <3>1 DEF HandsetOK
  <2>4. QED
    BY <1>0, <1>1, <1>6, <2>1, <2>2, <2>3
<1>7. ASSUME NEW u \in Users, NEW s \in Stations, NEW key \in Nat, Unpaired(u, s, key)
      PROVE  /\ pairings' \in Seq(Pairing) /\ PairingsTypeOK' /\ HandsetInv'
             /\ Len(pairings) = Len(pairings') /\ DOMAIN pairings = DOMAIN pairings'
             /\ \A k \in DOMAIN pairings : /\ pairings'[k].user = pairings[k].user
                                           /\ pairings'[k].station = pairings[k].station
  <2>1. /\ handset' \in [Slots -> 0 .. OldHandset]
        /\ \A x \in Slots \ {<<u, s>>} : handset'[x] = handset[x]
        /\ handset'[<<u, s>>] \in {NoHandset, handset[<<u, s>>]}
        /\ handset'[<<u, s>>] = handset[<<u, s>>] => UNCHANGED bigfred
        /\ pairings' \in Seq(Pairing) /\ Len(pairings') = Len(pairings)
        /\ DOMAIN pairings' = DOMAIN pairings
        /\ \A k \in DOMAIN pairings :
             /\ pairings'[k].user = pairings[k].user
             /\ pairings'[k].station = pairings[k].station
             /\ pairings'[k].state # pairings[k].state
                  => pairings[k].user = u /\ pairings[k].station = s
    <3>1. handset'[<<u, s>>] = handset[<<u, s>>] => UNCHANGED bigfred
      <4>1. <<u, s>> \in Slots
        BY DEF Slots
      <4>2. QED
        BY <1>0, <1>7, <4>1 DEF Unpaired
    <3>2. QED
      BY <1>7, <3>1, UnpairedParts
  <2>2. HandsetInv'
    <3> SUFFICES ASSUME NEW x \in Slots PROVE HandsetOK(x)'
      BY DEF HandsetInv
    <3>0. HandsetOK(x)
      BY DEF HandsetInv
    <3>1. CASE UNCHANGED bigfred
      BY <3>0, <3>1 DEF HandsetOK, bigfred
    <3>2. CASE handset'[<<u, s>>] = NoHandset /\ x = <<u, s>>
      BY <1>0, <2>1, <3>2 DEF HandsetOK, NoHandset, OldHandset
    <3>3. CASE x # <<u, s>>
      <4>1. handset'[x] = handset[x] /\ <<x[1], x[2]>> = x
        BY <2>1, <3>3 DEF Slots
      <4>2. QED
        BY <2>1, <3>0, <3>3, <4>1 DEF HandsetOK
    <3>4. QED
      BY <2>1, <3>1, <3>2, <3>3
  <2>3. QED
    BY <1>0, <1>1, <2>1, <2>2
<1>8. QED
  BY <1>0, <1>2, <1>3, <1>4, <1>5, <1>6, <1>7 DEF BigFredMoves, bigfred

(* The types of the page's own state: what it shows, what it refers to.    *)
FormOK ==
    /\ device \in Devices \cup {"none"} /\ user \in Users \cup {None}
    /\ station \in Stations \cup {None}
    /\ listing \in {"idle", "loading", "failed", "loaded"} /\ stations \in Lists \cup {<<>>}
    /\ paired \in BOOLEAN /\ ticking \in BOOLEAN /\ busy \in BOOLEAN
    /\ vehicles \in Users \cup {None} /\ picked \in Users \cup {None}
    /\ crossed \in BOOLEAN /\ uncancelled \in BOOLEAN

RefsOK ==
    /\ pairing \in Nat /\ pairing <= Len(pairings)
    /\ existing \in 0 .. OldHandset
    /\ \A c \in calls : c \in Calls
    /\ \A p \in polls : p \in Nat /\ p # 0 /\ p <= Len(pairings)

LEMMA TypeParts ==
    ASSUME Len(pairings) \in Nat
    PROVE  DriveTypeOK <=> FormOK /\ RefsOK /\ phase \in Phases /\ PairingsTypeOK
  BY DEF DriveTypeOK, FormOK, RefsOK

LEMMA CallTypes ==
    ASSUME NEW u \in Users, NEW s \in Stations
    PROVE  /\ [kind |-> "status", user |-> u, station |-> s] \in Calls
           /\ [kind |-> "start", user |-> u, station |-> s] \in Calls
           /\ \A k \in Nat : [kind |-> "unpair", user |-> u, station |-> s, key |-> k] \in Calls
           /\ \A d \in Devices :
                /\ [kind |-> "cancel", user |-> u, station |-> s, device |-> d] \in Calls
                /\ [kind |-> "load", user |-> u, page |-> ListPage(d)] \in Calls
  BY DEF Calls

LEMMA LoadCallType ==
    ASSUME NEW u \in Users, NEW d \in Devices
    PROVE  [kind |-> "load", user |-> u, page |-> ListPage(d)] \in Calls
  BY DEF Calls

(* The stations a list offers. *)
LEMMA ListedStation ==
    ASSUME NEW stns \in Lists, stns # <<>>
    PROVE  stns[1] \in Stations /\ \A i \in DOMAIN stns : stns[i] \in Stations
<1>1. stns \in Seq(Stations)
  BY DriveAssumption
<1>2. QED
  BY <1>1

(* What the constants define does not change.                              *)
LEMMA Fixed ==
    /\ Calls' = Calls /\ Devices' = Devices /\ Slots' = Slots
    /\ OldHandset' = OldHandset /\ NoHandset' = NoHandset /\ NoPairing' = NoPairing
    /\ Shown' = Shown
  BY DEF Calls, Devices, Slots, OldHandset, NoHandset, NoPairing, ListPage, Shown



LEMMA UnmountForm ==
    ASSUME NEW p, Unmount(p), crossed' \in BOOLEAN, uncancelled' \in BOOLEAN
    PROVE  FormOK'
<1>1. /\ device' = "none" /\ user' = None /\ station' = None /\ stations' = <<>>
      /\ listing' = "idle" /\ vehicles' = None /\ picked' = None
  BY DEF Unmount
<1>2. paired' \in BOOLEAN /\ ticking' \in BOOLEAN /\ busy' \in BOOLEAN
  BY DEF Unmount
<1>3. QED
  BY <1>1, <1>2 DEF FormOK

LEMMA UnmountRefs ==
    ASSUME NEW p, Unmount(p), Len(pairings') \in Nat, \A c \in calls' : c \in Calls
    PROVE  RefsOK'
<1>1. existing' \in 0 .. OldHandset'
  BY PairingsAssumption, Fixed DEF OldHandset, Unmount, NoHandset
<1>2. pairing' = 0 /\ polls' = {} /\ Calls' = Calls
  BY Fixed DEF Unmount, NoPairing
<1>3. QED
  BY <1>1, <1>2 DEF RefsOK

LEMMA UserStation ==
    ASSUME TypeInv
    PROVE  /\ user # None => user \in Users
           /\ station # None => station \in Stations
           /\ device # "none" => device \in Devices
           /\ stations \in Lists \cup {<<>>}
  BY DEF TypeInv, DriveTypeOK

LEMMA NoStep ==
    ASSUME Operator
    PROVE  pairings' = pairings /\ handset' = handset
  BY DEF Operator, Acts, bigfred, PickDevice, PickUser, Forward, Back, Proceed, RetryStations,
         ChooseStation, StartAtStation, BackFromStation, Replace, Keep, Retry,
         BackFromPairing, Continue, DriveModeDone, BackToPairing, PickLoco, LocoNext,
         Finish, AppBar

LEMMA OperatorForm ==
    ASSUME TypeInv, VisitInv, Operator
    PROVE  FormOK'
<1>0. FormOK /\ None \notin Users \cup Stations /\ Devices' = Devices
  <2>1. Len(pairings) \in Nat
    BY DEF TypeInv
  <2>2. QED
    BY <2>1, TypeParts, Fixed, DriveAssumption DEF TypeInv
<1>1. CASE Forward
  BY <1>1, <1>0 DEF Forward, Acts, choice, list, pair, locos, mishaps, bigfred,
    FormOK
<1>2. CASE Back
  BY <1>2, <1>0, UnmountForm DEF Back, Acts, BackToDevices, locos, list,
    mishaps, bigfred, FormOK
<1>3. CASE Proceed
  BY <1>3, <1>0, ListedStation DEF Proceed, Acts, BeginPairing, list, pair, locos,
    mishaps, bigfred, FormOK
<1>4. CASE RetryStations
  BY <1>4, <1>0 DEF RetryStations, Acts, LoadStations, pair, locos, mishaps,
    bigfred, FormOK
<1>5. CASE StartAtStation
  BY <1>5, <1>0 DEF StartAtStation, Acts, BeginPairing, list, pair, locos, mishaps,
    bigfred, FormOK
<1>6. CASE BackFromStation
  BY <1>6, <1>0 DEF BackFromStation, Acts, choice, list, pair, locos, mishaps,
    bigfred, FormOK
<1>7. CASE Replace
  BY <1>7, <1>0 DEF Replace, Acts, choice, list, pair, locos, mishaps, bigfred,
    FormOK
<1>8. CASE Keep
  BY <1>8, <1>0 DEF Keep, Acts, list, locos, mishaps, bigfred, FormOK
<1>9. CASE Retry
  BY <1>9, <1>0 DEF Retry, Acts, OnPairing, BeginPairing, list, pair, locos,
    mishaps, bigfred, FormOK
<1>10. CASE BackFromPairing
  BY <1>10, <1>0, UnmountForm DEF BackFromPairing, Acts, OnPairing, page,
    LeavePairing, choice, list, locos, pair, mishaps, bigfred, FormOK
<1>11. CASE Continue
  BY <1>11, <1>0 DEF Continue, Acts, OnPairing, LoadVehicles, choice, list, pair,
    locos, page, mishaps, bigfred, FormOK
<1>12. CASE DriveModeDone
  BY <1>12, <1>0 DEF DriveModeDone, Acts, LoadVehicles, choice, list, pair, locos,
    page, mishaps, bigfred, FormOK
<1>13. CASE BackToPairing
  BY <1>13, <1>0 DEF BackToPairing, Acts, choice, list, pair, locos, mishaps,
    bigfred, FormOK
<1>14. CASE PickLoco
  BY <1>14, <1>0 DEF PickLoco, Acts, choice, list, pair, mishaps, bigfred, FormOK
<1>15. CASE LocoNext
  BY <1>15, <1>0 DEF LocoNext, Acts, choice, list, pair, locos, mishaps, bigfred,
    FormOK
<1>16. CASE Finish
  BY <1>16, <1>0, UnmountForm DEF Finish, Acts, mishaps, bigfred, FormOK
<1>17. CASE AppBar
  BY <1>17, <1>0, UnmountForm DEF AppBar, Acts, mishaps, bigfred, FormOK
<1>18. ASSUME NEW d \in Devices, PickDevice(d) PROVE FormOK'
  BY <1>18, <1>0 DEF PickDevice, Acts, LoadStations, pair, locos, mishaps, bigfred,
    FormOK
<1>19. ASSUME NEW u \in Users, PickUser(u) PROVE FormOK'
  BY <1>19, <1>0 DEF PickUser, Acts, list, pair, locos, mishaps, bigfred, FormOK
<1>20. ASSUME NEW s \in Stations, ChooseStation(s) PROVE FormOK'
  BY <1>20, <1>0, ListedStation DEF ChooseStation, Acts, list, pair, locos, mishaps,
    bigfred, FormOK
<1>21. QED
BY <1>1, <1>2, <1>3, <1>4, <1>5, <1>6, <1>7, <1>8, <1>9, <1>10, <1>11, <1>12,
      <1>13, <1>14, <1>15, <1>16, <1>17, <1>18, <1>19, <1>20 DEF Operator

LEMMA AnswerForm ==
    ASSUME TypeInv, VisitInv, HandsetInv, Next, ~Operator
    PROVE  FormOK'
<1>0. FormOK /\ None \notin Users \cup Stations /\ Devices' = Devices
  <2>1. Len(pairings) \in Nat
    BY DEF TypeInv
  <2>2. QED
    BY <2>1, TypeParts, Fixed, DriveAssumption DEF TypeInv
<1>1. CASE StationsFail
  BY <1>1, <1>0 DEF StationsFail, choice, pair, locos, bigfred, mishaps, FormOK
<1>2. CASE SendPoll
  BY <1>2, <1>0 DEF SendPoll, page, bigfred, mishaps, choice, list, pair, locos,
    FormOK, VisitInv, PageInv
<1>3. ASSUME NEW stns \in Lists, StationsArrive(stns) PROVE FormOK'
  BY <1>3, <1>0, ListedStation DEF StationsArrive, pair, locos, bigfred, mishaps,
    FormOK
<1>4. ASSUME NEW n \in DOMAIN pairings, HandsetPairs(n) PROVE FormOK'
  BY <1>4, <1>0 DEF HandsetPairs, page, mishaps, choice, list, pair, locos, FormOK
<1>5. ASSUME NEW n \in DOMAIN pairings, PairingExpires(n) PROVE FormOK'
  BY <1>5, <1>0 DEF PairingExpires, page, mishaps, choice, list, pair, locos, FormOK
<1>6. ASSUME NEW p \in polls, PollAnswers(p) PROVE FormOK'
  BY <1>6, <1>0 DEF PollAnswers, choice, list, locos, bigfred, FormOK
<1>7. ASSUME NEW p \in polls, PollLost(p) PROVE FormOK'
  BY <1>7, <1>0 DEF PollLost, page, bigfred, mishaps, choice, list, pair, locos,
    FormOK
<1>8. ASSUME NEW c \in calls, StatusAnswers(c) PROVE FormOK'
  BY <1>8, <1>0, CallParts, ZenonT(60) DEF StatusAnswers, Start, choice, list, pair, locos,
    bigfred, mishaps, FormOK
<1>9. ASSUME NEW c \in calls, StatusFails(c) PROVE FormOK'
  BY <1>9, <1>0, CallParts, ZenonT(60) DEF StatusFails, Fails, bigfred, choice, list, pair,
    locos, mishaps, FormOK
<1>10. ASSUME NEW c \in calls, StartDone(c) PROVE FormOK'
  BY <1>10, <1>0, CallParts DEF StartDone, choice, list, locos, mishaps, FormOK
<1>11. ASSUME NEW c \in calls, StartFails(c) PROVE FormOK'
  BY <1>11, <1>0, CallParts, ZenonT(60) DEF StartFails, Fails, choice, list, pair, locos,
    mishaps, FormOK
<1>12. ASSUME NEW c \in calls, UnpairDone(c) PROVE FormOK'
  BY <1>12, <1>0, CallParts DEF UnpairDone, Start, choice, list, pair, locos,
    mishaps, FormOK
<1>13. ASSUME NEW c \in calls, UnpairFails(c) PROVE FormOK'
  BY <1>13, <1>0, CallParts, ZenonT(60) DEF UnpairFails, Fails, bigfred, choice, list, pair,
    locos, mishaps, FormOK
<1>14. ASSUME NEW c \in calls, CancelEnds(c) PROVE FormOK'
  BY <1>14, <1>0, UnmountForm, CallParts DEF CancelEnds, LeavePairing, choice, list,
    locos, FormOK
<1>15. ASSUME NEW c \in calls, LoadDone(c) PROVE FormOK'
  BY <1>15, <1>0, CallParts DEF LoadDone, page, choice, list, pair, bigfred,
    mishaps, locos, FormOK
<1>16. ASSUME NEW c \in calls, LoadFails(c) PROVE FormOK'
  BY <1>16, <1>0, CallParts, ZenonT(60) DEF LoadFails, Fails, bigfred, choice, list, pair,
    locos, mishaps, FormOK
<1>17. QED
BY <1>1, <1>2, <1>3, <1>4, <1>5, <1>6, <1>7, <1>8, <1>9, <1>10, <1>11, <1>12,
      <1>13, <1>14, <1>15, <1>16 DEF Next, BigFred, CallEnds, SomePollAnswers,
      SomePollLost

LEMMA OperatorRefs ==
    ASSUME TypeInv, VisitInv, Operator
    PROVE  RefsOK'
<1>0. /\ RefsOK /\ 0 \in 0 .. OldHandset /\ \A k \in 0 .. OldHandset : k \in Nat
      /\ Len(pairings) \in Nat /\ Len(pairings') \in Nat /\ Len(pairings) <= Len(pairings')
      /\ OldHandset' = OldHandset /\ Calls' = Calls
      /\ handset \in [Slots -> 0 .. OldHandset]
  <2>1. Len(pairings) \in Nat /\ 0 \in 0 .. OldHandset /\ \A k \in 0 .. OldHandset : k \in Nat
    BY PairingsAssumption DEF TypeInv, OldHandset
  <2>2. Len(pairings') \in Nat /\ Len(pairings) <= Len(pairings')
    BY <2>1, NoStep
  <2>3. QED
    BY <2>1, <2>2, TypeParts, Fixed DEF TypeInv, PairingsTypeOK
<1>1. CASE Forward
  BY <1>1, <1>0 DEF Forward, Acts, choice, list, pair, locos, mishaps, bigfred,
    RefsOK, NoPairing, NoHandset
<1>2. CASE Back
  BY <1>2, <1>0, UnmountRefs DEF Back, Acts, BackToDevices, locos, list,
    mishaps, bigfred, RefsOK, NoPairing, NoHandset
<1>3. CASE Proceed
  BY <1>3, <1>0, CallTypes, UserStation, ListedStation DEF Proceed, Acts,
    BeginPairing, list, pair, locos, mishaps, bigfred, RefsOK, NoPairing, NoHandset,
    VisitInv, PageInv
<1>4. CASE RetryStations
  BY <1>4, <1>0 DEF RetryStations, Acts, LoadStations, pair, locos, mishaps,
    bigfred, RefsOK, NoPairing, NoHandset
<1>5. CASE StartAtStation
  BY <1>5, <1>0, CallTypes, UserStation DEF StartAtStation, Acts, BeginPairing,
    list, pair, locos, mishaps, bigfred, RefsOK, NoPairing, NoHandset
<1>6. CASE BackFromStation
  BY <1>6, <1>0 DEF BackFromStation, Acts, choice, list, pair, locos, mishaps,
    bigfred, RefsOK, NoPairing, NoHandset
<1>7. CASE Replace
  BY <1>7, <1>0, CallTypes, UserStation DEF Replace, Acts, choice, list, pair,
    locos, mishaps, bigfred, RefsOK, NoPairing, NoHandset
<1>8. CASE Keep
  BY <1>8, <1>0 DEF Keep, Acts, list, locos, mishaps, bigfred, RefsOK, NoPairing,
    NoHandset
<1>9. CASE Retry
  BY <1>9, <1>0, CallTypes, UserStation DEF Retry, Acts, OnPairing, BeginPairing,
    list, pair, locos, mishaps, bigfred, RefsOK, NoPairing, NoHandset, VisitInv,
    PageInv
<1>10. CASE BackFromPairing
  <2>1. CASE /\ user \in Users /\ station \in Stations /\ UNCHANGED <<page, polls>>
             /\ calls' = {[kind |-> "cancel", user |-> user, station |-> station, device |-> device]}
    <3>1. [kind |-> "cancel", user |-> user, station |-> station, device |-> device] \in Calls
      BY <1>10, <2>1, UserStation, CallTypes DEF BackFromPairing, OnPairing
    <3>2. \A c \in calls' : c \in Calls'
      BY <1>0, <2>1, <3>1
    <3>3. pairing' = pairing /\ existing' = existing /\ polls' = polls
      BY <2>1 DEF page, pair
    <3>4. QED
      BY <1>0, <3>2, <3>3 DEF RefsOK
  <2>2. CASE LeavePairing(device) /\ UNCHANGED calls
    <3>1. CASE Unmount("home")
      BY <1>0, <2>2, <3>1, UnmountRefs DEF RefsOK
    <3>2. CASE pairing' = NoPairing /\ UNCHANGED <<existing, polls>>
      BY <1>0, <2>2, <3>2 DEF RefsOK, NoPairing
    <3>3. QED
      BY <2>2, <3>1, <3>2 DEF LeavePairing
  <2>3. QED
    BY <1>10, <2>1, <2>2, UserStation DEF BackFromPairing, Acts
<1>11. CASE Continue
  BY <1>11, <1>0, LoadCallType, UserStation DEF Continue, Acts, OnPairing,
    LoadVehicles, choice, list, pair, locos, page, mishaps, bigfred, RefsOK,
    NoPairing, NoHandset, VisitInv, PageInv
<1>12. CASE DriveModeDone
  BY <1>12, <1>0, LoadCallType, UserStation DEF DriveModeDone, Acts, LoadVehicles,
    choice, list, pair, locos, page, mishaps, bigfred, RefsOK, NoPairing, NoHandset,
    VisitInv, PageInv
<1>13. CASE BackToPairing
  BY <1>13, <1>0 DEF BackToPairing, Acts, choice, list, pair, locos, mishaps,
    bigfred, RefsOK, NoPairing, NoHandset
<1>14. CASE PickLoco
  BY <1>14, <1>0 DEF PickLoco, Acts, choice, list, pair, mishaps, bigfred, RefsOK,
    NoPairing, NoHandset
<1>15. CASE LocoNext
  BY <1>15, <1>0 DEF LocoNext, Acts, choice, list, pair, locos, mishaps, bigfred,
    RefsOK, NoPairing, NoHandset
<1>16. CASE Finish
  BY <1>16, <1>0, UnmountRefs DEF Finish, Acts, mishaps, bigfred, RefsOK,
    NoPairing, NoHandset
<1>17. CASE AppBar
  BY <1>17, <1>0, UnmountRefs DEF AppBar, Acts, mishaps, bigfred, RefsOK,
    NoPairing, NoHandset
<1>18. ASSUME NEW d \in Devices, PickDevice(d) PROVE RefsOK'
  BY <1>18, <1>0 DEF PickDevice, Acts, LoadStations, pair, locos, mishaps, bigfred,
    RefsOK, NoPairing, NoHandset
<1>19. ASSUME NEW u \in Users, PickUser(u) PROVE RefsOK'
  BY <1>19, <1>0 DEF PickUser, Acts, list, pair, locos, mishaps, bigfred, RefsOK,
    NoPairing, NoHandset
<1>20. ASSUME NEW s \in Stations, ChooseStation(s) PROVE RefsOK'
  BY <1>20, <1>0 DEF ChooseStation, Acts, list, pair, locos, mishaps, bigfred,
    RefsOK, NoPairing, NoHandset
<1>21. QED
BY <1>1, <1>2, <1>3, <1>4, <1>5, <1>6, <1>7, <1>8, <1>9, <1>10, <1>11, <1>12,
      <1>13, <1>14, <1>15, <1>16, <1>17, <1>18, <1>19, <1>20 DEF Operator

LEMMA AnswerRefs ==
    ASSUME TypeInv, VisitInv, HandsetInv, Next, ~Operator
    PROVE  RefsOK'
<1>0. /\ RefsOK /\ 0 \in 0 .. OldHandset /\ \A k \in 0 .. OldHandset : k \in Nat
      /\ Len(pairings) \in Nat /\ Len(pairings') \in Nat /\ Len(pairings) <= Len(pairings')
      /\ OldHandset' = OldHandset /\ Calls' = Calls
      /\ handset \in [Slots -> 0 .. OldHandset]
  <2>1. Len(pairings) \in Nat /\ 0 \in 0 .. OldHandset /\ \A k \in 0 .. OldHandset : k \in Nat
    BY PairingsAssumption DEF TypeInv, OldHandset
  <2>2. Len(pairings') \in Nat /\ Len(pairings) <= Len(pairings')
    BY StepMoves, MovesParts
  <2>3. QED
    BY <2>1, <2>2, TypeParts, Fixed DEF TypeInv, PairingsTypeOK
<1>1. CASE StationsFail
  BY <1>1, <1>0 DEF StationsFail, choice, pair, locos, bigfred, mishaps, RefsOK,
    NoPairing, NoHandset
<1>2. CASE SendPoll
  BY <1>2, <1>0 DEF SendPoll, page, bigfred, mishaps, choice, list, pair, locos,
    RefsOK, NoPairing, NoHandset, VisitInv, PageInv
<1>3. ASSUME NEW stns \in Lists, StationsArrive(stns) PROVE RefsOK'
  BY <1>3, <1>0 DEF StationsArrive, pair, locos, bigfred, mishaps, RefsOK,
    NoPairing, NoHandset
<1>4. ASSUME NEW n \in DOMAIN pairings, HandsetPairs(n) PROVE RefsOK'
  BY <1>4, <1>0 DEF HandsetPairs, page, mishaps, choice, list, pair, locos, RefsOK,
    NoPairing, NoHandset
<1>5. ASSUME NEW n \in DOMAIN pairings, PairingExpires(n) PROVE RefsOK'
  BY <1>5, <1>0 DEF PairingExpires, page, mishaps, choice, list, pair, locos,
    RefsOK, NoPairing, NoHandset
<1>6. ASSUME NEW p \in polls, PollAnswers(p) PROVE RefsOK'
  BY <1>6, <1>0 DEF PollAnswers, choice, list, locos, bigfred, RefsOK, NoPairing,
    NoHandset
<1>7. ASSUME NEW p \in polls, PollLost(p) PROVE RefsOK'
  BY <1>7, <1>0 DEF PollLost, page, bigfred, mishaps, choice, list, pair, locos,
    RefsOK, NoPairing, NoHandset
<1>8. ASSUME NEW c \in calls, StatusAnswers(c) PROVE RefsOK'
  <2>1. c.user \in Users /\ c.station \in Stations
    BY <1>8, CallParts DEF StatusAnswers
  <2>2. handset[<<c.user, c.station>>] \in 0 .. OldHandset
    BY <1>0, <2>1 DEF Slots
  <2>3. Start(c) \in Calls
    BY <2>1, CallTypes DEF Start
  <2>4. \A d \in calls' : d \in Calls'
    BY <1>8, <1>0, <2>3 DEF StatusAnswers, RefsOK
  <2>5. pairing' = pairing /\ polls' = polls /\ existing' = handset[<<c.user, c.station>>]
    BY <1>8 DEF StatusAnswers, pair
  <2>6. QED
    BY <1>0, <2>2, <2>4, <2>5 DEF RefsOK
<1>9. ASSUME NEW c \in calls, StatusFails(c) PROVE RefsOK'
  BY <1>9, <1>0, CallParts DEF StatusFails, Fails, bigfred, choice, list, pair,
    locos, mishaps, RefsOK, NoPairing, NoHandset
<1>10. ASSUME NEW c \in calls, StartDone(c) PROVE RefsOK'
  <2>1. c.user \in Users /\ c.station \in Stations
    BY <1>10, CallParts DEF StartDone
  <2>2. Len(pairings') = Len(pairings) + 1
    BY <1>10, <2>1, OpenedParts DEF StartDone, TypeInv
  <2>3. pairing' = Len(pairings) + 1 /\ existing' = existing /\ polls' = polls /\ calls' = calls \ {c}
    BY <1>10 DEF StartDone
  <2>4. QED
    BY <1>0, <2>2, <2>3 DEF RefsOK
<1>11. ASSUME NEW c \in calls, StartFails(c) PROVE RefsOK'
  BY <1>11, <1>0, CallParts DEF StartFails, Fails, choice, list, pair, locos,
    mishaps, RefsOK, NoPairing, NoHandset
<1>12. ASSUME NEW c \in calls, UnpairDone(c) PROVE RefsOK'
  <2>1. c.user \in Users /\ c.station \in Stations
    BY <1>12, CallParts DEF UnpairDone
  <2>2. Start(c) \in Calls
    BY <2>1, CallTypes DEF Start
  <2>3. \A d \in calls' : d \in Calls'
    BY <1>12, <1>0, <2>2 DEF UnpairDone, RefsOK
  <2>4. pairing' = pairing /\ polls' = polls /\ existing' = 0
    BY <1>12 DEF UnpairDone, pair, NoHandset
  <2>5. QED
    BY <1>0, <2>3, <2>4 DEF RefsOK
<1>13. ASSUME NEW c \in calls, UnpairFails(c) PROVE RefsOK'
  BY <1>13, <1>0, CallParts DEF UnpairFails, Fails, bigfred, choice, list, pair,
    locos, mishaps, RefsOK, NoPairing, NoHandset
<1>14. ASSUME NEW c \in calls, CancelEnds(c) PROVE RefsOK'
  BY <1>14, <1>0, UnmountRefs, CallParts DEF CancelEnds, LeavePairing, choice, list,
    locos, RefsOK, NoPairing, NoHandset
<1>15. ASSUME NEW c \in calls, LoadDone(c) PROVE RefsOK'
  BY <1>15, <1>0, CallParts DEF LoadDone, page, choice, list, pair, bigfred,
    mishaps, locos, RefsOK, NoPairing, NoHandset
<1>16. ASSUME NEW c \in calls, LoadFails(c) PROVE RefsOK'
  BY <1>16, <1>0, CallParts DEF LoadFails, Fails, bigfred, choice, list, pair,
    locos, mishaps, RefsOK, NoPairing, NoHandset
<1>17. QED
BY <1>1, <1>2, <1>3, <1>4, <1>5, <1>6, <1>7, <1>8, <1>9, <1>10, <1>11, <1>12,
      <1>13, <1>14, <1>15, <1>16 DEF Next, BigFred, CallEnds, SomePollAnswers,
      SomePollLost


LEMMA VisitKept ==
    ASSUME TypeInv, VisitInv, HandsetInv, Next
    PROVE  TypeInv' /\ VisitInv' /\ HandsetInv'
<1>1. VisitInv'
  BY OperatorVisit, AnswerVisit
<1>2. FormOK' /\ RefsOK'
  BY OperatorForm, AnswerForm, OperatorRefs, AnswerRefs
<1>3. pairings' \in Seq(Pairing) /\ PairingsTypeOK' /\ HandsetInv'
  BY StepMoves, MovesParts
<1>4. phase' \in Phases
  <2>1. device' \in Devices \cup {"none"}
    BY <1>2, Fixed DEF FormOK
  <2>2. CASE device' = "none"
    BY <1>1, <2>2 DEF VisitInv, PageInv, Phases
  <2>3. CASE device' \in Devices
    <3>1. /\ Pages(device') \subseteq Phases /\ ShownOf(device') \subseteq Phases
      BY <2>3, DevicePages
    <3>2. phase' \in Pages(device') \cup {"station", "rePairConfirm"} \cup ShownOf(device')
      BY <1>1, <2>3, PageFacts DEF VisitInv, PageInv, Pages, ShownOf, ListPage
    <3>3. QED
      BY <3>1, <3>2 DEF Phases
  <2>4. QED
    BY <2>1, <2>2, <2>3
<1>5. DriveTypeOK'
  <2>1. Len(pairings') \in Nat
    BY <1>3
  <2>2. Phases' = Phases
    BY DEF Phases, Devices, Before, ListPage
  <2>3. QED
    BY <1>2, <1>3, <1>4, <2>1, <2>2 DEF DriveTypeOK, FormOK, RefsOK
<1>6. QED
  <2>1. Pairing' = Pairing
    BY DEF Pairing
  <2>2. QED
    BY <1>1, <1>3, <1>5, <2>1 DEF TypeInv

-----------------------------------------------------------------------------
(* What the screen says about BigFred *)

(* What a step of the operator may do to the screens of a pairing.         *)
OperatorMoves ==
    /\ phase' \in Shown => phase \in Shown /\ UNCHANGED <<user, station, pairing, paired>>
    /\ \A p \in polls' : p \in polls
    /\ phase \in Shown /\ phase' \notin Shown => paired \/ phase' = "left"
    /\ phase' = "rePairConfirm" => phase = "rePairConfirm" /\ UNCHANGED <<user, station, existing>>
    /\ \A c \in calls' : c.kind # "start"
    /\ \A c \in calls' : c.kind = "status" /\ phase' = "pairing"
                           => pairings[pairing].state = "expired"

LEMMA OperatorScreens ==
    ASSUME TypeInv, VisitInv, Operator
    PROVE  OperatorMoves
<1>0. /\ device \in Devices \cup {"none"} /\ None \notin Users \cup Stations
  BY DriveAssumption DEF TypeInv, DriveTypeOK
<1>1. CASE Forward
  BY <1>1, <1>0, PageFacts, DevicePages DEF Forward, Acts, choice, list, pair,
    locos, mishaps, bigfred, OperatorMoves, VisitInv, PageInv, Gone
<1>2. CASE Back
  BY <1>2, <1>0, PageFacts, DevicePages DEF Back, Acts, Unmount, BackToDevices,
    locos, list, mishaps, bigfred, OperatorMoves, VisitInv, PageInv, Gone
<1>3. CASE Proceed
  BY <1>3, <1>0, PageFacts, DevicePages DEF Proceed, Acts, BeginPairing, list, pair,
    locos, mishaps, bigfred, OperatorMoves, VisitInv, PageInv, Gone
<1>4. CASE RetryStations
  BY <1>4, <1>0, PageFacts, DevicePages DEF RetryStations, Acts, LoadStations, pair,
    locos, mishaps, bigfred, OperatorMoves, VisitInv, PageInv, Gone
<1>5. CASE StartAtStation
  BY <1>5, <1>0, PageFacts, DevicePages DEF StartAtStation, Acts, BeginPairing,
    list, pair, locos, mishaps, bigfred, OperatorMoves, VisitInv, PageInv, Gone
<1>6. CASE BackFromStation
  BY <1>6, <1>0, PageFacts, DevicePages DEF BackFromStation, Acts, choice, list,
    pair, locos, mishaps, bigfred, OperatorMoves, VisitInv, PageInv, Gone
<1>7. CASE Replace
  BY <1>7, <1>0, PageFacts, DevicePages DEF Replace, Acts, choice, list, pair,
    locos, mishaps, bigfred, OperatorMoves, VisitInv, PageInv, Gone
<1>8. CASE Keep
  BY <1>8, <1>0, PageFacts, DevicePages DEF Keep, Acts, list, locos, mishaps,
    bigfred, OperatorMoves, VisitInv, PageInv, Gone
<1>9. CASE Retry
  BY <1>9, <1>0, PageFacts, DevicePages DEF Retry, Acts, OnPairing, BeginPairing,
    list, pair, locos, mishaps, bigfred, OperatorMoves, VisitInv, PageInv, Gone,
    Expired
<1>10. CASE BackFromPairing
  BY <1>10, <1>0, PageFacts, DevicePages DEF BackFromPairing, Acts, OnPairing, page,
    LeavePairing, choice, list, locos, Unmount, pair, mishaps, bigfred, OperatorMoves,
    VisitInv, PageInv, Gone
<1>11. CASE Continue
  BY <1>11, <1>0, PageFacts, DevicePages DEF Continue, Acts, OnPairing,
    LoadVehicles, choice, list, pair, locos, page, mishaps, bigfred, OperatorMoves,
    VisitInv, PageInv, Gone
<1>12. CASE DriveModeDone
  BY <1>12, <1>0, PageFacts, DevicePages DEF DriveModeDone, Acts, LoadVehicles,
    choice, list, pair, locos, page, mishaps, bigfred, OperatorMoves, VisitInv,
    PageInv, Gone
<1>13. CASE BackToPairing
  BY <1>13, <1>0, PageFacts, DevicePages DEF BackToPairing, Acts, choice, list,
    pair, locos, mishaps, bigfred, OperatorMoves, VisitInv, PageInv, Gone
<1>14. CASE PickLoco
  BY <1>14, <1>0, PageFacts, DevicePages DEF PickLoco, Acts, choice, list, pair,
    mishaps, bigfred, OperatorMoves, VisitInv, PageInv, Gone
<1>15. CASE LocoNext
  BY <1>15, <1>0, PageFacts, DevicePages DEF LocoNext, Acts, choice, list, pair,
    locos, mishaps, bigfred, OperatorMoves, VisitInv, PageInv, Gone
<1>16. CASE Finish
  BY <1>16, <1>0, PageFacts, DevicePages DEF Finish, Acts, Unmount, mishaps,
    bigfred, OperatorMoves, VisitInv, PageInv, Gone
<1>17. CASE AppBar
  BY <1>17, <1>0, PageFacts, DevicePages DEF AppBar, Acts, Unmount, mishaps,
    bigfred, OperatorMoves, VisitInv, PageInv, Gone
<1>18. ASSUME NEW d \in Devices, PickDevice(d) PROVE OperatorMoves
  BY <1>18, <1>0, PageFacts, DevicePages DEF PickDevice, Acts, LoadStations, pair,
    locos, mishaps, bigfred, OperatorMoves, VisitInv, PageInv, Gone
<1>19. ASSUME NEW u \in Users, PickUser(u) PROVE OperatorMoves
  BY <1>19, <1>0, PageFacts, DevicePages DEF PickUser, Acts, list, pair, locos,
    mishaps, bigfred, OperatorMoves, VisitInv, PageInv, Gone
<1>20. ASSUME NEW s \in Stations, ChooseStation(s) PROVE OperatorMoves
  BY <1>20, <1>0, PageFacts, DevicePages DEF ChooseStation, Acts, list, pair, locos,
    mishaps, bigfred, OperatorMoves, VisitInv, PageInv, Gone
<1>21. QED
BY <1>1, <1>2, <1>3, <1>4, <1>5, <1>6, <1>7, <1>8, <1>9, <1>10, <1>11, <1>12,
      <1>13, <1>14, <1>15, <1>16, <1>17, <1>18, <1>19, <1>20 DEF Operator

LEMMA OperatorScreen ==
    ASSUME TypeInv, VisitInv, CodeInv, JoinedInv, CleanInv, Operator
    PROVE  CodeInv' /\ JoinedInv' /\ CleanInv'
<1>1. OperatorMoves /\ UNCHANGED <<pairings, handset>> /\ Shown' = Shown /\ OldHandset' = OldHandset
      /\ NoHandset' = NoHandset
  BY OperatorScreens, NoStep, Fixed
<1>2. UNCHANGED <<crossed, uncancelled>> /\ phase # "left"
  BY DEF Operator, Acts, Gone, mishaps, PickDevice, PickUser, Forward, Back, Proceed,
         RetryStations, ChooseStation, StartAtStation, BackFromStation, Replace, Keep, Retry,
         BackFromPairing, Continue, DriveModeDone, BackToPairing, PickLoco, LocoNext,
         Finish, AppBar
<1>3. CodeInv'
  <2>1. \A c \in calls' : c.kind \in {"status", "start"} /\ phase' = "pairing"
                            => pairings'[pairing'].state = "expired"
    <3>1. "pairing" \in Shown
      BY PageFacts
    <3>2. QED
      BY <1>1, <3>1 DEF OperatorMoves
  <2>2. QED
    BY <1>1, <2>1 DEF OperatorMoves, CodeInv, Slot
<1>4. JoinedInv'
  BY <1>1, <1>2 DEF OperatorMoves, JoinedInv, JoinedHere
<1>5. CleanInv'
  <2> SUFFICES ASSUME Clean'
               PROVE  CleanInv'
    BY DEF CleanInv
  <2>1. Clean /\ phase' # "left"
    BY <1>2 DEF Clean
  <2>2. CASE phase' \in Shown
    <3>1. "rePairConfirm" \notin Shown
      BY PageFacts
    <3>2. QED
      BY <1>1, <2>1, <2>2, <3>1 DEF OperatorMoves, CleanInv, Slot, Open
  <2>3. CASE phase' \notin Shown
    <3>1. \A n \in DOMAIN pairings : ~Open(n)
      <4>1. CASE phase \notin Shown
        BY <2>1, <4>1 DEF CleanInv
      <4>2. CASE phase \in Shown
        BY <1>1, <2>1, <2>3, <4>2 DEF CleanInv, OperatorMoves, Open
      <4>3. QED
        BY <4>1, <4>2
    <3>2. QED
      BY <1>1, <2>1, <2>3, <3>1 DEF OperatorMoves, CleanInv, Slot, Open
  <2>4. QED
    BY <2>2, <2>3
<1>6. QED
  BY <1>3, <1>4, <1>5

Screen == CodeInv /\ JoinedInv /\ CleanInv

(* What is shown refers to a pairing, and a call to the slot shown.        *)
LEMMA ShownRefers ==
    ASSUME TypeInv, VisitInv
    PROVE  /\ Len(pairings) \in Nat /\ DOMAIN pairings = 1 .. Len(pairings)
           /\ phase \in Shown => pairing \in DOMAIN pairings
           /\ phase \in Shown \cup {"rePairConfirm"} => Slot \in Slots
           /\ \A p \in polls : p \in DOMAIN pairings
           /\ \A c \in calls :
                /\ calls = {c} /\ c.user = user /\ c.user \in Users
                /\ c.kind # "load" => /\ c.station = station /\ c.station \in Stations
                                      /\ Slot \in Slots /\ <<c.user, c.station>> = Slot
<1>1. Len(pairings) \in Nat /\ DOMAIN pairings = 1 .. Len(pairings)
  BY DEF TypeInv
<1>2. /\ user \in Users \cup {None} /\ station \in Stations \cup {None}
      /\ pairing \in 0 .. Len(pairings) /\ polls \subseteq 1 .. Len(pairings)
  BY DEF TypeInv, DriveTypeOK
<1>3. phase \in Shown => pairing \in DOMAIN pairings
  BY <1>1, <1>2 DEF VisitInv, PageInv, NoPairing
<1>4. phase \in Shown \cup {"rePairConfirm"} => Slot \in Slots
  BY <1>2 DEF VisitInv, PageInv, Slot, Slots
<1>5. \A c \in calls : /\ calls = {c} /\ c.user = user /\ c.user \in Users
                       /\ c.kind # "load" => /\ c.station = station /\ c.station \in Stations
                                             /\ Slot \in Slots /\ <<c.user, c.station>> = Slot
  BY CallParts DEF VisitInv, CallInv, Slot, Slots
<1>6. QED
  BY <1>1, <1>2, <1>3, <1>4, <1>5

(* Nothing that the invariants speak of changes, but calls may end.        *)
LEMMA SameScreen ==
    ASSUME Screen, UNCHANGED <<phase, user, station, pairing, paired, existing, pairings, handset>>,
           UNCHANGED <<crossed, uncancelled>>, calls' \subseteq calls, polls' \subseteq polls
    PROVE  Screen'
  BY Fixed DEF Screen, CodeInv, JoinedInv, JoinedHere, CleanInv, Clean, Slot, Open

LEMMA StationsScreen ==
    ASSUME TypeInv, VisitInv, Screen,
           StationsFail \/ \E stns \in Lists : StationsArrive(stns)
    PROVE  Screen'
<1>1. /\ phase \notin Shown \cup {"rePairConfirm"} /\ calls = {}
      /\ UNCHANGED <<phase, pairings, handset, crossed, uncancelled, calls>>
  BY DEF StationsFail, StationsArrive, VisitInv, PageInv, CallInv, bigfred, mishaps
<1>2. QED
  BY <1>1, Fixed DEF Screen, CodeInv, JoinedInv, CleanInv, Clean, Open

LEMMA JoinsScreen ==
    ASSUME TypeInv, VisitInv, HandsetInv, Screen, NEW n \in DOMAIN pairings, HandsetPairs(n)
    PROVE  Screen'
<1>0. /\ UNCHANGED <<phase, user, station, pairing, paired, existing, calls, polls>>
      /\ UNCHANGED <<crossed, uncancelled>>
  BY DEF HandsetPairs, page, choice, pair, mishaps
<1> DEFINE s == <<pairings[n].user, pairings[n].station>>
<1>1. /\ pairings' = Set(n, "joined") /\ handset' = [handset EXCEPT ![s] = n] /\ Open(n)
  BY DEF HandsetPairs, Joins
<1>2. /\ DOMAIN pairings' = DOMAIN pairings
      /\ \A k \in DOMAIN pairings :
             /\ pairings'[k].user = pairings[k].user
             /\ pairings'[k].station = pairings[k].station
             /\ pairings'[k].state = IF k = n THEN "joined" ELSE pairings[k].state
  BY <1>1, SetParts DEF TypeInv
<1>3. /\ \A x \in Slots : handset'[x] = IF x = s THEN n ELSE handset[x]
      /\ n # OldHandset /\ n # NoHandset /\ NoHandset # OldHandset
  <2>1. handset \in [Slots -> 0 .. OldHandset] /\ Len(pairings) <= MaxPairings /\ Len(pairings) \in Nat
        /\ n \in 1 .. Len(pairings)
    BY ShownRefers DEF TypeInv, DriveTypeOK, PairingsTypeOK
  <2> HIDE DEF s
  <2>2. QED
    BY <1>1, <2>1, PairingsAssumption DEF OldHandset, NoHandset
<1> HIDE DEF s
<1>4. CodeInv'
  <2>1. phase \in Shown =>
         /\ pairings'[pairing].user = user /\ pairings'[pairing].station = station
         /\ pairings'[pairing].state # "closed"
         /\ handset'[Slot] # OldHandset
    BY <1>2, <1>3, ShownRefers DEF Screen, CodeInv
  <2>2. \A c \in calls : c.kind \in {"status", "start"} /\ phase = "pairing"
                          => pairings'[pairing].state = "expired"
    BY <1>1, <1>2, ShownRefers, PageFacts DEF Screen, CodeInv, Open
  <2>3. \A c \in calls : c.kind = "start" => handset'[Slot] # OldHandset
    BY <1>3, ShownRefers DEF Screen, CodeInv
  <2>4. phase = "rePairConfirm" /\ handset'[Slot] = OldHandset
          => existing \in {NoHandset, OldHandset}
    BY <1>3, ShownRefers DEF Screen, CodeInv
  <2>5. QED
    BY <1>0, <2>1, <2>2, <2>3, <2>4, Fixed DEF CodeInv, Slot
<1>5. JoinedInv'
  <2>1. JoinedHere => JoinedHere'
    BY <1>0, <1>2 DEF JoinedHere
  <2>2. QED
    BY <1>0, <2>1, Fixed DEF Screen, JoinedInv
<1>6. CleanInv'
  <2> SUFFICES ASSUME Clean'
               PROVE  CleanInv'
    BY DEF CleanInv
  <2>0. Clean
    BY <1>0 DEF Clean
  <2>1. phase \in Shown /\ n = pairing
    BY <1>1, <2>0 DEF Screen, CleanInv
  <2>2. s = Slot
    BY <2>1 DEF Screen, CodeInv, s, Slot
  <2>3. handset'[Slot] = pairing /\ pairings'[pairing].state = "joined"
    BY <1>2, <1>3, <2>1, <2>2, ShownRefers
  <2>4. \A k \in DOMAIN pairings' : ~(pairings'[k].state = "open")
    BY <1>2, <2>0, <2>1 DEF Screen, CleanInv, Open
  <2>5. phase # "rePairConfirm"
    BY <2>1, PageFacts
  <2>6. \A c \in calls : c.kind # "start"
    BY <1>1, <2>1, PageFacts DEF VisitInv, CallInv, Screen, CodeInv, Open
  <2>7. QED
    BY <1>0, <2>1, <2>3, <2>4, <2>5, <2>6, Fixed DEF CleanInv, Open, Slot
<1>7. QED
  BY <1>4, <1>5, <1>6 DEF Screen

LEMMA ExpiresScreen ==
    ASSUME TypeInv, VisitInv, Screen, NEW n \in DOMAIN pairings, PairingExpires(n)
    PROVE  Screen'
<1>0. /\ UNCHANGED <<phase, user, station, pairing, paired, existing, calls, polls>>
      /\ UNCHANGED <<crossed, uncancelled, handset>>
  BY DEF PairingExpires, Expires, page, choice, pair, mishaps
<1>1. pairings' = Set(n, "expired") /\ Open(n)
  BY DEF PairingExpires, Expires
<1>2. /\ DOMAIN pairings' = DOMAIN pairings
      /\ \A k \in DOMAIN pairings :
             /\ pairings'[k].user = pairings[k].user
             /\ pairings'[k].station = pairings[k].station
             /\ pairings'[k].state = IF k = n THEN "expired" ELSE pairings[k].state
  BY <1>1, SetParts DEF TypeInv
<1>3. CodeInv'
  <2>1. phase \in Shown =>
         /\ pairings'[pairing].user = user /\ pairings'[pairing].station = station
         /\ pairings'[pairing].state # "closed"
         /\ handset[Slot] # OldHandset
    BY <1>2, ShownRefers DEF Screen, CodeInv
  <2>2. \A c \in calls : c.kind \in {"status", "start"} /\ phase = "pairing"
                          => pairings'[pairing].state = "expired"
    BY <1>1, <1>2, ShownRefers, PageFacts DEF Screen, CodeInv, Open
  <2>3. QED
    BY <1>0, <2>1, <2>2, Fixed DEF Screen, CodeInv, Slot
<1>4. JoinedInv'
  <2>1. JoinedHere => JoinedHere'
    BY <1>0, <1>1, <1>2 DEF JoinedHere, Open
  <2>2. QED
    BY <1>0, <2>1, Fixed DEF Screen, JoinedInv
<1>5. CleanInv'
  <2> SUFFICES ASSUME Clean'
               PROVE  CleanInv'
    BY DEF CleanInv
  <2>0. Clean
    BY <1>0 DEF Clean
  <2>1. phase \in Shown /\ n = pairing
    BY <1>1, <2>0 DEF Screen, CleanInv
  <2>2. ~(paired \/ pairing \in polls)
    BY <1>1, <2>0, <2>1 DEF Screen, CleanInv, Open
  <2>3. \A k \in DOMAIN pairings' : ~(pairings'[k].state = "open")
    BY <1>2, <2>0, <2>1 DEF Screen, CleanInv, Open
  <2>4. QED
    BY <1>0, <2>0, <2>1, <2>2, <2>3, Fixed DEF Screen, CleanInv, Open, Slot
<1>6. QED
  BY <1>3, <1>4, <1>5 DEF Screen

(* A poll finds a handset: one that paired during the visit.               *)
LEMMA SendPollScreen ==
    ASSUME TypeInv, VisitInv, HandsetInv, Screen, SendPoll
    PROVE  Screen'
<1>0. /\ UNCHANGED <<phase, user, station, pairing, paired, existing, calls, pairings, handset>>
      /\ UNCHANGED <<crossed, uncancelled>> /\ polls' = polls \cup {pairing}
      /\ handset[Slot] # NoHandset
  BY DEF SendPoll, page, choice, pair, mishaps, bigfred, Slot
<1>1. phase \in Shown => handset[Slot] \in DOMAIN pairings /\ JoinedHere
  <2> SUFFICES ASSUME phase \in Shown
               PROVE  handset[Slot] \in DOMAIN pairings /\ JoinedHere
    OBVIOUS
  <2>1. HandsetOK(Slot)
    BY ShownRefers DEF HandsetInv
  <2>2. handset[Slot] \in DOMAIN pairings
    BY <1>0, <2>1 DEF HandsetOK, Screen, CodeInv
  <2>3. QED
    BY <2>1, <2>2 DEF HandsetOK, JoinedHere, Slot
<1>2. JoinedInv'
  BY <1>0, <1>1, Fixed DEF Screen, JoinedInv, JoinedHere
<1>3. CleanInv'
  <2>1. Clean /\ phase \in Shown => pairings[pairing].state = "joined"
    <3>1. Clean /\ phase \in Shown => handset[Slot] = pairing
      BY <1>0 DEF Screen, CleanInv
    <3>2. QED
      BY <1>1, <3>1, ShownRefers DEF HandsetInv, HandsetOK
  <2>2. QED
    BY <1>0, <2>1, Fixed DEF Screen, CleanInv, Clean, Open, Slot
<1>4. CodeInv'
  BY <1>0, Fixed DEF Screen, CodeInv, Slot
<1>5. QED
  BY <1>2, <1>3, <1>4 DEF Screen

LEMMA PollScreen ==
    ASSUME TypeInv, VisitInv, Screen, NEW p \in polls, PollAnswers(p) \/ PollLost(p)
    PROVE  Screen'
<1>1. CASE PollLost(p)
  BY <1>1, SameScreen DEF PollLost, page, choice, pair, mishaps, bigfred
<1>2. CASE PollAnswers(p)
  <2>0. /\ UNCHANGED <<phase, user, station, pairing, existing, calls, pairings, handset>>
        /\ UNCHANGED uncancelled /\ polls' \subseteq polls
        /\ ~crossed' => ~crossed /\ pairing \in polls
    BY <1>2 DEF PollAnswers, choice, bigfred
  <2>1. CodeInv'
    BY <2>0, Fixed DEF Screen, CodeInv, Slot
  <2>2. JoinedInv'
    BY <2>0, Fixed DEF Screen, JoinedInv, JoinedHere
  <2>3. CleanInv'
    BY <2>0, Fixed DEF Screen, CleanInv, Clean, Open, Slot
  <2>4. QED
    BY <2>1, <2>2, <2>3 DEF Screen
<1>3. QED
  BY <1>1, <1>2

LEMMA StatusScreen ==
    ASSUME TypeInv, VisitInv, Screen, NEW c \in calls, StatusAnswers(c) \/ StatusFails(c)
    PROVE  Screen'
<1>1. CASE StatusFails(c)
  <2>1. calls' \subseteq calls
    BY <1>1 DEF StatusFails, Fails
  <2>2. QED
    BY <1>1, <2>1, SameScreen DEF StatusFails, Fails, choice, pair, mishaps, bigfred
<1>2. CASE StatusAnswers(c)
  <2>0. /\ UNCHANGED <<user, station, pairing, paired, polls, pairings, handset>>
        /\ UNCHANGED <<crossed, uncancelled>> /\ existing' = handset[Slot]
        /\ c.kind = "status" /\ "rePairConfirm" \notin Shown /\ calls = {c}
        /\ phase \notin Shown \ {"pairing"} /\ NoHandset # OldHandset
    BY <1>2, ShownRefers, PageFacts, PairingsAssumption
       DEF StatusAnswers, choice, pair, mishaps, bigfred, VisitInv, CallInv, NoHandset, OldHandset
  <2>1. phase = "pairing" => pairings[pairing].state = "expired"
    BY <2>0 DEF Screen, CodeInv
  <2>2. CASE handset[Slot] # NoHandset
    <3>1. phase' = "rePairConfirm" /\ calls' = {}
      BY <1>2, <2>0, <2>2 DEF StatusAnswers
    <3>2. Clean => \A n \in DOMAIN pairings : ~Open(n)
      BY <2>0, <2>1 DEF Screen, CleanInv, Open
    <3>3. CodeInv' /\ JoinedInv'
      BY <2>0, <2>2, <3>1, Fixed DEF CodeInv, JoinedInv, Slot
    <3>4. CleanInv'
      <4>1. Clean' => Clean
        BY <2>0 DEF Clean, StatusAnswers, VisitInv, PageInv, Gone
      <4>2. QED
        BY <2>0, <3>1, <3>2, <4>1, Fixed DEF CleanInv, Open, Slot
    <3>5. QED
      BY <3>3, <3>4 DEF Screen
  <2>3. CASE handset[Slot] = NoHandset
    <3>1. phase' = phase /\ calls' = {Start(c)}
      BY <1>2, <2>0, <2>3 DEF StatusAnswers
    <3>2. phase # "rePairConfirm" \/ existing' = NoHandset
      BY <2>0, <2>3
    <3>3. CodeInv'
      BY <2>0, <2>1, <2>3, <3>1, Fixed DEF Screen, CodeInv, Slot
    <3>4. JoinedInv'
      BY <2>0, <3>1, Fixed DEF Screen, JoinedInv, JoinedHere
    <3>5. CleanInv'
      BY <2>0, <2>3, <3>1, Fixed DEF Screen, CleanInv, Clean, Open, Slot
    <3>6. QED
      BY <3>3, <3>4, <3>5 DEF Screen
  <2>4. QED
    BY <2>2, <2>3
<1>3. QED
  BY <1>1, <1>2

(* The only step that shows a pairing that was not shown.                  *)
LEMMA StartScreen ==
    ASSUME TypeInv, VisitInv, Screen, NEW c \in calls, StartDone(c)
    PROVE  Screen'
<1>0. /\ UNCHANGED <<user, station, existing, polls, handset, crossed, uncancelled>>
      /\ c.kind = "start" /\ calls' = {} /\ phase' = "pairing" /\ paired' = FALSE
      /\ pairing' = Len(pairings) + 1 /\ pairings' = Opened(user, station)
      /\ user \in Users /\ station \in Stations
  BY ShownRefers DEF StartDone, choice, mishaps
<1>1. /\ DOMAIN pairings' = DOMAIN pairings \cup {Len(pairings) + 1}
      /\ pairings'[Len(pairings) + 1] = [user |-> user, station |-> station, state |-> "open"]
      /\ \A n \in DOMAIN pairings : pairings'[n] = Closed(user, station)[n]
  BY <1>0, OpenedParts DEF TypeInv
<1>2. \A n \in DOMAIN pairings : pairings'[n].state = "open" => Open(n)
  BY <1>1, ClosedParts DEF TypeInv, Open
<1>3. pairing' \notin polls
  BY <1>0, ShownRefers
<1>4. Clean => \A n \in DOMAIN pairings : ~Open(n)
  BY <1>0, PageFacts DEF Screen, CleanInv, CodeInv, Open, VisitInv, CallInv
<1>5. "pairing" \in Shown /\ phase # "left" /\ handset[Slot] # OldHandset
      /\ (Clean => handset[Slot] = NoHandset)
  BY <1>0, PageFacts DEF Screen, CodeInv, CleanInv, VisitInv, PageInv, Gone
<1>6. CodeInv'
  BY <1>0, <1>1, <1>5, Fixed DEF CodeInv, Slot
<1>7. JoinedInv'
  BY <1>0, <1>3 DEF JoinedInv
<1>8. CleanInv'
  <2> SUFFICES ASSUME Clean'
               PROVE  CleanInv'
    BY DEF CleanInv
  <2>1. Clean
    BY <1>0, <1>5 DEF Clean
  <2>2. \A n \in DOMAIN pairings' : pairings'[n].state = "open" => n = pairing'
    BY <1>0, <1>1, <1>2, <1>4, <2>1
  <2>3. QED
    BY <1>0, <1>3, <1>5, <2>1, <2>2, Fixed DEF CleanInv, Open, Slot
<1>9. QED
  BY <1>6, <1>7, <1>8 DEF Screen

LEMMA StartFailsScreen ==
    ASSUME TypeInv, VisitInv, Screen, NEW c \in calls, StartFails(c)
    PROVE  Screen'
<1>0. /\ UNCHANGED <<phase, user, station, pairing, paired, existing, polls, handset>>
      /\ UNCHANGED <<crossed, uncancelled>>
      /\ c.kind = "start" /\ calls = {c} /\ calls' = {}
      /\ pairings' = pairings \/ pairings' = Closed(user, station)
      /\ phase \notin Shown \ {"pairing"}
  BY ShownRefers DEF StartFails, Fails, choice, pair, mishaps, VisitInv, CallInv
<1>1. /\ DOMAIN pairings' = DOMAIN pairings
      /\ \A n \in DOMAIN pairings :
           /\ pairings'[n].user = pairings[n].user /\ pairings'[n].station = pairings[n].station
           /\ pairings'[n].state = "open" => Open(n)
           /\ ~Open(n) => pairings'[n].state = pairings[n].state
  BY <1>0, ClosedParts DEF TypeInv, Open
<1>2. phase \in Shown => phase = "pairing" /\ pairings[pairing].state = "expired"
  BY <1>0 DEF Screen, CodeInv
<1>3. CodeInv'
  BY <1>0, <1>1, <1>2, ShownRefers, Fixed DEF Screen, CodeInv, Open, Slot
<1>4. JoinedInv'
  <2>1. JoinedHere => JoinedHere'
    BY <1>0, <1>1 DEF JoinedHere, Open
  <2>2. QED
    BY <1>0, <2>1, Fixed DEF Screen, JoinedInv
<1>5. CleanInv'
  BY <1>0, <1>1, <1>2, ShownRefers, Fixed DEF Screen, CleanInv, Clean, Open, Slot
<1>6. QED
  BY <1>3, <1>4, <1>5 DEF Screen

LEMMA UnpairScreen ==
    ASSUME TypeInv, VisitInv, HandsetInv, Screen, NEW c \in calls, UnpairDone(c) \/ UnpairFails(c)
    PROVE  Screen'
<1>0. /\ UNCHANGED <<phase, user, station, pairing, paired, polls, crossed, uncancelled>>
      /\ c.kind = "unpair" /\ c.key = existing /\ calls = {c} /\ phase = "rePairConfirm"
      /\ Unpaired(user, station, existing) \/ UNCHANGED bigfred
      /\ UnpairDone(c) => /\ Unpaired(user, station, existing)
                          /\ existing' = NoHandset /\ calls' = {Start(c)}
      /\ UnpairFails(c) => existing' = existing /\ calls' = {}
      /\ user \in Users /\ station \in Stations /\ Slot = <<user, station>> /\ Slot \in Slots
      /\ "rePairConfirm" \notin Shown /\ phase # "pairing" /\ NoHandset # OldHandset
  BY ShownRefers, PageFacts, PairingsAssumption
     DEF UnpairDone, UnpairFails, Fails, choice, pair, mishaps, VisitInv, CallInv, Slot, NoHandset,
         OldHandset
<1>1. /\ DOMAIN pairings' = DOMAIN pairings
      /\ \A n \in DOMAIN pairings : pairings'[n].state = "open" => Open(n)
      /\ handset'[Slot] \in {NoHandset, handset[Slot]}
      /\ Unpaired(user, station, existing) =>
           IF handset[Slot] # NoHandset /\ existing \in {NoHandset, handset[Slot]}
           THEN handset'[Slot] = NoHandset ELSE handset'[Slot] = handset[Slot]
  <2>1. CASE UNCHANGED bigfred /\ ~Unpaired(user, station, existing)
    BY <2>1 DEF bigfred, Open
  <2>2. CASE Unpaired(user, station, existing)
    BY <1>0, <2>2, UnpairedParts DEF Open
  <2>3. QED
    BY <1>0, <2>1, <2>2
<1>2. UnpairDone(c) => /\ handset'[Slot] # OldHandset
                       /\ Clean => handset'[Slot] = NoHandset
  BY <1>0, <1>1 DEF Screen, CodeInv, CleanInv
<1>3. Slot' = Slot /\ (Clean' => Clean)
  BY <1>0 DEF Slot, Clean
<1>4. CodeInv'
  <2>1. \A d \in calls' : d.kind = "start" => handset'[Slot] # OldHandset
    BY <1>0, <1>2
  <2>2. handset'[Slot] = OldHandset => existing' \in {NoHandset, OldHandset}
    BY <1>0, <1>1 DEF Screen, CodeInv
  <2>3. QED
    BY <1>0, <1>3, <2>1, <2>2, Fixed DEF CodeInv
<1>5. JoinedInv'
  BY <1>0, Fixed DEF JoinedInv
<1>6. CleanInv'
  <2> SUFFICES ASSUME Clean'
               PROVE  CleanInv'
    BY DEF CleanInv
  <2>1. \A n \in DOMAIN pairings' : pairings'[n].state # "open"
    BY <1>0, <1>1, <1>3 DEF Screen, CleanInv
  <2>2. handset'[Slot] = NoHandset \/ existing' \in {NoHandset, handset'[Slot]}
    BY <1>0, <1>1, <1>3 DEF Screen, CleanInv
  <2>3. \A d \in calls' : d.kind = "start" => handset'[Slot] = NoHandset
    BY <1>0, <1>2, <1>3
  <2>4. QED
    BY <1>0, <1>3, <2>1, <2>2, <2>3, Fixed DEF CleanInv, Open
<1>7. QED
  BY <1>4, <1>5, <1>6 DEF Screen

(* The cancellation closes the one pairing that may be open, or is lost.   *)
LEMMA CancelScreen ==
    ASSUME TypeInv, VisitInv, Screen, NEW c \in calls, CancelEnds(c)
    PROVE  Screen'
<1>0. /\ UNCHANGED <<handset, crossed>> /\ calls = {c} /\ calls' = {} /\ phase = "pairing"
      /\ phase' \in {"wtWifi", "home"} /\ "wtWifi" \notin Shown /\ "home" \notin Shown
      /\ "pairing" \in Shown
      /\ \/ pairings' = Closed(user, station) /\ UNCHANGED uncancelled
         \/ pairings' = pairings /\ uncancelled' = TRUE
  BY ShownRefers, PageFacts DEF CancelEnds, LeavePairing, Unmount, VisitInv, CallInv
<1>1. CodeInv' /\ JoinedInv'
  BY <1>0, Fixed DEF CodeInv, JoinedInv
<1>2. CleanInv'
  <2> SUFFICES ASSUME Clean'
               PROVE  CleanInv'
    BY DEF CleanInv
  <2>1. Clean /\ pairings' = Closed(user, station)
    BY <1>0 DEF Clean
  <2>2. \A n \in DOMAIN pairings' : pairings'[n].state # "open"
    BY <1>0, <2>1, ClosedParts DEF TypeInv, Screen, CleanInv, CodeInv, Open
  <2>3. QED
    BY <1>0, <2>2, Fixed DEF CleanInv, Open
<1>3. QED
  BY <1>1, <1>2 DEF Screen

LEMMA LoadScreen ==
    ASSUME TypeInv, VisitInv, Screen, NEW c \in calls, LoadDone(c) \/ LoadFails(c)
    PROVE  Screen'
<1>1. CASE LoadFails(c)
  <2>1. calls' \subseteq calls
    BY <1>1 DEF LoadFails, Fails
  <2>2. QED
    BY <1>1, <2>1, SameScreen DEF LoadFails, Fails, choice, pair, mishaps, bigfred
<1>2. CASE LoadDone(c)
  <2>0. /\ UNCHANGED <<user, station, pairing, paired, existing, polls, pairings, handset>>
        /\ UNCHANGED <<crossed, uncancelled>> /\ calls' = {}
        /\ phase \in Shown /\ phase' \in Shown \ {"rePairConfirm", "left"}
        /\ phase # "left"
    <3>1. c.page = ListPage(device) /\ phase \in Shown /\ device \in Devices
      BY <1>2 DEF LoadDone, VisitInv, CallInv, TypeInv, DriveTypeOK
    <3>2. QED
      BY <1>2, <3>1, ShownRefers, PageFacts DEF LoadDone, choice, pair, mishaps, bigfred
  <2>1. CodeInv'
    BY <2>0, Fixed DEF Screen, CodeInv, Slot
  <2>2. JoinedInv'
    BY <2>0, Fixed DEF Screen, JoinedInv, JoinedHere
  <2>3. CleanInv'
    BY <2>0, Fixed DEF Screen, CleanInv, Clean, Open, Slot
  <2>4. QED
    BY <2>1, <2>2, <2>3 DEF Screen
<1>3. QED
  BY <1>1, <1>2

-----------------------------------------------------------------------------
(* The invariant and the theorems *)

Inv == TypeInv /\ VisitInv /\ HandsetInv /\ Screen

LEMMA InvInit == Init => Inv
<1> SUFFICES ASSUME Init
             PROVE  Inv
  OBVIOUS
<1>1. /\ 0 \in 0 .. OldHandset /\ OldHandset \in 0 .. OldHandset /\ NoHandset = 0
      /\ NoPairing = 0
  BY PairingsAssumption DEF OldHandset, NoHandset, NoPairing
<1>2. pairings = <<>> /\ Len(pairings) = 0 /\ DOMAIN pairings = {} /\ pairings \in Seq(Pairing)
  BY DEF Init, PairingsInit
<1>3. /\ handset \in [Slots -> 0 .. OldHandset]
      /\ \A s \in Slots : handset[s] \in {NoHandset, OldHandset}
  <2>1. PICK p \in Paired : handset = [s \in Slots |-> IF s \in p THEN OldHandset ELSE NoHandset]
    BY DEF Init, PairingsInit
  <2>2. QED
    BY <1>1, <2>1
<1>4. PairingsTypeOK
  BY <1>2, <1>3, PairingsAssumption DEF PairingsTypeOK
<1>5. FormOK /\ RefsOK /\ phase \in Phases
  <2>1. FormOK
    <3>1. paired \in BOOLEAN /\ ticking \in BOOLEAN /\ busy \in BOOLEAN
          /\ crossed \in BOOLEAN /\ uncancelled \in BOOLEAN
      BY DEF Init
    <3>2. QED
      BY <3>1 DEF Init, FormOK
  <2>2. RefsOK
    BY <1>1, <1>2 DEF Init, RefsOK
  <2>3. phase \in Phases
    BY DEF Init, Phases
  <2>4. QED
    BY <2>1, <2>2, <2>3
<1>6. TypeInv
  BY <1>2, <1>4, <1>5, TypeParts DEF TypeInv
<1>7. VisitInv
  BY PageFacts DEF Init, VisitInv, PageInv, CallInv, Gone
<1>8. HandsetInv
  <2>1. OldHandset \notin DOMAIN pairings /\ NoHandset \notin DOMAIN pairings
    BY <1>2
  <2>2. QED
    BY <1>3, <2>1 DEF HandsetInv, HandsetOK
<1>9. Screen
  BY <1>2, PageFacts DEF Init, Screen, CodeInv, JoinedInv, CleanInv
<1>10. QED
  BY <1>6, <1>7, <1>8, <1>9 DEF Inv

LEMMA InvNext == Inv /\ [Next]_vars => Inv'
<1> SUFFICES ASSUME Inv, [Next]_vars
             PROVE  Inv'
  OBVIOUS
<1>1. CASE UNCHANGED vars
  <2>1. /\ UNCHANGED <<device, user, station, stations, listing, phase, pairing, paired, ticking>>
        /\ UNCHANGED <<existing, vehicles, picked, busy, calls, polls, pairings, handset>>
        /\ UNCHANGED <<crossed, uncancelled>>
    BY <1>1 DEF vars, page, choice, list, pair, locos, bigfred, mishaps
  <2>2. TypeInv'
    <3>1. Phases' = Phases /\ Pairing' = Pairing
      BY DEF Phases, Devices, Before, ListPage, Pairing
    <3>2. PairingsTypeOK'
      BY <2>1, Fixed DEF Inv, TypeInv, DriveTypeOK, PairingsTypeOK
    <3>3. QED
      BY <2>1, <3>1, <3>2, Fixed DEF Inv, TypeInv, DriveTypeOK
  <2>3. VisitInv'
    BY <2>1, Fixed DEF Inv, VisitInv, PageInv, CallInv, Gone, Pages, ShownOf, Before, ListPage
  <2>4. HandsetInv'
    BY <2>1, Fixed DEF Inv, HandsetInv, HandsetOK
  <2>5. Screen'
    BY <2>1, SameScreen DEF Inv
  <2>6. QED
    BY <2>2, <2>3, <2>4, <2>5 DEF Inv
<1>2. CASE Next
  <2>1. TypeInv' /\ VisitInv' /\ HandsetInv'
    BY <1>2, VisitKept DEF Inv
  <2>2. Screen'
    <3>1. CASE Operator
      BY <3>1, OperatorScreen DEF Inv, Screen
    <3>2. CASE BigFred
      BY <3>2, StationsScreen, JoinsScreen, ExpiresScreen DEF Inv, BigFred
    <3>3. CASE CallEnds
      BY <3>3, StatusScreen, StartScreen, StartFailsScreen, UnpairScreen, CancelScreen, LoadScreen
         DEF Inv, CallEnds
    <3>4. CASE SendPoll \/ SomePollAnswers \/ SomePollLost
      BY <3>4, SendPollScreen, PollScreen DEF Inv, SomePollAnswers, SomePollLost
    <3>5. QED
      BY <1>2, <3>1, <3>2, <3>3, <3>4 DEF Next
  <2>3. QED
    BY <2>1, <2>2 DEF Inv
<1>3. QED
  BY <1>1, <1>2

LEMMA InvAlways == Spec => []Inv
  BY InvInit, InvNext, PTL DEF Spec

(* A step of the page leaves every variable of the page and of BigFred     *)
(* within its type.                                                        *)
THEOREM DriveTypeCorrect == Spec => []DriveTypeOK
<1>1. Inv => DriveTypeOK
  BY DEF Inv, TypeInv
<1>2. QED
  BY <1>1, InvAlways, PTL

(* Every phase that can be reached has the data its page renders, for any  *)
(* lists of stations: no operator, failure or late answer leads to a blank *)
(* page.                                                                   *)
THEOREM PagesNeverBlank == Spec => []NeverBlank
<1>1. Inv => NeverBlank
  <2> SUFFICES ASSUME Inv, ~Gone, device # "none"
               PROVE  \/ phase \in {"device", "rePairConfirm", ListPage(device)}
                      \/ \E i \in DOMAIN Before(device) : phase = Before(device)[i]
                      \/ phase = "station" /\ user # None
                      \/ OnPairing
                      \/ phase = "wlanmausDriveMode" /\ device = "wlanmaus"
                      \/ phase = "howToEnter" /\ device = "withrottle-advanced" /\ picked # None
    BY DEF NeverBlank
  <2>1. phase \in Pages(device) \cup {"station", "rePairConfirm"} \cup ShownOf(device) /\ PageInv
    BY DEF Inv, VisitInv, PageInv
  <2>2. QED
    BY <2>1, PageFacts DEF PageInv, Pages, ShownOf, OnPairing
<1>2. QED
  BY <1>1, InvAlways, PTL

(* Between two calls, the code on the screen is one BigFred gave to this   *)
(* participant at this station, and did not close since, however often the *)
(* pairing was begun, expired, was replaced or left.                       *)
THEOREM CodeIsOpen == Spec => []ShownCodeIsOpen
<1>1. Inv => ShownCodeIsOpen
  BY PageFacts DEF Inv, Screen, CodeInv, ShownCodeIsOpen, OnPairing
<1>2. QED
  BY <1>1, InvAlways, PTL

(* While no answer to an older poll crosses a new pairing, "paired" means  *)
(* that a handset of this participant has paired at this station.          *)
THEOREM PairedWasJoined == Spec => []PairedIsTrue
<1>1. Inv => PairedIsTrue
  BY PageFacts DEF Inv, Screen, JoinedInv, JoinedHere, PairedIsTrue, OnPairing
<1>2. QED
  BY <1>1, InvAlways, PTL

(* While no poll crosses, no cancellation is lost and the app bar is not   *)
(* used, the only pairing that may be open is the one shown.               *)
THEOREM OnlyShownIsOpen == Spec => []NothingLeftOpen
<1>1. Inv => NothingLeftOpen
  BY DEF Inv, Screen, CleanInv, Clean, NothingLeftOpen
<1>2. QED
  BY <1>1, InvAlways, PTL
=============================================================================
