---------------------------- MODULE WirelessFlow ----------------------------
(* The pages that program a wiFRED or a LongFRED over the air              *)
(* (web/src/pages/drive/flows/WirelessProgramFlow.tsx and its steps), with *)
(* the wireless programmer, BigFred's pairings, and what the pages share   *)
(* with those of the wired FRED (FredFlow).                                *)
(*                                                                         *)
(* A wiFRED gets the code of a pairing begun for it and the locomotives    *)
(* that the participant puts into its slots; a LongFRED gets the           *)
(* participant's PIN.  Every handler is a chain of calls that keeps the    *)
(* values of the render that started it.  The buttons are those the code   *)
(* leaves enabled: nobody waits for anything but `busy`.  The scan page    *)
(* scans in an effect that depends on the programmer's hello, so that the  *)
(* first hello starts a second scan, and the end of the first clears       *)
(* `busy` under the second.                                                *)
(*                                                                         *)
(* Stations are listed before the page opens or cannot be used, the Wi-Fi  *)
(* is configured, and a handset tries its code at any time.                *)
(***************************************************************************)
EXTENDS Pairings, WirelessJob, SequencesExt

CONSTANTS None,
          Devices,         \* the handsets for which the page opens
          Vehicles, Owner, \* Owner[v] is a participant
          Addressed,       \* the vehicles with a DCC address
          MaxSlots,        \* locomotives a handset holds
          MaxScans,        \* bound: scans in flight
          MaxCalls         \* bound: other calls in flight

ASSUME FlowAssumption ==
    /\ None \notin Users \cup Stations \cup Keys
    /\ Devices \subseteq {"wifred", "longfred", "fred"}
    /\ Owner \in [Vehicles -> Users] /\ Addressed \subseteq Vehicles
    /\ MaxSlots \in Nat /\ MaxScans \in Nat /\ MaxCalls \in Nat

VARIABLES device,
          usable,     \* the stations listed
          phase, busy, user, pin, station,
          existing,   \* existingClientKey
          hello,      \* whether the programmer's hello has been answered
          candidates, candidate, vehicles, rosterIds,
          hellos, scans, calls, \* in flight
          uncancelled, \* a cancellation did not reach BigFred
          late         \* an answer arrived on a page it was not for

display == <<phase, busy>>
who   == <<user, pin, station, existing>>
scan  == <<hello, candidates, candidate, hellos, scans>>
list  == <<vehicles, rosterIds>>
marks == <<uncancelled, late>>
pageVars == <<display, who, scan, list, calls, marks, bigfred>>
wirelessVars == <<device, usable, display, who, scan, list, calls, marks, bigfred, jobVars>>

Gone == phase = "home"

(* An order: for whom, with whose PIN, which pairing's code, and which     *)
(* locomotives                                                             *)
HandsetOrders ==
    [user : Users \cup {None}, pin : Users \cup {None}, code : 0 .. MaxPairings,
     roster : Seq(Vehicles \cup {None})]

Order(u, p, code, roster) == [user |-> u, pin |-> p, code |-> code, roster |-> roster]

(* `again` tells a call from one like it that is in flight already.        *)
Calls == [kind : {"verify", "load"}, user : Users, again : BOOLEAN]
         \cup [kind : {"status", "cancel"}, user : Users, station : Stations,
                again : BOOLEAN]
         \cup [kind : {"unpair"}, user : Users, station : Stations, client : 0 .. OldHandset,
                again : BOOLEAN]
         \cup [kind : {"start"}, user : Users, station : Stations, key : Keys,
               roster : Seq(Vehicles), again : BOOLEAN]

ScanPage == IF device = "fred" THEN "fredZ21" ELSE "wpScan"
ListPage == IF device = "fred" THEN "fredRoster" ELSE "wpRoster"
DonePage == IF device = "fred" THEN "fredAskLoco" ELSE "wpDone"
MaxRoster == IF device = "fred" THEN 1 ELSE MaxSlots

WirelessTypeOK ==
    /\ device \in Devices /\ usable \in SUBSET Stations
    /\ phase \in {"home", "user", "wpPin", "station", "rePairConfirm", "wpEnterPairing", "wpScan",
                  "wpRoster", "wpProgramming", "wpFailed", "wpDone", "fredAccountAsk",
                  "fredGuestAddress", "fredRoster", "fredZ21", "fredPlug", "fredAskLoco"}
    /\ busy \in BOOLEAN /\ user \in Users \cup {None} /\ pin \in Users \cup {None}
    /\ station \in Stations \cup {None} /\ existing \in 0 .. OldHandset
    /\ hello \in BOOLEAN /\ candidates \in SUBSET Keys /\ candidate \in Keys \cup {None}
    /\ vehicles \in SUBSET Vehicles
    /\ rosterIds \in Seq(Vehicles) /\ Len(rosterIds) <= MaxRoster
    /\ hellos + scans \in 0 .. MaxScans
    /\ \A c \in calls : c \in Calls
    /\ uncancelled \in BOOLEAN /\ late \in BOOLEAN
    /\ PairingsTypeOK /\ JobsTypeOK

(* The page as it opens for device d; the first station is preselected.    *)
WirelessInit(d) ==
    /\ device = d /\ usable \in SUBSET Stations \ {{}}
    /\ phase = (IF d = "fred" THEN "fredAccountAsk" ELSE "user") /\ busy = FALSE
    /\ user = None /\ pin = None /\ existing = NoHandset
    /\ station \in (IF d = "wifred" THEN usable ELSE {None})
    /\ hello = FALSE /\ candidates = {} /\ candidate = None /\ hellos = 0 /\ scans = 0
    /\ vehicles = {} /\ rosterIds = <<>>
    /\ calls = {} /\ uncancelled = FALSE /\ late = FALSE
    /\ PairingsInit /\ JobsInit

-----------------------------------------------------------------------------
(* Scanning, and going from page to page *)

(* runScan, up to its first answer: hello, unless it is known, and scan.   *)
RunScan ==
    /\ 2 * hellos + scans + 2 <= MaxScans
    /\ candidates' = {} /\ candidate' = None
    /\ IF hello \/ device = "fred" THEN scans' = scans + 1 /\ UNCHANGED hellos
                                   ELSE hellos' = hellos + 1 /\ UNCHANGED scans
    /\ UNCHANGED hello

(* setPhase, with the effect that scans when the scan page is entered      *)
Enter(p) ==
    /\ phase' = p
    /\ IF p = ScanPage THEN RunScan /\ busy' = TRUE ELSE UNCHANGED <<scan, busy>>

(* A new hello changes runScan, on which the effect depends.               *)
HelloAnswers ==
    /\ hellos > 0
    /\ hello' = TRUE /\ hellos' = hellos - 1
    /\ IF phase = "wpScan"
       THEN scans' = scans + 2 /\ candidates' = {} /\ candidate' = None /\ busy' = TRUE
       ELSE scans' = scans + 1 /\ UNCHANGED <<candidates, candidate, busy>>
    /\ UNCHANGED <<phase, who, list, calls, marks, bigfred, jobVars>>

(* The driver's candidates are all that answer; some may not.              *)
ScanAnswers(found) ==
    /\ scans > 0
    /\ scans' = scans - 1 /\ candidates' = found /\ busy' = FALSE
    /\ UNCHANGED <<phase, who, hello, candidate, hellos, list, calls, marks, bigfred, jobVars>>

ScanFails ==
    /\ \/ scans > 0 /\ scans' = scans - 1 /\ UNCHANGED hellos
       \/ hellos > 0 /\ hellos' = hellos - 1 /\ UNCHANGED scans
    /\ candidates' = {} /\ busy' = FALSE
    /\ UNCHANGED <<phase, who, hello, candidate, list, calls, marks, bigfred, jobVars>>

RetryScan ==
    /\ phase = ScanPage /\ ~busy
    /\ RunScan /\ busy' = TRUE
    /\ UNCHANGED <<phase, who, list, calls, marks, bigfred, jobVars>>

(* The page is left for another one, by the app bar or at an end of its    *)
(* own.  Chains that program go on.  It is left for good: what the old     *)
(* visit's chain, whose cancellation names participant and station only,   *)
(* could do to the pairing of a later visit is not a case here.            *)
Leave ==
    /\ ~Gone
    /\ phase' = "home" /\ busy' = FALSE
    /\ user' = None /\ pin' = None /\ station' = None /\ existing' = NoHandset
    /\ hello' = FALSE /\ candidates' = {} /\ candidate' = None /\ hellos' = 0 /\ scans' = 0
    /\ vehicles' = {} /\ rosterIds' = <<>>
    /\ calls' = { c \in calls : c.kind \in {"start", "cancel"} }
    /\ UNCHANGED <<marks, bigfred, jobVars>>

On(p) == device # "fred" /\ phase = p

(* A step between pages that only changes the page                         *)
Turn(from, to) ==
    /\ On(from)
    /\ Enter(to)
    /\ UNCHANGED <<who, list, calls, marks, bigfred, jobVars>>

Marked(c, again) == [f \in DOMAIN c \cup {"again"} |-> IF f = "again" THEN again ELSE c[f]]
Made(cs, c) == cs \cup {Marked(c, Marked(c, FALSE) \in cs)}

(* An answer on another page than the one that asked, or for another participant *)
MarkLate(c) ==
    late' = (late \/ c.user # user \/ phase \notin CASE c.kind = "verify" -> {"wpPin"}
                                                  [] c.kind = "status" -> {"wpPin", "station"}
                                                  [] c.kind = "unpair" -> {"rePairConfirm"}
                                                  [] OTHER             -> {"wpScan", "user"})

Calling(c) == Cardinality(calls) < MaxCalls /\ calls' = Made(calls, c)
Returned(c) == calls' = calls \ {c}

-----------------------------------------------------------------------------
(* The participant, the PIN and the station *)

(* onUserPicked.  connectDrive's answer is ignored. *)
PickUser(u) ==
    /\ On("user")
    /\ user' = u /\ busy' = FALSE /\ phase' = "wpPin"
    /\ UNCHANGED <<pin, station, existing, scan, list, calls, marks, bigfred, jobVars>>

(* The PIN of a LongFRED is not checked. *)
EnterPin ==
    /\ On("wpPin") /\ device = "longfred" /\ ~busy
    /\ pin' = user /\ Enter("wpEnterPairing")
    /\ UNCHANGED <<user, station, existing, list, calls, marks, bigfred, jobVars>>

SubmitPin ==
    /\ On("wpPin") /\ device = "wifred" /\ ~busy /\ user # None
    /\ Calling([kind |-> "verify", user |-> user]) /\ busy' = TRUE
    /\ UNCHANGED <<phase, who, scan, list, marks, bigfred, jobVars>>

Status(u, s) == [kind |-> "status", user |-> u, station |-> s]

(* submitWifredPin, after verifyPin *)
PinVerified(c) ==
    /\ c.kind = "verify"
    /\ pin' = c.user /\ MarkLate(c)
    /\ \/ /\ \A s \in usable : usable = {s}
          /\ station' \in usable /\ calls' = Made(calls \ {c}, Status(c.user, station'))
          /\ busy' = TRUE /\ UNCHANGED phase
       \/ /\ \E s \in usable : usable # {s}
          /\ phase' = "station" /\ busy' = FALSE /\ Returned(c) /\ UNCHANGED station
    /\ UNCHANGED <<user, existing, scan, list, uncancelled, bigfred, jobVars>>

ChooseStation(s) ==
    /\ On("station") /\ user # None /\ s \in usable
    /\ station' = s
    /\ UNCHANGED <<display, user, pin, existing, scan, list, calls, marks, bigfred, jobVars>>

(* continueWifredAfterPin *)
StartAtStation ==
    /\ On("station") /\ ~busy /\ user # None /\ station # None
    /\ Calling(Status(user, station)) /\ busy' = TRUE
    /\ UNCHANGED <<phase, who, scan, list, marks, bigfred, jobVars>>

StatusAnswers(c) ==
    /\ c.kind = "status"
    /\ existing' = handset[<<c.user, c.station>>]
    /\ phase' = IF existing' # NoHandset THEN "rePairConfirm" ELSE "wpEnterPairing"
    /\ busy' = FALSE /\ Returned(c) /\ MarkLate(c)
    /\ UNCHANGED <<user, pin, station, scan, list, uncancelled, bigfred, jobVars>>

Replace ==
    /\ On("rePairConfirm") /\ ~busy /\ user # None /\ station # None
    /\ Calling([kind |-> "unpair", user |-> user, station |-> station, client |-> existing])
    /\ busy' = TRUE
    /\ UNCHANGED <<phase, who, scan, list, marks, bigfred, jobVars>>

UnpairDone(c) ==
    /\ c.kind = "unpair"
    /\ Unpaired(c.user, c.station, c.client)
    /\ existing' = NoHandset
    /\ phase' = "wpEnterPairing" /\ busy' = FALSE /\ Returned(c) /\ MarkLate(c)
    /\ UNCHANGED <<user, pin, station, scan, list, uncancelled, jobVars>>

Keep ==
    /\ On("rePairConfirm") /\ ~busy
    /\ user' = None /\ existing' = NoHandset /\ phase' = "user"
    /\ UNCHANGED <<busy, pin, station, scan, list, calls, marks, bigfred, jobVars>>

(* A call that fails shows an error; its effect may have taken place.      *)
CallFails(c) ==
    /\ c.kind \in {"verify", "status", "unpair", "load"}
    /\ busy' = FALSE /\ Returned(c)
    /\ \/ UNCHANGED bigfred
       \/ c.kind = "unpair" /\ Unpaired(c.user, c.station, c.client)
    /\ UNCHANGED <<phase, who, scan, list, marks, jobVars>>

-----------------------------------------------------------------------------
(* The locomotives *)

(* Faulty variant: the whole catalogue. *)
EverybodysVehicles(u) == Vehicles

OwnedVehicles(u) == { v \in Vehicles : Owner[v] = u }

(* loadVehicles, and what its caller does with the list *)
ListArrives(c) ==
    /\ c.kind = "load"
    /\ vehicles' = OwnedVehicles(c.user) /\ rosterIds' = <<>>
    /\ phase' = ListPage /\ busy' = FALSE /\ Returned(c)
    /\ MarkLate(c)
    /\ UNCHANGED <<who, scan, uncancelled, bigfred, jobVars>>

(* The members of S in ids, in their order.  (SelectSeq, which the prover  *)
(* cannot unfold, of a membership.)                                        *)
Kept(ids, S) ==
    LET kept[n \in 0 .. Len(ids)] ==
            IF n = 0 THEN <<>>
            ELSE IF ids[n] \in S THEN Append(kept[n - 1], ids[n]) ELSE kept[n - 1]
    IN  kept[Len(ids)]

(* Faulty variant: the limit is only shown. *)
ToggledPastLimit(ids, v, max) ==
    IF Contains(ids, v) THEN Kept(ids, Vehicles \ {v}) ELSE Append(ids, v)

Toggled(ids, v, max) ==
    IF Contains(ids, v) THEN Kept(ids, Vehicles \ {v})
    ELSE IF Len(ids) >= max THEN ids ELSE Append(ids, v)

Toggle(v) ==
    /\ phase = ListPage /\ v \in vehicles
    /\ rosterIds' = Toggled(rosterIds, v, MaxRoster)
    /\ UNCHANGED <<display, who, scan, vehicles, calls, marks, bigfred, jobVars>>

(* A vehicle without an address is passed over.                            *)
RosterFromVehicles(vs, ids) == Kept(ids, vs \cap Addressed)

-----------------------------------------------------------------------------
(* Programming *)

Programming == phase' = "wpProgramming" /\ busy' = TRUE

(* loadRosterAndContinue.  For a LongFRED, programming starts at once.     *)
PickCandidate(k) ==
    /\ On("wpScan") /\ ~busy /\ k \in candidates /\ user # None
    /\ candidate' = k
    /\ IF device = "longfred"
       THEN /\ Programming
            /\ Program(k, Order(user, pin, NoPairing, <<>>))
            /\ UNCHANGED calls
       ELSE /\ Calling([kind |-> "load", user |-> user]) /\ busy' = TRUE
            /\ UNCHANGED <<phase, jobVars>>
    /\ UNCHANGED <<who, hello, candidates, hellos, scans, list, marks, bigfred>>

(* startProgramming, up to the answer of startPairing *)
StartProgramming ==
    /\ On("wpRoster") /\ ~busy /\ rosterIds # <<>>
    /\ user # None /\ candidate # None /\ station # None
    /\ Programming
    /\ Calling([kind |-> "start", user |-> user, station |-> station, key |-> candidate,
                roster |-> RosterFromVehicles(vehicles, rosterIds)])
    /\ UNCHANGED <<who, scan, list, marks, bigfred, jobVars>>

(* Faulty variant: programs the code of the pairing in the page's state.   *)
ProgramStaleCode(c) ==
    /\ c.kind = "start" /\ Len(pairings) < MaxPairings
    /\ pairings' = Opened(c.user, c.station)
    /\ Program(c.key, Order(c.user, None, Len(pairings), c.roster))
    /\ Returned(c)
    /\ UNCHANGED <<display, who, scan, list, marks, handset>>

(* A pairing's code goes to the programmer.  The pairing shown, and with   *)
(* it the poll of useDriveSession, is left out: no page of this flow reads *)
(* what it sets.                                                           *)
ProgramCode(c) ==
    /\ c.kind = "start" /\ Len(pairings) < MaxPairings
    /\ pairings' = Opened(c.user, c.station)
    /\ Program(c.key, Order(c.user, None, Len(pairings) + 1, c.roster))
    /\ Returned(c)
    /\ UNCHANGED <<display, who, scan, list, marks, handset>>

(* What a chain shows at its end, if the page is still there               *)
Show(p) == IF Gone THEN UNCHANGED display ELSE phase' = p /\ busy' = FALSE

(* No pairing, or none with a code of six digits: that one is not          *)
(* cancelled, but nobody knows its code.                                   *)
NoCode(c) ==
    /\ c.kind = "start"
    /\ pairings' \in {pairings, Closed(c.user, c.station)}
    /\ Show("wpFailed") /\ Returned(c)
    /\ UNCHANGED <<who, scan, list, marks, handset, jobVars>>

JobDone(n) ==
    /\ Resolves(n)
    /\ Show(DonePage)
    /\ UNCHANGED <<who, scan, list, calls, marks, bigfred>>

(* Faulty variant: what fails by an exception is not cancelled. *)
JobFailsUncancelled(n) ==
    /\ Unsuccessful(n)
    /\ Show("wpFailed")
    /\ UNCHANGED <<who, scan, list, calls, marks, bigfred>>

(* The pairing begun for a wiFRED is cancelled. *)
JobFails(n) ==
    /\ Unsuccessful(n)
    /\ LET p == jobs[n].order.code
       IN  IF p # NoPairing
           THEN /\ calls' = Made(calls, [kind |-> "cancel", user |-> pairings[p].user,
                                         station |-> pairings[p].station])
                /\ UNCHANGED display
           ELSE Show("wpFailed") /\ UNCHANGED calls
    /\ UNCHANGED <<who, scan, list, marks, bigfred>>

CancelEnds(c) ==
    /\ c.kind = "cancel"
    /\ \/ pairings' = Closed(c.user, c.station) /\ UNCHANGED uncancelled
       \/ uncancelled' = TRUE /\ UNCHANGED pairings
    /\ Show("wpFailed") /\ Returned(c)
    /\ UNCHANGED <<who, scan, list, late, handset, jobVars>>

(* A handset that holds the code of an open pairing joins it.              *)
HandsetJoins(p) ==
    /\ \E k \in Keys : written[k] # NoJob /\ jobs[written[k]].order.code = p
    /\ Joins(p)
    /\ UNCHANGED <<display, who, scan, list, calls, marks, jobVars>>

PairingExpires(p) ==
    /\ Expires(p)
    /\ UNCHANGED <<display, who, scan, list, calls, marks, jobVars>>

JobGoesOn(n) ==
    /\ JobStep(n) \/ ProgramAnswers(n)
    /\ UNCHANGED pageVars

-----------------------------------------------------------------------------
WirelessOperator ==
    \/ \E u \in Users : PickUser(u)
    \/ EnterPin \/ SubmitPin \/ StartAtStation \/ Replace \/ Keep \/ StartProgramming \/ RetryScan
    \/ \E s \in Stations : ChooseStation(s)
    \/ \E v \in Vehicles : Toggle(v)
    \/ \E k \in Keys : PickCandidate(k)
    \/ Turn("station", "wpPin") \/ Turn("wpEnterPairing", "wpPin")
    \/ Turn("wpEnterPairing", "wpScan") \/ Turn("wpRoster", "wpScan") \/ Turn("wpFailed", "wpScan")
    \/ ~busy /\ Turn("wpScan", "wpEnterPairing")
    \/ Leave

CallEnds ==
    \E c \in calls :
        \/ PinVerified(c) \/ StatusAnswers(c) \/ UnpairDone(c) \/ ListArrives(c)
        \/ ProgramCode(c) \/ NoCode(c) \/ CancelEnds(c) \/ CallFails(c)

ScanEnds == HelloAnswers \/ ScanFails \/ \E found \in SUBSET Keys : ScanAnswers(found)

SomeJob(A(_)) == \E n \in DOMAIN jobs : A(n)

Elsewhere ==
    \/ ScanEnds \/ CallEnds
    \/ SomeJob(JobDone) \/ SomeJob(JobFails) \/ SomeJob(JobGoesOn)
    \/ \E p \in DOMAIN pairings : HandsetJoins(p) \/ PairingExpires(p)

WirelessNext == (WirelessOperator \/ Elsewhere) /\ UNCHANGED <<device, usable>>
=============================================================================
