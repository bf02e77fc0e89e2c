------------------------------ MODULE FredFlow ------------------------------
(* The pages for a wired FRED (web/src/pages/drive/flows/FredFlow.tsx),    *)
(* and with those of WirelessFlow all pages that use the wireless          *)
(* programmer.                                                             *)
(*                                                                         *)
(* A FRED holds one DCC address: a participant's locomotive's, or one that *)
(* a guest types.  It is plugged into a command station, which the         *)
(* configuration names or a scan finds; the configuration is polled, and   *)
(* may change between two pages.                                           *)
(***************************************************************************)
EXTENDS WirelessFlow

CONSTANTS FixedKey,   \* the station that the configuration may name
          MaxFredJobs \* bound: jobs asked for by the pages of a FRED

ASSUME FredAssumption == FixedKey \in Keys /\ MaxFredJobs \in Nat

VARIABLES guest,
          typed, \* whether the guest's address is typed and valid
          fixed  \* whether the configuration names the station

fredVars == <<guest, typed, fixed>>
vars == <<wirelessVars, fredVars>>

FredTypeOK ==
    /\ WirelessTypeOK
    /\ guest \in BOOLEAN /\ typed \in BOOLEAN /\ fixed \in BOOLEAN

Init ==
    /\ \E d \in Devices : WirelessInit(d)
    /\ guest = FALSE /\ typed = FALSE /\ fixed \in BOOLEAN

FredOn(p) == device = "fred" /\ phase = p

(* The address to write is None's if a guest typed it.                     *)
FredAddress == IF guest THEN IF typed THEN <<None>> ELSE <<>>
               ELSE RosterFromVehicles(vehicles, rosterIds)

Steps(from, to) ==
    /\ FredOn(from)
    /\ Enter(to)
    /\ UNCHANGED <<who, list, calls, marks, bigfred, jobVars>>

AccountYes == Steps("fredAccountAsk", "user") /\ guest' = FALSE /\ UNCHANGED <<typed, fixed>>

AccountNo ==
    /\ FredOn("fredAccountAsk")
    /\ guest' = TRUE /\ user' = None /\ vehicles' = {} /\ rosterIds' = <<>>
    /\ Enter("fredGuestAddress")
    /\ UNCHANGED <<pin, station, existing, calls, marks, bigfred, jobVars, typed, fixed>>

TypeAddress ==
    /\ FredOn("fredGuestAddress")
    /\ typed' \in BOOLEAN
    /\ UNCHANGED <<wirelessVars, guest, fixed>>

BackFromAddress ==
    Steps("fredGuestAddress", "fredAccountAsk") /\ guest' = FALSE /\ UNCHANGED <<typed, fixed>>

(* onUserPicked, loadFredRoster *)
PickFredUser(u) ==
    /\ FredOn("user")
    /\ user' = u /\ busy' = TRUE
    /\ Calling([kind |-> "load", user |-> u])
    /\ UNCHANGED <<phase, pin, station, existing, scan, list, marks, bigfred, jobVars, fredVars>>

ForgetUser(from, to) ==
    /\ FredOn(from)
    /\ user' = None /\ Enter(to)
    /\ UNCHANGED <<pin, station, existing, list, calls, marks, bigfred, jobVars, fredVars>>

(* Where there is an address to go on with                                 *)
AddressTyped == FredOn("fredGuestAddress") /\ typed
AddressPicked == FredOn("fredRoster") /\ RosterFromVehicles(vehicles, rosterIds) # <<>>

(* goAfterFredAddress *)
GoAfterFredAddress ==
    /\ AddressTyped \/ AddressPicked
    /\ IF fixed
       THEN /\ candidate' = FixedKey /\ phase' = "fredPlug"
            /\ UNCHANGED <<busy, hello, candidates, hellos, scans>>
       ELSE Enter("fredZ21")
    /\ UNCHANGED <<who, list, calls, marks, bigfred, jobVars, fredVars>>

PickStation(k) ==
    /\ FredOn("fredZ21") /\ ~busy /\ k \in candidates
    /\ candidate' = k /\ phase' = "fredPlug"
    /\ UNCHANGED <<busy, who, hello, candidates, hellos, scans, list, calls, marks, bigfred,
                   jobVars, fredVars>>

AddressPage == IF guest THEN "fredGuestAddress" ELSE "fredRoster"

BackFromZ21 == ~busy /\ Steps("fredZ21", AddressPage) /\ UNCHANGED fredVars

BackFromPlug ==
    Steps("fredPlug", IF fixed THEN AddressPage ELSE "fredZ21") /\ UNCHANGED fredVars

(* The other cases only show an error. *)
StartFredProgramming ==
    /\ FredOn("fredPlug") /\ ~busy /\ FredAddress # <<>> /\ Len(jobs) < MaxFredJobs
    /\ candidate' = (IF candidate = None /\ fixed THEN FixedKey ELSE candidate)
    /\ candidate' # None
    /\ Programming
    /\ Program(candidate', Order(user, None, NoPairing, FredAddress))
    /\ UNCHANGED <<who, hello, candidates, hellos, scans, list, calls, marks, bigfred, fredVars>>

RetryFred ==
    Steps("wpFailed", IF fixed THEN "fredPlug" ELSE "fredZ21") /\ UNCHANGED fredVars

(* "No, it does not work": the plug page again *)
AskLocoRetry == Steps("fredAskLoco", "fredPlug") /\ UNCHANGED fredVars

ConfigPoll ==
    /\ device = "fred"
    /\ fixed' \in BOOLEAN
    /\ UNCHANGED <<wirelessVars, guest, typed>>

FredNext ==
    /\ \/ AccountYes \/ AccountNo \/ TypeAddress \/ BackFromAddress
       \/ \E u \in Users : PickFredUser(u)
       \/ ForgetUser("user", "fredAccountAsk") \/ ForgetUser("fredRoster", "user")
       \/ GoAfterFredAddress
       \/ \E k \in Keys : PickStation(k)
       \/ BackFromZ21 \/ BackFromPlug \/ StartFredProgramming \/ RetryFred \/ AskLocoRetry
       \/ ConfigPoll
    /\ UNCHANGED <<device, usable>>

Next == FredNext \/ (WirelessNext /\ UNCHANGED fredVars)

(* A call is answered or fails, the programmer decides on what it is asked *)
(* and ends what it runs, the bridge reads what it sends, and the browser  *)
(* takes the events it gets, and notices that a stream has ended.  Nothing *)
(* makes an open connection break.                                         *)
Unseen(A) == A /\ UNCHANGED <<device, usable, fredVars>>
OwnStep(A(_)) == Unseen(SomeJob(A) /\ UNCHANGED pageVars)

Fairness ==
    /\ WF_vars(Unseen(CallEnds))
    /\ WF_vars(OwnStep(ProgrammerStep))
    /\ WF_vars(OwnStep(ReadFrame))
    /\ WF_vars(OwnStep(ShowProgress))
    /\ WF_vars(OwnStep(ProgramAnswers))
    /\ WF_vars(Unseen(SomeJob(JobDone)))
    /\ WF_vars(Unseen(\E n \in DOMAIN jobs : jobs[n].feed = "closed" /\ JobFails(n)))

Spec == Init /\ [][Next]_vars /\ Fairness

-----------------------------------------------------------------------------
(* Properties *)

(* The page says "programmed" only when the handset picked holds what the  *)
(* participant ordered last: for a wiFRED, a code that BigFred has not     *)
(* cancelled; for a FRED, the address that the next page offers to program *)
(* into the locomotive.  An answer that arrives on a page it was not for   *)
(* moves the operator away from a job that runs                            *)
(* (WirelessProgramFlow.tsx:130, 256), and is excepted.                    *)
DoneIsTrue ==
    phase = DonePage /\ ~late =>
        LET n == Len(jobs)
        IN  /\ n > 0 /\ jobs[n].page = "succeeded" /\ written[candidate] = n
            /\ jobs[n].order.user = user
            /\ device = "wifred" => /\ jobs[n].order.code # NoPairing
                                    /\ pairings[jobs[n].order.code].state # "closed"
            /\ device = "fred" => jobs[n].order.roster = FredAddress

(* Every order is its participant's: own locomotives, own PIN, own code.   *)
(* The list, the participant and the station may change while it is put    *)
(* together (WirelessProgramFlow.tsx:175-225).                             *)
OrdersAreOwn ==
    ~late => \A n \in DOMAIN jobs :
        LET o == jobs[n].order
        IN  /\ \A i \in DOMAIN o.roster : o.roster[i] # None => Owner[o.roster[i]] = o.user
            /\ o.pin \in {None, o.user}
            /\ o.code # NoPairing => pairings[o.code].user = o.user

(* A code that was handed out is no longer accepted when its job did not   *)
(* succeed, whatever became of the page (WirelessProgramFlow.tsx:232,      *)
(* 239).                                                                   *)
FailedCodesAreCancelled ==
    ~uncancelled => \A p \in DOMAIN pairings : Open(p) =>
        \/ \E n \in DOMAIN jobs : jobs[n].order.code = p /\ jobs[n].page # "failed"
        \/ \E c \in calls : /\ c.kind = "cancel"
                            /\ c.user = pairings[p].user /\ c.station = pairings[p].station

(* The page does not wait forever for a job: a stream that ends without a  *)
(* last frame is noticed too (wireless.ts:187-206).                        *)
ProgrammingEnds == phase = "wpProgramming" ~> phase # "wpProgramming"
=============================================================================
