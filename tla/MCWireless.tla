----------------------------- MODULE MCWireless -----------------------------
(* Two participants with a locomotive each, or one with two, one of which  *)
(* has no address.                                                         *)
EXTENDS FredFlow

CONSTANTS ann, bob, a1, a2, b1

MCOrders == HandsetOrders

TwoUsers == {ann, bob}
TheirVehicles == {a1, b1}
TheirOwner == [v \in TheirVehicles |-> IF v = b1 THEN bob ELSE ann]
AnnIsPaired == {{<<ann, "s1">>}}

OneUser == {ann}
OnesVehicles == {a1, a2}
OnesOwner == [v \in OnesVehicles |-> ann]
OnesAddressed == {a1}
NonePaired == {{}}

(* Left to the smaller run: what follows an answer on the wrong page.  And *)
(* once the last job is asked for, the list of participants is the end and *)
(* one other call is in flight at a time: no further job can come of it    *)
(* (what a job does to a page that is back at the list, or that waits for  *)
(* two calls, is seen with the job before).                                *)
LastJob == Len(jobs) = MaxJobs
OnTime == ~late /\ (LastJob => phase # "user" /\ Cardinality(calls) < 2)
=============================================================================
