------------------------------ MODULE Pairings ------------------------------
(* BigFred's side of a pairing, as web/src/api/client.ts uses it.  A       *)
(* participant has at most one open pairing per command station, known by  *)
(* its code; the handset that the code is entered into joins it and is the *)
(* participant's handset there until it is unpaired.                       *)
EXTENDS Naturals, Sequences

CONSTANTS Users, Stations,
          Paired,      \* which slots may have a handset already
          MaxPairings  \* bound: pairings opened

Slots == Users \X Stations
NoPairing == 0
NoHandset == 0
OldHandset == MaxPairings + 1 \* a handset paired before this visit

ASSUME PairingsAssumption ==
    /\ Paired \subseteq SUBSET (Users \X Stations)
    /\ MaxPairings \in Nat

VARIABLES pairings,  \* opened, with a code that was answered
          handset    \* slot -> the pairing that made its handset

bigfred == <<pairings, handset>>

PairingsTypeOK ==
    /\ \A n \in DOMAIN pairings :
         pairings[n] \in [user : Users, station : Stations,
                          state : {"open", "closed", "expired", "joined"}]
    /\ Len(pairings) <= MaxPairings
    /\ handset \in [Slots -> 0 .. OldHandset]

PairingsInit ==
    /\ pairings = <<>>
    /\ \E p \in Paired : handset = [s \in Slots |-> IF s \in p THEN OldHandset ELSE NoHandset]

Open(n) == pairings[n].state = "open"

Set(n, s) == [pairings EXCEPT ![n].state = s]

(* Closes the slot's open pairings, of which there is at most one.         *)
Closed(u, s) ==
    [n \in DOMAIN pairings |->
       IF pairings[n].user = u /\ pairings[n].station = s /\ Open(n)
       THEN [pairings[n] EXCEPT !.state = "closed"] ELSE pairings[n]]

(* Faulty variant: an answer without a new pairing. *)
NotOpened(u, s) == Closed(u, s)

(* A start whose answer is lost is not recorded: nobody has seen its code, *)
(* so that no handset can join it, and the next start in its slot closes   *)
(* it.  What it closed itself, it has (callers take Closed without Opened). *)
Opened(u, s) ==
    Append(Closed(u, s), [user |-> u, station |-> s, state |-> "open"])

Joins(n) ==
    /\ Open(n)
    /\ pairings' = Set(n, "joined")
    /\ handset' = [handset EXCEPT ![<<pairings[n].user, pairings[n].station>>] = n]

Expires(n) ==
    /\ Open(n)
    /\ pairings' = Set(n, "expired")
    /\ UNCHANGED handset

(* Without a key, any handset of the slot. *)
Unpaired(u, s, key) ==
    LET h == handset[<<u, s>>]
    IN  IF h # NoHandset /\ key \in {NoHandset, h}
        THEN /\ handset' = [handset EXCEPT ![<<u, s>>] = NoHandset]
             /\ pairings' = IF h \in DOMAIN pairings THEN Set(h, "closed") ELSE pairings
        ELSE UNCHANGED bigfred
=============================================================================
