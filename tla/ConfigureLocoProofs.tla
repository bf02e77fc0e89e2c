------------------------ MODULE ConfigureLocoProofs ------------------------
(***************************************************************************)
(* Proofs about the page that configures a locomotive, for any             *)
(* participants, pools, fleets, lists of functions and failing calls.      *)
(*                                                                         *)
(* TypeInv holds for any operator: the types, and that whatever the page   *)
(* refers to exists.  Patient is what the page may rely on when nobody     *)
(* goes elsewhere while a call is in flight: what each entry to the page   *)
(* brings (EntryInv); that a call in flight was made for what is shown     *)
(* (CallsInv); what "programmed" stands for (ShownInv); whose the          *)
(* vehicles are (OwnInv); how many an Add made (AddInv); and whose         *)
(* functions a save may replace (TemplateInv).  Each part needs TypeInv,   *)
(* and the steps that end a call need CallsInv.                            *)
(***************************************************************************)
EXTENDS ConfigureLoco, WellFoundedInduction, TLAPS

Savings == [stage : {"save", "attach"}, id : Ids \cup {NoId}, user : Users,
            address : Addresses, template : {"none", "default", "chosen"}]
Testings == [stage : {"roster", "pulse"}, id : Ids, address : Addresses]

(* The types, by what changes together; whatever is referred to exists.    *)
FlagsOK ==
    /\ addingNew \in BOOLEAN /\ programmed \in BOOLEAN /\ busy \in BOOLEAN
    /\ templates \in BOOLEAN /\ lost \in BOOLEAN

PageOK ==
    /\ phase \in {"user", "noPool", "pickLoco", "details", "address", "program"}
    /\ user \in Users \cup {NoUser}
    /\ template \in {"none", "default", "chosen"} /\ catalogue \in {"off", "fresh", "known"}
    /\ address \in Addresses /\ setting \in Addresses
    /\ decoder \in Addresses /\ created \in Nat
    /\ loads \in [Users -> 0 .. MaxLoads]

FleetOK ==
    /\ Live \subseteq Ids /\ owner \in [Live -> Users] /\ dcc \in [Live -> Addresses]
    /\ custom \subseteq Live /\ onLayout \subseteq Live

RefsOK ==
    /\ \A v \in vehicles : v \in [id : Live, dcc : Addresses]
    /\ existing \in Live \cup {NoId} /\ saved \in Live \cup {NoId}

SavingOK ==
    /\ saving = None \/ (saving \in Savings /\ saving.id \in Live \cup {NoId})
    /\ saving.stage = "attach" => saving.id \in Live
TestingOK == testing = None \/ (testing \in Testings /\ testing.id \in Live)

FredOK == fred \in {None, [stage |-> "done"]}
                   \cup [stage : {"users", "vehicles"}, login : Users, id : Live]

TypeInv == FlagsOK /\ PageOK /\ FleetOK /\ RefsOK /\ SavingOK /\ TestingOK /\ FredOK

LEMMA TypeParts == TypeInv => LocoTypeOK
<1> SUFFICES ASSUME TypeInv
             PROVE  LocoTypeOK
  OBVIOUS
<1>1. vehicles \subseteq [id : Ids, dcc : Addresses] /\ existing \in Ids \cup {NoId}
      /\ saved \in Ids \cup {NoId}
  BY DEF TypeInv, RefsOK, FleetOK
<1>2. saving \in {None} \cup Savings /\ testing \in {None} \cup Testings
  BY DEF TypeInv, SavingOK, TestingOK
<1>3. QED
  BY <1>1, <1>2 DEF TypeInv, LocoTypeOK, FlagsOK, PageOK, FleetOK, Savings, Testings

(* What the constants define does not change.                              *)
LEMMA Fixed ==
    /\ Addresses' = Addresses /\ NoId' = NoId /\ NoAddress' = NoAddress /\ None' = None
    /\ Savings' = Savings /\ Testings' = Testings
  BY DEF Addresses, NoId, NoAddress, None, Savings, Testings

LEMMA CallRecords ==
    /\ None.stage = "none"
    /\ \A s \in Savings :
         /\ s.stage \in {"save", "attach"} /\ s.user \in Users /\ s.address \in Addresses
         /\ s.template \in {"none", "default", "chosen"} /\ s # None
    /\ \A s \in Savings, i \in Ids :
         LET t == [s EXCEPT !.stage = "attach", !.id = i]
         IN  /\ t \in Savings /\ t.stage = "attach" /\ t.id = i
             /\ t.user = s.user /\ t.address = s.address /\ t.template = s.template
    /\ \A s \in Testings :
         LET t == [s EXCEPT !.stage = "pulse"]
         IN  /\ s.stage \in {"roster", "pulse"} /\ s # None
             /\ t \in Testings /\ t.stage = "pulse" /\ t.id = s.id /\ t.address = s.address
<1>1. None.stage = "none"
  BY DEF None
<1>2. \A s \in Savings :
         /\ s.stage \in {"save", "attach"} /\ s.user \in Users /\ s.address \in Addresses
         /\ s.template \in {"none", "default", "chosen"} /\ s.stage # "none"
  BY DEF Savings
<1>3. ASSUME NEW s \in Savings, NEW i \in Ids
      PROVE  LET t == [s EXCEPT !.stage = "attach", !.id = i]
             IN  /\ t \in Savings /\ t.stage = "attach" /\ t.id = i
                 /\ t.user = s.user /\ t.address = s.address /\ t.template = s.template
  BY DEF Savings
<1>4. ASSUME NEW s \in Testings
      PROVE  LET t == [s EXCEPT !.stage = "pulse"]
             IN  /\ s.stage \in {"roster", "pulse"} /\ s.stage # "none"
                 /\ t \in Testings /\ t.stage = "pulse" /\ t.id = s.id /\ t.address = s.address
  BY DEF Testings
<1>5. QED
  BY <1>1, <1>2, <1>3, <1>4

-----------------------------------------------------------------------------
(* The helpers *)

LEMMA KnownAddresses == NoAddress \in Addresses /\ Typed \subseteq Addresses
  BY DEF Addresses

(* A pool offers addresses, and never "no address".                        *)
LEMMA PoolAddress ==
    ASSUME NEW u \in Users
    PROVE  /\ \A i \in DOMAIN Pool[u] : Pool[u][i] \in Addresses /\ Pool[u][i] # NoAddress
           /\ DOMAIN Pool[u] \subseteq Nat
           /\ \A a : InPool(u, a) => a \in Addresses /\ a # NoAddress
<1>1. Pool[u] \in Seq(Nat \ {NoAddress})
  BY LocoAssumption
<1>2. DOMAIN Pool[u] \subseteq Nat /\ \A i \in DOMAIN Pool[u] : Pool[u][i] # NoAddress
  BY <1>1
<1>3. \A i \in DOMAIN Pool[u] : Pool[u][i] \in Addresses
  <2> DEFINE sets == { { Pool[w][i] : i \in DOMAIN Pool[w] } : w \in Users }
  <2>1. { Pool[u][i] : i \in DOMAIN Pool[u] } \in sets
    OBVIOUS
  <2>2. UNION sets \subseteq Addresses
    BY DEF Addresses
  <2> HIDE DEF sets
  <2>3. QED
    BY <2>1, <2>2
<1>4. QED
  BY <1>2, <1>3 DEF InPool

LEMMA LeastExists ==
    ASSUME NEW S, S \subseteq Nat, S # {}
    PROVE  \E i \in S : \A j \in S : i <= j
<1>1. PICK i \in S : \A j \in S : ~(<<j, i>> \in OpToRel(<, Nat))
  BY NatLessThanWellFounded, WFMin
<1>2. \A j \in S : ~(j < i)
  BY <1>1 DEF OpToRel
<1>3. QED
  BY <1>2

(* suggestFreeAddress, for any pool and list: the address suggested is the *)
(* first of the pool that no listed vehicle has, and there is none only    *)
(* when the listed vehicles take the whole pool.                           *)
THEOREM SuggestedIsFree ==
    ASSUME NEW u \in Users, NEW list
    PROVE  LET a == SuggestFreeAddress(u, list)
           IN  /\ a \in Addresses
               /\ a # NoAddress => InPool(u, a) /\ \A v \in list : v.dcc # a
               /\ a # NoAddress => \E k \in DOMAIN Pool[u] :
                    /\ Pool[u][k] = a
                    /\ \A i \in DOMAIN Pool[u] : i < k => \E v \in list : v.dcc = Pool[u][i]
               /\ a = NoAddress => \A i \in DOMAIN Pool[u] : \E v \in list : v.dcc = Pool[u][i]
<1> DEFINE free == { i \in DOMAIN Pool[u] : \A v \in list : v.dcc # Pool[u][i] }
           a == SuggestFreeAddress(u, list)
<1>0. free \subseteq Nat
  BY PoolAddress
<1>1. CASE free = {}
  <2>1. a = NoAddress
    BY <1>1 DEF SuggestFreeAddress
  <2>2. QED
    BY <1>1, <2>1, KnownAddresses
<1>2. CASE free # {}
  <2> DEFINE k == CHOOSE i \in free : \A j \in free : i <= j
  <2>1. k \in free /\ \A j \in free : k <= j
    <3> HIDE DEF free
    <3>1. QED
      BY <1>0, <1>2, LeastExists
  <2>2. a = Pool[u][k]
    BY <1>2 DEF SuggestFreeAddress
  <2> HIDE DEF k
  <2>3. k \in DOMAIN Pool[u] /\ DOMAIN Pool[u] \subseteq Nat
    BY <2>1, PoolAddress
  <2>4. \A i \in DOMAIN Pool[u] : i < k => \E v \in list : v.dcc = Pool[u][i]
    <3> SUFFICES ASSUME NEW i \in DOMAIN Pool[u], i < k
                 PROVE  i \notin free
      OBVIOUS
    <3> HIDE DEF free
    <3>1. QED
      BY <2>1, <2>3
  <2>5. QED
    BY <2>1, <2>2, <2>3, <2>4, PoolAddress DEF InPool
<1>3. QED
  BY <1>1, <1>2

LEMMA SuggestedAddress ==
    ASSUME user \in Users, NEW a \in Addresses
    PROVE  SuggestAddress(a) \in Addresses
  BY SuggestedIsFree DEF SuggestAddress

LEMMA ListedVehicles ==
    ASSUME FleetOK, NEW u \in Users
    PROVE  \A v \in OwnedByUser(u) : v \in [id : Live, dcc : Addresses] /\ owner[v.id] = u
  BY DEF FleetOK, OwnedByUser

(* A save stores one vehicle, new or known; no other vehicle changes.      *)
LEMMA StoredParts ==
    ASSUME FleetOK, SavingOK, saving.stage = "save", NEW i \in Ids, Store(i),
           UNCHANGED <<custom, onLayout>>
    PROVE  /\ FleetOK' /\ Live' = Live \cup {i}
           /\ owner' \in [Live' -> Users] /\ dcc' \in [Live' -> Addresses]
           /\ \A k \in Live : owner'[k] = owner[k] /\ (k # i => dcc'[k] = dcc[k])
           /\ dcc'[i] = saving.address
           /\ IF saving.id = NoId
              THEN i \notin Live /\ i # NoId /\ owner'[i] = saving.user /\ created' = created + 1
              ELSE i \in Live /\ i = saving.id /\ owner'[i] = owner[i] /\ created' = created
<1>1. saving \in Savings /\ saving.id \in Live \cup {NoId}
  BY DEF SavingOK, None
<1>2. i # NoId
  BY LocoAssumption
<1>3. saving.user \in Users /\ saving.address \in Addresses
  BY <1>1 DEF Savings
<1>4. CASE saving.id = NoId
  <2>1. /\ i \notin Live
        /\ owner' = [k \in Live \cup {i} |-> IF k = i THEN saving.user ELSE owner[k]]
        /\ dcc' = [k \in Live \cup {i} |-> IF k = i THEN saving.address ELSE dcc[k]]
        /\ created' = created + 1
    BY <1>4 DEF Store
  <2>2. Live' = Live \cup {i}
    BY <2>1 DEF Live
  <2>3. owner' \in [Live' -> Users] /\ dcc' \in [Live' -> Addresses]
    BY <1>3, <2>1, <2>2 DEF FleetOK
  <2>4. QED
    BY <1>2, <1>4, <2>1, <2>2, <2>3, Fixed DEF FleetOK
<1>5. CASE saving.id # NoId
  <2>1. /\ i = saving.id /\ i \in Live /\ dcc' = [dcc EXCEPT ![i] = saving.address]
        /\ owner' = owner /\ created' = created
    BY <1>1, <1>5 DEF Store
  <2>2. Live' = Live
    BY <2>1 DEF Live
  <2>3. dcc' \in [Live' -> Addresses]
    BY <1>3, <2>1, <2>2 DEF FleetOK
  <2>4. QED
    BY <1>5, <2>1, <2>2, <2>3, Fixed DEF FleetOK
<1>6. QED
  BY <1>4, <1>5

-----------------------------------------------------------------------------
(* The types are kept *)

(* Vehicles are not lost and keep their owner; only a save changes an      *)
(* address.                                                                *)
Grows ==
    /\ FleetOK' /\ Live \subseteq Live' /\ \A k \in Live : owner'[k] = owner[k]
    /\ saving.stage # "save" => dcc' = dcc

LEMMA FleetGrows ==
    ASSUME TypeInv, Next
    PROVE  Grows
<1>0. FleetOK /\ RefsOK /\ SavingOK /\ TestingOK /\ Addresses' = Addresses
  BY Fixed DEF TypeInv
<1>1. ASSUME NEW i \in Ids, SaveDone(i)
      PROVE  Grows
  BY <1>0, <1>1, StoredParts DEF SaveDone, Grows
<1>2. CASE SaveFails
  <2>1. CASE UNCHANGED <<owner, dcc, making>>
    BY <1>0, <1>2, <2>1 DEF SaveFails, FleetOK, Grows, Live
  <2>2. ASSUME NEW i \in Ids, Store(i)
        PROVE  Grows
    BY <1>0, <1>2, <2>2, StoredParts DEF SaveFails, Grows
  <2>3. QED
    BY <1>2, <2>1, <2>2 DEF SaveFails
<1>3. CASE AttachDone \/ AttachFails
  BY <1>0, <1>3 DEF AttachDone, AttachFails, AttachAtServer, FleetOK, SavingOK, Grows, Live
<1>4. CASE RosterAnswers
  <2>1. testing.id \in Live
    BY <1>0, <1>4 DEF RosterAnswers, TestingOK, None
  <2>2. QED
    BY <1>0, <1>4, <2>1 DEF RosterAnswers, FleetOK, Grows, Live
<1>5. CASE ParticipantEdits
  BY <1>0, <1>5 DEF ParticipantEdits, FleetOK, RefsOK, Grows, Live
<1>6. CASE UNCHANGED fleet
  BY <1>0, <1>6 DEF fleet, FleetOK, Grows, Live
<1>7. QED
  BY <1>1, <1>2, <1>3, <1>4, <1>5, <1>6 DEF Next, Operator, Answers, SaveAnswers,
     ProgramAnswers, TestAnswers, PickUser, PickExisting, TypeAddress, ChooseTemplate,
     PickAddNew, DetailsNext, Save, ProgramAddress, TestF2, GoBack, LoadEnds,
     TemplatesArrive, TemplatesFail, FredAnswers, FredFails, ProgramDone, ProgramFails,
     PulseEnds

LEMMA RefsKept ==
    ASSUME TypeInv, Next
    PROVE  RefsOK'
<1>0. /\ RefsOK /\ FleetOK /\ Addresses' = Addresses /\ NoId' = NoId /\ NoId \notin Ids
      /\ Live \subseteq Live'
  BY FleetGrows, Fixed, LocoAssumption DEF TypeInv, Grows, NoId

<1>1. ASSUME NEW u \in Users, PickUser(u)
      PROVE  RefsOK'
  BY <1>1, <1>0 DEF PickUser, form, fleet, making, RefsOK
<1>2. ASSUME NEW v \in vehicles, PickExisting(v)
      PROVE  RefsOK'
  BY <1>2, <1>0 DEF PickExisting, GoToAddress, calls, fleet, making, form, RefsOK
<1>3. CASE PickAddNew
  BY <1>3, <1>0 DEF PickAddNew, form, calls, fleet, RefsOK
<1>4. CASE GoBack
  BY <1>4, <1>0 DEF GoBack, BackFromNoPool, BackFromPick, BackFromDetails,
     BackFromAddress, BackFromProgram, calls, fleet, making, RefsOK
<1>5. ASSUME NEW u \in Users, LoadEnds(u)
      PROVE  RefsOK'
  BY <1>5, <1>0, ListedVehicles DEF LoadEnds, ListArrives, NoList, form, fleet, making,
     RefsOK
<1>6. ASSUME NEW i \in Ids, SaveDone(i)
      PROVE  RefsOK'
  BY <1>6, <1>0, StoredParts DEF SaveDone, Stored, choice, form, SaveSucceeds, SaveOver,
     RefsOK, TypeInv
<1>7. CASE FredAnswers
  BY <1>7, <1>0 DEF FredAnswers, form, calls, fleet, making, RefsOK, TypeInv, FredOK,
     None
<1>8. CASE UNCHANGED <<vehicles, existing, saved>>
  BY <1>0, <1>8 DEF RefsOK
<1>9. QED
  BY <1>1, <1>2, <1>3, <1>4, <1>5, <1>6, <1>7, <1>8 DEF Next, Operator, Answers,
     SaveAnswers, ProgramAnswers, TestAnswers, choice, TypeAddress, ChooseTemplate,
     DetailsNext, Save, ProgramAddress, TestF2, TemplatesArrive, TemplatesFail, FredFails,
     SaveFails, AttachDone, AttachFails, ProgramDone, ProgramFails, RosterAnswers,
     PulseEnds, ParticipantEdits

LEMMA SavingKept ==
    ASSUME TypeInv, Next
    PROVE  SavingOK'
<1>0. /\ SavingOK /\ RefsOK /\ PageOK /\ FleetOK /\ Live \subseteq Live' /\ Live \subseteq Ids
      /\ Addresses' = Addresses /\ NoId' = NoId /\ None' = None /\ Savings' = Savings
  BY FleetGrows, Fixed DEF TypeInv, Grows, FleetOK
<1>1. CASE Save
  BY <1>1, <1>0, PoolAddress, CallRecords DEF Save, choice, form, fleet, making,
     SavingOK, Savings, RefsOK, PageOK
<1>2. ASSUME NEW i \in Ids, SaveDone(i)
      PROVE  SavingOK'
  <2>0. i \in Live'
    <3>1. saving.stage = "save" /\ Store(i) /\ UNCHANGED <<custom, onLayout>>
      BY <1>2 DEF SaveDone
    <3>2. QED
      BY <1>0, <3>1, StoredParts
  <2>1. saving \in Savings
    BY <1>2, <1>0, CallRecords DEF SaveDone, SavingOK
  <2>2. LET s == [saving EXCEPT !.stage = "attach", !.id = i]
        IN  s \in Savings /\ s.id = i /\ s.stage = "attach"
    BY <2>1, CallRecords, ZenonT(60)
  <2>3. saving' = None \/ saving' = [saving EXCEPT !.stage = "attach", !.id = i]
    BY <1>2 DEF SaveDone, Stored, SaveSucceeds, SaveOver
  <2>4. None.stage = "none"
    BY CallRecords
  <2>5. QED
    BY <1>0, <2>0, <2>2, <2>3, <2>4 DEF SavingOK
<1>3. CASE SaveFails
  BY <1>3, <1>0, CallRecords DEF SaveFails, making, SaveOver, choice, form, SavingOK
<1>4. CASE AttachDone
  BY <1>4, <1>0, CallRecords DEF AttachDone, AttachAtServer, SaveSucceeds, choice, form,
     making, SaveOver, SavingOK
<1>5. CASE AttachFails
  BY <1>5, <1>0, CallRecords DEF AttachFails, AttachAtServer, SaveOver, choice, form,
     making, SavingOK
<1>6. CASE UNCHANGED <<saving>>
  BY <1>0, <1>6 DEF SavingOK
<1>7. QED
  BY <1>1, <1>2, <1>3, <1>4, <1>5, <1>6 DEF Next, Operator, Answers, SaveAnswers,
     ProgramAnswers, TestAnswers, calls, PickUser, PickExisting, TypeAddress,
     ChooseTemplate, PickAddNew, DetailsNext, ProgramAddress, TestF2, GoBack, LoadEnds,
     TemplatesArrive, TemplatesFail, FredAnswers, FredFails, ProgramDone, ProgramFails,
     RosterAnswers, PulseEnds, ParticipantEdits

LEMMA TestingKept ==
    ASSUME TypeInv, Next
    PROVE  TestingOK'
<1>0. /\ TestingOK /\ RefsOK /\ PageOK /\ Live \subseteq Live' /\ Live \subseteq Ids
      /\ Addresses' = Addresses /\ None' = None /\ Testings' = Testings
  BY FleetGrows, Fixed DEF TypeInv, Grows, FleetOK
<1>1. CASE TestF2
  BY <1>1, <1>0 DEF TestF2, choice, form, fleet, making, TestingOK, Testings, RefsOK,
     PageOK
<1>2. CASE RosterAnswers
  <2>1. testing \in Testings /\ testing.id \in Live
    BY <1>2, <1>0, CallRecords DEF RosterAnswers, TestingOK
  <2>2. [testing EXCEPT !.stage = "pulse"] \in Testings
        /\ [testing EXCEPT !.stage = "pulse"].id = testing.id
    BY <2>1, CallRecords
  <2>3. testing' = None \/ testing' = [testing EXCEPT !.stage = "pulse"]
    BY <1>2 DEF RosterAnswers, Pulse, RosterFails
  <2>4. QED
    BY <1>0, <2>1, <2>2, <2>3 DEF TestingOK
<1>3. CASE PulseEnds
  BY <1>3, <1>0 DEF PulseEnds, choice, form, fleet, making, TestingOK
<1>4. CASE UNCHANGED <<testing>>
  BY <1>0, <1>4 DEF TestingOK
<1>5. QED
  BY <1>1, <1>2, <1>3, <1>4 DEF Next, Operator, Answers, SaveAnswers, ProgramAnswers,
     TestAnswers, calls, PickUser, PickExisting, TypeAddress, ChooseTemplate, PickAddNew,
     DetailsNext, Save, ProgramAddress, GoBack, LoadEnds, TemplatesArrive, TemplatesFail,
     FredAnswers, FredFails, SaveDone, SaveFails, AttachDone, AttachFails, ProgramDone,
     ProgramFails, ParticipantEdits

LEMMA FredKept ==
    ASSUME TypeInv, Next
    PROVE  FredOK'
<1>0. FredOK /\ Live \subseteq Live' /\ None' = None
  BY FleetGrows, Fixed DEF TypeInv, Grows
<1>1. CASE FredAnswers
  BY <1>1, <1>0 DEF FredAnswers, form, calls, fleet, making, FredOK, None
<1>2. CASE FredFails
  BY <1>2, <1>0 DEF FredFails, choice, form, calls, fleet, making, FredOK
<1>3. CASE UNCHANGED <<fred>>
  BY <1>0, <1>3 DEF FredOK
<1>4. QED
  BY <1>1, <1>2, <1>3 DEF Next, Operator, Answers, SaveAnswers, ProgramAnswers,
     TestAnswers, PickUser, PickExisting, TypeAddress, ChooseTemplate, PickAddNew,
     DetailsNext, Save, ProgramAddress, TestF2, GoBack, LoadEnds, TemplatesArrive,
     TemplatesFail, SaveDone, SaveFails, AttachDone, AttachFails, ProgramDone,
     ProgramFails, RosterAnswers, PulseEnds, ParticipantEdits

LEMMA FlagsKept ==
    ASSUME TypeInv, Next
    PROVE  FlagsOK'
<1>0. FlagsOK
  BY DEF TypeInv
<1>1. ASSUME NEW u \in Users, PickUser(u)
      PROVE  FlagsOK'
  BY <1>1, <1>0 DEF PickUser, form, fleet, making, FlagsOK
<1>2. ASSUME NEW v \in vehicles, PickExisting(v)
      PROVE  FlagsOK'
  BY <1>2, <1>0 DEF PickExisting, GoToAddress, calls, fleet, making, form, FlagsOK
<1>3. ASSUME NEW a \in Typed, TypeAddress(a)
      PROVE  FlagsOK'
  BY <1>3, <1>0 DEF TypeAddress, choice, calls, fleet, making, FlagsOK
<1>4. ASSUME NEW t \in {"none", "chosen"}, ChooseTemplate(t)
      PROVE  FlagsOK'
  BY <1>4, <1>0 DEF ChooseTemplate, choice, calls, fleet, making, FlagsOK
<1>5. CASE PickAddNew
  BY <1>5, <1>0 DEF PickAddNew, form, calls, fleet, FlagsOK
<1>6. CASE DetailsNext
  BY <1>6, <1>0 DEF DetailsNext, GoToAddress, calls, fleet, making, form, FlagsOK
<1>7. CASE Save
  BY <1>7, <1>0 DEF Save, choice, form, fleet, making, FlagsOK
<1>8. CASE ProgramAddress
  BY <1>8, <1>0 DEF ProgramAddress, choice, form, fleet, making, FlagsOK
<1>9. CASE TestF2
  BY <1>9, <1>0 DEF TestF2, choice, form, fleet, making, FlagsOK
<1>10. CASE GoBack
  BY <1>10, <1>0 DEF GoBack, BackFromNoPool, BackFromPick, BackFromDetails,
     BackFromAddress, BackFromProgram, calls, fleet, making, FlagsOK
<1>11. ASSUME NEW u \in Users, LoadEnds(u)
      PROVE  FlagsOK'
  BY <1>11, <1>0 DEF LoadEnds, ListArrives, NoList, form, fleet, making, FlagsOK
<1>12. CASE TemplatesArrive
  BY <1>12, <1>0 DEF TemplatesArrive, choice, calls, fleet, making, FlagsOK
<1>13. CASE TemplatesFail
  BY <1>13, <1>0 DEF TemplatesFail, choice, form, calls, fleet, making, FlagsOK
<1>14. CASE FredAnswers
  BY <1>14, <1>0 DEF FredAnswers, form, calls, fleet, making, FlagsOK
<1>15. CASE FredFails
  BY <1>15, <1>0 DEF FredFails, choice, form, calls, fleet, making, FlagsOK
<1>16. ASSUME NEW i \in Ids, SaveDone(i)
      PROVE  FlagsOK'
  BY <1>16, <1>0 DEF SaveDone, Stored, choice, form, SaveSucceeds, SaveOver, FlagsOK
<1>17. CASE SaveFails
  BY <1>17, <1>0 DEF SaveFails, making, SaveOver, choice, form, FlagsOK
<1>18. CASE AttachDone
  BY <1>18, <1>0 DEF AttachDone, SaveSucceeds, choice, form, making, SaveOver, FlagsOK
<1>19. CASE AttachFails
  BY <1>19, <1>0 DEF AttachFails, SaveOver, choice, form, making, FlagsOK
<1>20. CASE ProgramDone
  BY <1>20, <1>0 DEF ProgramDone, choice, form, fleet, making, FlagsOK
<1>21. CASE ProgramFails
  BY <1>21, <1>0 DEF ProgramFails, choice, form, fleet, making, FlagsOK
<1>22. CASE RosterAnswers
  BY <1>22, <1>0 DEF RosterAnswers, choice, form, making, FlagsOK
<1>23. CASE PulseEnds
  BY <1>23, <1>0 DEF PulseEnds, choice, form, fleet, making, FlagsOK
<1>24. CASE ParticipantEdits
  BY <1>24, <1>0 DEF ParticipantEdits, choice, form, calls, making, FlagsOK
<1>25. QED
  BY <1>1, <1>2, <1>3, <1>4, <1>5, <1>6, <1>7, <1>8, <1>9, <1>10, <1>11, <1>12, <1>13,
     <1>14, <1>15, <1>16, <1>17, <1>18, <1>19, <1>20, <1>21, <1>22, <1>23, <1>24 DEF Next,
     Operator, Answers, SaveAnswers, ProgramAnswers, TestAnswers

LEMMA PageKept ==
    ASSUME TypeInv, Next
    PROVE  PageOK'
<1>0. /\ PageOK /\ RefsOK /\ SavingOK /\ Addresses' = Addresses /\ NoAddress' = NoAddress
      /\ Typed \subseteq Addresses /\ NoAddress \in Addresses /\ FredOK
      /\ user # NoUser => user \in Users
  BY Fixed, KnownAddresses DEF TypeInv, PageOK
<1>1. ASSUME NEW u \in Users, PickUser(u)
      PROVE  PageOK'
  <2>1. loads' \in [Users -> 0 .. MaxLoads]
    <3>1. loads[u] < MaxLoads => loads[u] + 1 \in 0 .. MaxLoads
      BY <1>0, LocoAssumption DEF PageOK
    <3>2. QED
      BY <1>1, <1>0, <3>1 DEF PickUser, PageOK
  <2>2. QED
    BY <1>1, <1>0, <2>1 DEF PickUser, TemplateEffect, form, fleet, making, PageOK
<1>2. ASSUME NEW v \in vehicles, PickExisting(v)
      PROVE  PageOK'
  BY <1>2, <1>0, SuggestedAddress DEF PickExisting, GoToAddress, TemplateEffect, calls, fleet,
     making, form, PageOK, RefsOK
<1>3. ASSUME NEW a \in Typed, TypeAddress(a)
      PROVE  PageOK'
  BY <1>3, <1>0 DEF TypeAddress, choice, calls, fleet, making, PageOK
<1>4. ASSUME NEW t \in {"none", "chosen"}, ChooseTemplate(t)
      PROVE  PageOK'
  BY <1>4, <1>0 DEF ChooseTemplate, choice, calls, fleet, making, PageOK
<1>5. CASE PickAddNew
  BY <1>5, <1>0 DEF PickAddNew, TemplateEffect, form, calls, fleet, PageOK
<1>6. CASE DetailsNext
  BY <1>6, <1>0, SuggestedAddress DEF DetailsNext, GoToAddress, TemplateEffect, calls,
     fleet, making, form, PageOK
<1>7. CASE Save
  BY <1>7, <1>0, PoolAddress DEF Save, choice, form, fleet, making, PageOK
<1>8. CASE ProgramAddress
  BY <1>8, <1>0 DEF ProgramAddress, choice, form, fleet, making, PageOK
<1>9. CASE TestF2
  BY <1>9, <1>0 DEF TestF2, choice, form, fleet, making, PageOK
<1>10. CASE GoBack
  BY <1>10, <1>0 DEF GoBack, BackFromNoPool, BackFromPick, BackFromDetails,
     BackFromAddress, BackFromProgram, TemplateEffect, calls, fleet, making, PageOK
<1>11. ASSUME NEW u \in Users, LoadEnds(u)
      PROVE  PageOK'
  <2>1. loads' = [loads EXCEPT ![u] = loads[u] - 1] /\ loads[u] > 0 /\ loads[u] \in 0 .. MaxLoads
    BY <1>11, <1>0 DEF LoadEnds, PageOK
  <2>2. loads[u] - 1 \in 0 .. MaxLoads
    BY <2>1, LocoAssumption
  <2>3. loads' \in [Users -> 0 .. MaxLoads]
    BY <1>0, <2>1, <2>2 DEF PageOK
  <2>4. QED
    BY <1>11, <1>0, <2>3 DEF LoadEnds, ListArrives, NoList, form, fleet, making, TemplateEffect,
       PageOK
<1>12. CASE TemplatesArrive
  BY <1>12, <1>0 DEF TemplatesArrive, choice, calls, fleet, making, PageOK
<1>13. CASE TemplatesFail
  BY <1>13, <1>0 DEF TemplatesFail, choice, form, calls, fleet, making, PageOK
<1>14. CASE FredAnswers
  BY <1>14, <1>0 DEF FredAnswers, form, calls, fleet, making, PageOK, FredOK, None
<1>15. CASE FredFails
  BY <1>15, <1>0 DEF FredFails, choice, form, calls, fleet, making, PageOK
<1>16. ASSUME NEW i \in Ids, SaveDone(i)
      PROVE  PageOK'
  BY <1>16, <1>0, StoredParts DEF SaveDone, Stored, choice, TemplateEffect, form,
     SaveSucceeds, SaveOver, PageOK, TypeInv
<1>17. CASE SaveFails
  BY <1>17, <1>0, StoredParts DEF SaveFails, making, SaveOver, choice, form, PageOK,
     TypeInv
<1>18. CASE AttachDone
  BY <1>18, <1>0 DEF AttachDone, SaveSucceeds, choice, TemplateEffect, form, making,
     SaveOver, PageOK
<1>19. CASE AttachFails
  BY <1>19, <1>0 DEF AttachFails, SaveOver, choice, form, making, PageOK
<1>20. CASE ProgramDone
  BY <1>20, <1>0 DEF ProgramDone, choice, form, fleet, making, PageOK
<1>21. CASE ProgramFails
  BY <1>21, <1>0 DEF ProgramFails, choice, form, fleet, making, PageOK
<1>22. CASE RosterAnswers
  BY <1>22, <1>0 DEF RosterAnswers, choice, form, making, PageOK
<1>23. CASE PulseEnds
  BY <1>23, <1>0 DEF PulseEnds, choice, form, fleet, making, PageOK
<1>24. CASE ParticipantEdits
  BY <1>24, <1>0 DEF ParticipantEdits, choice, form, calls, making, PageOK
<1>25. QED
  BY <1>1, <1>2, <1>3, <1>4, <1>5, <1>6, <1>7, <1>8, <1>9, <1>10, <1>11, <1>12, <1>13,
     <1>14, <1>15, <1>16, <1>17, <1>18, <1>19, <1>20, <1>21, <1>22, <1>23, <1>24 DEF Next,
     Operator, Answers, SaveAnswers, ProgramAnswers, TestAnswers

LEMMA TypeKept ==
    ASSUME TypeInv, Next
    PROVE  TypeInv' /\ Grows
  BY FlagsKept, PageKept, FleetGrows, RefsKept, SavingKept, TestingKept, FredKept
     DEF TypeInv, Grows

LEMMA TypeInit == Init => TypeInv
<1> SUFFICES ASSUME Init
             PROVE  TypeInv
  OBVIOUS
<1>1. PICK f \in Fleets : /\ owner = [i \in DOMAIN f |-> f[i].owner]
                          /\ dcc = [i \in DOMAIN f |-> f[i].dcc]
                          /\ custom = DOMAIN f
  BY DEF Init, PageInit
<1>2. /\ DOMAIN f \subseteq Ids /\ f \in [DOMAIN f -> [owner : Users, dcc : Nat]]
  BY LocoAssumption
<1>3. \A i \in DOMAIN f : f[i].owner \in Users /\ f[i].dcc \in Addresses
  <2>1. \A i \in DOMAIN f : f[i].owner \in Users
    BY <1>2
  <2>2. \A i \in DOMAIN f : f[i].dcc \in Addresses
    <3> DEFINE sets == { { g[i].dcc : i \in DOMAIN g } : g \in Fleets }
    <3>1. { f[i].dcc : i \in DOMAIN f } \in sets
      OBVIOUS
    <3> DEFINE pools == UNION { { Pool[u][i] : i \in DOMAIN Pool[u] } : u \in Users }
    <3>2. Addresses = {NoAddress} \cup Typed \cup pools \cup UNION sets
      BY DEF Addresses
    <3> HIDE DEF sets, pools
    <3>3. QED
      BY <3>1, <3>2
  <2>3. QED
    BY <2>1, <2>2
<1>4. Live = DOMAIN f /\ FleetOK
  BY <1>1, <1>2, <1>3 DEF FleetOK, Live, Init, PageInit
<1>5. FlagsOK
  BY DEF Init, PageInit, FlagsOK
<1>6. loads \in [Users -> 0 .. MaxLoads] /\ 0 \in Nat
  BY LocoAssumption DEF Init, PageInit
<1>7. PageOK
  <2>1. address \in Addresses
    <3>1. \A i \in Live : dcc[i] \in Addresses
      BY <1>4 DEF FleetOK
    <3>2. Typed \subseteq Addresses /\ NoAddress \in Addresses
      BY KnownAddresses
    <3>3. QED
      BY <3>1, <3>2 DEF Init
  <2>2. QED
    BY <1>6, <2>1, KnownAddresses DEF Init, PageInit, PageOK
<1>8. RefsOK /\ SavingOK /\ TestingOK
  BY CallRecords DEF Init, PageInit, RefsOK, SavingOK, TestingOK
<1>9. FredOK
  <2>1. CASE fred = None \/ fred = [stage |-> "done"]
    BY <2>1 DEF FredOK
  <2>2. ASSUME NEW i \in Live, fred = [stage |-> "users", login |-> owner[i], id |-> i]
        PROVE  FredOK
    BY <1>4, <2>2 DEF FredOK, FleetOK
  <2>3. QED
    BY <2>1, <2>2 DEF Init
<1>10. QED
  BY <1>4, <1>5, <1>7, <1>8, <1>9 DEF TypeInv

-----------------------------------------------------------------------------
(* A patient operator *)

(* A page entered from the FRED page stays on its programming step.        *)
EntryInv ==
    /\ fred # None => phase = "program" /\ saving = None /\ \A u \in Users : ~(loads[u] > 0)
    /\ fred.stage \in {"users", "vehicles"} => dcc[fred.id] = address
    /\ fred = None /\ phase = "program" => saved # NoId

(* A call in flight was made for what the page still shows.                *)
CallsInv ==
    /\ \A u \in Users : loads[u] > 0 => /\ loads[u] = 1 /\ phase = "user" /\ u = user /\ busy
                                        /\ existing = NoId /\ saved = NoId
    /\ saving # None =>
         /\ phase = "address" /\ busy /\ saving.user = user /\ saving.address = address
         /\ saving.id = IF saved # NoId THEN saved ELSE existing
         /\ saving.stage = "attach" => saved # NoId /\ dcc[saved] = address
    /\ setting # NoAddress => phase = "program" /\ busy /\ setting = address /\ ~programmed
    /\ testing # None =>
         /\ phase = "program" /\ programmed /\ testing.address = address
         /\ dcc[testing.id] = address
         /\ testing.stage = "pulse" => testing.id \in onLayout

(* What the programming step shows is what is stored, and then programmed. *)
ShownInv ==
    /\ programmed => phase = "program" /\ decoder = address
    /\ phase = "program" /\ saved # NoId => dcc[saved] = address

OwnInv ==
    fred = None /\ phase \in {"pickLoco", "details", "address", "program"} =>
      /\ \A v \in vehicles : owner[v.id] = user
      /\ existing # NoId => owner[existing] = user
      /\ saved # NoId => owner[saved] = user

(* Nothing was made yet for a new vehicle that is not saved.               *)
AddInv ==
    ~lost => /\ created <= 1
             /\ phase \in {"details", "address"} /\ existing = NoId /\ saved = NoId => created = 0

(* "Basic" is suggested, and attached, to a vehicle without functions.     *)
TemplateInv ==
    /\ catalogue = "fresh" => phase = "address" /\ existing = NoId /\ saved = NoId /\ ~templates
    /\ phase = "address" /\ template = "chosen" => templates
    /\ phase = "address" /\ template = "default" => existing = NoId /\ saved \notin custom
    /\ saving # None =>
         /\ saving.template = "chosen" => templates /\ template # "default"
         /\ saving.template = "default" => existing = NoId /\ saved \notin custom
         /\ saving.stage = "attach" => saving.template # "none"

Patient == EntryInv /\ CallsInv /\ ShownInv /\ OwnInv /\ AddInv /\ TemplateInv

(* The answer to a save: the vehicle shown is stored, and is remembered.   *)
LEMMA SaveDoneParts ==
    ASSUME TypeInv, Patient, NEW i \in Ids, SaveDone(i)
    PROVE  /\ fred = None /\ phase = "address" /\ saving # None
           /\ saved' = i /\ i # NoId /\ i \in Live'
           /\ UNCHANGED <<user, vehicles, existing, address, template, templates, loads>>
           /\ UNCHANGED <<setting, testing, fred, custom, onLayout, decoder, lost>>
           /\ dcc'[i] = address /\ owner'[i] = user
           /\ IF saving.id = NoId
              THEN existing = NoId /\ saved = NoId /\ i \notin Live /\ created' = created + 1
              ELSE created' = created /\ i = saving.id
           /\ \/ /\ saving.template = "none" /\ saving' = None
                 /\ phase' = "program" /\ busy' = FALSE /\ programmed' = FALSE
                 /\ catalogue' = "off"
              \/ /\ saving' # None /\ saving'.stage = "attach" /\ saving'.id = i
                 /\ saving'.user = user /\ saving'.address = address
                 /\ saving'.template = saving.template /\ saving.template # "none"
                 /\ UNCHANGED <<phase, busy, programmed>> /\ catalogue' = "known"
<1>1. saving.stage = "save" /\ Store(i) /\ UNCHANGED <<custom, onLayout>>
  BY DEF SaveDone
<1>2. saving # None /\ saving \in Savings /\ FleetOK /\ SavingOK /\ RefsOK /\ i # NoId
  BY <1>1, CallRecords, LocoAssumption DEF TypeInv, SavingOK
<1>3. /\ fred = None /\ phase = "address" /\ saving.user = user /\ saving.address = address
      /\ saving.id = IF saved # NoId THEN saved ELSE existing
  BY <1>2 DEF Patient, EntryInv, CallsInv
<1>4. /\ dcc'[i] = address /\ i \in Live'
      /\ IF saving.id = NoId
         THEN i \notin Live /\ owner'[i] = user /\ created' = created + 1
         ELSE i = saving.id /\ owner'[i] = owner[i] /\ created' = created
  BY <1>1, <1>2, <1>3, StoredParts
<1>5. owner'[i] = user
  BY <1>3, <1>4 DEF Patient, OwnInv
<1>6. LET s == [saving EXCEPT !.stage = "attach", !.id = i]
      IN  s # None /\ s.stage = "attach" /\ s.id = i /\ s.user = user /\ s.address = address
          /\ s.template = saving.template
  <2> DEFINE s == [saving EXCEPT !.stage = "attach", !.id = i]
  <2>1. /\ s \in Savings /\ s.stage = "attach" /\ s.id = i
        /\ s.user = saving.user /\ s.address = saving.address /\ s.template = saving.template
    BY <1>2, CallRecords, ZenonT(60)
  <2> HIDE DEF s
  <2>2. s # None
    BY <2>1, CallRecords
  <2>3. QED
    BY <1>3, <2>1, <2>2 DEF s
<1>7. saved' = i /\ UNCHANGED <<user, vehicles, existing, address, template, templates, loads>>
      /\ UNCHANGED <<setting, testing, fred, custom, onLayout, decoder, lost>>
  BY DEF SaveDone, Stored, choice, form
<1>8. CASE saving.template = "none"
  BY <1>2, <1>3, <1>4, <1>5, <1>7, <1>8
     DEF SaveDone, Stored, SaveSucceeds, SaveOver, TemplateEffect
<1>9. CASE saving.template # "none"
  <2>1. /\ saving' = [saving EXCEPT !.stage = "attach", !.id = i]
        /\ UNCHANGED <<phase, busy, programmed>>
        /\ catalogue' = "known"
    BY <1>2, <1>3, <1>7, <1>9, Fixed DEF SaveDone, Stored, TemplateEffect
  <2>2. QED
    BY <1>2, <1>3, <1>4, <1>5, <1>6, <1>7, <1>9, <2>1
<1>10. QED
  BY <1>8, <1>9

(* A save that fails may have stored the vehicle.                          *)
LEMMA SaveFailsParts ==
    ASSUME TypeInv, Patient, SaveFails
    PROVE  /\ fred = None /\ phase = "address" /\ saving # None /\ saving' = None
           /\ UNCHANGED <<phase, user, vehicles, existing, saved>>
           /\ \/ UNCHANGED <<created, lost>>
              \/ saving.id = NoId /\ lost' = TRUE
<1>1. saving # None /\ saving' = None /\ saving.stage = "save"
      /\ UNCHANGED <<phase, user, vehicles, existing, saved, custom, onLayout>>
  BY CallRecords DEF SaveFails, SaveOver, choice
<1>2. CASE UNCHANGED <<owner, dcc, making>>
  BY <1>1, <1>2 DEF Patient, EntryInv, CallsInv, making
<1>3. CASE (\E i \in Ids : Store(i)) /\ lost' = (lost \/ saving.id = NoId)
  <2>1. saving.id # NoId => created' = created
    BY <1>1, <1>3, StoredParts DEF TypeInv
  <2>2. QED
    BY <1>1, <1>3, <2>1 DEF Patient, EntryInv, CallsInv, TypeInv, FlagsOK
<1>4. QED
  BY <1>2, <1>3 DEF SaveFails

LEMMA EntryKept ==
    ASSUME ~Hurried, TypeInv, Patient, Next
    PROVE  EntryInv'
<1>0. /\ Patient /\ None.stage = "none" /\ NoId' = NoId /\ NoAddress' = NoAddress /\ None' = None
      /\ NoId \notin Live /\ FleetOK /\ Grows
  BY CallRecords, FleetGrows, Fixed, LocoAssumption DEF TypeInv, FleetOK
<1>1. ASSUME NEW u \in Users, PickUser(u)
      PROVE  EntryInv'
  BY <1>1, <1>0 DEF PickUser, TemplateEffect, form, fleet, making, Patient, EntryInv,
     CallsInv
<1>2. ASSUME NEW v \in vehicles, PickExisting(v)
      PROVE  EntryInv'
  BY <1>2, <1>0 DEF PickExisting, GoToAddress, TemplateEffect, calls, fleet, making,
     form, Patient, EntryInv, CallsInv
<1>3. ASSUME NEW a \in Typed, TypeAddress(a)
      PROVE  EntryInv'
  BY <1>3, <1>0 DEF TypeAddress, choice, calls, fleet, making, Patient, EntryInv,
     CallsInv
<1>4. ASSUME NEW t \in {"none", "chosen"}, ChooseTemplate(t)
      PROVE  EntryInv'
  BY <1>4, <1>0 DEF ChooseTemplate, choice, calls, fleet, making, Patient, EntryInv,
     CallsInv
<1>5. CASE PickAddNew
  BY <1>5, <1>0 DEF PickAddNew, TemplateEffect, form, calls, fleet, Patient, EntryInv,
     CallsInv
<1>6. CASE DetailsNext
  BY <1>6, <1>0 DEF DetailsNext, GoToAddress, TemplateEffect, calls, fleet, making,
     form, Patient, EntryInv, CallsInv
<1>7. CASE Save
  BY <1>7, <1>0 DEF Save, choice, form, fleet, making, Patient, EntryInv, CallsInv
<1>8. CASE ProgramAddress
  BY <1>8, <1>0 DEF ProgramAddress, choice, form, fleet, making, Patient, EntryInv,
     CallsInv
<1>9. CASE TestF2
  BY <1>9, <1>0 DEF TestF2, choice, form, fleet, making, Patient, EntryInv, CallsInv
<1>10. CASE GoBack
  BY <1>10, <1>0 DEF GoBack, BackFromNoPool, BackFromPick, BackFromDetails,
     BackFromAddress, BackFromProgram, TemplateEffect, calls, fleet, making, Patient,
     EntryInv, CallsInv
<1>11. ASSUME NEW u \in Users, LoadEnds(u)
      PROVE  EntryInv'
  BY <1>11, <1>0 DEF LoadEnds, ListArrives, NoList, form, fleet, making, TemplateEffect,
     Patient, EntryInv, CallsInv
<1>12. CASE TemplatesArrive
  BY <1>12, <1>0 DEF TemplatesArrive, choice, calls, fleet, making, Patient, EntryInv,
     CallsInv
<1>13. CASE TemplatesFail
  BY <1>13, <1>0 DEF TemplatesFail, choice, form, calls, fleet, making, Patient,
     EntryInv, CallsInv
<1>14. CASE FredAnswers
  <2>1. CASE fred.stage = "users"
    <3>1. fred.id \in Live /\ fred' = [fred EXCEPT !.stage = "vehicles"]
          /\ fred'.id = fred.id /\ fred'.stage = "vehicles" /\ fred # None
          /\ fred' # None
      BY <1>14, <1>0, <2>1 DEF FredAnswers, TypeInv, FredOK, None
    <3>2. QED
      BY <1>14, <1>0, <2>1, <3>1 DEF FredAnswers, calls, fleet, form, Patient, EntryInv, CallsInv
  <2>2. CASE fred.stage = "vehicles"
    <3>1. fred # None /\ fred' = [stage |-> "done"] /\ fred' # None /\ fred'.stage = "done"
      BY <1>14, <2>2 DEF FredAnswers, None
    <3>2. QED
      BY <1>14, <1>0, <2>2, <3>1 DEF FredAnswers, calls, fleet, form, Patient, EntryInv, CallsInv
  <2>3. QED
    BY <1>14, <2>1, <2>2 DEF FredAnswers
<1>15. CASE FredFails
  BY <1>15, <1>0 DEF FredFails, choice, form, calls, fleet, making, Patient, EntryInv,
     CallsInv
<1>16. ASSUME NEW i \in Ids, SaveDone(i)
      PROVE  EntryInv'
  BY <1>16, <1>0, SaveDoneParts DEF Patient, EntryInv
<1>17. CASE SaveFails
  BY <1>17, <1>0 DEF SaveFails, making, SaveOver, choice, form, Patient, EntryInv,
     CallsInv
<1>18. CASE AttachDone
  BY <1>18, <1>0 DEF AttachDone, AttachAtServer, SaveSucceeds, choice, TemplateEffect,
     form, making, SaveOver, Patient, EntryInv, CallsInv
<1>19. CASE AttachFails
  BY <1>19, <1>0 DEF AttachFails, AttachAtServer, SaveOver, choice, form, making,
     Patient, EntryInv, CallsInv
<1>20. CASE ProgramDone
  BY <1>20, <1>0 DEF ProgramDone, choice, form, fleet, making, Patient, EntryInv,
     CallsInv
<1>21. CASE ProgramFails
  BY <1>21, <1>0 DEF ProgramFails, choice, form, fleet, making, Patient, EntryInv,
     CallsInv
<1>22. CASE RosterAnswers
  BY <1>22, <1>0 DEF RosterAnswers, Pulse, RosterFails, choice, form, making, Patient,
     EntryInv, CallsInv
<1>23. CASE PulseEnds
  BY <1>23, <1>0 DEF PulseEnds, choice, form, fleet, making, Patient, EntryInv, CallsInv
<1>24. CASE ParticipantEdits
  BY <1>24, <1>0 DEF ParticipantEdits, choice, form, calls, making, Patient, EntryInv,
     CallsInv
<1>25. QED
  BY <1>1, <1>2, <1>3, <1>4, <1>5, <1>6, <1>7, <1>8, <1>9, <1>10, <1>11, <1>12, <1>13,
     <1>14, <1>15, <1>16, <1>17, <1>18, <1>19, <1>20, <1>21, <1>22, <1>23, <1>24 DEF Next,
     Operator, Answers, SaveAnswers, ProgramAnswers, TestAnswers

LEMMA CallsKept ==
    ASSUME ~Hurried, TypeInv, Patient, Next
    PROVE  CallsInv'
<1>0. /\ Patient /\ None.stage = "none" /\ NoId' = NoId /\ NoAddress' = NoAddress /\ None' = None
      /\ NoId \notin Live /\ FleetOK /\ Grows
  BY CallRecords, FleetGrows, Fixed, LocoAssumption DEF TypeInv, FleetOK
<1>1. ASSUME NEW u \in Users, PickUser(u)
      PROVE  CallsInv'
  <2>1. ~busy /\ phase = "user"
    BY <1>1 DEF PickUser
  <2>2. /\ saving = None /\ setting = NoAddress /\ testing = None
        /\ \A w \in Users : ~(loads[w] > 0)
    BY <1>0, <2>1 DEF Patient, CallsInv
  <2>3. \A w \in Users :
          loads'[w] > 0 => loads'[w] = 1 /\ w = u /\ phase' = "user" /\ busy' = TRUE
    <3>1. loads \in [Users -> 0 .. MaxLoads]
      BY DEF TypeInv, PageOK
    <3>2. loads[u] = 0
      BY <2>2, <3>1
    <3>3. QED
      BY <1>1, <2>1, <2>2, <3>1, <3>2 DEF PickUser
  <2>4. QED
    BY <1>1, <1>0, <2>2, <2>3 DEF PickUser, CallsInv
<1>2. ASSUME NEW v \in vehicles, PickExisting(v)
      PROVE  CallsInv'
  BY <1>2, <1>0 DEF PickExisting, GoToAddress, TemplateEffect, calls, fleet, making,
     form, Patient, EntryInv, CallsInv, ShownInv
<1>3. ASSUME NEW a \in Typed, TypeAddress(a)
      PROVE  CallsInv'
  BY <1>3, <1>0 DEF TypeAddress, choice, calls, fleet, making, Patient, EntryInv,
     CallsInv, ShownInv
<1>4. ASSUME NEW t \in {"none", "chosen"}, ChooseTemplate(t)
      PROVE  CallsInv'
  BY <1>4, <1>0 DEF ChooseTemplate, choice, calls, fleet, making, Patient, EntryInv,
     CallsInv, ShownInv
<1>5. CASE PickAddNew
  BY <1>5, <1>0 DEF PickAddNew, TemplateEffect, form, calls, fleet, Patient, EntryInv,
     CallsInv, ShownInv
<1>6. CASE DetailsNext
  BY <1>6, <1>0 DEF DetailsNext, GoToAddress, TemplateEffect, calls, fleet, making,
     form, Patient, EntryInv, CallsInv, ShownInv
<1>7. CASE Save
  BY <1>7, <1>0 DEF Save, choice, form, fleet, making, Patient, EntryInv, CallsInv,
     ShownInv
<1>8. CASE ProgramAddress
  BY <1>8, <1>0 DEF ProgramAddress, choice, form, fleet, making, Patient, EntryInv,
     CallsInv, ShownInv
<1>9. CASE TestF2
  BY <1>9, <1>0 DEF TestF2, choice, form, fleet, making, Patient, EntryInv, CallsInv,
     ShownInv
<1>10. CASE GoBack
  BY <1>10, <1>0 DEF GoBack, BackFromNoPool, BackFromPick, BackFromDetails,
     BackFromAddress, BackFromProgram, TemplateEffect, calls, fleet, making, Patient,
     EntryInv, CallsInv, ShownInv
<1>11. ASSUME NEW u \in Users, LoadEnds(u)
      PROVE  CallsInv'
  <2>1. phase = "user" /\ u = user /\ existing = NoId /\ saved = NoId
    BY <1>11, <1>0 DEF LoadEnds, Patient, CallsInv
  <2>2. \A w \in Users : ~(loads'[w] > 0)
    <3>1. \A w \in Users : w # u => ~(loads[w] > 0)
      BY <1>0, <2>1 DEF Patient, CallsInv
    <3>2. loads' = [loads EXCEPT ![u] = loads[u] - 1] /\ loads[u] = 1
      BY <1>11, <1>0 DEF LoadEnds, Patient, CallsInv
    <3>3. loads' = [loads EXCEPT ![u] = 0] /\ loads \in [Users -> 0 .. MaxLoads]
      BY <3>2 DEF TypeInv, PageOK
    <3>4. QED
      BY <3>1, <3>3
  <2>3. QED
    BY <1>11, <1>0, <2>1, <2>2 DEF LoadEnds, form, fleet, making, Patient, CallsInv
<1>12. CASE TemplatesArrive
  BY <1>12, <1>0 DEF TemplatesArrive, choice, calls, fleet, making, Patient, EntryInv,
     CallsInv, ShownInv
<1>13. CASE TemplatesFail
  BY <1>13, <1>0 DEF TemplatesFail, choice, form, calls, fleet, making, Patient,
     EntryInv, CallsInv, ShownInv
<1>14. CASE FredAnswers
  BY <1>14, <1>0 DEF FredAnswers, form, calls, fleet, making, Patient, EntryInv,
     CallsInv, ShownInv
<1>15. CASE FredFails
  BY <1>15, <1>0 DEF FredFails, choice, form, calls, fleet, making, Patient, EntryInv,
     CallsInv, ShownInv
<1>16. ASSUME NEW i \in Ids, SaveDone(i)
      PROVE  CallsInv'
  BY <1>16, <1>0, SaveDoneParts DEF Patient, EntryInv, CallsInv, CallsInv
<1>17. CASE SaveFails
  BY <1>17, <1>0 DEF SaveFails, making, SaveOver, choice, form, Patient, EntryInv,
     CallsInv, ShownInv
<1>18. CASE AttachDone
  BY <1>18, <1>0 DEF AttachDone, AttachAtServer, SaveSucceeds, choice, TemplateEffect,
     form, making, SaveOver, Patient, EntryInv, CallsInv, ShownInv
<1>19. CASE AttachFails
  BY <1>19, <1>0 DEF AttachFails, AttachAtServer, SaveOver, choice, form, making,
     Patient, EntryInv, CallsInv, ShownInv
<1>20. CASE ProgramDone
  BY <1>20, <1>0 DEF ProgramDone, choice, form, fleet, making, Patient, EntryInv,
     CallsInv, ShownInv
<1>21. CASE ProgramFails
  BY <1>21, <1>0 DEF ProgramFails, choice, form, fleet, making, Patient, EntryInv,
     CallsInv, ShownInv
<1>22. CASE RosterAnswers
  <2>1. testing \in Testings /\ testing # None
    BY <1>22, <1>0 DEF RosterAnswers, TypeInv, TestingOK
  <2>2. /\ [testing EXCEPT !.stage = "pulse"].id = testing.id
        /\ [testing EXCEPT !.stage = "pulse"].address = testing.address
    BY <2>1, CallRecords
  <2>3. \/ testing' = None
        \/ /\ testing' = [testing EXCEPT !.stage = "pulse"]
           /\ testing.id \in onLayout'
    BY <1>22 DEF RosterAnswers, Pulse, RosterFails
  <2>4. QED
    BY <1>22, <1>0, <2>1, <2>2, <2>3 DEF RosterAnswers, choice, form, making, Patient, CallsInv
<1>23. CASE PulseEnds
  BY <1>23, <1>0 DEF PulseEnds, choice, form, fleet, making, Patient, EntryInv,
     CallsInv, ShownInv
<1>24. CASE ParticipantEdits
  BY <1>24, <1>0 DEF ParticipantEdits, choice, form, calls, making, Patient, EntryInv,
     CallsInv, ShownInv
<1>25. QED
  BY <1>1, <1>2, <1>3, <1>4, <1>5, <1>6, <1>7, <1>8, <1>9, <1>10, <1>11, <1>12, <1>13,
     <1>14, <1>15, <1>16, <1>17, <1>18, <1>19, <1>20, <1>21, <1>22, <1>23, <1>24 DEF Next,
     Operator, Answers, SaveAnswers, ProgramAnswers, TestAnswers

LEMMA ShownKept ==
    ASSUME ~Hurried, TypeInv, Patient, Next
    PROVE  ShownInv'
<1>0. /\ Patient /\ None.stage = "none" /\ NoId' = NoId /\ NoAddress' = NoAddress /\ None' = None
      /\ NoId \notin Live /\ FleetOK /\ Grows
  BY CallRecords, FleetGrows, Fixed, LocoAssumption DEF TypeInv, FleetOK
<1>1. ASSUME NEW u \in Users, PickUser(u)
      PROVE  ShownInv'
  BY <1>1, <1>0 DEF PickUser, TemplateEffect, form, fleet, making, Patient, EntryInv,
     CallsInv, ShownInv
<1>2. ASSUME NEW v \in vehicles, PickExisting(v)
      PROVE  ShownInv'
  BY <1>2, <1>0 DEF PickExisting, GoToAddress, TemplateEffect, calls, fleet, making,
     form, Patient, EntryInv, CallsInv, ShownInv
<1>3. ASSUME NEW a \in Typed, TypeAddress(a)
      PROVE  ShownInv'
  BY <1>3, <1>0 DEF TypeAddress, choice, calls, fleet, making, Patient, EntryInv,
     CallsInv, ShownInv
<1>4. ASSUME NEW t \in {"none", "chosen"}, ChooseTemplate(t)
      PROVE  ShownInv'
  BY <1>4, <1>0 DEF ChooseTemplate, choice, calls, fleet, making, Patient, EntryInv,
     CallsInv, ShownInv
<1>5. CASE PickAddNew
  BY <1>5, <1>0 DEF PickAddNew, TemplateEffect, form, calls, fleet, Patient, EntryInv,
     CallsInv, ShownInv
<1>6. CASE DetailsNext
  BY <1>6, <1>0 DEF DetailsNext, GoToAddress, TemplateEffect, calls, fleet, making,
     form, Patient, EntryInv, CallsInv, ShownInv
<1>7. CASE Save
  BY <1>7, <1>0 DEF Save, choice, form, fleet, making, Patient, EntryInv, CallsInv,
     ShownInv
<1>8. CASE ProgramAddress
  BY <1>8, <1>0 DEF ProgramAddress, choice, form, fleet, making, Patient, EntryInv,
     CallsInv, ShownInv
<1>9. CASE TestF2
  BY <1>9, <1>0 DEF TestF2, choice, form, fleet, making, Patient, EntryInv, CallsInv,
     ShownInv
<1>10. CASE GoBack
  BY <1>10, <1>0 DEF GoBack, BackFromNoPool, BackFromPick, BackFromDetails,
     BackFromAddress, BackFromProgram, TemplateEffect, calls, fleet, making, Patient,
     EntryInv, CallsInv, ShownInv
<1>11. ASSUME NEW u \in Users, LoadEnds(u)
      PROVE  ShownInv'
  BY <1>11, <1>0 DEF LoadEnds, ListArrives, NoList, form, fleet, making, TemplateEffect,
     Patient, EntryInv, CallsInv, ShownInv
<1>12. CASE TemplatesArrive
  BY <1>12, <1>0 DEF TemplatesArrive, choice, calls, fleet, making, Patient, EntryInv,
     CallsInv, ShownInv
<1>13. CASE TemplatesFail
  BY <1>13, <1>0 DEF TemplatesFail, choice, form, calls, fleet, making, Patient,
     EntryInv, CallsInv, ShownInv
<1>14. CASE FredAnswers
  BY <1>14, <1>0 DEF FredAnswers, form, calls, fleet, making, Patient, EntryInv,
     CallsInv, ShownInv
<1>15. CASE FredFails
  BY <1>15, <1>0 DEF FredFails, choice, form, calls, fleet, making, Patient, EntryInv,
     CallsInv, ShownInv
<1>16. ASSUME NEW i \in Ids, SaveDone(i)
      PROVE  ShownInv'
  BY <1>16, <1>0, SaveDoneParts DEF Patient, ShownInv
<1>17. CASE SaveFails
  BY <1>17, <1>0 DEF SaveFails, making, SaveOver, choice, form, Patient, EntryInv,
     CallsInv, ShownInv
<1>18. CASE AttachDone
  BY <1>18, <1>0 DEF AttachDone, AttachAtServer, SaveSucceeds, choice, TemplateEffect,
     form, making, SaveOver, Patient, EntryInv, CallsInv, ShownInv
<1>19. CASE AttachFails
  BY <1>19, <1>0 DEF AttachFails, AttachAtServer, SaveOver, choice, form, making,
     Patient, EntryInv, CallsInv, ShownInv
<1>20. CASE ProgramDone
  BY <1>20, <1>0 DEF ProgramDone, choice, form, fleet, making, Patient, EntryInv,
     CallsInv, ShownInv
<1>21. CASE ProgramFails
  BY <1>21, <1>0 DEF ProgramFails, choice, form, fleet, making, Patient, EntryInv,
     CallsInv, ShownInv
<1>22. CASE RosterAnswers
  BY <1>22, <1>0 DEF RosterAnswers, Pulse, RosterFails, choice, form, making, Patient,
     EntryInv, CallsInv, ShownInv
<1>23. CASE PulseEnds
  BY <1>23, <1>0 DEF PulseEnds, choice, form, fleet, making, Patient, EntryInv,
     CallsInv, ShownInv
<1>24. CASE ParticipantEdits
  BY <1>24, <1>0 DEF ParticipantEdits, choice, form, calls, making, Patient, EntryInv,
     CallsInv, ShownInv
<1>25. QED
  BY <1>1, <1>2, <1>3, <1>4, <1>5, <1>6, <1>7, <1>8, <1>9, <1>10, <1>11, <1>12, <1>13,
     <1>14, <1>15, <1>16, <1>17, <1>18, <1>19, <1>20, <1>21, <1>22, <1>23, <1>24 DEF Next,
     Operator, Answers, SaveAnswers, ProgramAnswers, TestAnswers

LEMMA OwnKept ==
    ASSUME ~Hurried, TypeInv, Patient, Next
    PROVE  OwnInv'
<1>0. /\ Patient /\ None.stage = "none" /\ NoId' = NoId /\ NoAddress' = NoAddress /\ None' = None
      /\ NoId \notin Live /\ FleetOK /\ Grows
  BY CallRecords, FleetGrows, Fixed, LocoAssumption DEF TypeInv, FleetOK
<1>1. ASSUME NEW u \in Users, PickUser(u)
      PROVE  OwnInv'
  BY <1>1, <1>0 DEF PickUser, TemplateEffect, form, fleet, making, Patient, EntryInv,
     CallsInv, OwnInv
<1>2. ASSUME NEW v \in vehicles, PickExisting(v)
      PROVE  OwnInv'
  BY <1>2, <1>0 DEF PickExisting, GoToAddress, TemplateEffect, calls, fleet, making,
     form, Patient, EntryInv, CallsInv, OwnInv
<1>3. ASSUME NEW a \in Typed, TypeAddress(a)
      PROVE  OwnInv'
  BY <1>3, <1>0 DEF TypeAddress, choice, calls, fleet, making, Patient, EntryInv,
     CallsInv, OwnInv
<1>4. ASSUME NEW t \in {"none", "chosen"}, ChooseTemplate(t)
      PROVE  OwnInv'
  BY <1>4, <1>0 DEF ChooseTemplate, choice, calls, fleet, making, Patient, EntryInv,
     CallsInv, OwnInv
<1>5. CASE PickAddNew
  BY <1>5, <1>0 DEF PickAddNew, TemplateEffect, form, calls, fleet, Patient, EntryInv,
     CallsInv, OwnInv
<1>6. CASE DetailsNext
  BY <1>6, <1>0 DEF DetailsNext, GoToAddress, TemplateEffect, calls, fleet, making,
     form, Patient, EntryInv, CallsInv, OwnInv
<1>7. CASE Save
  BY <1>7, <1>0 DEF Save, choice, form, fleet, making, Patient, EntryInv, CallsInv,
     OwnInv
<1>8. CASE ProgramAddress
  BY <1>8, <1>0 DEF ProgramAddress, choice, form, fleet, making, Patient, EntryInv,
     CallsInv, OwnInv
<1>9. CASE TestF2
  BY <1>9, <1>0 DEF TestF2, choice, form, fleet, making, Patient, EntryInv, CallsInv,
     OwnInv
<1>10. CASE GoBack
  BY <1>10, <1>0 DEF GoBack, BackFromNoPool, BackFromPick, BackFromDetails,
     BackFromAddress, BackFromProgram, TemplateEffect, calls, fleet, making, Patient,
     EntryInv, CallsInv, OwnInv
<1>11. ASSUME NEW u \in Users, LoadEnds(u)
      PROVE  OwnInv'
  BY <1>11, <1>0, ListedVehicles DEF LoadEnds, ListArrives, NoList, form, fleet, making,
     TemplateEffect, Patient, EntryInv, CallsInv, OwnInv, TypeInv
<1>12. CASE TemplatesArrive
  BY <1>12, <1>0 DEF TemplatesArrive, choice, calls, fleet, making, Patient, EntryInv,
     CallsInv, OwnInv
<1>13. CASE TemplatesFail
  BY <1>13, <1>0 DEF TemplatesFail, choice, form, calls, fleet, making, Patient,
     EntryInv, CallsInv, OwnInv
<1>14. CASE FredAnswers
  <2>1. fred' # None
    BY <1>14 DEF FredAnswers, TypeInv, FredOK, None
  <2>2. QED
    BY <1>0, <2>1 DEF OwnInv
<1>15. CASE FredFails
  BY <1>15, <1>0 DEF FredFails, choice, form, calls, fleet, making, Patient, EntryInv,
     CallsInv, OwnInv
<1>16. ASSUME NEW i \in Ids, SaveDone(i)
      PROVE  OwnInv'
  <2>1. /\ \A v \in vehicles : v.id \in Live
        /\ existing \in Live \cup {NoId}
    BY DEF TypeInv, RefsOK
  <2>2. /\ fred = None /\ phase = "address" /\ saved' = i /\ owner'[i] = user
        /\ UNCHANGED <<user, vehicles, existing>>
    BY <1>16, SaveDoneParts
  <2>3. \A k \in Live : owner'[k] = owner[k]
    BY <1>0 DEF Grows
  <2>4. QED
    BY <1>0, <2>1, <2>2, <2>3 DEF Patient, OwnInv
<1>17. CASE SaveFails
  <2>1. /\ \A v \in vehicles : v.id \in Live
        /\ existing \in Live \cup {NoId} /\ saved \in Live \cup {NoId}
    BY DEF TypeInv, RefsOK
  <2>2. fred = None /\ phase = "address" /\ UNCHANGED <<phase, user, vehicles, existing, saved>>
    BY <1>17, SaveFailsParts
  <2>3. \A k \in Live : owner'[k] = owner[k]
    BY <1>0 DEF Grows
  <2>4. QED
    BY <1>0, <2>1, <2>2, <2>3 DEF Patient, OwnInv
<1>18. CASE AttachDone
  BY <1>18, <1>0 DEF AttachDone, AttachAtServer, SaveSucceeds, choice, TemplateEffect,
     form, making, SaveOver, Patient, EntryInv, CallsInv, OwnInv
<1>19. CASE AttachFails
  BY <1>19, <1>0 DEF AttachFails, AttachAtServer, SaveOver, choice, form, making,
     Patient, EntryInv, CallsInv, OwnInv
<1>20. CASE ProgramDone
  BY <1>20, <1>0 DEF ProgramDone, choice, form, fleet, making, Patient, EntryInv,
     CallsInv, OwnInv
<1>21. CASE ProgramFails
  BY <1>21, <1>0 DEF ProgramFails, choice, form, fleet, making, Patient, EntryInv,
     CallsInv, OwnInv
<1>22. CASE RosterAnswers
  BY <1>22, <1>0 DEF RosterAnswers, Pulse, RosterFails, choice, form, making, Patient,
     EntryInv, CallsInv, OwnInv
<1>23. CASE PulseEnds
  BY <1>23, <1>0 DEF PulseEnds, choice, form, fleet, making, Patient, EntryInv,
     CallsInv, OwnInv
<1>24. CASE ParticipantEdits
  BY <1>24, <1>0 DEF ParticipantEdits, choice, form, calls, making, Patient, EntryInv,
     CallsInv, OwnInv
<1>25. QED
  BY <1>1, <1>2, <1>3, <1>4, <1>5, <1>6, <1>7, <1>8, <1>9, <1>10, <1>11, <1>12, <1>13,
     <1>14, <1>15, <1>16, <1>17, <1>18, <1>19, <1>20, <1>21, <1>22, <1>23, <1>24 DEF Next,
     Operator, Answers, SaveAnswers, ProgramAnswers, TestAnswers

LEMMA AddKept ==
    ASSUME ~Hurried, TypeInv, Patient, Next
    PROVE  AddInv'
<1>0. /\ Patient /\ None.stage = "none" /\ NoId' = NoId /\ NoAddress' = NoAddress /\ None' = None
      /\ NoId \notin Live /\ FleetOK /\ Grows
  BY CallRecords, FleetGrows, Fixed, LocoAssumption DEF TypeInv, FleetOK
<1>1. ASSUME NEW u \in Users, PickUser(u)
      PROVE  AddInv'
  BY <1>1, <1>0 DEF PickUser, TemplateEffect, form, fleet, making, Patient, EntryInv,
     CallsInv, AddInv
<1>2. ASSUME NEW v \in vehicles, PickExisting(v)
      PROVE  AddInv'
  <2>1. existing' # NoId
    BY <1>2, <1>0 DEF PickExisting, TypeInv, RefsOK
  <2>2. QED
    BY <1>2, <1>0, <2>1 DEF PickExisting, making, Patient, AddInv
<1>3. ASSUME NEW a \in Typed, TypeAddress(a)
      PROVE  AddInv'
  BY <1>3, <1>0 DEF TypeAddress, choice, calls, fleet, making, Patient, EntryInv,
     CallsInv, AddInv
<1>4. ASSUME NEW t \in {"none", "chosen"}, ChooseTemplate(t)
      PROVE  AddInv'
  BY <1>4, <1>0 DEF ChooseTemplate, choice, calls, fleet, making, Patient, EntryInv,
     CallsInv, AddInv
<1>5. CASE PickAddNew
  BY <1>5, <1>0 DEF PickAddNew, TemplateEffect, form, calls, fleet, Patient, EntryInv,
     CallsInv, AddInv
<1>6. CASE DetailsNext
  BY <1>6, <1>0 DEF DetailsNext, GoToAddress, TemplateEffect, calls, fleet, making,
     form, Patient, EntryInv, CallsInv, AddInv
<1>7. CASE Save
  BY <1>7, <1>0 DEF Save, choice, form, fleet, making, Patient, EntryInv, CallsInv,
     AddInv
<1>8. CASE ProgramAddress
  BY <1>8, <1>0 DEF ProgramAddress, choice, form, fleet, making, Patient, EntryInv,
     CallsInv, AddInv
<1>9. CASE TestF2
  BY <1>9, <1>0 DEF TestF2, choice, form, fleet, making, Patient, EntryInv, CallsInv,
     AddInv
<1>10. CASE GoBack
  BY <1>10, <1>0 DEF GoBack, BackFromNoPool, BackFromPick, BackFromDetails,
     BackFromAddress, BackFromProgram, TemplateEffect, calls, fleet, making, Patient,
     EntryInv, CallsInv, AddInv
<1>11. ASSUME NEW u \in Users, LoadEnds(u)
      PROVE  AddInv'
  BY <1>11, <1>0 DEF LoadEnds, ListArrives, NoList, form, fleet, making, TemplateEffect,
     Patient, EntryInv, CallsInv, AddInv
<1>12. CASE TemplatesArrive
  BY <1>12, <1>0 DEF TemplatesArrive, choice, calls, fleet, making, Patient, EntryInv,
     CallsInv, AddInv
<1>13. CASE TemplatesFail
  BY <1>13, <1>0 DEF TemplatesFail, choice, form, calls, fleet, making, Patient,
     EntryInv, CallsInv, AddInv
<1>14. CASE FredAnswers
  BY <1>14, <1>0 DEF FredAnswers, form, calls, fleet, making, Patient, EntryInv,
     CallsInv, AddInv
<1>15. CASE FredFails
  BY <1>15, <1>0 DEF FredFails, choice, form, calls, fleet, making, Patient, EntryInv,
     CallsInv, AddInv
<1>16. ASSUME NEW i \in Ids, SaveDone(i)
      PROVE  AddInv'
  <2>1. saved' = i /\ i # NoId /\ UNCHANGED <<lost, existing>>
    BY <1>16, SaveDoneParts
  <2>2. \/ created' = created
        \/ phase = "address" /\ existing = NoId /\ saved = NoId /\ created' = created + 1
    BY <1>16, SaveDoneParts
  <2>3. QED
    BY <1>0, <2>1, <2>2 DEF Patient, AddInv
<1>17. CASE SaveFails
  BY <1>17, <1>0, SaveFailsParts DEF Patient, AddInv
<1>18. CASE AttachDone
  BY <1>18, <1>0 DEF AttachDone, AttachAtServer, SaveSucceeds, choice, TemplateEffect,
     form, making, SaveOver, Patient, EntryInv, CallsInv, AddInv
<1>19. CASE AttachFails
  BY <1>19, <1>0 DEF AttachFails, AttachAtServer, SaveOver, choice, form, making,
     Patient, EntryInv, CallsInv, AddInv
<1>20. CASE ProgramDone
  BY <1>20, <1>0 DEF ProgramDone, choice, form, fleet, making, Patient, EntryInv,
     CallsInv, AddInv
<1>21. CASE ProgramFails
  BY <1>21, <1>0 DEF ProgramFails, choice, form, fleet, making, Patient, EntryInv,
     CallsInv, AddInv
<1>22. CASE RosterAnswers
  BY <1>22, <1>0 DEF RosterAnswers, Pulse, RosterFails, choice, form, making, Patient,
     EntryInv, CallsInv, AddInv
<1>23. CASE PulseEnds
  BY <1>23, <1>0 DEF PulseEnds, choice, form, fleet, making, Patient, EntryInv,
     CallsInv, AddInv
<1>24. CASE ParticipantEdits
  BY <1>24, <1>0 DEF ParticipantEdits, choice, form, calls, making, Patient, EntryInv,
     CallsInv, AddInv
<1>25. QED
  BY <1>1, <1>2, <1>3, <1>4, <1>5, <1>6, <1>7, <1>8, <1>9, <1>10, <1>11, <1>12, <1>13,
     <1>14, <1>15, <1>16, <1>17, <1>18, <1>19, <1>20, <1>21, <1>22, <1>23, <1>24 DEF Next,
     Operator, Answers, SaveAnswers, ProgramAnswers, TestAnswers

LEMMA TemplateKept ==
    ASSUME ~Hurried, TypeInv, Patient, Next
    PROVE  TemplateInv'
<1>0. /\ Patient /\ None.stage = "none" /\ NoId' = NoId /\ NoAddress' = NoAddress /\ None' = None
      /\ NoId \notin Live /\ FleetOK /\ Grows
  BY CallRecords, FleetGrows, Fixed, LocoAssumption DEF TypeInv, FleetOK
<1>1. ASSUME NEW u \in Users, PickUser(u)
      PROVE  TemplateInv'
  BY <1>1, <1>0 DEF PickUser, TemplateEffect, form, fleet, making, Patient, EntryInv,
     CallsInv, TemplateInv
<1>2. ASSUME NEW v \in vehicles, PickExisting(v)
      PROVE  TemplateInv'
  BY <1>2, <1>0 DEF PickExisting, GoToAddress, TemplateEffect, calls, fleet, making,
     form, Patient, EntryInv, CallsInv, TemplateInv
<1>3. ASSUME NEW a \in Typed, TypeAddress(a)
      PROVE  TemplateInv'
  BY <1>3, <1>0 DEF TypeAddress, choice, calls, fleet, making, Patient, EntryInv,
     CallsInv, TemplateInv
<1>4. ASSUME NEW t \in {"none", "chosen"}, ChooseTemplate(t)
      PROVE  TemplateInv'
  BY <1>4, <1>0 DEF ChooseTemplate, choice, calls, fleet, making, Patient, EntryInv,
     CallsInv, TemplateInv
<1>5. CASE PickAddNew
  BY <1>5, <1>0 DEF PickAddNew, TemplateEffect, form, calls, fleet, Patient, EntryInv,
     CallsInv, TemplateInv
<1>6. CASE DetailsNext
  BY <1>6, <1>0 DEF DetailsNext, GoToAddress, TemplateEffect, calls, fleet, making,
     form, Patient, EntryInv, CallsInv, TemplateInv
<1>7. CASE Save
  BY <1>7, <1>0 DEF Save, choice, form, fleet, making, Patient, EntryInv, CallsInv,
     TemplateInv
<1>8. CASE ProgramAddress
  BY <1>8, <1>0 DEF ProgramAddress, choice, form, fleet, making, Patient, EntryInv,
     CallsInv, TemplateInv
<1>9. CASE TestF2
  BY <1>9, <1>0 DEF TestF2, choice, form, fleet, making, Patient, EntryInv, CallsInv,
     TemplateInv
<1>10. CASE GoBack
  BY <1>10, <1>0 DEF GoBack, BackFromNoPool, BackFromPick, BackFromDetails,
     BackFromAddress, BackFromProgram, TemplateEffect, calls, fleet, making, Patient,
     EntryInv, CallsInv, TemplateInv
<1>11. ASSUME NEW u \in Users, LoadEnds(u)
      PROVE  TemplateInv'
  BY <1>11, <1>0 DEF LoadEnds, ListArrives, NoList, form, fleet, making, TemplateEffect,
     Patient, EntryInv, CallsInv, TemplateInv
<1>12. CASE TemplatesArrive
  <2>1. catalogue = "fresh" => saving = None \/ saving.template # "chosen"
    BY <1>0 DEF Patient, TemplateInv
  <2>2. NoId \notin custom
    BY <1>0 DEF FleetOK
  <2>3. QED
    BY <1>12, <1>0, <2>1, <2>2 DEF TemplatesArrive, choice, calls, fleet, Patient, TemplateInv
<1>13. CASE TemplatesFail
  BY <1>13, <1>0 DEF TemplatesFail, choice, form, calls, fleet, making, Patient,
     EntryInv, CallsInv, TemplateInv
<1>14. CASE FredAnswers
  BY <1>14, <1>0 DEF FredAnswers, form, calls, fleet, making, Patient, EntryInv,
     CallsInv, TemplateInv
<1>15. CASE FredFails
  BY <1>15, <1>0 DEF FredFails, choice, form, calls, fleet, making, Patient, EntryInv,
     CallsInv, TemplateInv
<1>16. ASSUME NEW i \in Ids, SaveDone(i)
      PROVE  TemplateInv'
  <2>1. /\ saving # None /\ saved' = i /\ UNCHANGED <<template, templates, custom, existing>>
        /\ \/ saving' = None /\ phase' = "program" /\ catalogue' = "off"
           \/ /\ saving' # None /\ saving'.template = saving.template /\ saving.template # "none"
              /\ UNCHANGED phase /\ catalogue' = "known"
        /\ phase = "address"
    BY <1>16, SaveDoneParts
  <2>2. IF saving.id = NoId THEN i \notin Live /\ existing = NoId
        ELSE i = IF saved # NoId THEN saved ELSE existing
    BY <1>16, <2>1, SaveDoneParts DEF Patient, CallsInv
  <2>3. existing = NoId /\ saved \notin custom => i \notin custom
    BY <1>0, <2>2 DEF FleetOK
  <2>4. QED
    BY <1>0, <2>1, <2>3 DEF Patient, TemplateInv
<1>17. CASE SaveFails
  BY <1>17, <1>0 DEF SaveFails, making, SaveOver, choice, form, Patient, EntryInv,
     CallsInv, TemplateInv
<1>18. CASE AttachDone
  BY <1>18, <1>0 DEF AttachDone, AttachAtServer, SaveSucceeds, choice, TemplateEffect,
     form, making, SaveOver, Patient, EntryInv, CallsInv, TemplateInv
<1>19. CASE AttachFails
  BY <1>19, <1>0 DEF AttachFails, AttachAtServer, SaveOver, choice, form, making,
     Patient, EntryInv, CallsInv, TemplateInv
<1>20. CASE ProgramDone
  BY <1>20, <1>0 DEF ProgramDone, choice, form, fleet, making, Patient, EntryInv,
     CallsInv, TemplateInv
<1>21. CASE ProgramFails
  BY <1>21, <1>0 DEF ProgramFails, choice, form, fleet, making, Patient, EntryInv,
     CallsInv, TemplateInv
<1>22. CASE RosterAnswers
  BY <1>22, <1>0 DEF RosterAnswers, Pulse, RosterFails, choice, form, making, Patient,
     EntryInv, CallsInv, TemplateInv
<1>23. CASE PulseEnds
  BY <1>23, <1>0 DEF PulseEnds, choice, form, fleet, making, Patient, EntryInv,
     CallsInv, TemplateInv
<1>24. CASE ParticipantEdits
  BY <1>24, <1>0 DEF ParticipantEdits, choice, form, calls, making, Patient, EntryInv,
     CallsInv, TemplateInv
<1>25. QED
  BY <1>1, <1>2, <1>3, <1>4, <1>5, <1>6, <1>7, <1>8, <1>9, <1>10, <1>11, <1>12, <1>13,
     <1>14, <1>15, <1>16, <1>17, <1>18, <1>19, <1>20, <1>21, <1>22, <1>23, <1>24 DEF Next,
     Operator, Answers, SaveAnswers, ProgramAnswers, TestAnswers

LEMMA PatientInit == Init => Patient
<1> SUFFICES ASSUME Init
             PROVE  Patient
  OBVIOUS
<1>1. /\ vehicles = {} /\ existing = NoId /\ saved = NoId /\ template = "none" /\ ~programmed
      /\ \A u \in Users : ~(loads[u] > 0)
      /\ catalogue = "off" /\ saving = None /\ setting = NoAddress /\ testing = None
      /\ created = 0
  BY DEF Init, PageInit
<1>2. \/ phase = "user" /\ fred = None
      \/ phase = "program" /\ fred = [stage |-> "done"]
      \/ /\ phase = "program"
         /\ \E i \in Live : /\ address = dcc[i]
                            /\ fred = [stage |-> "users", login |-> owner[i], id |-> i]
  BY DEF Init
<1>3. EntryInv
  BY <1>1, <1>2 DEF EntryInv, None
<1>4. CallsInv /\ ShownInv /\ OwnInv /\ AddInv /\ TemplateInv
  BY <1>1, <1>2 DEF CallsInv, ShownInv, OwnInv, AddInv, TemplateInv
<1>5. QED
  BY <1>3, <1>4 DEF Patient

LEMMA TypeStays ==
    ASSUME TypeInv, UNCHANGED vars
    PROVE  TypeInv'
<1>1. /\ UNCHANGED <<phase, user, vehicles, existing, saved, addingNew, address, template>>
      /\ UNCHANGED <<templates, programmed, busy, loads, catalogue, fred, saving, setting>>
      /\ UNCHANGED <<testing, owner, dcc, onLayout, custom, decoder, created, lost>>
  BY DEF vars, choice, form, calls, fleet, making
<1>2. FlagsOK' /\ PageOK'
  BY <1>1, Fixed DEF TypeInv, FlagsOK, PageOK
<1>3. FleetOK' /\ RefsOK' /\ Live' = Live
  BY <1>1, Fixed DEF TypeInv, FleetOK, RefsOK, Live
<1>4. SavingOK' /\ TestingOK' /\ FredOK'
  BY <1>1, <1>3, Fixed DEF TypeInv, SavingOK, TestingOK, FredOK
<1>5. QED
  BY <1>2, <1>3, <1>4 DEF TypeInv

LEMMA PatientStays ==
    ASSUME Patient, UNCHANGED vars
    PROVE  Patient'
  BY Fixed DEF Patient, EntryInv, CallsInv, ShownInv, OwnInv, AddInv, TemplateInv,
     vars, choice, form, calls, fleet, making

-----------------------------------------------------------------------------
(* The theorems *)

LEMMA TypeAlways == Spec => []TypeInv
<1>1. TypeInv /\ [Next]_vars => TypeInv'
  BY TypeKept, TypeStays
<1>2. QED
  BY <1>1, TypeInit, PTL DEF Spec

LEMMA PatientAlways ==
    ASSUME ~Hurried
    PROVE  Spec => [](TypeInv /\ Patient)
<1>1. TypeInv /\ Patient /\ [Next]_vars => Patient'
  <2> SUFFICES ASSUME TypeInv, Patient, [Next]_vars
               PROVE  Patient'
    OBVIOUS
  <2>1. CASE Next
    BY <2>1, EntryKept, CallsKept, ShownKept, OwnKept, AddKept, TemplateKept DEF Patient
  <2>2. CASE UNCHANGED vars
    BY <2>2, PatientStays
  <2>3. QED
    BY <2>1, <2>2
<1>2. QED
  BY <1>1, PatientInit, TypeAlways, PTL DEF Spec

(* Whatever the operator does, in a hurry or not, and whichever call fails *)
(* or is late, each variable keeps its type: the page refers to vehicles   *)
(* that exist.                                                             *)
THEOREM LocoTypeCorrect == Spec => []LocoTypeOK
  BY TypeAlways, TypeParts, PTL

(* A patient operator is offered, and edits, the chosen participant's      *)
(* vehicles only.                                                          *)
THEOREM OffersOwnVehicles ==
    ASSUME ~Hurried
    PROVE  Spec => []OwnVehicles
<1>1. TypeInv /\ Patient => OwnVehicles
  BY DEF Patient, EntryInv, OwnInv, OwnVehicles
<1>2. QED
  BY <1>1, PatientAlways, PTL

(* What the page calls programmed is in the decoder, is stored in BigFred  *)
(* and is the address on the screen, for any fleet, pool and failures.     *)
THEOREM ProgrammedWasSaved ==
    ASSUME ~Hurried
    PROVE  Spec => []ProgrammedIsSaved
<1>1. TypeInv /\ Patient => ProgrammedIsSaved
  BY DEF Patient, ShownInv, ProgrammedIsSaved
<1>2. QED
  BY <1>1, PatientAlways, PTL

(* Adding a vehicle makes one, unless the answer to its creation is lost.  *)
THEOREM AddMakesOne ==
    ASSUME ~Hurried
    PROVE  Spec => []OneVehiclePerAdd
<1>1. TypeInv /\ Patient => OneVehiclePerAdd
  BY DEF Patient, AddInv, OneVehiclePerAdd
<1>2. QED
  BY <1>1, PatientAlways, PTL

(* F2 runs on the locomotive of the track, and only on the layout.         *)
THEOREM PulseIsForTheTrack ==
    ASSUME ~Hurried
    PROVE  Spec => []PulseRunsTheLoco
<1>1. TypeInv /\ Patient => PulseRunsTheLoco
  BY CallRecords DEF Patient, CallsInv, ShownInv, PulseRunsTheLoco
<1>2. QED
  BY <1>1, PatientAlways, PTL

(* No step takes a function list away that was chosen or made: "Basic" is  *)
(* attached only to a vehicle without one.                                 *)
THEOREM FunctionsStay ==
    ASSUME ~Hurried
    PROVE  Spec => FunctionsKept
<1>1. TypeInv /\ Patient /\ [Next]_vars => [custom \subseteq custom']_custom
  <2> SUFFICES ASSUME TypeInv, Patient, Next
               PROVE  custom \subseteq custom'
    BY DEF vars, fleet
  <2>1. CASE AttachDone \/ AttachFails
    <3>1. AttachAtServer \/ UNCHANGED custom
      BY <2>1 DEF AttachDone, AttachFails
    <3>2. saving.stage = "attach" /\ saving # None /\ saving \in Savings
      BY <2>1, CallRecords DEF AttachDone, AttachFails, TypeInv, SavingOK
    <3>3. saving.template \in {"default", "chosen"}
      BY <3>2, CallRecords DEF Patient, TemplateInv
    <3>4. saving.template = "default" => saving.id \notin custom
      BY <3>2 DEF Patient, CallsInv, TemplateInv
    <3>5. QED
      BY <3>1, <3>3, <3>4 DEF AttachAtServer
  <2>2. CASE ParticipantEdits
    BY <2>2 DEF ParticipantEdits
  <2>3. CASE UNCHANGED custom
    BY <2>3
  <2>4. QED
    BY <2>1, <2>2, <2>3 DEF Next, Operator, Answers, SaveAnswers, ProgramAnswers, TestAnswers,
       PickUser, PickExisting, TypeAddress, ChooseTemplate, PickAddNew, DetailsNext, Save,
       ProgramAddress, TestF2, GoBack, LoadEnds, TemplatesArrive, TemplatesFail, FredAnswers,
       FredFails, SaveDone, SaveFails, ProgramDone, ProgramFails, RosterAnswers, PulseEnds, fleet
<1>2. QED
  BY <1>1, PatientAlways, PTL DEF Spec, FunctionsKept
=============================================================================
