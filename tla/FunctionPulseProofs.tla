------------------------ MODULE FunctionPulseProofs ------------------------
(***************************************************************************)
(* Proofs about FunctionPulse for any number of requests, keys and any     *)
(* limit of the registry.                                                  *)
(*                                                                         *)
(* Mutual exclusion per key rests on semaphores: no two keys share one,    *)
(* a request's semaphore is its key's, and who holds a permit has put it   *)
(* in `taken` (Sems).                                                      *)
(***************************************************************************)
EXTENDS FunctionPulse, FiniteSetTheorems, TLAPS

Sems ==
    /\ \A k \in Keys : registry[k] < fresh
    /\ \A k1, k2 \in Keys : registry[k1] # 0 /\ registry[k1] = registry[k2] => k1 = k2
    /\ \A r \in Requests : pc[r] \in {"found", "granted", "pulsing"}
                          => registry[key[r]] = sem[r] /\ sem[r] # 0
    /\ \A r \in Requests : Holds(r) => sem[r] \in taken

Inv == PulseTypeOK /\ Sems /\ OnePulse /\ PulseLasts

LEMMA InitInv == Init => Inv
  BY DEF Init, Inv, PulseTypeOK, Sems, OnePulse, PulseLasts, Holds

(* A key gets a semaphore nobody else has, or keeps its own. *)
LEMMA LookupInv ==
    ASSUME Inv, NEW r \in Requests, Lookup(r)
    PROVE  Inv'
<1> DEFINE k == key[r]
<1>1. k \in Keys /\ registry[k] \in Nat /\ fresh \in Nat \ {0}
  BY DEF Inv, PulseTypeOK
<1>2. CASE Full(k)
  BY <1>2 DEF Lookup, Respond, Inv, PulseTypeOK, Sems, OnePulse, PulseLasts, Holds
<1>3. CASE ~Full(k)
  <2>1. /\ Intern(k)
        /\ sem' = [sem EXCEPT ![r] = registry'[k]]
        /\ pc' = [pc EXCEPT ![r] = "found"]
        /\ UNCHANGED <<resp, taken, key, on>> /\ pc[r] = "idle"
    BY <1>3 DEF Lookup
  <2>2. /\ registry' \in [Keys -> Nat] /\ fresh' \in Nat \ {0} /\ registry'[k] # 0
        /\ \A k1 \in Keys \ {k} : registry'[k1] = registry[k1]
        /\ registry[k] # 0 => registry'[k] = registry[k]
    BY <1>1, <2>1 DEF Intern, Inv, PulseTypeOK
  <2>3. \A k1 \in Keys : registry'[k1] < fresh'
    BY <1>1, <2>1 DEF Intern, Inv, PulseTypeOK, Sems
  <2>4. \A k1, k2 \in Keys : registry'[k1] # 0 /\ registry'[k1] = registry'[k2] => k1 = k2
    <3>1. CASE registry[k] # 0
      BY <2>1, <3>1 DEF Intern, Inv, Sems
    <3>2. CASE registry[k] = 0
      <4>1. registry'[k] = fresh /\ \A k1 \in Keys \ {k} : registry'[k1] # fresh
        BY <1>1, <2>1, <2>2, <3>2 DEF Intern, Inv, PulseTypeOK, Sems
      <4>2. QED
        BY <2>2, <4>1 DEF Inv, Sems
    <3>3. QED
      BY <3>1, <3>2
  <2>5. PulseTypeOK'
    BY <1>1, <2>1, <2>2 DEF Inv, PulseTypeOK
  <2>6. \A q \in Requests : pc'[q] \in {"found", "granted", "pulsing"}
                           => registry'[key'[q]] = sem'[q] /\ sem'[q] # 0
    <3> SUFFICES ASSUME NEW q \in Requests, pc'[q] \in {"found", "granted", "pulsing"}
                 PROVE  registry'[key[q]] = sem'[q] /\ sem'[q] # 0
      BY <2>1
    <3>1. CASE q = r
      BY <2>1, <2>2, <3>1 DEF Inv, PulseTypeOK
    <3>2. CASE q # r
      <4>1. pc'[q] = pc[q] /\ sem'[q] = sem[q] /\ key[q] \in Keys
        BY <2>1, <3>2 DEF Inv, PulseTypeOK
      <4>2. registry[key[q]] = sem[q] /\ sem[q] # 0
        BY <4>1 DEF Inv, Sems
      <4>3. QED
        BY <2>2, <4>1, <4>2
    <3>3. QED
      BY <3>1, <3>2
  <2>7. \A q \in Requests : Holds(q)' => Holds(q) /\ q # r
    BY <2>1 DEF Holds, Inv, PulseTypeOK
  <2>8. Sems'
    BY <2>1, <2>3, <2>4, <2>6, <2>7 DEF Sems, Inv, PulseTypeOK
  <2>9. OnePulse' /\ PulseLasts'
    BY <2>1, <2>7 DEF Inv, PulseTypeOK, OnePulse, PulseLasts
  <2>10. QED
    BY <2>5, <2>8, <2>9 DEF Inv
<1>4. QED
  BY <1>2, <1>3

LEMMA TryAcquireInv ==
    ASSUME Inv, NEW r \in Requests, TryAcquire(r)
    PROVE  Inv'
<1>1. CASE sem[r] \in taken
  <2>1. /\ pc' = [pc EXCEPT ![r] = "done"] /\ resp' = [resp EXCEPT ![r] = "busy"]
        /\ pc[r] = "found" /\ UNCHANGED <<registry, fresh, taken, key, sem, on>>
    BY <1>1 DEF TryAcquire, Respond
  <2>2. PulseTypeOK'
    BY <2>1 DEF Inv, PulseTypeOK
  <2>3. \A q \in Requests : /\ pc'[q] \in {"found", "granted", "pulsing"} => pc'[q] = pc[q]
                           /\ pc[q] = "pulsing" => pc'[q] = "pulsing"
    BY <2>1 DEF Inv, PulseTypeOK
  <2>4. Sems' /\ OnePulse' /\ PulseLasts'
    BY <2>1, <2>3 DEF Inv, Sems, OnePulse, PulseLasts, Holds
  <2>5. QED
    BY <2>2, <2>4 DEF Inv
<1>2. CASE sem[r] \notin taken
  <2>1. /\ taken' = taken \cup {sem[r]}
        /\ pc' = [pc EXCEPT ![r] = "granted"]
        /\ pc[r] = "found" /\ UNCHANGED <<registry, fresh, key, sem, resp, on>>
    BY <1>2 DEF TryAcquire
  <2>2. \A q \in Requests : Holds(q) => key[q] # key[r]
    BY <1>2, <2>1 DEF Inv, Sems, Holds
  <2>3. PulseTypeOK'
    BY <2>1 DEF Inv, PulseTypeOK
  <2>4. Sems'
    BY <2>1 DEF Inv, PulseTypeOK, Sems, Holds
  <2>5. OnePulse'
    BY <2>1, <2>2 DEF Inv, PulseTypeOK, OnePulse, Holds
  <2>6. PulseLasts'
    BY <2>1 DEF Inv, PulseTypeOK, PulseLasts
  <2>7. QED
    BY <2>3, <2>4, <2>5, <2>6 DEF Inv
<1>3. QED
  BY <1>1, <1>2

LEMMA SwitchOnInv ==
    ASSUME Inv, NEW r \in Requests, SwitchOn(r)
    PROVE  Inv'
  BY DEF SwitchOn, Inv, PulseTypeOK, Sems, OnePulse, PulseLasts, Holds

(* Whoever holds a permit keeps it when another request drops its own. *)
LEMMA EndInv ==
    ASSUME Inv, NEW r \in Requests, Holds(r), NEW answer \in {"ok", "failed", "gone"},
           Respond(r, answer), Release(r), UNCHANGED <<registry, fresh, key, sem>>,
           on' \subseteq Keys,
           \A k \in Keys \ {key[r]} : k \in on' <=> k \in on
    PROVE  Inv'
<1>1. \A q \in Requests : q # r => pc'[q] = pc[q]
  BY DEF Respond, Inv, PulseTypeOK
<1>2. \A q \in Requests : q # r /\ Holds(q) => key[q] # key[r]
  BY DEF Inv, OnePulse
<1>3. \A q \in Requests : key[q] \in Keys
  BY DEF Inv, PulseTypeOK
<1>4. \A q \in Requests : q # r /\ Holds(q) => sem[q] # sem[r]
  BY <1>2, <1>3 DEF Inv, Sems, Holds
<1>5. pc'[r] = "done" /\ taken' = taken \ {sem[r]} /\ key[r] \in Keys
  BY DEF Respond, Release, Inv, PulseTypeOK
<1>6. PulseTypeOK'
  BY <1>5 DEF Inv, PulseTypeOK, Respond
<1>7. \A q \in Requests : pc'[q] # "done" => q # r /\ pc'[q] = pc[q]
  BY <1>1, <1>5
<1>8. \A q \in Requests : Holds(q)' => q # r /\ Holds(q)
  BY <1>7 DEF Holds
<1>9. key' = key /\ sem' = sem /\ registry' = registry /\ fresh' = fresh
  OBVIOUS
<1>10. Sems'
  <2>1. \A q \in Requests : pc'[q] \in {"found", "granted", "pulsing"}
                           => registry[key[q]] = sem[q] /\ sem[q] # 0
    <3> SUFFICES ASSUME NEW q \in Requests, pc'[q] \in {"found", "granted", "pulsing"}
                 PROVE  registry[key[q]] = sem[q] /\ sem[q] # 0
      OBVIOUS
    <3>1. pc[q] \in {"found", "granted", "pulsing"}
      BY <1>7
    <3>2. QED
      BY <3>1 DEF Inv, Sems
  <2>2. \A q \in Requests : Holds(q)' => sem[q] \in taken'
    <3> SUFFICES ASSUME NEW q \in Requests, Holds(q)' PROVE sem[q] \in taken'
      OBVIOUS
    <3>1. q # r /\ Holds(q)
      BY <1>8
    <3>2. sem[q] \in taken /\ sem[q] # sem[r]
      BY <1>4, <3>1 DEF Inv, Sems
    <3>3. QED
      BY <1>5, <3>2
  <2>3. QED
    BY <1>9, <2>1, <2>2 DEF Inv, Sems
<1>11. OnePulse'
  BY <1>8, <1>9 DEF Inv, OnePulse
<1>12. PulseLasts'
  <2> SUFFICES ASSUME NEW q \in Requests, pc'[q] = "pulsing" PROVE key[q] \in on'
    BY <1>9 DEF PulseLasts
  <2>1. q # r /\ pc[q] = "pulsing"
    BY <1>7
  <2>2. Holds(q) /\ key[q] \in on
    BY <2>1 DEF Holds, Inv, PulseLasts
  <2>3. key[q] # key[r] /\ key[q] \in Keys
    BY <1>2, <1>3, <2>1, <2>2
  <2>4. QED
    BY <2>2, <2>3
<1>13. QED
  BY <1>6, <1>10, <1>11, <1>12 DEF Inv

LEMMA NextInv ==
    ASSUME Inv, [Next]_vars
    PROVE  Inv'
<1>1. ASSUME NEW r \in Requests, SwitchOff(r) PROVE Inv'
  <2>1. key[r] \in Keys /\ on \subseteq Keys
    BY DEF Inv, PulseTypeOK
  <2>2. QED
    BY <1>1, <2>1, EndInv DEF SwitchOff, Holds
<1>2. ASSUME NEW r \in Requests, SocketFails(r) \/ HangUp(r) PROVE Inv'
  <2>1. key[r] \in Keys /\ on \subseteq Keys
    BY DEF Inv, PulseTypeOK
  <2>2. PICK answer \in {"failed", "gone"} : Cut(r, answer)
    BY <1>2 DEF SocketFails, HangUp
  <2>3. Holds(r)
    BY <1>2 DEF SocketFails, HangUp, Holds
  <2>4. on' \in {on, on \cup {key[r]}, on \ {key[r]}}
    BY <2>2 DEF Cut
  <2>5. Respond(r, answer) /\ Release(r) /\ UNCHANGED <<registry, fresh, key, sem>>
    BY <2>2 DEF Cut
  <2>6. QED
    BY <2>1, <2>3, <2>4, <2>5, EndInv
<1>3. CASE UNCHANGED vars
  BY <1>3 DEF Inv, PulseTypeOK, Sems, OnePulse, PulseLasts, Holds, vars
<1>4. QED
  BY <1>1, <1>2, <1>3, LookupInv, TryAcquireInv, SwitchOnInv DEF Next

LEMMA Invariant == Spec => []Inv
<1>1. Inv /\ [Next]_vars => Inv'
  BY NextInv
<1>2. QED
  BY <1>1, InitInv, PTL DEF Spec

(* For any number of requests and keys, whatever handlers are dropped when:*)
(* a function of a locomotive has at most one pulse in flight.             *)
THEOREM PulsesExclude == Spec => []OnePulse
  BY Invariant, PTL DEF Inv

(* ... and a pulse in flight is not ended by another request's OFF.        *)
THEOREM PulsesLast == Spec => []PulseLasts
  BY Invariant, PTL DEF Inv

LEMMA RegisteredSize == IsFiniteSet(Registered) /\ Cardinality(Registered) \in Nat
<1>1. Registered \subseteq Keys
  BY DEF Registered
<1>2. IsFiniteSet(Registered)
  BY <1>1, FS_Subset, PulseAssumption
<1>3. QED
  BY <1>2, FS_CardinalityType

(* The registry is finite, so that a new key adds at most one to its size. *)
LEMMA LimitKept ==
    ASSUME Inv, Cardinality(Registered) <= Cap, [Next]_vars
    PROVE  (Cardinality(Registered) <= Cap)'
<1> DEFINE Size == Cardinality(Registered)
<1>1. IsFiniteSet(Registered) /\ Size \in Nat
  BY RegisteredSize
<1>2. ASSUME NEW r \in Requests, Lookup(r), ~Full(key[r]), registry[key[r]] = 0
      PROVE  (Cardinality(Registered) <= Cap)'
  <2>1. key[r] \in Keys /\ registry \in [Keys -> Nat] /\ fresh \in Nat \ {0}
    BY DEF Inv, PulseTypeOK
  <2>2. registry' = [registry EXCEPT ![key[r]] = fresh]
    BY <1>2 DEF Lookup, Intern
  <2>3. Registered' = Registered \cup {key[r]} /\ key[r] \notin Registered
    BY <1>2, <2>1, <2>2 DEF Registered
  <2>4. Cardinality(Registered') = Size + 1
    BY <1>1, <2>3, FS_AddElement
  <2>5. Size < Cap
    BY <1>1, <1>2, PulseAssumption DEF Full
  <2>6. QED
    BY <1>1, <2>4, <2>5, PulseAssumption
<1>3. ASSUME registry' = registry
      PROVE  (Cardinality(Registered) <= Cap)'
  BY <1>3 DEF Registered
<1>4. ASSUME NEW r \in Requests, Lookup(r) PROVE (Cardinality(Registered) <= Cap)'
  <2>1. CASE ~Full(key[r]) /\ registry[key[r]] = 0
    BY <1>2, <1>4, <2>1
  <2>2. CASE Full(key[r]) \/ registry[key[r]] # 0
    <3>1. registry' = registry
      BY <1>4, <2>2 DEF Lookup, Intern, Full
    <3>2. QED
      BY <1>3, <3>1
  <2>3. QED
    BY <2>1, <2>2
<1>5. ASSUME NEW r \in Requests,
             TryAcquire(r) \/ SwitchOn(r) \/ SwitchOff(r) \/ SocketFails(r) \/ HangUp(r)
      PROVE  registry' = registry
  BY <1>5 DEF TryAcquire, SwitchOn, SwitchOff, SocketFails, HangUp, Cut
<1>6. CASE UNCHANGED vars
  BY <1>3, <1>6 DEF vars
<1>7. QED
  BY <1>3, <1>4, <1>5, <1>6 DEF Next

(* The registry keeps to its limit (PULSE_LOCK_REGISTRY_CAP), and a        *)
(* request uses the semaphore its key is registered with, however many     *)
(* requests registered keys since it looked its own up.                    *)
RegistryBounded ==
    /\ Cardinality(Registered) <= Cap
    /\ \A r \in Requests : pc[r] \in {"found", "granted", "pulsing"} => registry[key[r]] = sem[r]

(* The registry never grows past its limit, and a request's semaphore is   *)
(* the one its key is registered with.                                     *)
THEOREM RegistryKeepsToLimit == Spec => []RegistryBounded
<1>1. Init => Cardinality(Registered) <= Cap
  <2> SUFFICES ASSUME Init PROVE Cardinality(Registered) <= Cap
    OBVIOUS
  <2>1. Registered = {}
    BY DEF Init, Registered
  <2>2. QED
    BY <2>1, FS_EmptySet, PulseAssumption
<1>2. Inv /\ Cardinality(Registered) <= Cap /\ [Next]_vars => (Cardinality(Registered) <= Cap)'
  BY LimitKept
<1>3. Spec => []Inv
  BY Invariant
<1>4. Inv /\ Cardinality(Registered) <= Cap => RegistryBounded
  BY DEF Inv, Sems, RegistryBounded
<1>5. QED
  BY <1>1, <1>2, <1>3, <1>4, PTL DEF Spec

-----------------------------------------------------------------------------
(* The slot per function *)

(* A permit that is out is held, and nobody is answered twice. *)
Taken == \A s \in taken : \E r \in Requests : Holds(r) /\ sem[r] = s
Unanswered == \A r \in Requests : pc[r] # "done" => resp[r] = "none"
SlotInv == Inv /\ Cardinality(Registered) <= Cap /\ Taken /\ Unanswered

LEMMA TakenKept ==
    ASSUME Inv, Taken, [Next]_vars
    PROVE  Taken'
<1>1. ASSUME NEW r \in Requests, Lookup(r) PROVE Taken'
  <2>1. pc[r] = "idle" /\ taken' = taken
    BY <1>1 DEF Lookup
  <2>2. \A q \in Requests : Holds(q) => q # r
    BY <2>1 DEF Holds
  <2>3. \A q \in Requests : q # r => pc'[q] = pc[q] /\ sem'[q] = sem[q]
    BY <1>1 DEF Lookup, Respond, Inv, PulseTypeOK
  <2>4. QED
    BY <2>1, <2>2, <2>3 DEF Taken, Holds
<1>2. ASSUME NEW r \in Requests, TryAcquire(r) PROVE Taken'
  <2>1. pc[r] = "found" /\ sem' = sem
    BY <1>2 DEF TryAcquire
  <2>2. \A q \in Requests : Holds(q) => pc'[q] = pc[q]
    BY <1>2, <2>1 DEF TryAcquire, Respond, Holds, Inv, PulseTypeOK
  <2>3. taken' = taken \/ (taken' = taken \cup {sem[r]} /\ pc'[r] = "granted")
    BY <1>2 DEF TryAcquire, Inv, PulseTypeOK
  <2>4. \A s \in taken : \E q \in Requests : Holds(q)' /\ sem'[q] = s
    BY <2>1, <2>2 DEF Taken, Holds
  <2>5. QED
    BY <2>1, <2>3, <2>4 DEF Taken, Holds
<1>3. ASSUME NEW r \in Requests, SwitchOn(r) PROVE Taken'
  <2>1. taken' = taken /\ sem' = sem
    BY <1>3 DEF SwitchOn
  <2>2. \A q \in Requests : Holds(q) => Holds(q)'
    BY <1>3 DEF SwitchOn, Holds, Inv, PulseTypeOK
  <2>3. QED
    BY <2>1, <2>2 DEF Taken
<1>4. ASSUME NEW r \in Requests, SwitchOff(r) \/ SocketFails(r) \/ HangUp(r) PROVE Taken'
  <2>1. taken' = taken \ {sem[r]} /\ sem' = sem
    BY <1>4 DEF SwitchOff, SocketFails, HangUp, Cut, Release
  <2>2. \A q \in Requests : q # r => pc'[q] = pc[q]
    BY <1>4 DEF SwitchOff, SocketFails, HangUp, Cut, Respond, Inv, PulseTypeOK
  <2>3. QED
    BY <2>1, <2>2 DEF Taken, Holds
<1>5. CASE UNCHANGED vars
  BY <1>5 DEF Taken, Holds, vars
<1>6. QED
  BY <1>1, <1>2, <1>3, <1>4, <1>5 DEF Next

LEMMA UnansweredKept ==
    ASSUME Inv, Unanswered, [Next]_vars
    PROVE  Unanswered'
<1>1. CASE UNCHANGED vars
  BY <1>1 DEF Unanswered, vars
<1>2. ASSUME NEW r \in Requests,
             \/ Lookup(r) \/ TryAcquire(r) \/ SwitchOn(r)
             \/ SwitchOff(r) \/ SocketFails(r) \/ HangUp(r)
      PROVE  Unanswered'
  <2>1. \A q \in Requests : q # r => pc'[q] = pc[q] /\ resp'[q] = resp[q]
    BY <1>2 DEF Lookup, TryAcquire, SwitchOn, SwitchOff, SocketFails, HangUp, Cut, Respond,
                Inv, PulseTypeOK
  <2>2. pc[r] # "done" /\ (pc'[r] = "done" \/ resp' = resp)
    BY <1>2 DEF Lookup, TryAcquire, SwitchOn, SwitchOff, SocketFails, HangUp, Cut, Respond,
                Inv, PulseTypeOK
  <2>3. QED
    BY <2>1, <2>2 DEF Unanswered
<1>3. QED
  BY <1>1, <1>2 DEF Next

(* The slot of a function while a request has it, and while nobody has. *)
LEMMA SlotOfHolder ==
    ASSUME Inv, NEW r \in Requests, Holds(r)
    PROVE  Holders[key[r]] = {r}
<1>1. key[r] \in Keys
  BY DEF Inv, PulseTypeOK
<1>2. QED
  BY <1>1 DEF Holders, Inv, OnePulse

(* Only the holders of one function change in a step of one request. *)
LEMMA SlotOfOne ==
    ASSUME Inv, NEW r \in Requests, NEW S, key' = key,
           \A q \in Requests : q # r => pc'[q] = pc[q],
           { q \in Requests : Holds(q)' /\ key[q] = key[r] } = S
    PROVE  Holders' = [Holders EXCEPT ![key[r]] = S]
<1>1. \A k \in Keys \ {key[r]} : Holders'[k] = Holders[k]
  BY DEF Holders, Holds
<1>2. key[r] \in Keys /\ Holders'[key[r]] = S
  BY DEF Holders, Inv, PulseTypeOK
<1>3. QED
  BY <1>1, <1>2 DEF Holders

(* The instance counts as the module does. *)
LEMMA SlotCardinality == \A S : Slot!Cardinality(S) = Cardinality(S)
  BY DEF Cardinality, Slot!Cardinality

LEMMA LookupSlot ==
    ASSUME SlotInv, NEW r \in Requests, Lookup(r)
    PROVE  Slot!SlotNext \/ UNCHANGED Slot!slotVars
<1> DEFINE k == key[r]
<1>0. /\ key[r] \in Keys /\ registry \in [Keys -> Nat] /\ fresh \in Nat \ {0}
      /\ pc \in [Requests -> {"idle", "found", "granted", "pulsing", "done"}]
      /\ resp[r] = "none" /\ pc[r] = "idle"
  BY DEF SlotInv, Inv, PulseTypeOK, Unanswered, Lookup
<1>1. Holders' = Holders
  <2>1. \A q \in Requests : Holds(q)' <=> Holds(q)
    BY <1>0 DEF Lookup, Respond, Holds
  <2>2. QED
    BY <2>1 DEF Holders, Lookup
<1>2. CASE Full(k)
  <2>1. registry[k] = 0 /\ Cardinality(Registered) >= Cap
    BY <1>2 DEF Full
  <2>2. Cardinality(Registered) = Cap
    BY <2>1, RegisteredSize, PulseAssumption DEF SlotInv
  <2>3. k \notin Registered /\ Registered' = Registered
    BY <1>2, <2>1 DEF Registered, Lookup
  <2>4. resp' = [resp EXCEPT ![r] = "full"] /\ UNCHANGED <<key, on>>
    BY <1>2 DEF Lookup, Respond
  <2>5. Slot!Refuse(r)
    BY <1>0, <1>1, <2>2, <2>3, <2>4, SlotCardinality DEF Slot!Refuse, Slot!Answer
  <2>6. QED
    BY <2>5 DEF Slot!SlotNext
<1>3. CASE ~Full(k) /\ registry[k] = 0
  <2>1. registry' = [registry EXCEPT ![k] = fresh] /\ UNCHANGED <<key, on, resp>>
    BY <1>3 DEF Lookup, Intern
  <2>2. Registered' = Registered \cup {k} /\ k \notin Registered
    BY <1>0, <1>3, <2>1 DEF Registered
  <2>3. Cardinality(Registered) < Cap
    BY <1>3, RegisteredSize, PulseAssumption DEF Full
  <2>4. Slot!Admit(r)
    BY <1>1, <2>1, <2>2, <2>3, SlotCardinality DEF Slot!Admit
  <2>5. QED
    BY <2>4 DEF Slot!SlotNext
<1>4. CASE registry[k] # 0
  <2>1. registry' = registry /\ UNCHANGED <<key, on, resp>>
    BY <1>4 DEF Lookup, Intern, Full
  <2>2. QED
    BY <1>1, <2>1 DEF Slot!slotVars, Registered
<1>5. QED
  BY <1>2, <1>3, <1>4

LEMMA TryAcquireSlot ==
    ASSUME SlotInv, NEW r \in Requests, TryAcquire(r)
    PROVE  Slot!SlotNext
<1>0. /\ pc[r] = "found" /\ key[r] \in Keys /\ registry[key[r]] = sem[r] /\ sem[r] # 0
      /\ resp[r] = "none" /\ ~Holds(r)
      /\ pc \in [Requests -> {"idle", "found", "granted", "pulsing", "done"}]
      /\ UNCHANGED <<registry, key, on>> /\ Registered' = Registered
  BY DEF SlotInv, Inv, PulseTypeOK, Sems, Unanswered, TryAcquire, Holds, Registered
<1>1. CASE sem[r] \in taken
  <2>1. PICK q \in Requests : Holds(q) /\ sem[q] = sem[r]
    BY <1>1 DEF SlotInv, Taken
  <2>2. key[q] \in Keys /\ registry[key[q]] = sem[q]
    BY <2>1 DEF SlotInv, Inv, PulseTypeOK, Sems, Holds
  <2>3. key[q] = key[r]
    BY <1>0, <2>1, <2>2 DEF SlotInv, Inv, Sems
  <2>4. Holders[key[r]] # {}
    BY <2>1, <2>3, SlotOfHolder DEF SlotInv
  <2>5. resp' = [resp EXCEPT ![r] = "busy"] /\ pc' = [pc EXCEPT ![r] = "done"]
    BY <1>1 DEF TryAcquire, Respond
  <2>6. \A q1 \in Requests : Holds(q1)' <=> Holds(q1)
    BY <1>0, <2>5 DEF Holds
  <2>7. Holders' = Holders
    BY <1>0, <2>6 DEF Holders
  <2>8. Slot!Refuse(r)
    BY <1>0, <2>4, <2>5, <2>7 DEF Slot!Refuse, Slot!Answer
  <2>9. QED
    BY <2>8 DEF Slot!SlotNext
<1>2. CASE sem[r] \notin taken
  <2>1. pc' = [pc EXCEPT ![r] = "granted"] /\ UNCHANGED resp
    BY <1>2 DEF TryAcquire
  <2>2. \A q \in Requests : Holds(q) => key[q] # key[r]
    BY <1>0, <1>2 DEF SlotInv, Inv, Sems, Holds
  <2>3. Holders[key[r]] = {}
    BY <1>0, <2>2 DEF Holders
  <2>4. Holds(r)' /\ \A q \in Requests : q # r => pc'[q] = pc[q]
    BY <1>0, <2>1 DEF Holds
  <2>5. { q \in Requests : Holds(q)' /\ key[q] = key[r] } = {r}
    BY <2>2, <2>4 DEF Holds
  <2>6. Holders' = [Holders EXCEPT ![key[r]] = {r}]
    BY <1>0, <2>4, <2>5, SlotOfOne DEF SlotInv
  <2>7. key[r] \in Registered
    BY <1>0 DEF Registered
  <2>8. Slot!Take(r)
    BY <1>0, <2>1, <2>3, <2>6, <2>7 DEF Slot!Take
  <2>9. QED
    BY <2>8 DEF Slot!SlotNext
<1>3. QED
  BY <1>1, <1>2

LEMMA SwitchOnSlot ==
    ASSUME SlotInv, NEW r \in Requests, SwitchOn(r)
    PROVE  Slot!SlotNext
<1>1. Holders[key[r]] = {r}
  BY SlotOfHolder DEF SlotInv, SwitchOn, Holds
<1>2. \A q \in Requests : Holds(q)' <=> Holds(q)
  BY DEF SwitchOn, Holds, SlotInv, Inv, PulseTypeOK
<1>3. Holders' = Holders /\ Registered' = Registered
  BY <1>2 DEF Holders, Registered, SwitchOn
<1>4. Slot!Light(r)
  BY <1>1, <1>3 DEF Slot!Light, SwitchOn
<1>5. QED
  BY <1>4 DEF Slot!SlotNext

LEMMA EndSlot ==
    ASSUME SlotInv, NEW r \in Requests, SwitchOff(r) \/ SocketFails(r) \/ HangUp(r)
    PROVE  Slot!SlotNext
<1>1. Holds(r) /\ resp[r] = "none"
  BY DEF SwitchOff, SocketFails, HangUp, Holds, SlotInv, Unanswered
<1>2. /\ pc' = [pc EXCEPT ![r] = "done"] /\ UNCHANGED <<registry, key>>
      /\ \/ resp' = [resp EXCEPT ![r] = "ok"] /\ on' = on \ {key[r]}
         \/ /\ resp' = [resp EXCEPT ![r] = "failed"] \/ resp' = [resp EXCEPT ![r] = "gone"]
            /\ on' \in {on, on \cup {key[r]}, on \ {key[r]}}
  BY DEF SwitchOff, SocketFails, HangUp, Cut, Respond
<1>3. Holders[key[r]] = {r}
  BY <1>1, SlotOfHolder DEF SlotInv
<1>4. pc'[r] = "done" /\ \A q \in Requests : q # r => pc'[q] = pc[q]
  BY <1>2 DEF SlotInv, Inv, PulseTypeOK
<1>5. \A q \in Requests : Holds(q)' => q # r /\ Holds(q)
  BY <1>4 DEF Holds
<1>6. { q \in Requests : Holds(q)' /\ key[q] = key[r] } = {}
  BY <1>1, <1>5 DEF SlotInv, Inv, OnePulse
<1>7. Holders' = [Holders EXCEPT ![key[r]] = {}]
  BY <1>2, <1>4, <1>6, SlotOfOne DEF SlotInv
<1>8. Registered' = Registered
  BY <1>2 DEF Registered
<1>9. Slot!Give(r)
  BY <1>1, <1>2, <1>3, <1>7, <1>8 DEF Slot!Give, Slot!Answer
<1>10. QED
  BY <1>9 DEF Slot!SlotNext

(* The handler and its registry of semaphores implement one slot per       *)
(* function: whoever is called busy is so because the slot is taken, and   *)
(* whoever switches the function has it.  For any number of requests and   *)
(* functions, any limit, and whatever fails.                               *)
THEOREM HandlerIsSlot == Spec => SlotSpec
<1>1. Init => Slot!SlotInit /\ SlotInv
  <2> SUFFICES ASSUME Init PROVE Slot!SlotInit /\ SlotInv
    OBVIOUS
  <2>1. Registered = {} /\ \A r \in Requests : ~Holds(r)
    BY DEF Init, Registered, Holds
  <2>2. Slot!SlotInit
    BY <2>1 DEF Init, Slot!SlotInit, Holders
  <2>3. Cardinality(Registered) <= Cap
    BY <2>1, FS_EmptySet, PulseAssumption
  <2>4. Taken /\ Unanswered
    BY DEF Init, Taken, Unanswered
  <2>5. QED
    BY <2>2, <2>3, <2>4, InitInv DEF SlotInv
<1>2. SlotInv /\ [Next]_vars => SlotInv'
  BY NextInv, LimitKept, TakenKept, UnansweredKept DEF SlotInv
<1>3. SlotInv /\ [Next]_vars => [Slot!SlotNext]_(Slot!slotVars)
  <2> SUFFICES ASSUME SlotInv, [Next]_vars PROVE Slot!SlotNext \/ UNCHANGED Slot!slotVars
    OBVIOUS
  <2>1. CASE UNCHANGED vars
    BY <2>1 DEF vars, Slot!slotVars, Registered, Holders, Holds
  <2>2. QED
    BY <2>1, LookupSlot, TryAcquireSlot, SwitchOnSlot, EndSlot DEF Next
<1>4. QED
  BY <1>1, <1>2, <1>3, PTL DEF Spec, SlotSpec, Slot!SlotSpec
=============================================================================
