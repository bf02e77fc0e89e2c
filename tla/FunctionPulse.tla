--------------------------- MODULE FunctionPulse ---------------------------
(***************************************************************************)
(* function_pulse of src/src/programming_api.rs: a function of a           *)
(* locomotive is switched on, and off again after a while, by at most one  *)
(* request at a time.                                                      *)
(*                                                                         *)
(* `PulseLocks` maps each (address, function) to a semaphore of one        *)
(* permit, made on first use and never removed.  A request clones the      *)
(* semaphore under the map's lock and tries to acquire it after dropping   *)
(* that lock.  The permit goes when the handler returns or is dropped.     *)
(* The frames themselves are sent by the crate bigfred-client, inside the  *)
(* handler's future; they may fail, and the handler may be dropped between *)
(* the two.  What that crate does is taken from its use here: ON, a wait,  *)
(* and OFF.                                                                *)
(***************************************************************************)
EXTENDS Naturals, FiniteSets

CONSTANTS Requests,  \* the HTTP requests
          Keys,      \* the (address, function) pairs they name
          Cap        \* PULSE_LOCK_REGISTRY_CAP

ASSUME PulseAssumption ==
    /\ IsFiniteSet(Keys)
    /\ Cap \in Nat

VARIABLES registry, \* key -> its semaphore, 0 when it has none
          fresh,    \* the next semaphore to be made
          taken,    \* the semaphores whose permit is out
          pc, key,  \* where each request stands and what it asks for
          sem,      \* the semaphore it has cloned
          resp,     \* its response
          on        \* the functions that are switched on

vars == <<registry, fresh, taken, pc, key, sem, resp, on>>

Registered == { k \in Keys : registry[k] # 0 }

PulseTypeOK ==
    /\ registry \in [Keys -> Nat]
    /\ fresh \in Nat \ {0}
    /\ taken \subseteq Nat
    /\ pc \in [Requests -> {"idle", "found", "granted", "pulsing", "done"}]
    /\ key \in [Requests -> Keys]
    /\ sem \in [Requests -> Nat]
    /\ resp \in [Requests -> {"none", "ok", "busy", "full", "failed", "gone"}]
    /\ on \subseteq Keys

Init ==
    /\ registry = [k \in Keys |-> 0]
    /\ fresh = 1
    /\ taken = {}
    /\ pc = [r \in Requests |-> "idle"]
    /\ key \in [Requests -> Keys]
    /\ sem = [r \in Requests |-> 0]
    /\ resp = [r \in Requests |-> "none"]
    /\ on = {}

-----------------------------------------------------------------------------
Respond(r, answer) ==
    /\ pc' = [pc EXCEPT ![r] = "done"]
    /\ resp' = [resp EXCEPT ![r] = answer]

(* Faulty variant: `permit.forget()`, which leaves the semaphore empty. *)
Forget(r) == UNCHANGED taken

(* The permit of a request is dropped with its handler. *)
Release(r) == taken' = taken \ {sem[r]}

(* Faulty variant: `insert` for `entry(..).or_insert_with(..)`. *)
InternNew(k) ==
    /\ registry' = [registry EXCEPT ![k] = fresh]
    /\ fresh' = fresh + 1

(* map.entry(..).or_insert_with(..) *)
Intern(k) ==
    IF registry[k] = 0
    THEN registry' = [registry EXCEPT ![k] = fresh] /\ fresh' = fresh + 1
    ELSE UNCHANGED <<registry, fresh>>

(* map.len() >= CAP and the key is new *)
Full(k) == registry[k] = 0 /\ Cardinality(Registered) >= Cap

(* PulseLocks::acquire, under the lock of the map *)
Lookup(r) ==
    /\ pc[r] = "idle"
    /\ IF Full(key[r])
       THEN Respond(r, "full") /\ UNCHANGED <<registry, fresh, sem>>
       ELSE /\ Intern(key[r])
            /\ sem' = [sem EXCEPT ![r] = registry'[key[r]]]
            /\ pc' = [pc EXCEPT ![r] = "found"]
            /\ UNCHANGED resp
    /\ UNCHANGED <<taken, key, on>>

(* try_acquire_owned, after the lock of the map is gone *)
TryAcquire(r) ==
    /\ pc[r] = "found"
    /\ IF sem[r] \in taken
       THEN Respond(r, "busy") /\ UNCHANGED taken
       ELSE /\ taken' = taken \cup {sem[r]}
            /\ pc' = [pc EXCEPT ![r] = "granted"]
            /\ UNCHANGED resp
    /\ UNCHANGED <<registry, fresh, key, sem, on>>

(* pulse_function sends ON. *)
SwitchOn(r) ==
    /\ pc[r] = "granted"
    /\ pc' = [pc EXCEPT ![r] = "pulsing"]
    /\ on' = on \cup {key[r]}
    /\ UNCHANGED <<registry, fresh, taken, key, sem, resp>>

(* The time is up: pulse_function has sent OFF and returns. *)
SwitchOff(r) ==
    /\ pc[r] = "pulsing"
    /\ on' = on \ {key[r]}
    /\ Respond(r, "ok")
    /\ Release(r)
    /\ UNCHANGED <<registry, fresh, key, sem>>

(* The handler ends early, with an error of the drive socket or because    *)
(* its client hung up; an ON or an OFF that was not confirmed may have     *)
(* been sent.                                                              *)
Cut(r, answer) ==
    /\ Respond(r, answer)
    /\ on' \in {on, IF pc[r] = "granted" THEN on \cup {key[r]} ELSE on \ {key[r]}}
    /\ Release(r)
    /\ UNCHANGED <<registry, fresh, key, sem>>

SocketFails(r) == pc[r] \in {"granted", "pulsing"} /\ Cut(r, "failed")

HangUp(r) == pc[r] \in {"granted", "pulsing"} /\ Cut(r, "gone")

Next ==
    \E r \in Requests :
      Lookup(r) \/ TryAcquire(r) \/ SwitchOn(r) \/ SwitchOff(r) \/ SocketFails(r) \/ HangUp(r)

Spec == Init /\ [][Next]_vars

-----------------------------------------------------------------------------
(* Properties *)

Holds(r) == pc[r] \in {"granted", "pulsing"}

Holders == [k \in Keys |-> { r \in Requests : Holds(r) /\ key[r] = k }]

(* At most one request pulses a function of a locomotive ("a second pulse  *)
(* to the same loco/function while one is in flight is rejected"), though  *)
(* the semaphore is looked up and acquired in two steps.                   *)
OnePulse ==
    \A r1, r2 \in Requests : Holds(r1) /\ Holds(r2) /\ key[r1] = key[r2] => r1 = r2

(* A pulse lasts: nobody else's OFF ends it early ("ON/OFF frames cannot   *)
(* interleave").                                                           *)
PulseLasts == \A r \in Requests : pc[r] = "pulsing" => key[r] \in on

(* The handler is the slot per function that it promises.  Above all, a    *)
(* request is called busy only while another one has its function, though  *)
(* it looks at the semaphore alone; and never does anyone but the holder   *)
(* of the slot switch the function.                                        *)
Slot == INSTANCE PulseSlot
        WITH Clients <- Requests, Functions <- Keys, Limit <- Cap,
             wants <- key, known <- Registered, lit <- on, answer <- resp,
             slot <- Holders
SlotSpec == Slot!SlotSpec
=============================================================================
