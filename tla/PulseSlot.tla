----------------------------- MODULE PulseSlot -----------------------------
(***************************************************************************)
(* What `function_pulse` promises the kiosks: every function it knows has  *)
(* one slot.  Whoever has the slot may switch the function, and nobody     *)
(* else.  A request is answered once: it gets the slot, or is told that    *)
(* the slot is taken, or that no further function can be known; only the   *)
(* answer "ok" promises that the function is off.                          *)
(***************************************************************************)
EXTENDS Naturals, FiniteSets

CONSTANTS Clients, Functions, Limit

VARIABLES wants,  \* the function each client asks for
          known,  \* the functions that have a slot
          slot,   \* function -> whoever has its slot
          lit,    \* the functions that are on
          answer

slotVars == <<wants, known, slot, lit, answer>>

SlotInit ==
    /\ wants \in [Clients -> Functions]
    /\ known = {} /\ lit = {}
    /\ slot = [f \in Functions |-> {}]
    /\ answer = [c \in Clients |-> "none"]

Answer(c, a) ==
    /\ answer[c] = "none"
    /\ answer' = [answer EXCEPT ![c] = a]

Admit(c) ==
    /\ wants[c] \notin known
    /\ Cardinality(known) < Limit
    /\ known' = known \cup {wants[c]}
    /\ UNCHANGED <<wants, slot, lit, answer>>

Refuse(c) ==
    /\ \/ Answer(c, "full") /\ wants[c] \notin known /\ Cardinality(known) = Limit
       \/ Answer(c, "busy") /\ slot[wants[c]] # {}
    /\ UNCHANGED <<wants, known, slot, lit>>

Take(c) ==
    /\ answer[c] = "none"
    /\ wants[c] \in known /\ slot[wants[c]] = {}
    /\ slot' = [slot EXCEPT ![wants[c]] = {c}]
    /\ UNCHANGED <<wants, known, lit, answer>>

Light(c) ==
    /\ slot[wants[c]] = {c}
    /\ lit' = lit \cup {wants[c]}
    /\ UNCHANGED <<wants, known, slot, answer>>

(* After a failure the function may be on or off. *)
Give(c) ==
    /\ slot[wants[c]] = {c}
    /\ slot' = [slot EXCEPT ![wants[c]] = {}]
    /\ \/ Answer(c, "ok") /\ lit' = lit \ {wants[c]}
       \/ /\ Answer(c, "failed") \/ Answer(c, "gone")
          /\ lit' \in {lit, lit \cup {wants[c]}, lit \ {wants[c]}}
    /\ UNCHANGED <<wants, known>>

SlotNext == \E c \in Clients : Admit(c) \/ Refuse(c) \/ Take(c) \/ Light(c) \/ Give(c)

SlotSpec == SlotInit /\ [][SlotNext]_slotVars
=============================================================================
