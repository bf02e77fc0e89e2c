-------------------------- MODULE HandsetRegister --------------------------
(***************************************************************************)
(* What programming over the air promises a page: whatever can be          *)
(* programmed is a register, written by calls that are numbered as they    *)
(* are made.  A call takes effect at most once, and never over a later     *)
(* one.  It is answered once: with success only after it took effect; and  *)
(* after a failure it may still do so, unless it has lapsed.               *)
(***************************************************************************)
EXTENDS Naturals, Sequences

CONSTANT Registers

VARIABLES calls, \* number -> register, effect and answer of a call
          holds  \* register -> the call that wrote it last, 0 at first

registerVars == <<calls, holds>>

RegisterInit == calls = <<>> /\ holds = [k \in Registers |-> 0]

Invoke(k) ==
    /\ calls' = Append(calls, [register |-> k, effect |-> "open", answer |-> "none"])
    /\ UNCHANGED holds

(* A call may take effect and not know it. *)
TakeEffect(n) ==
    /\ calls[n].effect = "open"
    /\ holds[calls[n].register] < n
    /\ holds' = [holds EXCEPT ![calls[n].register] = n]
    /\ \E e \in {"done", "lapsed"} : calls' = [calls EXCEPT ![n].effect = e]

Lapse(n) ==
    /\ calls[n].effect = "open"
    /\ calls' = [calls EXCEPT ![n].effect = "lapsed"]
    /\ UNCHANGED holds

Succeed(n) ==
    /\ calls[n].answer = "none" /\ calls[n].effect = "done"
    /\ calls' = [calls EXCEPT ![n].answer = "succeeded"]
    /\ UNCHANGED holds

(* The failure may be the news that nothing is going to happen. *)
Fail(n) ==
    /\ calls[n].answer = "none"
    /\ \/ calls' = [calls EXCEPT ![n].answer = "failed"]
       \/ /\ calls[n].effect = "open"
          /\ calls' = [calls EXCEPT ![n] = [register |-> @.register,
                                            effect |-> "lapsed", answer |-> "failed"]]
    /\ UNCHANGED holds

RegisterNext ==
    \/ \E k \in Registers : Invoke(k)
    \/ \E n \in DOMAIN calls : TakeEffect(n) \/ Lapse(n) \/ Succeed(n) \/ Fail(n)

RegisterSpec == RegisterInit /\ [][RegisterNext]_registerVars
=============================================================================
