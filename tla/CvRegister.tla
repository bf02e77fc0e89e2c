----------------------------- MODULE CvRegister -----------------------------
(***************************************************************************)
(* What `Z21Client` promises its callers: the CVs of the decoder behave    *)
(* like a register that is read and written by one call at a time.  A call *)
(* that returns a value took effect exactly once between its invocation    *)
(* and its return, and the value is the register's when it returns; a call *)
(* that fails took effect at most once, and never after it returned.  POM  *)
(* writes are posted: each takes effect later, or never.                   *)
(***************************************************************************)
EXTENDS AddressCv

CONSTANTS InitRegisters,  \* what the register may hold at the start
          Calls           \* the calls that may be made

VARIABLES reg,     \* CV number -> value
          pending, \* the call in progress, or NoPending
          taken,   \* the call in progress has taken effect
          posted,  \* commands that may still take effect
          result   \* how the last call ended

regVars == <<reg, pending, taken, posted, result>>

NoPending == [kind |-> "none"]
IsPosted(c) == c.pom /\ c.kind = "write"

Failures == {"nack", "short", "timeout", "io", "dropped"}

Effect(c) == IF c.kind = "write" THEN [reg EXCEPT ![c.cv] = c.value] ELSE reg

RegInit ==
    /\ reg \in InitRegisters
    /\ pending = NoPending
    /\ taken = FALSE
    /\ posted = {}
    /\ result = [st |-> "none", value |-> 0]

Invoke(c) ==
    /\ pending = NoPending
    /\ ~IsPosted(c)
    /\ pending' = c
    /\ taken' = FALSE
    /\ UNCHANGED <<reg, posted, result>>

(* The posted write may be lost at once. *)
PostWrite(c) ==
    /\ pending = NoPending
    /\ IsPosted(c)
    /\ posted' \in {posted, posted \cup {c}}
    /\ result' = [st |-> "ok", value |-> 0]
    /\ UNCHANGED <<reg, pending, taken>>

TakeEffect ==
    /\ pending # NoPending
    /\ ~taken
    /\ taken' = TRUE
    /\ reg' = Effect(pending)
    /\ UNCHANGED <<pending, posted, result>>

(* The other copies of an equal posted command may remain. *)
PostedTakesEffect(c) ==
    /\ c \in posted
    /\ reg' \in {reg, Effect(c)}
    /\ posted' \in {posted, posted \ {c}}
    /\ UNCHANGED <<pending, taken, result>>

Return ==
    /\ pending # NoPending
    /\ taken
    /\ result' = [st |-> "ok", value |-> reg[pending.cv]]
    /\ pending' = NoPending
    /\ taken' = FALSE
    /\ UNCHANGED <<reg, posted>>

Fail ==
    /\ \E st \in Failures : result' = [st |-> st, value |-> 0]
    /\ pending' = NoPending
    /\ taken' = FALSE
    /\ UNCHANGED <<reg, posted>>

RegNext ==
    \/ \E c \in Calls : Invoke(c) \/ PostWrite(c)
    \/ TakeEffect \/ Return \/ Fail
    \/ \E c \in posted : PostedTakesEffect(c)

RegSpec == RegInit /\ [][RegNext]_regVars
=============================================================================
