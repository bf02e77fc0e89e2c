------------------------------- MODULE Z21Udp -------------------------------
(***************************************************************************)
(* The UDP client of src/src/loco_programming/z21_udp.rs (`Z21Client`),    *)
(* the connected socket it owns, and the command station with one decoder  *)
(* on its track.                                                           *)
(*                                                                         *)
(* A call holds the `io` mutex, sends one datagram and reads datagrams     *)
(* until one answers it or ten seconds have passed.  Nothing empties the   *)
(* receive buffer before the next call, and an answer names only the CV,   *)
(* never the command it answers, so what a call accepts depends on what    *)
(* earlier calls left behind.  CONSTANT Faults says what may go wrong:     *)
(*   "loss"    a datagram is lost                                          *)
(*   "refuse"  the station answers NACK, the write done or not             *)
(*   "short"   the station answers NACK_SC                                 *)
(*   "unreach" the peer's host answers "port unreachable"                  *)
(*   "late"    an answer is under way when its deadline passes             *)
(*   "drop"    the handler is dropped between the send and the answer      *)
(* (the handler future of a request is dropped when its client hangs up).  *)
(*                                                                         *)
(* `own`, `applied` and `held` are auxiliary: whether a datagram belongs   *)
(* to the call in progress, whether the decoder has executed that call,    *)
(* and the values each CV has had.                                         *)
(***************************************************************************)
EXTENDS AddressCv

CONSTANTS InitDecoders,  \* the CV tables the decoder may start with
          Commands,      \* the commands callers issue
          Faults,        \* the faults of the environment
          MaxQueue,      \* bound: datagrams under way before the network drops one
          MaxReplies     \* bound: datagrams the socket buffers before it drops them

FaultKinds == {"loss", "refuse", "short", "unreach", "late", "drop"}

(* z21::Command: PomRead and PomWrite name a decoder, the others do not;   *)
(* a read carries no value.                                                *)
Command == [kind : {"read", "write"}, pom : BOOLEAN, addr : Nat, cv : CvNo, value : Byte]
NoCall == [kind |-> "none"]

ASSUME UdpAssumption ==
    /\ InitDecoders \subseteq [CvNo -> Byte]
    /\ Commands \subseteq Command
    /\ Faults \subseteq FaultKinds
    /\ MaxQueue \in Nat
    /\ MaxReplies \in Nat

VARIABLES decoder,    \* CV number -> value
          toStation,  \* datagrams on their way to the station
          replies,    \* datagrams on their way to the socket, or in its buffer
          sockErr,    \* a pending ICMP error on the connected socket
          call,       \* the command being awaited, NoCall when `io` is free
          applied,    \* auxiliary: the decoder has executed `call`
          held,       \* auxiliary: CV number -> the values it has had
          outcome     \* how the last call ended

udpVars == <<decoder, toStation, replies, sockErr, call, applied, held, outcome>>

Datagram == [cmd : Command, own : BOOLEAN]
Reply == [kind : {"result", "nack", "short"}, cv : CvNo, value : Byte, own : BOOLEAN]

Outcome == [st : {"none", "ok", "nack", "short", "timeout", "io", "dropped"}, value : Byte]
Ended(st, value) == [st |-> st, value |-> value]

(* Every command but a POM write has an answer. *)
Awaited(c) == ~(c.pom /\ c.kind = "write")

Disown(s) == [i \in DOMAIN s |-> [s[i] EXCEPT !.own = FALSE]]

(* Something of the call in progress is still under way. *)
UnderWay ==
    \/ \E i \in 1..Len(toStation) : toStation[i].own
    \/ \E i \in 1..Len(replies) : replies[i].own

UdpTypeOK ==
    /\ decoder \in [CvNo -> Byte]
    /\ toStation \in Seq(Datagram)
    /\ replies \in Seq(Reply)
    /\ sockErr \in BOOLEAN
    /\ call \in Command \cup {NoCall}
    /\ applied \in BOOLEAN
    /\ held \in [CvNo -> SUBSET Byte]
    /\ outcome \in Outcome

UdpInit ==
    /\ decoder \in InitDecoders
    /\ toStation = <<>>
    /\ replies = <<>>
    /\ sockErr = FALSE
    /\ call = NoCall
    /\ applied = FALSE
    /\ held = [cv \in CvNo |-> {decoder[cv]}]
    /\ outcome = Ended("none", 0)

-----------------------------------------------------------------------------
(* The client *)

(* Faulty variant: the datagram is sent twice, to make up for losses. *)
TransmitTwice(c, own) ==
    toStation' = IF Len(toStation) < MaxQueue
                 THEN toStation \o << [cmd |-> c, own |-> own], [cmd |-> c, own |-> own] >>
                 ELSE toStation

(* sock.send *)
Transmit(c, own) ==
    toStation' = IF Len(toStation) < MaxQueue
                 THEN Append(toStation, [cmd |-> c, own |-> own])
                 ELSE toStation

(* read_cv, write_cv, read_cv_pom up to `sock.send` *)
Call(c) ==
    /\ call = NoCall
    /\ Awaited(c)
    /\ ~sockErr
    /\ Transmit(c, TRUE)
    /\ call' = c
    /\ UNCHANGED <<decoder, replies, sockErr, applied, held, outcome>>

(* write_cv_pom: sent, and nothing awaited *)
Post(c) ==
    /\ call = NoCall
    /\ ~Awaited(c)
    /\ ~sockErr
    /\ Transmit(c, FALSE)
    /\ outcome' = Ended("ok", 0)
    /\ UNCHANGED <<decoder, replies, sockErr, call, applied, held>>

(* `sock.send(..).await?` reports the socket's pending error; nothing is sent *)
SendError ==
    /\ call = NoCall
    /\ sockErr
    /\ sockErr' = FALSE
    /\ outcome' = Ended("io", 0)
    /\ UNCHANGED <<decoder, toStation, replies, call, applied, held>>

(* A call ends: its datagrams, if any are left, now belong to no call. *)
EndCall(o, received) ==
    /\ call' = NoCall
    /\ applied' = FALSE
    /\ outcome' = o
    /\ toStation' = Disown(toStation)
    /\ replies' = Disown(received)
    /\ UNCHANGED <<decoder, held>>

(* Faulty variant: the CV number of the answer is not compared. *)
AcceptsAny(m) == m.kind = "result"

(* Some(CvResult { cv: got, value }) if got == cv *)
Accepts(m) == m.kind = "result" /\ m.cv = call.cv

RecvResult ==
    /\ call # NoCall
    /\ replies # <<>>
    /\ Accepts(Head(replies))
    /\ EndCall(Ended("ok", Head(replies).value), Tail(replies))
    /\ UNCHANGED sockErr

(* A result for another CV, skipped: `continue` *)
RecvOther ==
    /\ call # NoCall
    /\ replies # <<>>
    /\ Head(replies).kind = "result"
    /\ ~Accepts(Head(replies))
    /\ replies' = Tail(replies)
    /\ UNCHANGED <<decoder, toStation, sockErr, call, applied, held, outcome>>

(* LAN_X_CV_NACK and LAN_X_CV_NACK_SC, which carry no CV number *)
RecvNack ==
    /\ call # NoCall
    /\ replies # <<>>
    /\ Head(replies).kind \in {"nack", "short"}
    /\ EndCall(Ended(Head(replies).kind, 0), Tail(replies))
    /\ UNCHANGED sockErr

RecvError ==
    /\ call # NoCall
    /\ sockErr
    /\ sockErr' = FALSE
    /\ EndCall(Ended("io", 0), replies)

(* Faulty variant: the deadline is examined only when a datagram arrives.  *)
TimeoutOnTraffic ==
    /\ call # NoCall
    /\ replies # <<>>
    /\ EndCall(Ended("timeout", 0), replies)
    /\ UNCHANGED sockErr

(* The deadline passes.  Without "late" only a call whose command or       *)
(* answer was lost can wait that long.                                     *)
Timeout ==
    /\ call # NoCall
    /\ "late" \in Faults \/ (~UnderWay /\ replies = <<>>)
    /\ EndCall(Ended("timeout", 0), replies)
    /\ UNCHANGED sockErr

(* The future is dropped while it awaits `recv`. *)
Drop ==
    /\ call # NoCall
    /\ "drop" \in Faults
    /\ EndCall(Ended("dropped", 0), replies)
    /\ UNCHANGED sockErr

-----------------------------------------------------------------------------
(* The station, its decoder and the network *)

(* On the programming track every command reaches the decoder; on the main *)
(* track only those that name its address.                                 *)
Reaches(c) == c.pom => c.addr = DecodeAddress(decoder)

Execute(c) ==
    IF c.kind = "write"
    THEN /\ decoder' = [decoder EXCEPT ![c.cv] = c.value]
         /\ held' = [held EXCEPT ![c.cv] = @ \cup {c.value}]
    ELSE UNCHANGED <<decoder, held>>

(* The answer reaches the socket's buffer; POM writes have none. *)
AnswerTo(d, kind, value) ==
    replies' = IF Awaited(d.cmd) /\ Len(replies) < MaxReplies
               THEN Append(replies, [kind |-> kind, cv |-> d.cmd.cv, value |-> value,
                                     own |-> d.own])
               ELSE replies

(* The decoder executes the oldest command and the station answers with the CV. *)
StationExec ==
    /\ toStation # <<>>
    /\ LET d == Head(toStation) IN
         /\ Reaches(d.cmd)
         /\ Execute(d.cmd)
         /\ AnswerTo(d, "result", decoder'[d.cmd.cv])
         /\ applied' = (applied \/ d.own)
    /\ toStation' = Tail(toStation)
    /\ UNCHANGED <<sockErr, call, outcome>>

(* No acknowledgement from the track, whether or not the decoder executed  *)
(* the command; a decoder a POM command does not name stays silent.        *)
StationRefuse ==
    /\ toStation # <<>>
    /\ LET d == Head(toStation) IN
         /\ \E kind \in {"nack", "short"} :
              /\ \/ kind = "nack" /\ ("refuse" \in Faults \/ ~Reaches(d.cmd))
                 \/ kind = "short" /\ "short" \in Faults
              /\ AnswerTo(d, kind, 0)
         /\ \/ UNCHANGED <<decoder, applied, held>>
            \/ Reaches(d.cmd) /\ Execute(d.cmd) /\ applied' = (applied \/ d.own)
    /\ toStation' = Tail(toStation)
    /\ UNCHANGED <<sockErr, call, outcome>>

(* A datagram is lost.  Both directions keep the order, so losing one is   *)
(* observed when it would have been delivered.                             *)
Lose ==
    /\ "loss" \in Faults
    /\ \/ toStation # <<>> /\ toStation' = Tail(toStation) /\ UNCHANGED replies
       \/ replies # <<>> /\ replies' = Tail(replies) /\ UNCHANGED toStation
    /\ UNCHANGED <<decoder, sockErr, call, applied, held, outcome>>

Unreachable ==
    /\ "unreach" \in Faults
    /\ toStation # <<>>
    /\ toStation' = Tail(toStation)
    /\ sockErr' = TRUE
    /\ UNCHANGED <<decoder, replies, call, applied, held, outcome>>

Environment == StationExec \/ StationRefuse \/ Lose \/ Unreachable

UdpNext ==
    \/ \E c \in Commands : Call(c) \/ Post(c)
    \/ SendError
    \/ RecvResult \/ RecvOther \/ RecvNack \/ RecvError \/ Timeout \/ Drop
    \/ Environment

UdpSpec == UdpInit /\ [][UdpNext]_udpVars

-----------------------------------------------------------------------------
(* Properties *)

(* No deadline passes with an answer still under way, no handler is        *)
(* dropped while it waits, and no ICMP error of a POM write (which waits   *)
(* for nothing) is left on the socket for a later call to find.            *)
Calm == {"late", "drop", "unreach"} \cap Faults = {}

(* What the calls of a calm environment leave on the wire: nothing that    *)
(* belongs to an earlier call except POM writes, which nobody answers.     *)
WireInv ==
    /\ \A i \in 1..Len(toStation) :
         /\ toStation[i].own <=> Awaited(toStation[i].cmd)
         /\ toStation[i].own =>
              i = Len(toStation) /\ toStation[i].cmd = call /\ ~applied /\ replies = <<>>
    /\ replies # <<>> =>
         /\ call # NoCall /\ toStation = <<>> /\ Len(replies) = 1
         /\ replies[1].own /\ replies[1].cv = call.cv
         /\ replies[1].kind = "result" => applied /\ replies[1].value = decoder[call.cv]
    /\ call = NoCall => ~applied
    /\ ~sockErr

(* The commands under way that no call awaits. *)
Posted == {toStation[i].cmd : i \in {j \in 1..Len(toStation) : ~toStation[j].own}}

(* The client implements the register its callers rely on: what a call     *)
(* returns is what the decoder held, and no command of a call that has     *)
(* ended is executed or answered later (z21_udp.rs's "single-flight        *)
(* send-and-await window").                                                *)
Register == INSTANCE CvRegister
    WITH InitRegisters <- InitDecoders, Calls <- Commands,
         reg <- decoder, pending <- call, taken <- applied,
         posted <- Posted,
         result <- outcome
RegisterSpec == Register!RegSpec

(* Whatever arrives late, a value accepted for a CV is one which that CV   *)
(* has had: answers for other CVs are skipped, not mistaken for this one   *)
(* (`got == cv` in await_result).                                          *)
AnswerWasHeld ==
    [][call # NoCall /\ call' = NoCall /\ outcome'.st = "ok"
         => outcome'.value \in held[call.cv]]_udpVars
=============================================================================
