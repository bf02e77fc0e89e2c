--------------------------- MODULE Z21Programming ---------------------------
(***************************************************************************)
(* The direct programming backend, `Z21Programmer` of                      *)
(* src/src/loco_programming/z21.rs, serving several HTTP requests at once  *)
(* over the one client of Z21Udp.                                          *)
(*                                                                         *)
(* A request runs in stages.  Each stage locks `inner`, connects the       *)
(* socket if nobody has, issues its commands one after the other and drops *)
(* the lock; `addr_set` has up to four stages (read CV 29, try CV 28,      *)
(* write, verify), so other requests run between them.  A request is       *)
(* dropped, wherever it stands, when its HTTP client hangs up.             *)
(***************************************************************************)
EXTENDS Z21Udp

CONSTANTS Requests,  \* the HTTP requests
          Jobs,      \* what they may ask for
          NoRequest

Job == [op : {"connect", "cvs", "addrGet", "addrSet"}, addr : 0..MaxDccAddress,
        pom : BOOLEAN, verify : BOOLEAN, cmds : Seq(Command)]

ASSUME ProgrammingAssumption ==
    /\ Jobs \subseteq Job
    /\ \A j \in Jobs : /\ j.op = "addrSet" \/ j.pom => ValidAddress(j.addr)
                       /\ j.op = "cvs" => /\ j.cmds # <<>>
                                          /\ \A i \in DOMAIN j.cmds : j.cmds[i].pom = j.pom
    /\ NoRequest \notin Requests

VARIABLES connected,  \* inner holds a client
          holder,     \* the request that holds the `inner` lock
          pc,         \* where each request stands
          job,        \* what it asks for
          stage,      \* the stage it is in
          todo,       \* the commands this stage has yet to complete
          vals,       \* the CVs it has read, NoValue for an unread CV 28
          resp        \* its response

progVars == <<connected, holder, pc, job, stage, todo, vals, resp>>
vars == <<udpVars, progVars>>

Stages == {"none", "connect", "cvs", "get", "read29", "read28", "write", "verify"}
Responses == {"none", "ok", "unavailable", "failed", "mismatch", "cancelled"}
NoJob == [op |-> "none"]
Zeros == [cv \in CvNo |-> 0]

ProgTypeOK ==
    /\ connected \in BOOLEAN
    /\ holder \in Requests \cup {NoRequest}
    /\ pc \in [Requests -> {"idle", "lock", "send", "await", "done"}]
    /\ job \in [Requests -> Jobs \cup {NoJob}]
    /\ stage \in [Requests -> Stages]
    /\ todo \in [Requests -> Seq(Command)]
    /\ vals \in [Requests -> [CvNo -> Byte \cup {NoValue}]]
    /\ resp \in [Requests -> Responses]

TypeOK == UdpTypeOK /\ ProgTypeOK

Init ==
    /\ UdpInit
    /\ connected = FALSE
    /\ holder = NoRequest
    /\ pc = [r \in Requests |-> "idle"]
    /\ job = [r \in Requests |-> NoJob]
    /\ stage = [r \in Requests |-> "none"]
    /\ todo = [r \in Requests |-> <<>>]
    /\ vals = [r \in Requests |-> Zeros]
    /\ resp = [r \in Requests |-> "none"]

-----------------------------------------------------------------------------
(* The commands of a stage, in the order they are issued *)

CommandFor(j, kind, cv, value) ==
    [kind |-> kind, pom |-> j.pom, addr |-> IF j.pom THEN j.addr ELSE 0,
     cv |-> cv, value |-> value]

Reads(j, cvs) == [i \in DOMAIN cvs |-> CommandFor(j, "read", cvs[i], 0)]
Writes(j, entries) ==
    [i \in DOMAIN entries |-> CommandFor(j, "write", entries[i].cv, entries[i].value)]

AddressWrites(j, v) == PrependRailcomPlusOff(v[28], AddressCvWrites(j.addr, v[29]))

StageCommands(j, st, v) ==
    CASE st = "read29" -> Reads(j, <<29>>)
      [] st = "read28" -> Reads(j, <<28>>)
      [] st = "write" -> Writes(j, AddressWrites(j, v))
      [] st \in {"verify", "get"} -> Reads(j, AddrCvs)
      [] st = "cvs" -> j.cmds
      [] OTHER -> <<>>

FirstStage(j) ==
    CASE j.op = "addrSet" -> "read29"
      [] j.op = "addrGet" -> "get"
      [] OTHER -> j.op

-----------------------------------------------------------------------------
(* A request enters a stage: it asks for the lock. *)
EnterStage(r, j, st, v) ==
    /\ pc' = [pc EXCEPT ![r] = "lock"]
    /\ stage' = [stage EXCEPT ![r] = st]
    /\ todo' = [todo EXCEPT ![r] = StageCommands(j, st, v)]
    /\ vals' = [vals EXCEPT ![r] = v]
    /\ UNCHANGED resp

(* A request ends; the guard it may hold is dropped with it. *)
Respond(r, result, v) ==
    /\ pc' = [pc EXCEPT ![r] = "done"]
    /\ resp' = [resp EXCEPT ![r] = result]
    /\ vals' = [vals EXCEPT ![r] = v]
    /\ todo' = [todo EXCEPT ![r] = <<>>]
    /\ UNCHANGED stage

Release(r) == holder' = IF holder = r THEN NoRequest ELSE holder

(* The handler after validation: cvs_read, cvs_write, address_get,         *)
(* address_set and connect.                                                *)
Start(r) ==
    /\ pc[r] = "idle"
    /\ \E j \in Jobs :
         /\ job' = [job EXCEPT ![r] = j]
         /\ EnterStage(r, j, FirstStage(j), Zeros)
    /\ UNCHANGED <<udpVars, connected, holder>>

(* Faulty variant: the guard of `inner` is not held. *)
AcquireUnlocked(r) ==
    /\ pc[r] = "lock"
    /\ stage[r] # "connect"
    /\ holder' = r
    /\ connected' = TRUE
    /\ pc' = [pc EXCEPT ![r] = "send"]
    /\ UNCHANGED <<udpVars, job, stage, todo, vals, resp>>

(* ensure_inner: the lock, and the socket bound by whoever comes first *)
Acquire(r) ==
    /\ pc[r] = "lock"
    /\ stage[r] # "connect"
    /\ holder = NoRequest
    /\ holder' = r
    /\ connected' = TRUE
    /\ pc' = [pc EXCEPT ![r] = "send"]
    /\ UNCHANGED <<udpVars, job, stage, todo, vals, resp>>

(* ensure_connected only warms the socket. *)
Warm(r) ==
    /\ pc[r] = "lock"
    /\ stage[r] = "connect"
    /\ holder = NoRequest
    /\ connected' = TRUE
    /\ Respond(r, "ok", vals[r])
    /\ UNCHANGED <<udpVars, holder, job>>

(* No address and port in the configuration, or no socket: the error drops *)
(* the guard.                                                              *)
ConnectFails(r) ==
    /\ pc[r] = "lock"
    /\ holder = NoRequest
    /\ ~connected
    /\ Respond(r, "unavailable", vals[r])
    /\ UNCHANGED <<udpVars, connected, holder, job>>

(* The last command of a stage has completed: the guard goes, and the next *)
(* stage, if there is one, asks for it again.                              *)
Finish(r, v) ==
    /\ Release(r)
    /\ LET j == job[r]
           st == stage[r]
       IN  \/ st = "read29" /\ EnterStage(r, j, "read28", v)
           \/ st = "read28" /\ EnterStage(r, j, "write", v)
           \/ st = "write" /\ j.verify /\ EnterStage(r, j, "verify", Zeros)
           \/ st = "write" /\ ~j.verify /\ Respond(r, "ok", v)
           \/ st = "verify" /\ DecodeAddress(v) = j.addr /\ Respond(r, "ok", v)
           \/ st = "verify" /\ DecodeAddress(v) # j.addr /\ Respond(r, "mismatch", v)
           \/ st \in {"get", "cvs"} /\ Respond(r, "ok", v)

CommandDone(r, v) ==
    IF Len(todo[r]) > 1
    THEN /\ pc' = [pc EXCEPT ![r] = "send"]
         /\ todo' = [todo EXCEPT ![r] = Tail(@)]
         /\ vals' = [vals EXCEPT ![r] = v]
         /\ UNCHANGED <<holder, stage, resp>>
    ELSE Finish(r, v)

Abort(r) == Respond(r, "failed", vals[r]) /\ Release(r)

(* The next command of the batch is sent; a POM write is not waited for. *)
Send(r) ==
    /\ pc[r] = "send"
    /\ \/ /\ Call(Head(todo[r]))
          /\ pc' = [pc EXCEPT ![r] = "await"]
          /\ UNCHANGED <<holder, stage, todo, vals, resp>>
       \/ Post(Head(todo[r])) /\ CommandDone(r, vals[r])
       \/ SendError /\ Abort(r)
    /\ UNCHANGED <<connected, job>>

(* A read's value is kept; the value a write is answered with is ignored. *)
Noted(r, value) ==
    LET c == Head(todo[r])
    IN  IF c.kind = "read" THEN [vals[r] EXCEPT ![c.cv] = value] ELSE vals[r]

Answered(r) == RecvResult /\ CommandDone(r, Noted(r, outcome'.value))

(* Faulty variant: a write nobody acknowledged counts as done. *)
UnansweredIgnored(r) ==
    /\ RecvNack \/ Timeout
    /\ IF stage[r] = "read28"
       THEN Finish(r, [vals[r] EXCEPT ![28] = NoValue])
       ELSE CommandDone(r, vals[r])

(* Faulty variant: an address is set without CV 29, too, its bits taken as *)
(* zero.                                                                   *)
UnansweredUnread(r) ==
    /\ RecvNack \/ Timeout
    /\ CASE stage[r] = "read28" -> Finish(r, [vals[r] EXCEPT ![28] = NoValue])
         [] stage[r] = "read29" -> Finish(r, vals[r])
         [] OTHER -> Abort(r)

(* try_read_cv goes on without CV 28; everywhere else the request fails. *)
Unanswered(r) ==
    /\ RecvNack \/ Timeout
    /\ IF stage[r] = "read28"
       THEN Finish(r, [vals[r] EXCEPT ![28] = NoValue])
       ELSE Abort(r)

Await(r) ==
    /\ pc[r] = "await"
    /\ \/ Answered(r)
       \/ Unanswered(r)
       \/ RecvError /\ Abort(r)
       \/ RecvOther /\ UNCHANGED <<holder, pc, stage, todo, vals, resp>>
    /\ UNCHANGED <<connected, job>>

(* The HTTP client hangs up and the handler's future is dropped. *)
Cancel(r) ==
    /\ \/ pc[r] \in {"lock", "send"} /\ UNCHANGED udpVars
       \/ pc[r] = "await" /\ Drop
    /\ Respond(r, "cancelled", vals[r])
    /\ Release(r)
    /\ UNCHANGED <<connected, job>>

Next ==
    \/ \E r \in Requests :
         Start(r) \/ Acquire(r) \/ Warm(r) \/ ConnectFails(r) \/ Send(r) \/ Await(r) \/ Cancel(r)
    \/ Environment /\ UNCHANGED progVars

Spec == Init /\ [][Next]_vars

(* The executor polls a handler that can proceed, the deadline of a call   *)
(* passes, and tokio's Mutex is FIFO: a request that waits for the lock    *)
(* while others take and release it gets it.  Nothing is assumed of the    *)
(* network, nor of the station.                                            *)
Fairness ==
    \A r \in Requests :
      /\ SF_vars(Acquire(r)) /\ SF_vars(Warm(r))
      /\ WF_vars(Send(r)) /\ WF_vars(Await(r))

FairSpec == Spec /\ Fairness

-----------------------------------------------------------------------------
(* Safety *)

(* One request at a time drives the socket: whoever has a command to send  *)
(* or to await holds `inner`, and the call in progress is that request's   *)
(* (z21_udp.rs's "single-flight"; the `io` mutex is never contended).      *)
SingleFlight ==
    /\ \A r \in Requests : pc[r] \in {"send", "await"} <=> holder = r
    /\ \A r \in Requests : pc[r] = "await" => todo[r] # <<>> /\ call = Head(todo[r])
    /\ call # NoCall => \E r \in Requests : pc[r] = "await"

Ends(r, result) == pc[r] # "done" /\ resp'[r] = result

(* addr_get answers with one snapshot: the four CVs it read are together   *)
(* what the decoder holds when it answers, whatever other requests did     *)
(* before and between (addr_get, read_cvs under one guard).                *)
SnapshotRead ==
    [][\A r \in Requests :
         Ends(r, "ok") /\ job[r].op = "addrGet"
           => \A i \in DOMAIN AddrCvs : vals'[r][AddrCvs[i]] = decoder[AddrCvs[i]]]_vars

(* An address_set that succeeded left the decoder on the address it was    *)
(* asked for, whatever was interleaved between its stages: on the          *)
(* programming track by the acknowledged writes alone, on the main track   *)
(* when it verified (addr_set, "verify mismatch").                         *)
AddressIsSet ==
    [][\A r \in Requests :
         Ends(r, "ok") /\ job[r].op = "addrSet" /\ (job[r].verify \/ ~job[r].pom)
           => DecodeAddress(decoder) = job[r].addr]_vars

(* A cvs_write on the programming track that succeeded is in the decoder:  *)
(* the ack the daemon waited for was the ack of its own write.             *)
WriteIsStored ==
    [][\A r \in Requests :
         Ends(r, "ok") /\ job[r].op = "cvs" /\ ~job[r].pom
           => LET c == Head(todo[r])
              IN  c.kind = "write" => decoder[c.cv] = c.value]_vars

(* RailComPlus is switched off before the first address CV is written, so  *)
(* that a batch cut short never leaves a changed address the decoder would *)
(* take back ("write CV 28 first so RailComPlus cannot undo", addr_set).   *)
RailcomOffFirst ==
    \A r \in Requests :
      /\ stage[r] = "write" /\ pc[r] \in {"send", "await"} /\ ~job[r].pom
      /\ vals[r][28] # NoValue /\ RailcomPlusOn(vals[r][28])
      /\ Head(todo[r]).cv # 28
      => ~RailcomPlusOn(decoder[28])

(* Someone is between, or gave up between, the two bytes of a long address. *)
LongAddressCut ==
    \E r \in Requests :
      /\ job[r] # NoJob /\ job[r].op = "addrSet" /\ IsLong(job[r].addr)
      /\ stage[r] = "write"
      /\ resp[r] \in {"none", "failed", "cancelled"}

(* The decoder answers to the address it had or to one that was asked for, *)
(* after any step of any request: the form bit of CV 29 goes last, so only *)
(* the two bytes of a long address can be seen apart (address_cv_writes).  *)
NoForeignAddress ==
    \/ DecodeAddress(decoder) \in { DecodeAddress(d) : d \in InitDecoders }
    \/ \E r \in Requests : job[r] # NoJob /\ job[r].op = "addrSet"
                           /\ DecodeAddress(decoder) = job[r].addr
    \/ LongAddressCut

(* What CV 29 holds besides the form bit: direction, speed steps, ...      *)
OtherBits(v) == ClearBit(v, LongBit)

(* The values somebody chose for CV 29: those of the decoders, and those   *)
(* that batches of `write_cvs` bring.                                      *)
ChosenCv29 ==
    { d[29] : d \in InitDecoders }
    \cup UNION { { j.cmds[i].value : i \in { k \in DOMAIN j.cmds :
                       j.cmds[k].kind = "write" /\ j.cmds[k].cv = 29 } } : j \in Jobs }

(* Setting an address never invents the other bits of CV 29: they are read *)
(* from the decoder, cross three more batches in the request, and go back  *)
(* as they were in some decoder or some batch, under every fault: a CV 29  *)
(* that cannot be read ends the request, unlike CV 28, and a late answer   *)
(* about another CV is not taken for it (addr_set; an older value may well *)
(* overwrite a newer one).                                                 *)
OnlyChosenBits == OtherBits(decoder[29]) \in { OtherBits(v) : v \in ChosenCv29 }

(* Liveness: every request that started is answered or dropped, though the *)
(* station may never answer: the deadline of each call and the fairness of *)
(* the lock are enough.                                                    *)
EveryRequestEnds ==
    \A r \in Requests : pc[r] # "idle" ~> pc[r] = "done"
=============================================================================
