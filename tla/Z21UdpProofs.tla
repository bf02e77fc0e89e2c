---------------------------- MODULE Z21UdpProofs ----------------------------
(***************************************************************************)
(* Proofs about Z21Udp for every set of commands, decoders and bounds.     *)
(* The invariant is WireInv: in a calm environment the wire holds at most  *)
(* one datagram somebody waits for, and it is the answer to, or the        *)
(* command of, the call in progress.                                       *)
(***************************************************************************)
EXTENDS Z21Udp, SequenceTheorems, TLAPS

(* Disowning datagrams keeps their number, and everything but `own`. *)
LEMMA DisownDatagrams ==
    ASSUME NEW s \in Seq(Datagram)
    PROVE  /\ Disown(s) \in Seq(Datagram)
           /\ Len(Disown(s)) = Len(s)
           /\ \A i \in 1..Len(s) : Disown(s)[i].cmd = s[i].cmd /\ Disown(s)[i].own = FALSE
<1>1. DOMAIN s = 1..Len(s) /\ Len(s) \in Nat
  OBVIOUS
<1>2. \A i \in 1..Len(s) : s[i] \in Datagram
  OBVIOUS
<1>3. \A d \in Datagram : /\ [d EXCEPT !.own = FALSE] \in Datagram
                          /\ [d EXCEPT !.own = FALSE].cmd = d.cmd
                          /\ [d EXCEPT !.own = FALSE].own = FALSE
  BY DEF Datagram
<1>4. Disown(s) = [i \in 1..Len(s) |-> [s[i] EXCEPT !.own = FALSE]]
  BY <1>1 DEF Disown
<1>5. Disown(s) \in Seq(Datagram) /\ Len(Disown(s)) = Len(s)
  BY <1>1, <1>2, <1>3, <1>4
<1>6. \A i \in 1..Len(s) : Disown(s)[i] = [s[i] EXCEPT !.own = FALSE]
  BY <1>4
<1>7. ASSUME NEW i \in 1..Len(s)
      PROVE  Disown(s)[i].cmd = s[i].cmd /\ Disown(s)[i].own = FALSE
  <2>1. s[i] \in Datagram /\ Disown(s)[i] = [s[i] EXCEPT !.own = FALSE]
    BY <1>2, <1>6
  <2>2. QED
    BY <2>1, <1>3
<1>8. QED
  BY <1>5, <1>7

LEMMA DisownReplies ==
    ASSUME NEW s \in Seq(Reply)
    PROVE  /\ Disown(s) \in Seq(Reply)
           /\ Len(Disown(s)) = Len(s)
<1>1. DOMAIN s = 1..Len(s) /\ Len(s) \in Nat
  OBVIOUS
<1>2. \A i \in 1..Len(s) : s[i] \in Reply
  OBVIOUS
<1>3. \A d \in Reply : [d EXCEPT !.own = FALSE] \in Reply
  BY DEF Reply
<1>4. Disown(s) = [i \in 1..Len(s) |-> [s[i] EXCEPT !.own = FALSE]]
  BY <1>1 DEF Disown
<1>5. QED
  BY <1>1, <1>2, <1>3, <1>4

LEMMA OutcomeType ==
    /\ Ended("none", 0) \in Outcome /\ Ended("ok", 0) \in Outcome
    /\ Ended("nack", 0) \in Outcome /\ Ended("short", 0) \in Outcome
    /\ Ended("timeout", 0) \in Outcome /\ Ended("io", 0) \in Outcome
    /\ Ended("dropped", 0) \in Outcome
    /\ \A v \in Byte : Ended("ok", v) \in Outcome
  BY DEF Ended, Outcome, Byte

-----------------------------------------------------------------------------
(* Type correctness, one lemma for each kind of step *)

LEMMA InitType == UdpInit => UdpTypeOK
<1> SUFFICES ASSUME UdpInit PROVE UdpTypeOK
  OBVIOUS
<1>1. decoder \in [CvNo -> Byte]
  BY UdpAssumption DEF UdpInit
<1>2. held \in [CvNo -> SUBSET Byte]
  BY <1>1 DEF UdpInit
<1>3. toStation \in Seq(Datagram) /\ replies \in Seq(Reply)
  BY DEF UdpInit
<1>4. call \in Command \cup {NoCall} /\ outcome \in Outcome
  BY OutcomeType DEF UdpInit
<1>5. QED
  BY <1>1, <1>2, <1>3, <1>4 DEF UdpInit, UdpTypeOK

LEMMA SendType ==
    ASSUME UdpTypeOK, NEW c \in Command, Call(c) \/ Post(c)
    PROVE  UdpTypeOK'
<1>1. \A b \in BOOLEAN : [cmd |-> c, own |-> b] \in Datagram
  BY DEF Datagram
<1>2. ASSUME NEW b \in BOOLEAN, Transmit(c, b) PROVE toStation' \in Seq(Datagram)
  BY <1>1, <1>2 DEF UdpTypeOK, Transmit
<1>3. QED
  BY <1>2, OutcomeType DEF UdpTypeOK, Call, Post

LEMMA EndCallType ==
    ASSUME UdpTypeOK, NEW o \in Outcome, NEW received \in Seq(Reply), EndCall(o, received),
           sockErr' \in BOOLEAN
    PROVE  UdpTypeOK'
  BY DisownDatagrams, DisownReplies DEF UdpTypeOK, EndCall

LEMMA ClientType ==
    ASSUME UdpTypeOK,
           SendError \/ RecvResult \/ RecvOther \/ RecvNack \/ RecvError \/ Timeout \/ Drop
    PROVE  UdpTypeOK'
<1>1. replies # <<>> => /\ Head(replies) \in Reply /\ Tail(replies) \in Seq(Reply)
  BY DEF UdpTypeOK
<1>2. CASE SendError
  BY <1>2, OutcomeType DEF UdpTypeOK, SendError
<1>3. CASE RecvResult
  <2>1. Head(replies).value \in Byte
    BY <1>1, <1>3 DEF RecvResult, Reply
  <2>2. Ended("ok", Head(replies).value) \in Outcome
    BY <2>1, OutcomeType
  <2>3. QED
    BY <1>1, <1>3, <2>2, EndCallType DEF RecvResult, UdpTypeOK
<1>4. CASE RecvOther
  BY <1>1, <1>4 DEF UdpTypeOK, RecvOther
<1>5. CASE RecvNack
  <2>1. Ended(Head(replies).kind, 0) \in Outcome
    BY <1>5, OutcomeType DEF RecvNack
  <2>2. QED
    BY <1>1, <1>5, <2>1, EndCallType DEF RecvNack, UdpTypeOK
<1>6. CASE RecvError
  BY <1>6, OutcomeType, EndCallType DEF RecvError, UdpTypeOK
<1>7. CASE Timeout
  BY <1>7, OutcomeType, EndCallType DEF Timeout, UdpTypeOK
<1>8. CASE Drop
  BY <1>8, OutcomeType, EndCallType DEF Drop, UdpTypeOK
<1>9. QED
  BY <1>2, <1>3, <1>4, <1>5, <1>6, <1>7, <1>8

LEMMA AnswerType ==
    ASSUME UdpTypeOK, NEW d \in Datagram, NEW kind \in {"result", "nack", "short"},
           NEW value \in Byte, AnswerTo(d, kind, value)
    PROVE  replies' \in Seq(Reply)
<1>1. [kind |-> kind, cv |-> d.cmd.cv, value |-> value, own |-> d.own] \in Reply
  BY DEF Reply, Datagram, Command
<1>2. QED
  BY <1>1 DEF UdpTypeOK, AnswerTo

LEMMA ExecuteType ==
    ASSUME UdpTypeOK, NEW c \in Command, Execute(c)
    PROVE  decoder' \in [CvNo -> Byte] /\ held' \in [CvNo -> SUBSET Byte]
<1>1. c.cv \in CvNo /\ c.value \in Byte
  BY DEF Command
<1>2. QED
  BY <1>1 DEF UdpTypeOK, Execute

LEMMA EnvironmentType ==
    ASSUME UdpTypeOK, Environment
    PROVE  UdpTypeOK'
<1>1. toStation # <<>> => Head(toStation) \in Datagram /\ Tail(toStation) \in Seq(Datagram)
  BY DEF UdpTypeOK
<1>2. toStation # <<>> => /\ Head(toStation).cmd \in Command /\ Head(toStation).own \in BOOLEAN
                          /\ Head(toStation).cmd.cv \in CvNo
  BY <1>1 DEF Datagram, Command
<1>3. CASE StationExec
  <2>1. decoder' \in [CvNo -> Byte] /\ held' \in [CvNo -> SUBSET Byte]
    BY <1>2, <1>3, ExecuteType DEF StationExec
  <2>2. decoder'[Head(toStation).cmd.cv] \in Byte
    BY <1>2, <1>3, <2>1 DEF StationExec
  <2>3. replies' \in Seq(Reply)
    BY <1>1, <1>3, <2>2, AnswerType DEF StationExec
  <2>4. QED
    BY <1>1, <1>2, <1>3, <2>1, <2>3 DEF UdpTypeOK, StationExec
<1>4. CASE StationRefuse
  <2>1. decoder' \in [CvNo -> Byte] /\ held' \in [CvNo -> SUBSET Byte] /\ applied' \in BOOLEAN
    BY <1>2, <1>4, ExecuteType DEF StationRefuse, UdpTypeOK
  <2>2. replies' \in Seq(Reply)
    <3>1. PICK kind \in {"nack", "short"} : AnswerTo(Head(toStation), kind, 0)
      BY <1>4 DEF StationRefuse
    <3>2. 0 \in Byte /\ toStation # <<>>
      BY <1>4 DEF StationRefuse, Byte
    <3>3. QED
      BY <1>1, <3>1, <3>2, AnswerType
  <2>3. QED
    BY <1>1, <1>4, <2>1, <2>2 DEF UdpTypeOK, StationRefuse
<1>5. CASE Lose
  <2>1. toStation' \in Seq(Datagram) /\ replies' \in Seq(Reply)
    BY <1>1, <1>5, SMTT(30) DEF UdpTypeOK, Lose
  <2>2. QED
    BY <1>5, <2>1 DEF UdpTypeOK, Lose
<1>6. CASE Unreachable
  BY <1>6 DEF UdpTypeOK, Unreachable
<1>7. QED
  BY <1>3, <1>4, <1>5, <1>6 DEF Environment

(* Every reachable state of the client, the wire and the decoder is well   *)
(* formed: CV values stay bytes, datagrams stay commands.                  *)
THEOREM UdpTypeCorrect == UdpSpec => []UdpTypeOK
<1>1. UdpInit => UdpTypeOK
  BY InitType
<1>2. UdpTypeOK /\ [UdpNext]_udpVars => UdpTypeOK'
  <2> SUFFICES ASSUME UdpTypeOK, [UdpNext]_udpVars PROVE UdpTypeOK'
    OBVIOUS
  <2>1. ASSUME NEW c \in Commands, Call(c) \/ Post(c) PROVE UdpTypeOK'
    BY <2>1, UdpAssumption, SendType
  <2>2. CASE SendError \/ RecvResult \/ RecvOther \/ RecvNack \/ RecvError \/ Timeout \/ Drop
    BY <2>2, ClientType
  <2>3. CASE Environment
    BY <2>3, EnvironmentType
  <2>4. CASE UNCHANGED udpVars
    BY <2>4 DEF UdpTypeOK, udpVars
  <2>5. QED
    BY <2>1, <2>2, <2>3, <2>4 DEF UdpNext
<1>3. QED
  BY <1>1, <1>2, PTL DEF UdpSpec

-----------------------------------------------------------------------------
(* The wire in a calm environment *)

LEMMA NoCallIsNoCommand == NoCall \notin Command
  BY DEF NoCall, Command

(* What Head and Tail of the station's queue are. *)
LEMMA QueueParts ==
    ASSUME UdpTypeOK, toStation # <<>>
    PROVE  /\ Head(toStation) = toStation[1]
           /\ Len(toStation) \in Nat \ {0}
           /\ Len(Tail(toStation)) = Len(toStation) - 1
           /\ \A i \in 1..Len(Tail(toStation)) : Tail(toStation)[i] = toStation[i + 1]
           /\ Head(toStation).cmd \in Command
           /\ Head(toStation).own \in BOOLEAN
<1>1. toStation \in Seq(Datagram)
  BY DEF UdpTypeOK
<1>2. Head(toStation) \in Datagram
  BY <1>1
<1>3. QED
  BY <1>1, <1>2 DEF Datagram

LEMMA SendWire ==
    ASSUME UdpTypeOK, WireInv, NEW c \in Command, Call(c) \/ Post(c)
    PROVE  WireInv'
<1>1. call = NoCall /\ replies = <<>> /\ ~applied /\ ~sockErr
  BY DEF WireInv, Call, Post
<1>2. \A i \in 1..Len(toStation) : ~toStation[i].own /\ ~Awaited(toStation[i].cmd)
  <2> SUFFICES ASSUME NEW i \in 1..Len(toStation) PROVE ~toStation[i].own
    BY DEF WireInv
  <2>1. toStation[i] \in Datagram
    BY DEF UdpTypeOK
  <2>2. toStation[i].cmd \in Command
    BY <2>1 DEF Datagram
  <2>3. QED
    BY <1>1, <2>2, NoCallIsNoCommand DEF WireInv
<1>3. CASE Call(c)
  <2>1. /\ call' = c /\ replies' = replies /\ applied' = applied /\ sockErr' = sockErr
        /\ Awaited(c) /\ c # NoCall
    BY <1>3, NoCallIsNoCommand DEF Call
  <2>2. CASE toStation' = toStation
    BY <1>1, <1>2, <2>1, <2>2 DEF WireInv
  <2>3. CASE toStation' = Append(toStation, [cmd |-> c, own |-> TRUE])
    <3>1. /\ Len(toStation') = Len(toStation) + 1
          /\ \A i \in 1..Len(toStation) : toStation'[i] = toStation[i]
          /\ toStation'[Len(toStation) + 1] = [cmd |-> c, own |-> TRUE]
          /\ Len(toStation) \in Nat
      BY <2>3 DEF UdpTypeOK
    <3>2. \A i \in 1..Len(toStation') :
            i \in 1..Len(toStation) \/ i = Len(toStation) + 1
      BY <3>1
    <3>3. QED
      BY <1>1, <1>2, <2>1, <3>1, <3>2 DEF WireInv
  <2>4. QED
    BY <1>3, <2>2, <2>3 DEF Call, Transmit
<1>4. CASE Post(c)
  <2>1. /\ call' = call /\ replies' = replies /\ applied' = applied /\ sockErr' = sockErr
        /\ ~Awaited(c)
    BY <1>4 DEF Post
  <2>2. CASE toStation' = toStation
    BY <1>1, <1>2, <2>1, <2>2 DEF WireInv
  <2>3. CASE toStation' = Append(toStation, [cmd |-> c, own |-> FALSE])
    <3>1. /\ Len(toStation') = Len(toStation) + 1
          /\ \A i \in 1..Len(toStation) : toStation'[i] = toStation[i]
          /\ toStation'[Len(toStation) + 1] = [cmd |-> c, own |-> FALSE]
          /\ Len(toStation) \in Nat
      BY <2>3 DEF UdpTypeOK
    <3>2. \A i \in 1..Len(toStation') :
            i \in 1..Len(toStation) \/ i = Len(toStation) + 1
      BY <3>1
    <3>3. QED
      BY <1>1, <1>2, <2>1, <3>1, <3>2 DEF WireInv
  <2>4. QED
    BY <1>4, <2>2, <2>3 DEF Post, Transmit
<1>5. QED
  BY <1>3, <1>4

(* A call ends with an empty buffer and nothing of its own under way. *)
LEMMA EndCallWire ==
    ASSUME UdpTypeOK, WireInv, NEW o, EndCall(o, <<>>), UNCHANGED sockErr,
           \A i \in 1..Len(toStation) : ~toStation[i].own
    PROVE  WireInv'
<1>1. /\ Len(toStation') = Len(toStation)
      /\ \A i \in 1..Len(toStation) :
            toStation'[i].cmd = toStation[i].cmd /\ toStation'[i].own = FALSE
  BY DisownDatagrams DEF UdpTypeOK, EndCall
<1>2. replies' = <<>>
  BY DEF EndCall, Disown
<1>3. call' = NoCall /\ applied' = FALSE /\ sockErr' = sockErr
  BY DEF EndCall
<1>4. QED
  BY <1>1, <1>2, <1>3 DEF WireInv, Awaited

LEMMA ClientWire ==
    ASSUME Calm, UdpTypeOK, WireInv,
           SendError \/ RecvResult \/ RecvOther \/ RecvNack \/ RecvError \/ Timeout \/ Drop
    PROVE  WireInv'
<1>1. ~SendError /\ ~RecvError
  BY DEF WireInv, SendError, RecvError
<1>2. ~Drop
  BY DEF Calm, Drop
<1>3. replies # <<>> => /\ Head(replies) = replies[1] /\ Tail(replies) = <<>>
                        /\ toStation = <<>>
  <2> SUFFICES ASSUME replies # <<>>
               PROVE  Head(replies) = replies[1] /\ Tail(replies) = <<>> /\ toStation = <<>>
    OBVIOUS
  <2>1. Len(replies) = 1 /\ toStation = <<>> /\ replies \in Seq(Reply)
    BY DEF UdpTypeOK, WireInv
  <2>2. Head(replies) = replies[1]
    BY <2>1
  <2>3. Tail(replies) \in Seq(Reply) /\ Len(Tail(replies)) = 0
    BY <2>1
  <2>4. Tail(replies) = <<>>
    BY <2>3, EmptySeq
  <2>5. QED
    BY <2>1, <2>2, <2>4
<1>4. toStation = <<>> => \A i \in 1..Len(toStation) : ~toStation[i].own
  <2>1. \A i \in 1..Len(<<>>) : FALSE
    OBVIOUS
  <2>2. QED
    BY <2>1
<1>5. CASE RecvResult
  <2>1. EndCall(Ended("ok", Head(replies).value), <<>>) /\ UNCHANGED sockErr
    BY <1>3, <1>5 DEF RecvResult
  <2>2. \A i \in 1..Len(toStation) : ~toStation[i].own
    BY <1>3, <1>4, <1>5 DEF RecvResult
  <2>3. QED
    BY <2>1, <2>2, EndCallWire
<1>6. CASE RecvOther
  <2>1. replies' = <<>> /\ toStation = <<>>
    BY <1>3, <1>6 DEF RecvOther
  <2>2. FALSE
    BY <1>3, <1>6 DEF RecvOther, WireInv, Accepts
  <2>3. QED
    BY <2>2
<1>7. CASE RecvNack
  <2>1. EndCall(Ended(Head(replies).kind, 0), <<>>) /\ UNCHANGED sockErr
    BY <1>3, <1>7 DEF RecvNack
  <2>2. \A i \in 1..Len(toStation) : ~toStation[i].own
    BY <1>3, <1>4, <1>7 DEF RecvNack
  <2>3. QED
    BY <2>1, <2>2, EndCallWire
<1>8. CASE Timeout
  <2>1. ~UnderWay /\ replies = <<>>
    BY <1>8 DEF Timeout, Calm
  <2>2. \A i \in 1..Len(toStation) : ~toStation[i].own
    BY <2>1 DEF UnderWay
  <2>3. EndCall(Ended("timeout", 0), <<>>) /\ UNCHANGED sockErr
    BY <1>8, <2>1 DEF Timeout
  <2>4. QED
    BY <2>2, <2>3, EndCallWire
<1>9. QED
  BY <1>1, <1>2, <1>5, <1>6, <1>7, <1>8

(* Taking the oldest datagram off the queue keeps what WireInv says of the *)
(* others: a datagram of the call in progress is always the last one.      *)
LEMMA DequeueWire ==
    ASSUME UdpTypeOK, WireInv, toStation # <<>>, toStation' = Tail(toStation),
           UNCHANGED <<call, sockErr>>,
           \/ UNCHANGED <<applied, replies>>
           \/ Len(toStation) = 1
    PROVE  \A i \in 1..Len(toStation') :
             /\ toStation'[i].own <=> Awaited(toStation'[i].cmd)
             /\ toStation'[i].own => /\ i = Len(toStation') /\ toStation'[i].cmd = call'
                                     /\ ~applied' /\ replies' = <<>>
<1> SUFFICES ASSUME NEW i \in 1..Len(toStation')
             PROVE  /\ toStation'[i].own <=> Awaited(toStation'[i].cmd)
                    /\ toStation'[i].own => /\ i = Len(toStation') /\ toStation'[i].cmd = call'
                                            /\ ~applied' /\ replies' = <<>>
  OBVIOUS
<1>1. /\ Len(toStation') = Len(toStation) - 1 /\ Len(toStation) \in Nat
      /\ toStation'[i] = toStation[i + 1]
      /\ i \in Nat /\ i + 1 \in 1..Len(toStation)
  BY QueueParts
<1>2. UNCHANGED <<applied, replies, call>>
  <2>1. Len(toStation) # 1
    BY <1>1
  <2>2. QED
    BY <2>1
<1>3. /\ toStation[i + 1].own <=> Awaited(toStation[i + 1].cmd)
      /\ toStation[i + 1].own => /\ i + 1 = Len(toStation) /\ toStation[i + 1].cmd = call
                                 /\ ~applied /\ replies = <<>>
  BY <1>1 DEF WireInv
<1>4. call' = call /\ applied' = applied /\ replies' = replies
  BY <1>2
<1>5. i + 1 = Len(toStation) => i = Len(toStation')
  <2>1. /\ Len(Tail(toStation)) = Len(toStation) - 1
        /\ Len(toStation) \in Nat /\ i \in Nat
    BY <1>1, QueueParts
  <2>2. i + 1 = Len(toStation) => i = Len(Tail(toStation))
    BY ONLY <2>1
  <2>3. QED
    BY <2>2, Zenon
<1>6. QED
  BY <1>1, <1>3, <1>4, <1>5, Zenon

(* The station takes a command of the call in progress: it is the only     *)
(* datagram under way, and at most its answer is left.                     *)
LEMMA AnswerWire ==
    ASSUME UdpTypeOK, WireInv, toStation # <<>>, toStation' = Tail(toStation),
           UNCHANGED <<call, sockErr>>, Head(toStation).own, decoder' \in [CvNo -> Byte],
           NEW kind \in {"result", "nack", "short"}, NEW value \in Byte,
           AnswerTo(Head(toStation), kind, value),
           kind = "result" => applied' /\ value = decoder'[call.cv]
    PROVE  WireInv'
<1>1. /\ Len(toStation) = 1 /\ Head(toStation).cmd = call /\ replies = <<>>
      /\ call # NoCall /\ Len(toStation') = 0
  <2>1. Head(toStation) = toStation[1] /\ 1 \in 1..Len(toStation)
        /\ Len(Tail(toStation)) = Len(toStation) - 1 /\ Head(toStation).cmd \in Command
    BY QueueParts
  <2>2. 1 = Len(toStation) /\ toStation[1].cmd = call /\ replies = <<>>
    BY <2>1 DEF WireInv
  <2>3. Len(toStation') = 0
    <3>1. Len(Tail(toStation)) = Len(toStation) - 1 /\ Len(toStation) = 1
      BY <2>1, <2>2
    <3>2. Len(Tail(toStation)) = 0
      BY ONLY <3>1
    <3>3. QED
      BY <3>2, Zenon
  <2>4. Head(toStation).cmd = call /\ call # NoCall
    BY <2>1, <2>2, NoCallIsNoCommand
  <2>5. QED
    BY <2>2, <2>3, <2>4
<1>2. toStation' = <<>>
  <2>1. Tail(toStation) \in Seq(Datagram)
    BY DEF UdpTypeOK
  <2>2. QED
    BY <1>1, <2>1, EmptySeq
<1>3. \A i \in 1..Len(toStation') : FALSE
  <2>1. \A i \in 1..Len(<<>>) : FALSE
    OBVIOUS
  <2>2. QED
    BY <1>2, <2>1
<1>4. call' = call /\ ~sockErr'
  BY DEF WireInv
<1>5. CASE replies' = replies
  BY <1>1, <1>3, <1>4, <1>5 DEF WireInv
<1>6. CASE replies' = Append(replies, [kind |-> kind, cv |-> call.cv, value |-> value,
                                       own |-> TRUE])
  <2> DEFINE m == [kind |-> kind, cv |-> call.cv, value |-> value, own |-> TRUE]
  <2>1. replies' = <<m>> /\ Len(replies') = 1 /\ replies'[1] = m
    BY <1>1, <1>6
  <2>2. /\ replies'[1].kind = kind /\ replies'[1].cv = call.cv /\ replies'[1].value = value
        /\ replies'[1].own = TRUE
    BY <2>1
  <2>3. QED
    BY <1>1, <1>2, <1>3, <1>4, <2>1, <2>2 DEF WireInv
<1>7. QED
  <2>1. Head(toStation).own = TRUE
    BY QueueParts
  <2>2. replies' = replies
        \/ replies' = Append(replies, [kind |-> kind, cv |-> call.cv, value |-> value,
                                       own |-> TRUE])
    BY <1>1, <2>1 DEF AnswerTo
  <2>3. QED
    BY <1>5, <1>6, <2>2

(* The station takes a POM write of an earlier call: nobody is answered.   *)
LEMMA PostedWire ==
    ASSUME UdpTypeOK, WireInv, toStation # <<>>, toStation' = Tail(toStation),
           UNCHANGED <<call, sockErr, applied>>, ~Head(toStation).own,
           NEW kind, NEW value, AnswerTo(Head(toStation), kind, value)
    PROVE  WireInv'
<1>1. ~Awaited(Head(toStation).cmd)
  <2>1. Head(toStation) = toStation[1] /\ 1 \in 1..Len(toStation)
    BY QueueParts
  <2>2. QED
    BY <2>1 DEF WireInv
<1>2. replies' = replies /\ replies = <<>>
  BY <1>1 DEF AnswerTo, WireInv
<1>3. UNCHANGED <<applied, replies>>
  BY <1>2
<1>4. QED
  BY <1>2, <1>3, DequeueWire DEF WireInv

LEMMA EnvironmentWire ==
    ASSUME Calm, UdpTypeOK, WireInv, Environment
    PROVE  WireInv'
<1>1. ~Unreachable
  BY DEF Calm, Unreachable
<1>2. UdpTypeOK'
  BY EnvironmentType
<1>3. CASE StationExec
  <2>1. decoder' \in [CvNo -> Byte]
    BY <1>2 DEF UdpTypeOK
  <2>2. Head(toStation).cmd.cv \in CvNo
    BY <1>3, QueueParts DEF Command, StationExec
  <2>3. CASE Head(toStation).own
    <3>1. Head(toStation).cmd = call
      <4>1. Head(toStation) = toStation[1] /\ 1 \in 1..Len(toStation)
        BY <1>3, QueueParts DEF StationExec
      <4>2. QED
        BY <2>3, <4>1 DEF WireInv
    <3>2. decoder'[call.cv] \in Byte /\ applied'
      BY <1>3, <2>1, <2>2, <2>3, <3>1 DEF StationExec
    <3>3. AnswerTo(Head(toStation), "result", decoder'[call.cv])
      BY <1>3, <3>1 DEF StationExec
    <3>4. toStation # <<>> /\ toStation' = Tail(toStation) /\ UNCHANGED <<call, sockErr>>
      BY <1>3 DEF StationExec
    <3>5. QED
      BY <2>1, <2>3, <3>2, <3>3, <3>4, AnswerWire
  <2>4. CASE ~Head(toStation).own
    <3>1. applied' = applied
      BY <1>3, <2>4 DEF StationExec, UdpTypeOK
    <3>2. QED
      BY <1>3, <2>4, <3>1, PostedWire DEF StationExec
  <2>5. QED
    BY <2>3, <2>4
<1>4. CASE StationRefuse
  <2>1. PICK kind \in {"nack", "short"} : AnswerTo(Head(toStation), kind, 0)
    BY <1>4 DEF StationRefuse
  <2>2. decoder' \in [CvNo -> Byte] /\ 0 \in Byte
    BY <1>2 DEF UdpTypeOK, Byte
  <2>3. toStation # <<>> /\ toStation' = Tail(toStation) /\ UNCHANGED <<call, sockErr>>
    BY <1>4 DEF StationRefuse
  <2>4. CASE Head(toStation).own
    BY <2>1, <2>2, <2>3, <2>4, AnswerWire
  <2>5. CASE ~Head(toStation).own
    <3>1. applied' = applied
      BY <1>4, <2>5 DEF StationRefuse, UdpTypeOK
    <3>2. QED
      BY <2>1, <2>3, <2>5, <3>1, PostedWire
  <2>6. QED
    BY <2>4, <2>5
<1>5. CASE Lose
  <2>1. UNCHANGED <<decoder, sockErr, call, applied>>
    BY <1>5 DEF Lose
  <2>2. CASE toStation # <<>> /\ toStation' = Tail(toStation) /\ UNCHANGED replies
    <3>1. replies = <<>> /\ UNCHANGED <<applied, replies>> /\ UNCHANGED <<call, sockErr>>
      BY <2>1, <2>2 DEF WireInv
    <3>2. QED
      BY <2>1, <2>2, <3>1, DequeueWire DEF WireInv
  <2>3. CASE replies # <<>> /\ replies' = Tail(replies) /\ UNCHANGED toStation
    <3>1. toStation = <<>> /\ Len(replies) = 1 /\ replies \in Seq(Reply)
      BY <2>3 DEF WireInv, UdpTypeOK
    <3>2. Tail(replies) \in Seq(Reply) /\ Len(Tail(replies)) = 0
      BY <2>3, <3>1
    <3>3. replies' = <<>> /\ toStation' = <<>>
      BY <2>3, <3>1, <3>2, EmptySeq
    <3>4. \A i \in 1..Len(toStation') : FALSE
      BY <3>3
    <3>5. QED
      BY <2>1, <3>3, <3>4 DEF WireInv
  <2>4. QED
    BY <1>5, <2>2, <2>3 DEF Lose
<1>6. QED
  BY <1>1, <1>3, <1>4, <1>5 DEF Environment

(* In a calm environment, for every decoder, set of commands and bound:    *)
(* the wire holds nothing of a call that has ended, and an answer in the   *)
(* buffer is the current one of the call that waits for it.                *)
THEOREM WireInvariant == ASSUME Calm PROVE UdpSpec => []WireInv
<1>1. UdpInit => WireInv
  <2>1. \A i \in 1..Len(<<>>) : FALSE
    OBVIOUS
  <2>2. QED
    BY <2>1 DEF UdpInit, WireInv
<1>2. UdpTypeOK /\ WireInv /\ [UdpNext]_udpVars => WireInv'
  <2> SUFFICES ASSUME UdpTypeOK, WireInv, [UdpNext]_udpVars PROVE WireInv'
    OBVIOUS
  <2>1. ASSUME NEW c \in Commands, Call(c) \/ Post(c) PROVE WireInv'
    BY <2>1, UdpAssumption, SendWire
  <2>2. CASE SendError \/ RecvResult \/ RecvOther \/ RecvNack \/ RecvError \/ Timeout \/ Drop
    BY <2>2, ClientWire
  <2>3. CASE Environment
    BY <2>3, EnvironmentWire
  <2>4. CASE UNCHANGED udpVars
    BY <2>4 DEF WireInv, udpVars
  <2>5. QED
    BY <2>1, <2>2, <2>3, <2>4 DEF UdpNext
<1>3. QED
  BY <1>1, <1>2, UdpTypeCorrect, PTL DEF UdpSpec

-----------------------------------------------------------------------------
(* In a calm environment the UDP client implements CvRegister, whatever    *)
(* the commands, the decoder and the bounds.  Under WireInv each step of   *)
(* the client, the station or the network is one step of the register, or  *)
(* none.                                                                   *)

(* How a step of the queue changes the posted commands. *)
LEMMA PostedAppend ==
    ASSUME UdpTypeOK, NEW c, NEW b \in BOOLEAN,
           toStation' = Append(toStation, [cmd |-> c, own |-> b])
    PROVE  Posted' = IF b THEN Posted ELSE Posted \cup {c}
<1> DEFINE n == Len(toStation)
<1>1. /\ Len(toStation') = n + 1 /\ n \in Nat
      /\ \A i \in 1..n : toStation'[i] = toStation[i]
      /\ toStation'[n + 1] = [cmd |-> c, own |-> b]
  BY DEF UdpTypeOK
<1>2. toStation'[n + 1].cmd = c /\ toStation'[n + 1].own = b
  BY <1>1
<1>3. 1..Len(toStation') = (1..n) \cup {n + 1}
  BY <1>1
<1> HIDE DEF n
<1>4. ASSUME NEW x PROVE x \in Posted' <=> x \in Posted \/ (~b /\ x = c)
  BY <1>1, <1>2, <1>3 DEF Posted, n
<1>5. QED
  BY <1>4

LEMMA PostedHead ==
    ASSUME UdpTypeOK, toStation # <<>>, toStation' = Tail(toStation)
    PROVE  /\ ~Head(toStation).own =>
                /\ Head(toStation).cmd \in Posted
                /\ Posted' \in {Posted, Posted \ {Head(toStation).cmd}}
           /\ Head(toStation).own => Posted' = Posted
<1> DEFINE n == Len(toStation)
<1>1. /\ Head(toStation) = toStation[1] /\ n \in Nat \ {0} /\ 1 \in 1..n
      /\ Len(Tail(toStation)) = n - 1
      /\ \A i \in 1..Len(Tail(toStation)) : Tail(toStation)[i] = toStation[i + 1]
  BY QueueParts
<1> DEFINE rest == {toStation[i].cmd : i \in {j \in 2..n : ~toStation[j].own}}
<1>2. ASSUME NEW x PROVE x \in Posted' <=> x \in rest
  <2>1. ASSUME x \in Posted' PROVE x \in rest
    <3>1. PICK i \in 1..Len(Tail(toStation)) : ~Tail(toStation)[i].own /\ Tail(toStation)[i].cmd = x
      BY <2>1 DEF Posted
    <3>2. i + 1 \in 2..n /\ Tail(toStation)[i] = toStation[i + 1]
      BY <1>1, <3>1
    <3>3. QED
      BY <3>1, <3>2
  <2>2. ASSUME x \in rest PROVE x \in Posted'
    <3>1. PICK j \in 2..n : ~toStation[j].own /\ toStation[j].cmd = x
      BY <2>2
    <3>2. j - 1 \in 1..Len(Tail(toStation)) /\ (j - 1) + 1 = j
      BY <1>1
    <3>3. Tail(toStation)[j - 1] = toStation[j]
      BY <1>1, <3>2
    <3>4. QED
      BY <3>1, <3>2, <3>3 DEF Posted
  <2>3. QED
    BY <2>1, <2>2
<1>3. 1..n = {1} \cup (2..n)
  BY <1>1
<1>4. ASSUME NEW x
      PROVE  x \in Posted <=> x \in rest \/ (~toStation[1].own /\ x = toStation[1].cmd)
  BY <1>3 DEF Posted
<1> HIDE DEF rest
<1>5. Posted' = rest
  BY <1>2
<1>6. CASE Head(toStation).own
  <2>1. Posted = rest
    BY <1>1, <1>4, <1>6
  <2>2. QED
    BY <1>5, <1>6, <2>1
<1>7. CASE ~Head(toStation).own
  <2>1. ASSUME NEW x
        PROVE  x \in Posted <=> x \in rest \/ x = Head(toStation).cmd
    BY <1>1, <1>4, <1>7
  <2>2. Head(toStation).cmd \in Posted
    BY <2>1
  <2>3. rest = Posted \/ rest = Posted \ {Head(toStation).cmd}
    BY <2>1
  <2>4. QED
    BY <1>5, <1>7, <2>2, <2>3
<1>8. QED
  BY <1>6, <1>7

LEMMA PostedDisown ==
    ASSUME UdpTypeOK, toStation' = Disown(toStation),
           \A i \in 1..Len(toStation) : ~toStation[i].own
    PROVE  Posted' = Posted
<1>1. /\ Len(Disown(toStation)) = Len(toStation)
      /\ \A i \in 1..Len(toStation) : /\ Disown(toStation)[i].cmd = toStation[i].cmd
                                      /\ Disown(toStation)[i].own = FALSE
  BY DisownDatagrams DEF UdpTypeOK
<1>2. ASSUME NEW x PROVE x \in Posted' <=> x \in Posted
  BY <1>1 DEF Posted
<1>3. QED
  BY <1>2

-----------------------------------------------------------------------------
(* One lemma for each kind of step *)

LEMMA SendRefines ==
    ASSUME UdpTypeOK, WireInv, NEW c \in Commands, Call(c) \/ Post(c)
    PROVE  Register!RegNext
<1>1. toStation' = toStation => Posted' = Posted
  BY DEF Posted
<1>2. CASE Call(c)
  <2>1. Posted' = Posted
    BY <1>1, <1>2, PostedAppend DEF Call, Transmit
  <2>2. call = NoCall /\ call' = c /\ ~applied /\ Awaited(c) /\ UNCHANGED <<decoder, applied, outcome>>
    BY <1>2 DEF Call, WireInv
  <2>3. applied \in BOOLEAN
    BY DEF UdpTypeOK
  <2>4. Register!Invoke(c)
    BY <2>1, <2>2, <2>3
    DEF Register!Invoke, Register!NoPending, Register!IsPosted, NoCall, Awaited
  <2>5. QED
    BY <2>4 DEF Register!RegNext
<1>3. CASE Post(c)
  <2>1. Posted' \in {Posted, Posted \cup {c}}
    BY <1>1, <1>3, PostedAppend DEF Post, Transmit
  <2>2. call = NoCall /\ ~Awaited(c) /\ outcome' = Ended("ok", 0)
        /\ UNCHANGED <<decoder, call, applied>>
    BY <1>3 DEF Post
  <2>3. Register!PostWrite(c)
    BY <2>1, <2>2
    DEF Register!PostWrite, Register!NoPending, Register!IsPosted, NoCall, Awaited, Ended
  <2>4. QED
    BY <2>3 DEF Register!RegNext
<1>4. QED
  BY <1>2, <1>3

LEMMA EndCallRefines ==
    ASSUME UdpTypeOK, WireInv, call # NoCall, NEW o, NEW received, EndCall(o, received),
           \A i \in 1..Len(toStation) : ~toStation[i].own,
           \/ \E st \in {"nack", "short", "timeout"} : o = Ended(st, 0)
           \/ applied /\ o = Ended("ok", decoder[call.cv])
    PROVE  Register!RegNext
<1>1. /\ Posted' = Posted /\ call' = NoCall /\ applied' = FALSE /\ outcome' = o
      /\ UNCHANGED decoder
  BY PostedDisown DEF EndCall
<1>2. CASE \E st \in {"nack", "short", "timeout"} : o = Ended(st, 0)
  <2>1. Register!Fail
    BY <1>1, <1>2 DEF Register!Fail, Register!Failures, Register!NoPending, NoCall, Ended
  <2>2. QED
    BY <2>1 DEF Register!RegNext
<1>3. CASE applied /\ o = Ended("ok", decoder[call.cv])
  <2>1. Register!Return
    BY <1>1, <1>3 DEF Register!Return, Register!NoPending, NoCall, Ended
  <2>2. QED
    BY <2>1 DEF Register!RegNext
<1>4. QED
  BY <1>2, <1>3

LEMMA ClientRefines ==
    ASSUME Calm, UdpTypeOK, WireInv,
           SendError \/ RecvResult \/ RecvOther \/ RecvNack \/ RecvError \/ Timeout \/ Drop
    PROVE  Register!RegNext
<1>1. ~SendError /\ ~RecvError /\ ~Drop
  BY DEF WireInv, SendError, RecvError, Calm, Drop
<1>2. replies # <<>> => /\ Head(replies) = replies[1] /\ replies[1].cv = call.cv
                        /\ \A i \in 1..Len(toStation) : ~toStation[i].own
  <2> SUFFICES ASSUME replies # <<>>
               PROVE  /\ Head(replies) = replies[1] /\ replies[1].cv = call.cv
                      /\ \A i \in 1..Len(toStation) : ~toStation[i].own
    OBVIOUS
  <2>1. toStation = <<>> /\ replies \in Seq(Reply) /\ replies[1].cv = call.cv
    BY DEF WireInv, UdpTypeOK
  <2>2. \A i \in 1..Len(<<>>) : FALSE
    OBVIOUS
  <2>3. Head(replies) = replies[1]
    BY <2>1
  <2>4. QED
    BY <2>1, <2>2, <2>3
<1>3. CASE RecvResult
  <2>1. /\ replies # <<>> /\ call # NoCall /\ replies[1].kind = "result"
        /\ EndCall(Ended("ok", replies[1].value), Tail(replies))
    BY <1>2, <1>3 DEF RecvResult, Accepts
  <2>2. applied /\ replies[1].value = decoder[call.cv]
    BY <2>1 DEF WireInv
  <2>3. QED
    BY <1>2, <2>1, <2>2, EndCallRefines
<1>4. CASE RecvOther
  BY <1>2, <1>4 DEF RecvOther, Accepts
<1>5. CASE RecvNack
  <2>1. /\ replies # <<>> /\ call # NoCall /\ Head(replies).kind \in {"nack", "short"}
        /\ EndCall(Ended(Head(replies).kind, 0), Tail(replies))
    BY <1>5 DEF RecvNack
  <2>2. QED
    BY <1>2, <2>1, EndCallRefines
<1>6. CASE Timeout
  <2>1. ~UnderWay /\ call # NoCall /\ EndCall(Ended("timeout", 0), replies)
    BY <1>6 DEF Timeout, Calm
  <2>2. \A i \in 1..Len(toStation) : ~toStation[i].own
    BY <2>1 DEF UnderWay
  <2>3. QED
    BY <2>1, <2>2, EndCallRefines
<1>7. QED
  BY <1>1, <1>3, <1>4, <1>5, <1>6

(* The decoder executes the oldest command under way, or does not. *)
LEMMA TakenRefines ==
    ASSUME UdpTypeOK, WireInv, toStation # <<>>, toStation' = Tail(toStation),
           UNCHANGED <<call, outcome>>,
           \/ UNCHANGED <<decoder, applied>>
           \/ Execute(Head(toStation).cmd) /\ applied' = (applied \/ Head(toStation).own)
    PROVE  [Register!RegNext]_(Register!regVars)
<1> DEFINE c == Head(toStation).cmd
<1>1. Head(toStation) = toStation[1] /\ 1 \in 1..Len(toStation) /\ c \in Command
      /\ Head(toStation).own \in BOOLEAN /\ applied \in BOOLEAN
  BY QueueParts DEF UdpTypeOK
<1>2. Execute(c) => decoder' = IF c.kind = "write" THEN [decoder EXCEPT ![c.cv] = c.value]
                                                   ELSE decoder
  BY DEF Execute
<1>3. CASE Head(toStation).own
  <2>1. c = call /\ call # NoCall /\ ~applied /\ Posted' = Posted
    BY <1>1, <1>3, PostedHead, NoCallIsNoCommand DEF WireInv
  <2>2. CASE UNCHANGED <<decoder, applied>>
    BY <2>1, <2>2 DEF Register!regVars
  <2>3. CASE Execute(c) /\ applied' = (applied \/ Head(toStation).own)
    <3>1. Register!TakeEffect
      BY <1>2, <1>3, <2>1, <2>3
      DEF Register!TakeEffect, Register!Effect, Register!NoPending, NoCall
    <3>2. QED
      BY <3>1 DEF Register!RegNext
  <2>4. QED
    BY <2>2, <2>3
<1>4. CASE ~Head(toStation).own
  <2>1. c \in Posted /\ Posted' \in {Posted, Posted \ {c}}
    BY <1>4, PostedHead
  <2>2. applied' = applied /\ (decoder' = decoder \/ Execute(c))
    BY <1>1, <1>4
  <2>3. Register!PostedTakesEffect(c)
    BY <1>2, <2>1, <2>2 DEF Register!PostedTakesEffect, Register!Effect
  <2>4. QED
    BY <2>1, <2>3 DEF Register!RegNext
<1>5. QED
  BY <1>3, <1>4

LEMMA EnvironmentRefines ==
    ASSUME Calm, UdpTypeOK, WireInv, Environment
    PROVE  [Register!RegNext]_(Register!regVars)
<1>1. ~Unreachable
  BY DEF Calm, Unreachable
<1>2. CASE StationExec
  BY <1>2, TakenRefines DEF StationExec
<1>3. CASE StationRefuse
  BY <1>3, TakenRefines DEF StationRefuse
<1>4. CASE Lose
  <2>1. UNCHANGED <<decoder, call, applied, outcome>>
    BY <1>4 DEF Lose
  <2>2. CASE UNCHANGED toStation
    BY <2>1, <2>2 DEF Register!regVars, Posted
  <2>3. CASE toStation # <<>> /\ toStation' = Tail(toStation)
    BY <2>1, <2>3, TakenRefines
  <2>4. QED
    BY <1>4, <2>2, <2>3 DEF Lose
<1>5. QED
  BY <1>1, <1>2, <1>3, <1>4 DEF Environment

(* In a calm environment a call of the client is an atomic access to the   *)
(* decoder's CVs: it returns what they hold, and nothing of it happens     *)
(* once it has returned (z21_udp.rs's "single-flight send-and-await        *)
(* window").                                                               *)
THEOREM ClientIsRegister == ASSUME Calm PROVE UdpSpec => RegisterSpec
<1>1. UdpInit => Register!RegInit
  <2>1. \A i \in 1..Len(<<>>) : FALSE
    OBVIOUS
  <2>2. UdpInit => Posted = {}
    BY <2>1 DEF UdpInit, Posted
  <2>3. QED
    BY <2>2 DEF UdpInit, Register!RegInit, Register!NoPending, NoCall, Ended
<1>2. UdpTypeOK /\ WireInv /\ [UdpNext]_udpVars => [Register!RegNext]_(Register!regVars)
  <2> SUFFICES ASSUME UdpTypeOK, WireInv, [UdpNext]_udpVars
               PROVE  [Register!RegNext]_(Register!regVars)
    OBVIOUS
  <2>1. ASSUME NEW c \in Commands, Call(c) \/ Post(c)
        PROVE  [Register!RegNext]_(Register!regVars)
    BY <2>1, SendRefines
  <2>2. CASE SendError \/ RecvResult \/ RecvOther \/ RecvNack \/ RecvError \/ Timeout \/ Drop
    BY <2>2, ClientRefines
  <2>3. CASE Environment
    BY <2>3, EnvironmentRefines
  <2>4. CASE UNCHANGED udpVars
    BY <2>4 DEF udpVars, Register!regVars, Posted
  <2>5. QED
    BY <2>1, <2>2, <2>3, <2>4 DEF UdpNext
<1>3. QED
  BY <1>1, <1>2, UdpTypeCorrect, WireInvariant, PTL
  DEF UdpSpec, RegisterSpec, Register!RegSpec

-----------------------------------------------------------------------------
(* What a call accepts, whatever goes wrong *)

(* The steps of the client, for any command. *)
UdpStep ==
    \/ \E c \in Command : Call(c) \/ Post(c)
    \/ SendError \/ RecvResult \/ RecvOther \/ RecvNack \/ RecvError \/ Timeout \/ Drop
    \/ Environment

(* Every answer under way tells a value that its CV has had: the decoder's *)
(* values are remembered, and none is forgotten.                           *)
HeldInv ==
    /\ \A cv \in CvNo : decoder[cv] \in held[cv]
    /\ \A i \in 1..Len(replies) :
         replies[i].kind = "result" => replies[i].value \in held[replies[i].cv]

(* A reply that is dropped, or disowned, leaves the others as they were.   *)
LEMMA RepliesLeft ==
    ASSUME UdpTypeOK, HeldInv, UNCHANGED <<decoder, held>>,
           NEW s \in {replies, Tail(replies)}, s = replies \/ replies # <<>>,
           replies' \in {s, Disown(s)}
    PROVE  HeldInv'
<1>1. /\ s \in Seq(Reply)
      /\ \A i \in 1..Len(s) : s[i].kind = "result" => s[i].value \in held'[s[i].cv]
  <2>1. replies \in Seq(Reply)
    BY DEF UdpTypeOK
  <2>2. CASE s = replies
    BY <2>1, <2>2 DEF HeldInv
  <2>3. CASE s = Tail(replies) /\ replies # <<>>
    <3>1. /\ s \in Seq(Reply) /\ Len(s) = Len(replies) - 1 /\ Len(replies) \in Nat
          /\ \A i \in 1..Len(s) : s[i] = replies[i + 1]
      BY <2>1, <2>3
    <3>2. \A i \in 1..Len(s) : i + 1 \in 1..Len(replies)
      BY <3>1
    <3>3. QED
      BY <3>1, <3>2 DEF HeldInv
  <2>4. QED
    BY <2>2, <2>3
<1>2. /\ Len(replies') = Len(s)
      /\ \A i \in 1..Len(s) : /\ replies'[i].kind = s[i].kind
                              /\ replies'[i].cv = s[i].cv
                              /\ replies'[i].value = s[i].value
  <2>1. \A i \in 1..Len(s) : s[i] \in Reply
    BY <1>1
  <2>2. \A d \in Reply : LET e == [d EXCEPT !.own = FALSE]
                         IN  e.kind = d.kind /\ e.cv = d.cv /\ e.value = d.value
    BY DEF Reply
  <2>3. Disown(s) = [i \in 1..Len(s) |-> [s[i] EXCEPT !.own = FALSE]]
    BY <1>1 DEF Disown
  <2>4. \A i \in 1..Len(s) : Disown(s)[i] = [s[i] EXCEPT !.own = FALSE]
    BY <2>3
  <2>5. Len(Disown(s)) = Len(s)
    BY <1>1, DisownReplies
  <2>6. QED
    BY <2>1, <2>2, <2>4, <2>5
<1>3. QED
  BY <1>1, <1>2 DEF HeldInv

(* Nor do the commands that the station executes and answers. *)
LEMMA ExecuteHeld ==
    ASSUME UdpTypeOK, HeldInv, NEW d \in Datagram,
           \/ Execute(d.cmd)
           \/ UNCHANGED <<decoder, held>>,
           \/ AnswerTo(d, "result", decoder'[d.cmd.cv])
           \/ \E kind \in {"nack", "short"} : AnswerTo(d, kind, 0)
    PROVE  HeldInv'
<1>1. d.cmd \in Command /\ d.cmd.cv \in CvNo
  BY DEF Datagram, Command
<1>2. /\ \A cv \in CvNo : decoder'[cv] \in held'[cv]
      /\ \A cv \in CvNo : held[cv] \subseteq held'[cv]
  BY <1>1 DEF UdpTypeOK, HeldInv, Execute
<1>3. ASSUME NEW i \in 1..Len(replies') , replies'[i].kind = "result"
      PROVE  replies'[i].value \in held'[replies'[i].cv]
  <2>1. CASE i \in 1..Len(replies) /\ replies'[i] = replies[i]
    <3>1. replies[i] \in Reply
      BY <2>1 DEF UdpTypeOK
    <3>2. replies[i].cv \in CvNo
      BY <3>1 DEF Reply
    <3>3. QED
      BY <1>2, <1>3, <2>1, <3>2 DEF HeldInv
  <2>2. CASE /\ replies' # replies
             /\ i = Len(replies) + 1 
    <3>1. PICK kind \in {"result", "nack", "short"}, value \in {decoder'[d.cmd.cv], 0} :
            /\ replies' = Append(replies, [kind |-> kind, cv |-> d.cmd.cv, value |-> value,
                                           own |-> d.own])
            /\ kind = "result" => value = decoder'[d.cmd.cv]
      BY <2>2 DEF AnswerTo
    <3>2. replies'[i] = [kind |-> kind, cv |-> d.cmd.cv, value |-> value, own |-> d.own]
      BY <2>2, <3>1 DEF UdpTypeOK
    <3>3. QED
      BY <1>1, <1>2, <1>3, <3>1, <3>2
  <2>3. \/ i \in 1..Len(replies) /\ replies'[i] = replies[i]
        \/ replies' # replies /\ i = Len(replies) + 1
    <3>1. CASE replies' = replies
      BY <3>1
    <3>2. CASE replies' # replies
      <4>1. PICK x : replies' = Append(replies, x)
        BY <3>2 DEF AnswerTo
      <4>2. QED
        BY <3>2, <4>1 DEF UdpTypeOK
    <3>3. QED
      BY <3>1, <3>2
  <2>4. QED
    BY <2>1, <2>2, <2>3
<1>4. QED
  BY <1>2, <1>3 DEF HeldInv

LEMMA StepHeld ==
    ASSUME UdpTypeOK, HeldInv, UdpStep
    PROVE  HeldInv'
<1>1. CASE (\E c \in Command : Call(c) \/ Post(c)) \/ SendError \/ Unreachable
  <2>1. UNCHANGED <<decoder, held, replies>>
    BY <1>1 DEF Call, Post, SendError, Unreachable
  <2>2. QED
    BY <2>1 DEF HeldInv
<1>2. CASE RecvResult \/ RecvOther \/ RecvNack \/ RecvError \/ Timeout \/ Drop
  <2>1. /\ UNCHANGED <<decoder, held>>
        /\ \/ replies' = Disown(replies)
           \/ replies # <<>> /\ replies' \in {Tail(replies), Disown(Tail(replies))}
    BY <1>2 DEF RecvResult, RecvOther, RecvNack, RecvError, Timeout, Drop, EndCall
  <2>2. QED
    BY <2>1, RepliesLeft
<1>3. CASE Lose
  <2>1. /\ UNCHANGED <<decoder, held>>
        /\ replies' = replies \/ (replies # <<>> /\ replies' = Tail(replies))
    BY <1>3 DEF Lose
  <2>2. QED
    BY <2>1, RepliesLeft
<1>4. CASE StationExec \/ StationRefuse
  <2>1. Head(toStation) \in Datagram
    BY <1>4 DEF UdpTypeOK, StationExec, StationRefuse
  <2>2. CASE StationExec
    BY <2>1, <2>2, ExecuteHeld DEF StationExec
  <2>3. CASE StationRefuse
    BY <2>1, <2>3, ExecuteHeld DEF StationRefuse
  <2>4. QED
    BY <1>4, <2>2, <2>3
<1>5. QED
  BY <1>1, <1>2, <1>3, <1>4 DEF UdpStep, Environment

LEMMA InitHeld == UdpInit => HeldInv
<1>1. \A i \in 1..Len(<<>>) : FALSE
  OBVIOUS
<1>2. QED
  BY <1>1 DEF UdpInit, HeldInv

(* The step that accepts an answer takes the value of its CV. *)
LEMMA AcceptsHeld ==
    ASSUME UdpTypeOK, HeldInv, UdpStep, call # NoCall, call' = NoCall, outcome'.st = "ok"
    PROVE  outcome'.value \in held[call.cv]
<1>1. RecvResult
  <2>1. \A st \in {"nack", "short", "timeout", "io", "dropped"} : Ended(st, 0).st # "ok"
    BY DEF Ended
  <2>2. ~(Timeout \/ Drop \/ RecvError \/ SendError)
    BY <2>1 DEF Timeout, Drop, RecvError, SendError, EndCall
  <2>3. ~RecvNack
    BY <2>1 DEF RecvNack, EndCall
  <2>4. ~(RecvOther \/ Environment) /\ \A c \in Command : ~(Call(c) \/ Post(c))
    BY DEF RecvOther, Environment, StationExec, StationRefuse, Lose, Unreachable, Call, Post
  <2>5. QED
    BY <2>2, <2>3, <2>4 DEF UdpStep
<1>2. /\ replies # <<>> /\ Head(replies).kind = "result" /\ Head(replies).cv = call.cv
      /\ outcome'.value = Head(replies).value
  BY <1>1 DEF RecvResult, Accepts, EndCall, Ended
<1>3. Head(replies) = replies[1] /\ 1 \in 1..Len(replies)
  BY <1>2 DEF UdpTypeOK
<1>4. QED
  BY <1>2, <1>3 DEF HeldInv

(* Whatever is lost, late, refused or dropped, and however often: a value  *)
(* that a call accepts is one that its CV has had, never that of another   *)
(* CV (`got == cv` in await_result).                                       *)
THEOREM AcceptedWasHeld == UdpSpec => AnswerWasHeld
<1>1. UdpTypeOK /\ HeldInv /\ [UdpNext]_udpVars => HeldInv'
  <2>1. UdpNext => UdpStep
    BY UdpAssumption DEF UdpNext, UdpStep
  <2>2. HeldInv /\ UNCHANGED udpVars => HeldInv'
    BY DEF HeldInv, udpVars
  <2>3. QED
    BY <2>1, <2>2, StepHeld
<1>2. UdpTypeOK /\ HeldInv /\ [UdpNext]_udpVars
        => [call # NoCall /\ call' = NoCall /\ outcome'.st = "ok"
              => outcome'.value \in held[call.cv]]_udpVars
  <2>1. UdpNext => UdpStep
    BY UdpAssumption DEF UdpNext, UdpStep
  <2>2. QED
    BY <2>1, AcceptsHeld DEF udpVars
<1>3. QED
  BY <1>1, <1>2, InitHeld, UdpTypeCorrect, PTL DEF UdpSpec, AnswerWasHeld
=============================================================================
