------------------------ MODULE Z21ProgrammingProofs ------------------------
(***************************************************************************)
(* Proofs about Z21Programming for every set of requests and jobs, every   *)
(* decoder, every bound and every combination of faults.                   *)
(*                                                                         *)
(* Type correctness and mutual exclusion depend on each other: a request   *)
(* that awaits has a command (Work), the command is the one in `call`      *)
(* (SingleFlight), so what it writes into its table is a byte (Bytes).     *)
(***************************************************************************)
EXTENDS Z21Programming, Z21UdpProofs

-----------------------------------------------------------------------------
(* What the write batch of `addr_set` does to a decoder, for every address *)
(* and every content of the CVs.                                           *)

(* The CV table after the first n writes of a batch that writes no CV twice. *)
After(cvs, writes, n) ==
    [cv \in CvNo |-> IF \E i \in 1..n : writes[i].cv = cv
                     THEN writes[CHOOSE i \in 1..n : writes[i].cv = cv].value
                     ELSE cvs[cv]]

LEMMA LongBitSet ==
    ASSUME NEW v \in Byte
    PROVE  /\ SetBit(v, LongBit) \in Byte
           /\ BitOn(SetBit(v, LongBit), LongBit)
           /\ ClearBit(v, LongBit) \in Byte
           /\ ~BitOn(ClearBit(v, LongBit), LongBit)
  BY DEF SetBit, ClearBit, BitOn, LongBit, Byte

LEMMA RailcomBitCleared ==
    ASSUME NEW v \in Byte
    PROVE  /\ ClearBit(v, RailcomBit) \in Byte
           /\ ~RailcomPlusOn(ClearBit(v, RailcomBit))
  BY DEF ClearBit, RailcomPlusOn, BitOn, RailcomBit, Byte

LEMMA LongBytes ==
    ASSUME NEW a \in Nat, ValidAddress(a)
    PROVE  /\ 192 + a \div 256 \in Byte
           /\ a % 256 \in Byte
           /\ (((192 + a \div 256) % 64) * 256) + (a % 256) = a
  BY SMTT(30) DEF ValidAddress, MaxDccAddress, Byte

(* The whole batch puts the decoder on the address asked for, whatever it  *)
(* held before, and leaves the CVs outside the batch alone.                *)
THEOREM AddressRoundTrip ==
    ASSUME NEW a \in Nat, ValidAddress(a), NEW cvs \in [CvNo -> Byte]
    PROVE  LET writes == AddressCvWrites(a, cvs[29])
               after == After(cvs, writes, Len(writes))
           IN  after \in [CvNo -> Byte] /\ DecodeAddress(after) = a /\ after[28] = cvs[28]
<1> DEFINE writes == AddressCvWrites(a, cvs[29])
           after == After(cvs, writes, Len(writes))
<1>0. \A cv \in CvNo : cvs[cv] \in Byte
  OBVIOUS
<1>1. CASE IsLong(a)
  <2>1. writes = << Entry(17, 192 + a \div 256), Entry(18, a % 256),
                    Entry(29, SetBit(cvs[29], LongBit)) >>
    BY <1>1 DEF AddressCvWrites
  <2>2. /\ after[17] = 192 + a \div 256 /\ after[18] = a % 256
        /\ after[29] = SetBit(cvs[29], LongBit)
        /\ after[1] = cvs[1] /\ after[28] = cvs[28]
    BY <2>1 DEF After, Entry, CvNo
  <2>3. after = [cv \in CvNo |-> after[cv]]
    BY DEF After
  <2>4. after \in [CvNo -> Byte]
    <3>1. cvs[29] \in Byte /\ cvs[1] \in Byte /\ cvs[28] \in Byte
      BY <1>0 DEF CvNo
    <3>2. SetBit(cvs[29], LongBit) \in Byte
      BY <3>1, LongBitSet
    <3>3. \A cv \in CvNo : after[cv] \in Byte
      BY <2>2, <3>1, <3>2, LongBytes DEF CvNo
    <3> HIDE DEF after
    <3>4. QED
      BY <2>3, <3>3
  <2>5. DecodeAddress(after) = a
    BY <2>2, <1>0, LongBytes, LongBitSet DEF DecodeAddress, CvNo
  <2>6. QED
    BY <2>2, <2>4, <2>5
<1>2. CASE ~IsLong(a)
  <2>1. writes = << Entry(1, a), Entry(29, ClearBit(cvs[29], LongBit)) >>
    BY <1>2 DEF AddressCvWrites
  <2>2. /\ after[1] = a /\ after[29] = ClearBit(cvs[29], LongBit)
        /\ after[17] = cvs[17] /\ after[18] = cvs[18] /\ after[28] = cvs[28]
    BY <2>1 DEF After, Entry, CvNo
  <2>3. a \in Byte
    BY <1>2 DEF IsLong, ValidAddress, MaxDccAddress, Byte
  <2>4. after = [cv \in CvNo |-> after[cv]]
    BY DEF After
  <2>5. after \in [CvNo -> Byte]
    <3>1. cvs[29] \in Byte /\ cvs[17] \in Byte /\ cvs[18] \in Byte /\ cvs[28] \in Byte
      BY <1>0 DEF CvNo
    <3>2. ClearBit(cvs[29], LongBit) \in Byte
      BY <3>1, LongBitSet
    <3>3. \A cv \in CvNo : after[cv] \in Byte
      BY <2>2, <2>3, <3>1, <3>2 DEF CvNo
    <3> HIDE DEF after
    <3>4. QED
      BY <2>4, <3>3
  <2>6. DecodeAddress(after) = a
    BY <2>2, <1>0, LongBitSet DEF DecodeAddress, CvNo
  <2>7. QED
    BY <2>2, <2>5, <2>6
<1>3. QED
  BY <1>1, <1>2

(* A batch that changes the form of the address (short to long, or back)   *)
(* and stops after any proper prefix leaves the decoder on the address it  *)
(* had: the form bit of CV 29 goes last.                                   *)
THEOREM FormSwitchIsAtomic ==
    ASSUME NEW a \in Nat, ValidAddress(a), NEW cvs \in [CvNo -> Byte],
           BitOn(cvs[29], LongBit) # IsLong(a),
           NEW n \in 0..(Len(AddressCvWrites(a, cvs[29])) - 1)
    PROVE  DecodeAddress(After(cvs, AddressCvWrites(a, cvs[29]), n)) = DecodeAddress(cvs)
<1> DEFINE writes == AddressCvWrites(a, cvs[29])
           after == After(cvs, writes, n)
<1>1. CASE IsLong(a)
  <2>1. writes = << Entry(17, 192 + a \div 256), Entry(18, a % 256),
                    Entry(29, SetBit(cvs[29], LongBit)) >>
    BY <1>1 DEF AddressCvWrites
  <2>2. n \in 0..2
    BY <2>1
  <2>3. \A i \in 1..n : writes[i].cv # 29 /\ writes[i].cv # 1
    BY <2>1, <2>2 DEF Entry
  <2>4. after[29] = cvs[29] /\ after[1] = cvs[1]
    BY <2>3 DEF After, CvNo
  <2>5. QED
    BY <2>4, <1>1 DEF DecodeAddress, IsLong, BitOn
<1>2. CASE ~IsLong(a)
  <2>1. writes = << Entry(1, a), Entry(29, ClearBit(cvs[29], LongBit)) >>
    BY <1>2 DEF AddressCvWrites
  <2>2. n \in 0..1
    BY <2>1
  <2>3. \A i \in 1..n : writes[i].cv \notin {17, 18, 29}
    BY <2>1, <2>2 DEF Entry
  <2>4. after[29] = cvs[29] /\ after[17] = cvs[17] /\ after[18] = cvs[18]
    BY <2>3 DEF After, CvNo
  <2>5. QED
    BY <2>4, <1>2 DEF DecodeAddress, IsLong, BitOn
<1>3. QED
  BY <1>1, <1>2

-----------------------------------------------------------------------------

(* Only CV 28 may be missing from a request's table. *)
Bytes == \A r \in Requests : \A cv \in CvNo \ {28} : vals[r][cv] \in Byte

AddressStages == {"read29", "read28", "write", "verify"}

(* A request that wants the lock or holds it has a job, a stage of that    *)
(* job, and a command left to send.                                        *)
Work ==
    \A r \in Requests :
      /\ pc[r] # "idle" => job[r] \in Jobs
      /\ stage[r] \in AddressStages => pc[r] # "idle" /\ job[r].op = "addrSet"
      /\ pc[r] \in {"send", "await"} => stage[r] # "connect"
      /\ pc[r] \in {"lock", "send", "await"} /\ stage[r] # "connect" => todo[r] # <<>>

Inv == TypeOK /\ Bytes /\ Work /\ SingleFlight

Table == [CvNo -> Byte \cup {NoValue}]
GoodTable == { v \in Table : \A cv \in CvNo \ {28} : v[cv] \in Byte }

-----------------------------------------------------------------------------
(* The commands of a stage *)

LEMMA JobType ==
    ASSUME NEW j \in Job
    PROVE  j.pom \in BOOLEAN /\ j.addr \in Nat /\ j.cmds \in Seq(Command)
<1>1. j.pom \in BOOLEAN
  BY DEF Job
<1>2. j.addr \in 0..MaxDccAddress
  BY DEF Job
<1>3. j.addr \in Nat
  <2>1. \A a \in 0..MaxDccAddress : a \in Nat
    BY DEF MaxDccAddress
  <2>2. QED
    BY <1>2, <2>1, Zenon
<1>4. j.cmds \in Seq(Command)
  BY DEF Job
<1>5. QED
  BY <1>1, <1>3, <1>4

LEMMA CommandForType ==
    ASSUME NEW j \in Job, NEW kind \in {"read", "write"}, NEW cv \in CvNo, NEW value \in Byte
    PROVE  CommandFor(j, kind, cv, value) \in Command
<1>1. j.pom \in BOOLEAN /\ j.addr \in Nat
  BY JobType
<1>2. QED
  BY <1>1 DEF CommandFor, Command

LEMMA ReadsType ==
    ASSUME NEW j \in Job, NEW cvs \in Seq(CvNo), cvs # <<>>
    PROVE  Reads(j, cvs) \in Seq(Command) /\ Reads(j, cvs) # <<>>
<1>1. \A i \in 1..Len(cvs) : CommandFor(j, "read", cvs[i], 0) \in Command
  <2>1. \A i \in 1..Len(cvs) : cvs[i] \in CvNo
    OBVIOUS
  <2>2. 0 \in Byte
    BY DEF Byte
  <2>3. QED
    BY <2>1, <2>2, CommandForType
<1>2. Reads(j, cvs) = [i \in 1..Len(cvs) |-> CommandFor(j, "read", cvs[i], 0)]
  BY DEF Reads
<1>3. Len(cvs) \in Nat \ {0}
  BY EmptySeq
<1> DEFINE f == [i \in 1..Len(cvs) |-> CommandFor(j, "read", cvs[i], 0)]
<1>4. f \in Seq(Command) /\ Len(f) = Len(cvs)
  BY <1>1, <1>3
<1>5. QED
  BY <1>2, <1>3, <1>4

Entries == [cv : CvNo, value : Byte]

LEMMA WritesType ==
    ASSUME NEW j \in Job, NEW entries \in Seq(Entries), entries # <<>>
    PROVE  Writes(j, entries) \in Seq(Command) /\ Writes(j, entries) # <<>>
<1>0. \A i \in 1..Len(entries) : entries[i].cv \in CvNo /\ entries[i].value \in Byte
  <2>1. \A i \in 1..Len(entries) : entries[i] \in Entries
    OBVIOUS
  <2>2. QED
    BY <2>1 DEF Entries
<1>1. \A i \in 1..Len(entries) :
        CommandFor(j, "write", entries[i].cv, entries[i].value) \in Command
  BY <1>0, CommandForType
<1>3. Len(entries) \in Nat \ {0}
  BY EmptySeq
<1> DEFINE f == [i \in 1..Len(entries) |->
                   CommandFor(j, "write", entries[i].cv, entries[i].value)]
<1>2. Writes(j, entries) = f
  BY DEF Writes
<1>4. f \in Seq(Command) /\ Len(f) = Len(entries)
  BY <1>1, <1>3
<1>5. QED
  BY <1>2, <1>3, <1>4

LEMMA AddressWritesType ==
    ASSUME NEW j \in Job, ValidAddress(j.addr), NEW v \in GoodTable
    PROVE  AddressWrites(j, v) \in Seq(Entries) /\ AddressWrites(j, v) # <<>>
<1>1. j.addr \in Nat /\ v[29] \in Byte /\ v[28] \in Byte \cup {NoValue}
  <2>1. j.addr \in Nat
    BY JobType
  <2>2. 29 \in CvNo \ {28} /\ 28 \in CvNo
    BY DEF CvNo
  <2>3. QED
    BY <2>1, <2>2 DEF GoodTable, Table
<1> DEFINE w == AddressCvWrites(j.addr, v[29])
<1>2. w \in Seq(Entries) /\ w # <<>>
  <2>1. CASE IsLong(j.addr)
    <3>1. /\ Entry(17, 192 + j.addr \div 256) \in Entries
          /\ Entry(18, j.addr % 256) \in Entries
          /\ Entry(29, SetBit(v[29], LongBit)) \in Entries
      BY <1>1, LongBytes, LongBitSet DEF Entry, Entries, CvNo
    <3>2. QED
      BY <2>1, <3>1 DEF AddressCvWrites
  <2>2. CASE ~IsLong(j.addr)
    <3>1. j.addr \in Byte
      BY <1>1, <2>2 DEF IsLong, ValidAddress, Byte
    <3>2. Entry(1, j.addr) \in Entries /\ Entry(29, ClearBit(v[29], LongBit)) \in Entries
      BY <1>1, <3>1, LongBitSet DEF Entry, Entries, CvNo
    <3>3. QED
      BY <2>2, <3>2 DEF AddressCvWrites
  <2>3. QED
    BY <2>1, <2>2
<1> HIDE DEF w
<1>3. PrependRailcomPlusOff(v[28], w) \in Seq(Entries) /\ PrependRailcomPlusOff(v[28], w) # <<>>
  <2>1. CASE v[28] # NoValue /\ RailcomPlusOn(v[28])
    <3>1. Entry(28, ClearBit(v[28], RailcomBit)) \in Entries
      BY <1>1, <2>1, RailcomBitCleared DEF Entry, Entries, CvNo
    <3>2. << Entry(28, ClearBit(v[28], RailcomBit)) >> \o w \in Seq(Entries)
      BY <1>2, <3>1
    <3>3. << Entry(28, ClearBit(v[28], RailcomBit)) >> \o w # <<>>
      BY <1>2, <3>1
    <3>4. QED
      BY <2>1, <3>2, <3>3 DEF PrependRailcomPlusOff
  <2>2. CASE ~(v[28] # NoValue /\ RailcomPlusOn(v[28]))
    BY <1>2, <2>2 DEF PrependRailcomPlusOff
  <2>3. QED
    BY <2>1, <2>2
<1>4. QED
  BY <1>3 DEF AddressWrites, w

LEMMA StageCommandsType ==
    ASSUME NEW j \in Jobs, NEW v \in GoodTable,
           NEW st \in Stages \ {"none"},
           st \in AddressStages => j.op = "addrSet",
           st = "cvs" => j.op = "cvs"
    PROVE  /\ StageCommands(j, st, v) \in Seq(Command)
           /\ st # "connect" => StageCommands(j, st, v) # <<>>
<1>1. j \in Job /\ (j.op = "addrSet" => ValidAddress(j.addr)) /\ j.cmds \in Seq(Command)
      /\ (j.op = "cvs" => j.cmds # <<>>)
  BY ProgrammingAssumption DEF Job
<1>2. /\ <<29>> \in Seq(CvNo) /\ <<29>> # <<>> /\ <<28>> \in Seq(CvNo) /\ <<28>> # <<>>
      /\ AddrCvs \in Seq(CvNo) /\ AddrCvs # <<>>
  BY DEF CvNo, AddrCvs
<1>3. CASE st \in {"read29", "read28", "verify", "get"}
  BY <1>1, <1>2, <1>3, ReadsType DEF StageCommands
<1>4. CASE st = "write"
  <2>1. AddressWrites(j, v) \in Seq(Entries) /\ AddressWrites(j, v) # <<>>
    BY <1>1, <1>4, AddressWritesType DEF AddressStages
  <2>2. StageCommands(j, st, v) = Writes(j, AddressWrites(j, v))
    BY <1>4 DEF StageCommands
  <2>3. QED
    BY <1>1, <2>1, <2>2, WritesType
<1>5. CASE st \in {"cvs", "connect"}
  BY <1>1, <1>5 DEF StageCommands
<1>6. QED
  BY <1>3, <1>4, <1>5 DEF Stages

-----------------------------------------------------------------------------
(* How a request moves on: one lemma for each helper the actions share *)

(* What a step of one request leaves alone of the others, and what the     *)
(* moved request satisfies.                                                *)
LEMMA EnterStageInv ==
    ASSUME ProgTypeOK, Bytes, Work, NEW r \in Requests, NEW j \in Jobs, NEW v \in GoodTable,
           NEW st \in Stages \ {"none"},
           EnterStage(r, j, st, v), job' = [job EXCEPT ![r] = j],
           st \in AddressStages => j.op = "addrSet",
           st = "cvs" => j.op = "cvs",
           connected' \in BOOLEAN, holder' \in Requests \cup {NoRequest}
    PROVE  ProgTypeOK' /\ Bytes' /\ Work'
<1>1. /\ StageCommands(j, st, v) \in Seq(Command)
      /\ st # "connect" => StageCommands(j, st, v) # <<>>
  BY StageCommandsType
<1>2. v \in Table /\ \A cv \in CvNo \ {28} : v[cv] \in Byte
  BY DEF GoodTable
<1>3. ProgTypeOK'
  <2>1. todo' \in [Requests -> Seq(Command)]
    BY <1>1 DEF ProgTypeOK, EnterStage
  <2>2. vals' \in [Requests -> [CvNo -> Byte \cup {NoValue}]]
    BY <1>2 DEF ProgTypeOK, EnterStage, Table
  <2>3. /\ pc' \in [Requests -> {"idle", "lock", "send", "await", "done"}]
        /\ job' \in [Requests -> Jobs \cup {NoJob}]
        /\ stage' \in [Requests -> Stages]
        /\ resp' \in [Requests -> Responses]
    BY DEF ProgTypeOK, EnterStage
  <2>4. QED
    BY <2>1, <2>2, <2>3 DEF ProgTypeOK
<1>4. Bytes'
  BY <1>2 DEF Bytes, ProgTypeOK, EnterStage
<1>5. Work'
  BY <1>1 DEF Work, ProgTypeOK, EnterStage
<1>6. QED
  BY <1>3, <1>4, <1>5

LEMMA RespondInv ==
    ASSUME ProgTypeOK, Bytes, Work, NEW r \in Requests, NEW v \in GoodTable,
           NEW result \in Responses, Respond(r, result, v), pc[r] # "idle", UNCHANGED job,
           connected' \in BOOLEAN, holder' \in Requests \cup {NoRequest}
    PROVE  ProgTypeOK' /\ Bytes' /\ Work'
<1>1. v \in Table /\ \A cv \in CvNo \ {28} : v[cv] \in Byte
  BY DEF GoodTable
<1>2. ProgTypeOK'
  <2>1. <<>> \in Seq(Command)
    OBVIOUS
  <2>2. todo' \in [Requests -> Seq(Command)]
    BY <2>1 DEF ProgTypeOK, Respond
  <2>3. vals' \in [Requests -> [CvNo -> Byte \cup {NoValue}]]
    BY <1>1 DEF ProgTypeOK, Respond, Table
  <2>4. /\ pc' \in [Requests -> {"idle", "lock", "send", "await", "done"}]
        /\ job' \in [Requests -> Jobs \cup {NoJob}]
        /\ stage' \in [Requests -> Stages]
        /\ resp' \in [Requests -> Responses]
    BY DEF ProgTypeOK, Respond
  <2>5. QED
    BY <2>2, <2>3, <2>4 DEF ProgTypeOK
<1>3. Bytes'
  BY <1>1 DEF Bytes, ProgTypeOK, Respond
<1>4. Work'
  BY DEF Work, ProgTypeOK, Respond
<1>5. QED
  BY <1>2, <1>3, <1>4

(* A request's own table is a good one, and stays one when CV 28 is        *)
(* dropped from it or a byte is noted.                                     *)
LEMMA TableIsGood ==
    ASSUME ProgTypeOK, Bytes, NEW r \in Requests
    PROVE  /\ vals[r] \in GoodTable
           /\ [vals[r] EXCEPT ![28] = NoValue] \in GoodTable
           /\ \A cv \in CvNo, value \in Byte : [vals[r] EXCEPT ![cv] = value] \in GoodTable
<1>1. vals[r] \in [CvNo -> Byte \cup {NoValue}] /\ \A cv \in CvNo \ {28} : vals[r][cv] \in Byte
  BY DEF ProgTypeOK, Bytes
<1>2. ASSUME NEW t \in [CvNo -> Byte \cup {NoValue}], \A cv \in CvNo \ {28} : t[cv] \in Byte
      PROVE  /\ [t EXCEPT ![28] = NoValue] \in GoodTable
             /\ \A cv \in CvNo, value \in Byte : [t EXCEPT ![cv] = value] \in GoodTable
  BY <1>2 DEF GoodTable, Table
<1>3. QED
  BY <1>1, <1>2 DEF GoodTable, Table

LEMMA ZerosIsGood == Zeros \in GoodTable
<1>1. 0 \in Byte
  BY DEF Byte
<1>2. QED
  BY <1>1 DEF Zeros, GoodTable, Table

(* The request that held the lock keeps it and has the next command to     *)
(* send, or has dropped it.                                                *)
MovedOn(r) ==
    /\ \A q \in Requests \ {r} : pc'[q] = pc[q] /\ todo'[q] = todo[q]
    /\ \/ pc'[r] = "send" /\ holder' = r
       \/ pc'[r] \in {"lock", "done"} /\ holder' = NoRequest

LEMMA MovedOnFlight ==
    ASSUME SingleFlight, ProgTypeOK, NEW r \in Requests, holder = r, MovedOn(r), call' = NoCall
    PROVE  SingleFlight'
<1>1. NoRequest \notin Requests
  BY ProgrammingAssumption
<1>2. \A q \in Requests \ {r} : pc'[q] = pc[q] /\ pc[q] \notin {"send", "await"} /\ holder' # q
  BY <1>1 DEF SingleFlight, MovedOn
<1>3. pc'[r] # "await" /\ (pc'[r] = "send" <=> holder' = r)
  BY <1>1 DEF MovedOn
<1>4. QED
  BY <1>2, <1>3 DEF SingleFlight

LEMMA FinishInv ==
    ASSUME ProgTypeOK, Bytes, Work, NEW r \in Requests, NEW v \in GoodTable,
           pc[r] \in {"send", "await"}, holder = r, Finish(r, v), UNCHANGED <<connected, job>>
    PROVE  ProgTypeOK' /\ Bytes' /\ Work' /\ MovedOn(r)
<1>1. holder' = NoRequest /\ holder' \in Requests \cup {NoRequest} /\ connected' \in BOOLEAN
  BY DEF Finish, Release, ProgTypeOK
<1>2. job[r] \in Jobs /\ job' = [job EXCEPT ![r] = job[r]] /\ pc[r] # "idle"
  BY DEF Work, ProgTypeOK
<1>3. stage[r] \in AddressStages => job[r].op = "addrSet"
  BY DEF Work
<1>4. ASSUME NEW st \in {"read28", "write", "verify"}, NEW w \in GoodTable,
             EnterStage(r, job[r], st, w), job[r].op = "addrSet"
      PROVE  ProgTypeOK' /\ Bytes' /\ Work' /\ MovedOn(r)
  <2>1. st \in Stages \ {"none"} /\ st # "cvs"
    BY DEF Stages
  <2>2. ProgTypeOK' /\ Bytes' /\ Work'
    BY <1>1, <1>2, <1>4, <2>1, EnterStageInv
  <2>3. MovedOn(r)
    BY <1>1, <1>4 DEF MovedOn, EnterStage, ProgTypeOK
  <2>4. QED
    BY <2>2, <2>3
<1>5. ASSUME NEW result \in {"ok", "mismatch"}, Respond(r, result, v)
      PROVE  ProgTypeOK' /\ Bytes' /\ Work' /\ MovedOn(r)
  <2>1. result \in Responses
    BY DEF Responses
  <2>2. ProgTypeOK' /\ Bytes' /\ Work'
    BY <1>1, <1>2, <1>5, <2>1, RespondInv
  <2>3. MovedOn(r)
    BY <1>1, <1>5 DEF MovedOn, Respond, ProgTypeOK
  <2>4. QED
    BY <2>2, <2>3
<1>6. \/ \E st \in {"read28", "write", "verify"}, w \in {v, Zeros} :
           stage[r] \in AddressStages /\ EnterStage(r, job[r], st, w)
      \/ \E result \in {"ok", "mismatch"} : Respond(r, result, v)
  BY DEF Finish, AddressStages
<1>7. QED
  BY <1>3, <1>4, <1>5, <1>6, ZerosIsGood

LEMMA AbortInv ==
    ASSUME ProgTypeOK, Bytes, Work, NEW r \in Requests, pc[r] \in {"send", "await"}, holder = r,
           NEW result \in {"failed", "cancelled"}, Respond(r, result, vals[r]), Release(r),
           UNCHANGED <<connected, job>>
    PROVE  ProgTypeOK' /\ Bytes' /\ Work' /\ MovedOn(r)
<1>1. holder' = NoRequest /\ holder' \in Requests \cup {NoRequest} /\ connected' \in BOOLEAN
  BY DEF Release, ProgTypeOK
<1>2. result \in Responses /\ pc[r] # "idle" /\ vals[r] \in GoodTable
  BY TableIsGood DEF Responses
<1>3. ProgTypeOK' /\ Bytes' /\ Work'
  BY <1>1, <1>2, RespondInv
<1>4. MovedOn(r)
  BY <1>1 DEF MovedOn, Respond, ProgTypeOK
<1>5. QED
  BY <1>3, <1>4

LEMMA CommandDoneInv ==
    ASSUME ProgTypeOK, Bytes, Work, NEW r \in Requests, NEW v \in GoodTable,
           pc[r] \in {"send", "await"}, holder = r, CommandDone(r, v),
           UNCHANGED <<connected, job>>
    PROVE  ProgTypeOK' /\ Bytes' /\ Work' /\ MovedOn(r)
<1>1. CASE Len(todo[r]) > 1
  <2>1. /\ pc' = [pc EXCEPT ![r] = "send"]
        /\ todo' = [todo EXCEPT ![r] = Tail(todo[r])]
        /\ vals' = [vals EXCEPT ![r] = v]
        /\ UNCHANGED <<holder, stage, resp>>
    BY <1>1 DEF CommandDone
  <2>2. Tail(todo[r]) \in Seq(Command) /\ Tail(todo[r]) # <<>>
    <3>1. todo[r] \in Seq(Command)
      BY DEF ProgTypeOK
    <3>2. todo[r] # <<>>
      BY <1>1, <3>1, EmptySeq
    <3>3. Tail(todo[r]) \in Seq(Command) /\ Len(Tail(todo[r])) = Len(todo[r]) - 1
      BY <3>1, <3>2
    <3>4. Len(Tail(todo[r])) # 0
      <4>1. Len(todo[r]) \in Nat
        BY <3>1
      <4>2. \A n \in Nat : n > 1 => n - 1 # 0
        OBVIOUS
      <4>3. QED
        BY <1>1, <3>3, <4>1, <4>2, Zenon
    <3>5. QED
      BY <3>3, <3>4, EmptySeq
  <2>3. v \in [CvNo -> Byte \cup {NoValue}] /\ \A cv \in CvNo \ {28} : v[cv] \in Byte
    BY DEF GoodTable, Table
  <2>4. ProgTypeOK'
    <3>1. todo' \in [Requests -> Seq(Command)]
      BY <2>1, <2>2 DEF ProgTypeOK
    <3>2. vals' \in [Requests -> [CvNo -> Byte \cup {NoValue}]]
      BY <2>1, <2>3 DEF ProgTypeOK
    <3>3. QED
      BY <2>1, <3>1, <3>2 DEF ProgTypeOK
  <2>5. Bytes'
    BY <2>1, <2>3 DEF Bytes, ProgTypeOK
  <2>6. Work'
    BY <2>1, <2>2 DEF Work, ProgTypeOK
  <2>7. MovedOn(r)
    BY <2>1 DEF MovedOn, ProgTypeOK
  <2>8. QED
    BY <2>4, <2>5, <2>6, <2>7
<1>2. CASE ~(Len(todo[r]) > 1)
  BY <1>2, FinishInv DEF CommandDone
<1>3. QED
  BY <1>1, <1>2

-----------------------------------------------------------------------------
(* One lemma for each action *)

LEMMA InitInv == Init => Inv
<1> SUFFICES ASSUME Init PROVE Inv
  OBVIOUS
<1>1. UdpTypeOK
  BY InitType DEF Init
<1>2. ProgTypeOK
  <2>1. \A r \in Requests : vals[r] = Zeros
    BY DEF Init
  <2>2. Zeros \in [CvNo -> Byte \cup {NoValue}]
    BY ZerosIsGood DEF GoodTable, Table
  <2>3. vals \in [Requests -> [CvNo -> Byte \cup {NoValue}]]
    BY <2>2 DEF Init
  <2>4. todo \in [Requests -> Seq(Command)]
    BY DEF Init
  <2>5. QED
    BY <2>3, <2>4 DEF Init, ProgTypeOK, Stages, Responses
<1>3. Bytes
  BY ZerosIsGood DEF Init, Bytes, GoodTable
<1>4. Work
  BY DEF Init, Work, AddressStages
<1>5. SingleFlight
  BY ProgrammingAssumption DEF Init, UdpInit, SingleFlight
<1>6. QED
  BY <1>1, <1>2, <1>3, <1>4, <1>5 DEF Inv, TypeOK

LEMMA StartInv ==
    ASSUME Inv, NEW r \in Requests, Start(r)
    PROVE  Inv'
<1>1. PICK j \in Jobs : /\ job' = [job EXCEPT ![r] = j]
                        /\ EnterStage(r, j, FirstStage(j), Zeros)
  BY DEF Start
<1>2. pc[r] = "idle" /\ UNCHANGED <<udpVars, connected, holder>>
  BY DEF Start
<1>3. /\ FirstStage(j) \in Stages \ {"none"}
      /\ FirstStage(j) \in AddressStages => j.op = "addrSet"
      /\ FirstStage(j) = "cvs" => j.op = "cvs"
  <2>1. j.op \in {"connect", "cvs", "addrGet", "addrSet"}
    BY ProgrammingAssumption DEF Job
  <2>2. QED
    BY <2>1 DEF FirstStage, Stages, AddressStages
<1>4. ProgTypeOK' /\ Bytes' /\ Work'
  BY <1>1, <1>2, <1>3, EnterStageInv, ZerosIsGood DEF Inv, TypeOK, ProgTypeOK
<1>5. UdpTypeOK'
  BY <1>2 DEF Inv, TypeOK, UdpTypeOK, udpVars
<1>6. SingleFlight'
  BY <1>1, <1>2 DEF Inv, TypeOK, ProgTypeOK, SingleFlight, EnterStage, udpVars
<1>7. QED
  BY <1>4, <1>5, <1>6 DEF Inv, TypeOK

LEMMA AcquireInv ==
    ASSUME Inv, NEW r \in Requests, Acquire(r)
    PROVE  Inv'
<1>1. UdpTypeOK'
  BY DEF Acquire, Inv, TypeOK, UdpTypeOK, udpVars
<1>2. ProgTypeOK'
  BY DEF Acquire, Inv, TypeOK, ProgTypeOK
<1>3. Bytes' /\ Work'
  BY DEF Acquire, Inv, TypeOK, ProgTypeOK, Bytes, Work
<1>4. SingleFlight'
  BY ProgrammingAssumption DEF Acquire, Inv, TypeOK, ProgTypeOK, SingleFlight, udpVars
<1>5. QED
  BY <1>1, <1>2, <1>3, <1>4 DEF Inv, TypeOK

(* A request that waits for the lock ends: connect done, no connection, or *)
(* its client gone.                                                        *)
LEMMA LeavesQueueInv ==
    ASSUME Inv, NEW r \in Requests, pc[r] = "lock", NEW result \in Responses,
           Respond(r, result, vals[r]), UNCHANGED <<udpVars, holder, job>>, connected' \in BOOLEAN
    PROVE  Inv'
<1>1. UdpTypeOK'
  BY DEF Inv, TypeOK, UdpTypeOK, udpVars
<1>2. vals[r] \in GoodTable /\ pc[r] # "idle" /\ holder' \in Requests \cup {NoRequest}
  BY TableIsGood DEF Inv, TypeOK, ProgTypeOK
<1>3. ProgTypeOK' /\ Bytes' /\ Work'
  BY <1>2, RespondInv DEF Inv, TypeOK
<1>4. SingleFlight'
  BY DEF Inv, TypeOK, ProgTypeOK, SingleFlight, Respond, udpVars
<1>5. QED
  BY <1>1, <1>3, <1>4 DEF Inv, TypeOK

LEMMA SendInv ==
    ASSUME Inv, NEW r \in Requests, Send(r)
    PROVE  Inv'
<1>1. pc[r] = "send" /\ holder = r /\ UNCHANGED <<connected, job>>
  BY DEF Send, Inv, SingleFlight
<1>2. todo[r] # <<>> /\ todo[r] \in Seq(Command) /\ Head(todo[r]) \in Command
  <2>1. todo[r] # <<>> /\ todo[r] \in Seq(Command)
    BY <1>1 DEF Inv, TypeOK, ProgTypeOK, Work
  <2>2. QED
    BY <2>1
<1>3. CASE /\ Call(Head(todo[r]))
           /\ pc' = [pc EXCEPT ![r] = "await"]
           /\ UNCHANGED <<holder, stage, todo, vals, resp>>
  <2>1. UdpTypeOK'
    BY <1>2, <1>3, SendType DEF Inv, TypeOK
  <2>2. ProgTypeOK' /\ Bytes' /\ Work'
    BY <1>1, <1>3 DEF Inv, TypeOK, ProgTypeOK, Bytes, Work
  <2>3. SingleFlight'
    <3>1. call = NoCall /\ call' = Head(todo[r])
      BY <1>3 DEF Call
    <3>2. \A q \in Requests : q # r => pc[q] # "await"
      BY <1>1 DEF Inv, SingleFlight
    <3>3. QED
      BY <1>1, <1>2, <1>3, <3>1, <3>2 DEF Inv, TypeOK, ProgTypeOK, SingleFlight
  <2>4. QED
    BY <2>1, <2>2, <2>3 DEF Inv, TypeOK
<1>4. CASE Post(Head(todo[r])) /\ CommandDone(r, vals[r])
  <2>1. UdpTypeOK'
    BY <1>2, <1>4, SendType DEF Inv, TypeOK
  <2>2. call' = NoCall
    BY <1>4 DEF Post
  <2>3. ProgTypeOK' /\ Bytes' /\ Work' /\ MovedOn(r)
    BY <1>1, <1>4, CommandDoneInv, TableIsGood DEF Inv, TypeOK
  <2>4. QED
    BY <1>1, <2>1, <2>2, <2>3, MovedOnFlight DEF Inv, TypeOK
<1>5. CASE SendError /\ Abort(r)
  <2>1. UdpTypeOK'
    BY <1>5, ClientType DEF Inv, TypeOK
  <2>2. call' = NoCall
    BY <1>5 DEF SendError
  <2>3. ProgTypeOK' /\ Bytes' /\ Work' /\ MovedOn(r)
    BY <1>1, <1>5, AbortInv DEF Inv, TypeOK, Abort
  <2>4. QED
    BY <1>1, <2>1, <2>2, <2>3, MovedOnFlight DEF Inv, TypeOK
<1>6. QED
  BY <1>3, <1>4, <1>5 DEF Send

LEMMA AwaitInv ==
    ASSUME Inv, NEW r \in Requests, Await(r)
    PROVE  Inv'
<1>1. pc[r] = "await" /\ holder = r /\ UNCHANGED <<connected, job>>
  BY DEF Await, Inv, SingleFlight
<1>2. UdpTypeOK'
  BY ClientType DEF Await, Answered, Unanswered, Inv, TypeOK
<1>3. CASE Answered(r)
  <2>1. call' = NoCall
    BY <1>3 DEF Answered, RecvResult, EndCall
  <2>2. Noted(r, outcome'.value) \in GoodTable
    <3>1. outcome'.value \in Byte
      BY <1>2 DEF UdpTypeOK, Outcome
    <3>2. Head(todo[r]).cv \in CvNo
      <4>1. todo[r] # <<>> /\ todo[r] \in Seq(Command)
        BY <1>1 DEF Inv, TypeOK, ProgTypeOK, SingleFlight
      <4>2. Head(todo[r]) \in Command
        BY <4>1
      <4>3. QED
        BY <4>2 DEF Command
    <3>3. QED
      BY <3>1, <3>2, TableIsGood DEF Noted, Inv, TypeOK
  <2>3. ProgTypeOK' /\ Bytes' /\ Work' /\ MovedOn(r)
    BY <1>1, <1>3, <2>2, CommandDoneInv DEF Answered, Inv, TypeOK
  <2>4. QED
    BY <1>1, <1>2, <2>1, <2>3, MovedOnFlight DEF Inv, TypeOK
<1>4. CASE Unanswered(r)
  <2>1. call' = NoCall
    BY <1>4 DEF Unanswered, RecvNack, Timeout, EndCall
  <2>2. ProgTypeOK' /\ Bytes' /\ Work' /\ MovedOn(r)
    BY <1>1, <1>4, FinishInv, AbortInv, TableIsGood DEF Unanswered, Abort, Inv, TypeOK
  <2>3. QED
    BY <1>1, <1>2, <2>1, <2>2, MovedOnFlight DEF Inv, TypeOK
<1>5. CASE RecvError /\ Abort(r)
  <2>1. call' = NoCall
    BY <1>5 DEF RecvError, EndCall
  <2>2. ProgTypeOK' /\ Bytes' /\ Work' /\ MovedOn(r)
    BY <1>1, <1>5, AbortInv DEF Abort, Inv, TypeOK
  <2>3. QED
    BY <1>1, <1>2, <2>1, <2>2, MovedOnFlight DEF Inv, TypeOK
<1>6. CASE RecvOther /\ UNCHANGED <<holder, pc, stage, todo, vals, resp>>
  <2>1. UNCHANGED progVars /\ call' = call
    BY <1>1, <1>6 DEF RecvOther, progVars
  <2>2. QED
    BY <1>2, <2>1 DEF Inv, TypeOK, ProgTypeOK, Bytes, Work, SingleFlight, progVars
<1>7. QED
  BY <1>3, <1>4, <1>5, <1>6 DEF Await

LEMMA CancelInv ==
    ASSUME Inv, NEW r \in Requests, Cancel(r)
    PROVE  Inv'
<1>1. /\ Respond(r, "cancelled", vals[r]) /\ Release(r) /\ UNCHANGED <<connected, job>>
      /\ pc[r] \in {"lock", "send", "await"}
  BY DEF Cancel
<1>2. CASE pc[r] = "lock"
  <2>1. holder' = holder /\ UNCHANGED udpVars
    BY <1>1, <1>2 DEF Cancel, Release, Inv, SingleFlight
  <2>2. connected' \in BOOLEAN /\ "cancelled" \in Responses
    BY <1>1 DEF Inv, TypeOK, ProgTypeOK, Responses
  <2>3. QED
    BY <1>1, <1>2, <2>1, <2>2, LeavesQueueInv
<1>3. CASE pc[r] \in {"send", "await"}
  <2>1. holder = r
    BY <1>3 DEF Inv, SingleFlight
  <2>2. UdpTypeOK'
    BY ClientType DEF Cancel, Inv, TypeOK, UdpTypeOK, udpVars
  <2>3. call' = NoCall
    <3>1. CASE Drop
      BY <3>1 DEF Drop, EndCall
    <3>2. CASE pc[r] = "send" /\ UNCHANGED udpVars
      BY <2>1, <3>2 DEF Inv, SingleFlight, udpVars
    <3>3. QED
      BY <1>3, <3>1, <3>2 DEF Cancel
  <2>4. ProgTypeOK' /\ Bytes' /\ Work' /\ MovedOn(r)
    BY <1>1, <1>3, <2>1, AbortInv DEF Inv, TypeOK
  <2>5. QED
    BY <2>1, <2>2, <2>3, <2>4, MovedOnFlight DEF Inv, TypeOK
<1>4. QED
  BY <1>1, <1>2, <1>3

LEMMA NextInv ==
    ASSUME Inv, [Next]_vars
    PROVE  Inv'
<1>1. ASSUME NEW r \in Requests, Warm(r) PROVE Inv'
  BY <1>1, LeavesQueueInv DEF Warm, Responses
<1>2. ASSUME NEW r \in Requests, ConnectFails(r) PROVE Inv'
  BY <1>2, LeavesQueueInv DEF ConnectFails, Responses, Inv, TypeOK, ProgTypeOK
<1>3. CASE Environment /\ UNCHANGED progVars
  <2>1. UdpTypeOK'
    BY <1>3, EnvironmentType DEF Inv, TypeOK
  <2>2. call' = call
    BY <1>3 DEF Environment, StationExec, StationRefuse, Lose, Unreachable
  <2>3. QED
    BY <1>3, <2>1, <2>2
    DEF Inv, TypeOK, ProgTypeOK, Bytes, Work, SingleFlight, progVars
<1>4. CASE UNCHANGED vars
  BY <1>4 DEF Inv, TypeOK, UdpTypeOK, ProgTypeOK, Bytes, Work, SingleFlight,
              vars, udpVars, progVars
<1>5. QED
  BY <1>1, <1>2, <1>3, <1>4, StartInv, AcquireInv, SendInv, AwaitInv, CancelInv DEF Next

LEMMA Invariant == Spec => []Inv
<1>1. Inv /\ [Next]_vars => Inv'
  BY NextInv
<1>2. QED
  BY <1>1, InitInv, PTL DEF Spec

(* Whatever the faults, requests and jobs: every state is well formed; in  *)
(* particular each command a stage issues carries a CV number and a byte.  *)
THEOREM TypeCorrect == Spec => []TypeOK
  BY Invariant, PTL DEF Inv

(* Whatever the faults, and however often handlers are dropped in the      *)
(* middle of a stage: one request at a time drives the socket, and what it *)
(* awaits is its own next command (`inner` guards every use of Z21Client). *)
THEOREM MutualExclusion == Spec => []SingleFlight
  BY Invariant, PTL DEF Inv

-----------------------------------------------------------------------------
(* What the requests do to the client and the wire *)

LEMMA StepOfClient ==
    ASSUME Inv, [Next]_vars
    PROVE  \/ \E c \in Command : Call(c) \/ Post(c)
           \/ SendError \/ RecvResult \/ RecvOther \/ RecvNack \/ RecvError \/ Timeout \/ Drop
           \/ Environment
           \/ UNCHANGED udpVars
<1>1. ASSUME NEW r \in Requests, Send(r)
      PROVE  SendError \/ \E c \in Command : Call(c) \/ Post(c)
  <2>1. todo[r] # <<>> /\ todo[r] \in Seq(Command)
    BY <1>1 DEF Send, Inv, TypeOK, ProgTypeOK, Work
  <2>2. Head(todo[r]) \in Command
    BY <2>1
  <2>3. QED
    BY <1>1, <2>2 DEF Send
<1>2. ASSUME NEW r \in Requests, Await(r)
      PROVE  RecvResult \/ RecvOther \/ RecvNack \/ RecvError \/ Timeout
  BY <1>2 DEF Await, Answered, Unanswered
<1>3. ASSUME NEW r \in Requests, Cancel(r)
      PROVE  Drop \/ UNCHANGED udpVars
  BY <1>3 DEF Cancel
<1>4. ASSUME NEW r \in Requests, Start(r) \/ Acquire(r) \/ Warm(r) \/ ConnectFails(r)
      PROVE  UNCHANGED udpVars
  BY <1>4 DEF Start, Acquire, Warm, ConnectFails
<1>5. QED
  BY <1>1, <1>2, <1>3, <1>4 DEF Next, vars

(* The backend uses the client as its specification allows.                *)
LEMMA BackendUsesClient == ASSUME Commands = Command PROVE Spec => UdpSpec
<1>1. Init => UdpInit
  BY DEF Init
<1>2. Inv /\ [Next]_vars => [UdpNext]_udpVars
  BY StepOfClient DEF UdpNext
<1>3. QED
  BY <1>1, <1>2, Invariant, PTL DEF Spec, UdpSpec

(* In a calm environment the decoder is to the backend's requests what it  *)
(* is to a single caller, a register that is read and written by one call  *)
(* at a time, for any requests and jobs.                                   *)
THEOREM BackendIsRegister ==
    ASSUME Calm, Commands = Command PROVE Spec => RegisterSpec
<1>1. Spec => UdpSpec
  BY BackendUsesClient
<1>2. UdpSpec => RegisterSpec
  BY ClientIsRegister
<1>3. QED
  BY <1>1, <1>2, PTL

(* Several requests at once leave the wire as one caller would: in a calm  *)
(* environment no answer to an earlier command waits in the buffer when a  *)
(* request sends the next one.                                             *)
THEOREM BackendWire == ASSUME Calm PROVE Spec => []WireInv
<1>1. Init => WireInv
  <2>1. \A i \in 1..Len(<<>>) : FALSE
    OBVIOUS
  <2>2. QED
    BY <2>1 DEF Init, UdpInit, WireInv
<1>2. Inv /\ WireInv /\ [Next]_vars => WireInv'
  <2> SUFFICES ASSUME Inv, WireInv, [Next]_vars PROVE WireInv'
    OBVIOUS
  <2>1. UdpTypeOK
    BY DEF Inv, TypeOK
  <2>2. ASSUME NEW c \in Command, Call(c) \/ Post(c) PROVE WireInv'
    BY <2>1, <2>2, SendWire
  <2>3. CASE SendError \/ RecvResult \/ RecvOther \/ RecvNack \/ RecvError \/ Timeout \/ Drop
    BY <2>1, <2>3, ClientWire
  <2>4. CASE Environment
    BY <2>1, <2>4, EnvironmentWire
  <2>5. CASE UNCHANGED udpVars
    BY <2>5 DEF WireInv, udpVars
  <2>6. QED
    BY <2>2, <2>3, <2>4, <2>5, StepOfClient
<1>3. QED
  BY <1>1, <1>2, Invariant, PTL DEF Spec

-----------------------------------------------------------------------------
(* What an acknowledged batch has done to the decoder *)

(* A command that the decoder has executed, and whose answer is awaited,   *)
(* was the last under way; what it wrote is there.                         *)
AckInv ==
    applied => /\ toStation = <<>>
               /\ call.kind = "write" => decoder[call.cv] = call.value

LEMMA AckStep ==
    ASSUME Calm, UdpTypeOK, WireInv, AckInv, UdpStep
    PROVE  AckInv'
<1>1. CASE (\E c \in Command : Call(c) \/ Post(c)) \/ SendError
  <2>1. call = NoCall /\ UNCHANGED applied
    BY <1>1 DEF Call, Post, SendError
  <2>2. QED
    BY <2>1 DEF WireInv, AckInv
<1>2. CASE RecvResult \/ RecvNack \/ RecvError \/ Timeout \/ Drop
  BY <1>2 DEF RecvResult, RecvNack, RecvError, Timeout, Drop, EndCall, AckInv
<1>3. CASE RecvOther
  BY <1>3 DEF RecvOther, AckInv
<1>4. CASE Lose \/ Unreachable
  <2>1. UNCHANGED <<applied, call, decoder>> /\ (toStation = <<>> => toStation' = <<>>)
    BY <1>4 DEF Lose, Unreachable
  <2>2. QED
    BY <2>1 DEF AckInv
<1>5. CASE StationExec \/ StationRefuse
  <2>1. toStation # <<>> /\ ~applied /\ toStation' = Tail(toStation) /\ call' = call
    BY <1>5 DEF StationExec, StationRefuse, AckInv
  <2>2. CASE ~applied'
    BY <2>2 DEF AckInv
  <2>3. CASE applied'
    <3>1. Head(toStation).own /\ Execute(Head(toStation).cmd)
      <4>1. CASE StationExec
        BY <2>1, <2>3, <4>1 DEF StationExec
      <4>2. CASE StationRefuse
        BY <2>1, <2>3, <4>2 DEF StationRefuse
      <4>3. QED
        BY <1>5, <4>1, <4>2
    <3>2. Head(toStation) = toStation[1] /\ 1 \in 1..Len(toStation)
      BY <2>1, QueueParts
    <3>3. Len(toStation) = 1 /\ Head(toStation).cmd = call
      BY <3>1, <3>2 DEF WireInv
    <3>4. toStation' = <<>>
      BY <2>1, <3>3, QueueParts, EmptySeq DEF UdpTypeOK
    <3>5. call \in Command /\ call.cv \in CvNo
      <4>1. call \in Command
        BY <2>1, <3>3, QueueParts
      <4>2. QED
        BY <4>1 DEF Command
    <3>6. call.kind = "write" => decoder'[call.cv] = call.value
      BY <3>1, <3>3, <3>5 DEF Execute, UdpTypeOK
    <3>7. QED
      BY <2>1, <3>4, <3>6 DEF AckInv
  <2>4. QED
    BY <2>2, <2>3
<1>6. QED
  BY <1>1, <1>2, <1>3, <1>4, <1>5 DEF UdpStep, Environment

LEMMA StepIsUdp ==
    ASSUME Inv, [Next]_vars
    PROVE  UdpStep \/ UNCHANGED udpVars
  BY StepOfClient DEF UdpStep

(* The value of a CV that a request accepts is one which that CV has had,  *)
(* whatever the requests do and however many of them are dropped.          *)
THEOREM BackendAcceptsHeld == Spec => AnswerWasHeld
<1>1. Inv /\ HeldInv /\ [Next]_vars => HeldInv'
  <2>1. HeldInv /\ UNCHANGED udpVars => HeldInv'
    BY DEF HeldInv, udpVars
  <2>2. QED
    BY <2>1, StepIsUdp, StepHeld DEF Inv, TypeOK
<1>2. Inv /\ HeldInv /\ [Next]_vars
        => [call # NoCall /\ call' = NoCall /\ outcome'.st = "ok"
              => outcome'.value \in held[call.cv]]_udpVars
  BY StepIsUdp, AcceptsHeld DEF Inv, TypeOK
<1>3. Init => HeldInv
  BY InitHeld DEF Init
<1>4. QED
  BY <1>1, <1>2, <1>3, Invariant, PTL DEF Spec, AnswerWasHeld

LEMMA WireAck == ASSUME Calm PROVE Spec => []AckInv
<1>1. Init => AckInv
  BY DEF Init, UdpInit, AckInv
<1>2. Inv /\ WireInv /\ AckInv /\ [Next]_vars => AckInv'
  <2>1. AckInv /\ UNCHANGED udpVars => AckInv'
    BY DEF AckInv, udpVars
  <2>2. QED
    BY <2>1, StepIsUdp, AckStep DEF Inv, TypeOK
<1>3. QED
  BY <1>1, <1>2, BackendWire, Invariant, PTL DEF Spec

(* Concatenation of short tuples, for the provers. *)
LEMMA PrependPair ==
    ASSUME NEW S, NEW x \in S, NEW a \in S, NEW b \in S
    PROVE  <<x>> \o <<a, b>> = <<x, a, b>>
<1>1. /\ <<x>> \o <<a, b>> \in Seq(S) /\ <<x, a, b>> \in Seq(S)
      /\ Len(<<x>> \o <<a, b>>) = 3 /\ Len(<<x, a, b>>) = 3
  OBVIOUS
<1>2. \A i \in 1..3 : (<<x>> \o <<a, b>>)[i] = <<x, a, b>>[i]
  OBVIOUS
<1>3. QED
  BY <1>1, <1>2, SeqEqual

LEMMA PrependTriple ==
    ASSUME NEW S, NEW x \in S, NEW a \in S, NEW b \in S, NEW c \in S
    PROVE  <<x>> \o <<a, b, c>> = <<x, a, b, c>>
<1>1. /\ <<x>> \o <<a, b, c>> \in Seq(S) /\ <<x, a, b, c>> \in Seq(S)
      /\ Len(<<x>> \o <<a, b, c>>) = 4 /\ Len(<<x, a, b, c>>) = 4
  OBVIOUS
<1>2. \A i \in 1..4 : (<<x>> \o <<a, b, c>>)[i] = <<x, a, b, c>>[i]
  OBVIOUS
<1>3. QED
  BY <1>1, <1>2, SeqEqual

(* The form bit of CV 29 agrees with the address that it selects: a short  *)
(* address is at most 127, a long one more.                                *)
ProperTable(d) == BitOn(d[29], LongBit) <=> IsLong(DecodeAddress(d))

(* The writes of an address change each CV once, RailComPlus first; a      *)
(* decoder that holds them all answers to the address.                     *)
LEMMA AddressWritesShape ==
    ASSUME NEW j \in Job, ValidAddress(j.addr), NEW v \in GoodTable
    PROVE  LET e == AddressWrites(j, v)
           IN  /\ \A i, k \in 1..Len(e) : e[i].cv = e[k].cv => i = k
               /\ v[28] # NoValue /\ RailcomPlusOn(v[28])
                    => e[1] = Entry(28, ClearBit(v[28], RailcomBit))
               /\ \A d \in [CvNo -> Byte] :
                    (\A i \in 1..Len(e) : d[e[i].cv] = e[i].value)
                      => DecodeAddress(d) = j.addr /\ ProperTable(d)
<1> DEFINE a == j.addr
           r == Entry(28, ClearBit(v[28], RailcomBit))
           w == AddressCvWrites(a, v[29])
           e == AddressWrites(j, v)
<1>1. a \in Nat /\ v[29] \in Byte
  <2>1. a \in Nat
    BY JobType
  <2>2. 29 \in CvNo \ {28}
    BY DEF CvNo
  <2>3. QED
    BY <2>1, <2>2 DEF GoodTable
<1>2. CASE IsLong(a)
  <2> DEFINE x == Entry(17, 192 + a \div 256)
             y == Entry(18, a % 256)
             z == Entry(29, SetBit(v[29], LongBit))
  <2>1. w = <<x, y, z>>
    BY <1>2 DEF AddressCvWrites
  <2>2. /\ x.cv = 17 /\ y.cv = 18 /\ z.cv = 29 /\ r.cv = 28
        /\ x.value = 192 + a \div 256 /\ y.value = a % 256 /\ z.value = SetBit(v[29], LongBit)
    BY DEF Entry
  <2>3. BitOn(z.value, LongBit) /\ ((x.value % 64) * 256) + y.value = a
    BY <1>1, <2>2, LongBitSet, LongBytes
  <2>4. ASSUME NEW d, d[x.cv] = x.value, d[y.cv] = y.value, d[z.cv] = z.value
        PROVE  DecodeAddress(d) = a /\ ProperTable(d)
    BY <1>2, <2>2, <2>3, <2>4 DEF DecodeAddress, ProperTable
  <2> HIDE DEF x, y, z, r
  <2>5. CASE v[28] # NoValue /\ RailcomPlusOn(v[28])
    <3>1. e = <<r>> \o <<x, y, z>>
      BY <2>1, <2>5 DEF AddressWrites, PrependRailcomPlusOff, r
    <3>2. e = <<r, x, y, z>>
      BY <3>1, PrependTriple, r \in {r, x, y, z}
    <3> HIDE DEF e
    <3>3. Len(e) = 4 /\ e[1] = r /\ e[2] = x /\ e[3] = y /\ e[4] = z
      BY <3>2
    <3>4. \A i \in 1..4 : i = 1 \/ i = 2 \/ i = 3 \/ i = 4
      OBVIOUS
    <3>5. \A i, k \in 1..Len(e) : e[i].cv = e[k].cv => i = k
      BY <2>2, <3>3, <3>4
    <3>6. ASSUME NEW d \in [CvNo -> Byte], \A i \in 1..Len(e) : d[e[i].cv] = e[i].value
          PROVE  DecodeAddress(d) = a /\ ProperTable(d)
      <4>1. 2 \in 1..4 /\ 3 \in 1..4 /\ 4 \in 1..4
        OBVIOUS
      <4>2. QED
        BY <2>4, <3>3, <3>6, <4>1
    <3>7. QED
      BY <3>3, <3>5, <3>6 DEF e, r
  <2>6. CASE ~(v[28] # NoValue /\ RailcomPlusOn(v[28]))
    <3>1. e = <<x, y, z>>
      BY <2>1, <2>6 DEF AddressWrites, PrependRailcomPlusOff
    <3> HIDE DEF e
    <3>3. Len(e) = 3 /\ e[1] = x /\ e[2] = y /\ e[3] = z
      BY <3>1
    <3>4. \A i \in 1..3 : i = 1 \/ i = 2 \/ i = 3
      OBVIOUS
    <3>5. \A i, k \in 1..Len(e) : e[i].cv = e[k].cv => i = k
      BY <2>2, <3>3, <3>4
    <3>6. ASSUME NEW d \in [CvNo -> Byte], \A i \in 1..Len(e) : d[e[i].cv] = e[i].value
          PROVE  DecodeAddress(d) = a /\ ProperTable(d)
      <4>1. 1 \in 1..3 /\ 2 \in 1..3 /\ 3 \in 1..3
        OBVIOUS
      <4>2. QED
        BY <2>4, <3>3, <3>6, <4>1
    <3>7. QED
      BY <2>6, <3>5, <3>6 DEF e
  <2>7. QED
    BY <2>5, <2>6
<1>3. CASE ~IsLong(a)
  <2> DEFINE x == Entry(1, a)
             z == Entry(29, ClearBit(v[29], LongBit))
  <2>1. w = <<x, z>>
    BY <1>3 DEF AddressCvWrites
  <2>2. /\ x.cv = 1 /\ z.cv = 29 /\ r.cv = 28
        /\ x.value = a /\ z.value = ClearBit(v[29], LongBit)
    BY DEF Entry
  <2>3. ~BitOn(z.value, LongBit)
    BY <1>1, <2>2, LongBitSet
  <2>4. ASSUME NEW d, d[x.cv] = x.value, d[z.cv] = z.value
        PROVE  DecodeAddress(d) = a /\ ProperTable(d)
    BY <1>3, <2>2, <2>3, <2>4 DEF DecodeAddress, ProperTable
  <2> HIDE DEF x, z, r
  <2>5. CASE v[28] # NoValue /\ RailcomPlusOn(v[28])
    <3>1. e = <<r>> \o <<x, z>>
      BY <2>1, <2>5 DEF AddressWrites, PrependRailcomPlusOff, r
    <3>2. e = <<r, x, z>>
      BY <3>1, PrependPair, r \in {r, x, z}
    <3> HIDE DEF e
    <3>3. Len(e) = 3 /\ e[1] = r /\ e[2] = x /\ e[3] = z
      BY <3>2
    <3>4. \A i \in 1..3 : i = 1 \/ i = 2 \/ i = 3
      OBVIOUS
    <3>5. \A i, k \in 1..Len(e) : e[i].cv = e[k].cv => i = k
      BY <2>2, <3>3, <3>4
    <3>6. ASSUME NEW d \in [CvNo -> Byte], \A i \in 1..Len(e) : d[e[i].cv] = e[i].value
          PROVE  DecodeAddress(d) = a /\ ProperTable(d)
      <4>1. 2 \in 1..3 /\ 3 \in 1..3
        OBVIOUS
      <4>2. QED
        BY <2>4, <3>3, <3>6, <4>1
    <3>7. QED
      BY <3>3, <3>5, <3>6 DEF e, r
  <2>6. CASE ~(v[28] # NoValue /\ RailcomPlusOn(v[28]))
    <3>1. e = <<x, z>>
      BY <2>1, <2>6 DEF AddressWrites, PrependRailcomPlusOff
    <3> HIDE DEF e
    <3>3. Len(e) = 2 /\ e[1] = x /\ e[2] = z
      BY <3>1
    <3>4. \A i \in 1..2 : i = 1 \/ i = 2
      OBVIOUS
    <3>5. \A i, k \in 1..Len(e) : e[i].cv = e[k].cv => i = k
      BY <2>2, <3>3, <3>4
    <3>6. ASSUME NEW d \in [CvNo -> Byte], \A i \in 1..Len(e) : d[e[i].cv] = e[i].value
          PROVE  DecodeAddress(d) = a /\ ProperTable(d)
      <4>1. 1 \in 1..2 /\ 2 \in 1..2
        OBVIOUS
      <4>2. QED
        BY <2>4, <3>3, <3>6, <4>1
    <3>7. QED
      BY <2>6, <3>5, <3>6 DEF e
  <2>7. QED
    BY <2>5, <2>6
<1>4. QED
  BY <1>2, <1>3

(* The batch of the stage a request is in, and how much of it is done.     *)
Batch(r) == StageCommands(job[r], stage[r], vals[r])
Sent(r) == Len(Batch(r)) - Len(todo[r])

Serving == {"lock", "send", "await"}

StagesOf(op) ==
    CASE op = "addrGet" -> {"get"}
      [] op = "cvs" -> {"cvs"}
      [] op = "connect" -> {"connect"}
      [] OTHER -> AddressStages

(* A request is in a stage of its job, what it has left to send ends the   *)
(* stage's batch, and only a request that is done has a response.          *)
InBatch(r) ==
    /\ pc[r] # "done" => resp[r] = "none"
    /\ pc[r] # "idle" => stage[r] \in StagesOf(job[r].op)
    /\ pc[r] \in Serving =>
         /\ Len(todo[r]) <= Len(Batch(r))
         /\ \A i \in 1..Len(todo[r]) : todo[r][i] = Batch(r)[Sent(r) + i]
    /\ pc[r] = "lock" => todo[r] = Batch(r)

OnBatch == \A r \in Requests : InBatch(r)

(* The batches each of whose commands is acknowledged before the next.     *)
Acked(r) ==
    /\ pc[r] \in {"send", "await"}
    /\ stage[r] \in {"get", "verify"} \/ (stage[r] = "write" /\ ~job[r].pom)

InForce(c, v) == decoder[c.cv] = IF c.kind = "read" THEN v[c.cv] ELSE c.value

(* What an acknowledged batch has done holds: no command of another        *)
(* request, not even one posted earlier, comes between.                    *)
OnlyOwn == \A i \in 1..Len(toStation) : toStation[i].own

DoneFor(r) ==
    Acked(r) => /\ \A i \in 1..Sent(r) : InForce(Batch(r)[i], vals[r])
                /\ Sent(r) > 0 => OnlyOwn

DoneInForce == \A r \in Requests : DoneFor(r)

(* Only the write batch depends on the CVs read before. *)
LEMMA BatchOfTable ==
    ASSUME NEW j, NEW st, st # "write", NEW v, NEW w
    PROVE  StageCommands(j, st, v) = StageCommands(j, st, w)
  BY DEF StageCommands

LEMMA BatchType ==
    ASSUME Inv, OnBatch, NEW r \in Requests, pc[r] \in Serving
    PROVE  /\ job[r] \in Jobs /\ job[r] \in Job
           /\ Batch(r) \in Seq(Command) /\ todo[r] \in Seq(Command)
           /\ Len(Batch(r)) \in Nat /\ Len(todo[r]) \in Nat /\ Sent(r) \in Nat
           /\ stage[r] # "connect" => todo[r] # <<>> /\ Len(todo[r]) > 0
<1>1. job[r] \in Jobs /\ job[r] \in Job
  BY ProgrammingAssumption DEF Inv, Work, Serving
<1>2. stage[r] \in Stages \ {"none"}
  <2>1. stage[r] \in StagesOf(job[r].op)
    BY DEF OnBatch, InBatch, Serving
  <2>2. QED
    BY <2>1 DEF StagesOf, Stages, AddressStages
<1>3. (stage[r] \in AddressStages => job[r].op = "addrSet")
      /\ (stage[r] = "cvs" => job[r].op = "cvs")
  <2>1. stage[r] \in StagesOf(job[r].op) /\ job[r].op \in {"connect", "cvs", "addrGet", "addrSet"}
    BY <1>1 DEF OnBatch, InBatch, Serving, Job
  <2>2. QED
    BY <2>1 DEF StagesOf, AddressStages
<1>4. Batch(r) \in Seq(Command)
  BY <1>1, <1>2, <1>3, StageCommandsType, TableIsGood DEF Batch, Inv, TypeOK
<1>5. todo[r] \in Seq(Command) /\ (stage[r] # "connect" => todo[r] # <<>>)
  BY DEF Inv, TypeOK, ProgTypeOK, Work, Serving
<1>6. Len(Batch(r)) \in Nat /\ Len(todo[r]) \in Nat /\ Len(todo[r]) <= Len(Batch(r))
  BY <1>4, <1>5 DEF OnBatch, InBatch
<1>7. QED
  BY <1>1, <1>4, <1>5, <1>6, EmptySeq DEF Sent

(* The next command. *)
LEMMA NextOfBatch ==
    ASSUME Inv, OnBatch, NEW r \in Requests, pc[r] \in Serving, stage[r] # "connect"
    PROVE  /\ Head(todo[r]) = Batch(r)[Sent(r) + 1] /\ Sent(r) + 1 \in 1..Len(Batch(r))
           /\ Head(todo[r]) \in Command
<1>1. todo[r] \in Seq(Command) /\ todo[r] # <<>> /\ Len(todo[r]) > 0
      /\ Len(todo[r]) \in Nat /\ Len(Batch(r)) \in Nat /\ Sent(r) \in Nat
  BY BatchType
<1>2. Head(todo[r]) = todo[r][1] /\ 1 \in 1..Len(todo[r])
  BY <1>1
<1>3. Sent(r) + 1 <= Len(Batch(r))
  BY <1>1 DEF Sent
<1>4. QED
  BY <1>1, <1>2, <1>3 DEF OnBatch, InBatch

(* An acknowledged batch reads all its CVs, or writes all of them, each    *)
(* once.                                                                   *)
LEMMA BatchShape ==
    ASSUME Inv, OnBatch, NEW r \in Requests, Acked(r)
    PROVE  /\ \A i, k \in 1..Len(Batch(r)) : Batch(r)[i].cv = Batch(r)[k].cv => i = k
           /\ \A i \in 1..Len(Batch(r)) :
                /\ Awaited(Batch(r)[i])
                /\ Batch(r)[i].kind = IF stage[r] = "write" THEN "write" ELSE "read"
<1>1. job[r] \in Job /\ pc[r] \in Serving
  BY BatchType DEF Acked, Serving
<1>2. CASE stage[r] \in {"get", "verify"}
  <2>1. Batch(r) = [i \in 1..4 |-> CommandFor(job[r], "read", AddrCvs[i], 0)]
    BY <1>2 DEF Batch, StageCommands, Reads, AddrCvs
  <2>2. Len(Batch(r)) = 4
    BY <2>1, BatchType, <1>1
  <2>3. \A i \in 1..4 : Batch(r)[i].cv = AddrCvs[i] /\ Batch(r)[i].kind = "read"
    BY <2>1 DEF CommandFor
  <2>4. \A i, k \in 1..4 : AddrCvs[i] = AddrCvs[k] => i = k
    <3>1. \A i \in 1..4 : i = 1 \/ i = 2 \/ i = 3 \/ i = 4
      OBVIOUS
    <3>2. AddrCvs[1] = 1 /\ AddrCvs[2] = 17 /\ AddrCvs[3] = 18 /\ AddrCvs[4] = 29
      BY DEF AddrCvs
    <3>3. QED
      BY <3>1, <3>2
  <2>5. QED
    BY <1>2, <2>2, <2>3, <2>4 DEF Awaited
<1>3. CASE stage[r] = "write" /\ ~job[r].pom
  <2> DEFINE e == AddressWrites(job[r], vals[r])
  <2>1. ValidAddress(job[r].addr) /\ vals[r] \in GoodTable
    <3>1. job[r].op = "addrSet" /\ job[r] \in Jobs
      BY <1>1, <1>3, BatchType DEF Inv, Work, AddressStages
    <3>2. QED
      BY <3>1, ProgrammingAssumption, TableIsGood DEF Inv, TypeOK
  <2>2. /\ e \in Seq(Entries)
        /\ \A i, k \in 1..Len(e) : e[i].cv = e[k].cv => i = k
    BY <1>1, <2>1, AddressWritesType, AddressWritesShape
  <2> HIDE DEF e
  <2>3. Batch(r) = [i \in 1..Len(e) |-> CommandFor(job[r], "write", e[i].cv, e[i].value)]
    BY <1>3, <2>2 DEF Batch, StageCommands, Writes, e
  <2>4. Len(Batch(r)) = Len(e)
    BY <2>2, <2>3, BatchType, <1>1
  <2>5. \A i \in 1..Len(e) : /\ Batch(r)[i].cv = e[i].cv /\ Batch(r)[i].kind = "write"
                             /\ Batch(r)[i].pom = job[r].pom
    BY <2>3 DEF CommandFor
  <2>6. QED
    BY <1>3, <2>2, <2>4, <2>5 DEF Awaited
<1>4. QED
  BY <1>2, <1>3 DEF Acked

-----------------------------------------------------------------------------
(* Every step keeps the requests on their batches *)

(* A request that a step leaves alone. *)
Untouched(q) ==
    /\ pc'[q] = pc[q] /\ stage'[q] = stage[q] /\ todo'[q] = todo[q]
    /\ vals'[q] = vals[q] /\ resp'[q] = resp[q] /\ job'[q] = job[q]

LEMMA UntouchedBatch ==
    ASSUME NEW q \in Requests, Untouched(q)
    PROVE  /\ Batch(q)' = Batch(q) /\ Sent(q)' = Sent(q)
           /\ InBatch(q) => InBatch(q)'
<1>1. Batch(q)' = Batch(q)
  BY DEF Untouched, Batch
<1>2. Sent(q)' = Sent(q)
  BY <1>1 DEF Sent, Untouched
<1>3. QED
  BY <1>1, <1>2 DEF Untouched, InBatch

LEMMA EnterOnBatch ==
    ASSUME ProgTypeOK, OnBatch, NEW r \in Requests, NEW j \in Jobs, NEW st, NEW v \in GoodTable,
           EnterStage(r, j, st, v), job' = [job EXCEPT ![r] = j],
           st \in StagesOf(j.op), pc[r] # "done", StageCommands(j, st, v) \in Seq(Command)
    PROVE  OnBatch' /\ \A q \in Requests \ {r} : Untouched(q)
<1>1. \A q \in Requests \ {r} : Untouched(q)
  BY DEF EnterStage, ProgTypeOK, Untouched
<1>2. /\ pc'[r] = "lock" /\ stage'[r] = st /\ todo'[r] = StageCommands(j, st, v)
      /\ vals'[r] = v /\ resp'[r] = resp[r] /\ job'[r] = j
  BY DEF EnterStage, ProgTypeOK
<1>3. Batch(r)' = todo'[r] /\ Len(todo'[r]) \in Nat
  BY <1>2 DEF Batch
<1>4. Sent(r)' = 0
  BY <1>3 DEF Sent
<1>5. InBatch(r)'
  BY <1>2, <1>3, <1>4 DEF InBatch, OnBatch
<1>6. QED
  BY <1>1, <1>5, UntouchedBatch DEF OnBatch

LEMMA RespondOnBatch ==
    ASSUME ProgTypeOK, OnBatch, NEW r \in Requests, NEW result, NEW v, Respond(r, result, v),
           pc[r] # "idle", UNCHANGED job
    PROVE  OnBatch' /\ \A q \in Requests \ {r} : Untouched(q)
<1>1. \A q \in Requests \ {r} : Untouched(q)
  BY DEF Respond, ProgTypeOK, Untouched
<1>2. pc'[r] = "done" /\ stage'[r] = stage[r] /\ job'[r] = job[r]
  BY DEF Respond, ProgTypeOK
<1>3. InBatch(r)'
  BY <1>2 DEF InBatch, OnBatch, Serving
<1>4. QED
  BY <1>1, <1>3, UntouchedBatch DEF OnBatch

LEMMA FinishOnBatch ==
    ASSUME Inv, OnBatch, NEW r \in Requests, NEW v \in GoodTable,
           pc[r] \in {"send", "await"}, Finish(r, v), UNCHANGED job
    PROVE  OnBatch' /\ \A q \in Requests \ {r} : Untouched(q)
<1>1. job[r] \in Jobs /\ job' = [job EXCEPT ![r] = job[r]] /\ pc[r] # "done" /\ pc[r] # "idle"
  BY DEF Inv, TypeOK, ProgTypeOK, Work
<1>2. CASE \E result : Respond(r, result, v)
  BY <1>1, <1>2, RespondOnBatch DEF Inv, TypeOK
<1>3. ASSUME NEW st \in {"read28", "write", "verify"}, NEW w \in {v, Zeros},
             stage[r] \in AddressStages, EnterStage(r, job[r], st, w)
      PROVE  OnBatch' /\ \A q \in Requests \ {r} : Untouched(q)
  <2>1. job[r].op = "addrSet" /\ w \in GoodTable
    BY <1>3, ZerosIsGood DEF Inv, Work
  <2>2. st \in Stages \ {"none"} /\ st # "cvs" /\ st \in AddressStages
    BY DEF Stages, AddressStages
  <2>3. StageCommands(job[r], st, w) \in Seq(Command)
    BY <1>1, <2>1, <2>2, StageCommandsType
  <2>4. st \in StagesOf(job[r].op)
    BY <2>1, <2>2 DEF StagesOf
  <2>5. QED
    BY <1>1, <1>3, <2>1, <2>3, <2>4, EnterOnBatch DEF Inv, TypeOK
<1>4. \/ \E st \in {"read28", "write", "verify"}, w \in {v, Zeros} :
           stage[r] \in AddressStages /\ EnterStage(r, job[r], st, w)
      \/ \E result \in {"ok", "mismatch"} : Respond(r, result, v)
  BY DEF Finish, AddressStages
<1>5. QED
  BY <1>2, <1>3, <1>4

(* The request goes on with the next command of its batch. *)
Advanced(r, v) ==
    /\ pc'[r] = "send" /\ stage'[r] = stage[r] /\ job'[r] = job[r] /\ resp'[r] = resp[r]
    /\ vals'[r] = v /\ todo'[r] = Tail(todo[r]) /\ Len(todo[r]) > 1

LEMMA AdvancedBatch ==
    ASSUME Inv, OnBatch, NEW r \in Requests, pc[r] \in {"send", "await"}, NEW v, Advanced(r, v),
           stage[r] = "write" => v = vals[r]
    PROVE  InBatch(r)' /\ Batch(r)' = Batch(r) /\ Sent(r)' = Sent(r) + 1
<1>1. Batch(r)' = Batch(r)
  BY BatchOfTable DEF Batch, Advanced
<1>2. /\ todo[r] \in Seq(Command) /\ Len(todo[r]) \in Nat /\ Len(Batch(r)) \in Nat
      /\ Sent(r) \in Nat /\ pc[r] \in Serving
  BY BatchType DEF Serving
<1>3. /\ Len(todo'[r]) = Len(todo[r]) - 1
      /\ \A i \in 1..Len(todo'[r]) : todo'[r][i] = todo[r][i + 1]
  BY <1>2 DEF Advanced
<1>4. Sent(r)' = Sent(r) + 1
  BY <1>1, <1>2, <1>3 DEF Sent
<1>5. \A i \in 1..Len(todo[r]) : todo[r][i] = Batch(r)[Sent(r) + i]
  BY <1>2 DEF OnBatch, InBatch
<1>6. ASSUME NEW i \in 1..Len(todo'[r]) PROVE todo'[r][i] = Batch(r)'[Sent(r)' + i]
  <2>0. i \in Nat /\ i >= 1 /\ i <= Len(todo[r]) - 1
    BY <1>2, <1>3 DEF Advanced
  <2>1. i + 1 \in 1..Len(todo[r]) /\ Sent(r) + (i + 1) = Sent(r)' + i
    <3>1. \A n, s, k \in Nat : k >= 1 /\ k <= n - 1
            => k + 1 \in 1..n /\ s + (k + 1) = (s + 1) + k
      OBVIOUS
    <3>2. QED
      BY <1>2, <1>4, <2>0, <3>1
  <2>2. QED
    BY <1>1, <1>3, <1>5, <2>1
<1>7. QED
  BY <1>1, <1>2, <1>3, <1>4, <1>6 DEF InBatch, OnBatch, Advanced

LEMMA CommandDoneOnBatch ==
    ASSUME Inv, OnBatch, NEW r \in Requests, NEW v \in GoodTable,
           pc[r] \in {"send", "await"}, CommandDone(r, v), UNCHANGED job,
           stage[r] = "write" => v = vals[r]
    PROVE  OnBatch' /\ \A q \in Requests \ {r} : Untouched(q)
<1>1. CASE Len(todo[r]) > 1
  <2>1. (\A q \in Requests \ {r} : Untouched(q)) /\ Advanced(r, v)
    BY <1>1 DEF CommandDone, Inv, TypeOK, ProgTypeOK, Untouched, Advanced
  <2>2. InBatch(r)'
    BY <2>1, AdvancedBatch
  <2>3. QED
    BY <2>1, <2>2, UntouchedBatch DEF OnBatch
<1>2. CASE ~(Len(todo[r]) > 1)
  BY <1>2, FinishOnBatch DEF CommandDone
<1>3. QED
  BY <1>1, <1>2

(* What an answer leaves in the table of the request.                      *)
LEMMA NotedTable ==
    ASSUME Inv, OnBatch, NEW r \in Requests, pc[r] = "await", outcome' \in Outcome
    PROVE  /\ Noted(r, outcome'.value) \in GoodTable
           /\ stage[r] = "write" => Noted(r, outcome'.value) = vals[r]
<1>1. outcome'.value \in Byte
  BY DEF Outcome
<1>2. /\ stage[r] # "connect" /\ pc[r] \in Serving
  BY DEF Inv, Work, Serving
<1>3. Head(todo[r]).cv \in CvNo
  BY <1>2, NextOfBatch DEF Command
<1>4. Noted(r, outcome'.value) \in GoodTable
  BY <1>1, <1>3, TableIsGood DEF Noted, Inv, TypeOK
<1>5. ASSUME stage[r] = "write" PROVE Head(todo[r]).kind = "write"
  <2>1. /\ Head(todo[r]) = Batch(r)[Sent(r) + 1]
        /\ Sent(r) + 1 \in 1..Len(Batch(r))
    BY <1>2, NextOfBatch
  <2>2. Batch(r) = Writes(job[r], AddressWrites(job[r], vals[r]))
    BY <1>5 DEF Batch, StageCommands
  <2> DEFINE e == AddressWrites(job[r], vals[r])
  <2>3. e \in Seq(Entries)
    <3>1. job[r] \in Jobs /\ job[r].op = "addrSet"
      BY <1>2, <1>5, BatchType DEF Inv, Work, AddressStages
    <3>2. QED
      BY <3>1, ProgrammingAssumption, TableIsGood, AddressWritesType DEF Inv, TypeOK
  <2> HIDE DEF e
  <2>4. Batch(r) = [i \in 1..Len(e) |-> CommandFor(job[r], "write", e[i].cv, e[i].value)]
    BY <2>2, <2>3 DEF Writes, e
  <2>5. Len(Batch(r)) = Len(e)
    BY <1>2, <2>3, <2>4, BatchType
  <2>6. QED
    BY <2>1, <2>4, <2>5 DEF CommandFor
<1>6. QED
  BY <1>4, <1>5 DEF Noted

LEMMA SendOnBatch ==
    ASSUME Inv, OnBatch, NEW r \in Requests, Send(r)
    PROVE  OnBatch' /\ \A q \in Requests \ {r} : Untouched(q)
<1>1. pc[r] = "send" /\ UNCHANGED job
  BY DEF Send
<1>2. CASE /\ pc' = [pc EXCEPT ![r] = "await"]
           /\ UNCHANGED <<holder, stage, todo, vals, resp>>
  <2>1. \A q \in Requests \ {r} : Untouched(q)
    BY <1>1, <1>2 DEF Inv, TypeOK, ProgTypeOK, Untouched
  <2>2. pc'[r] = "await"
    BY <1>2 DEF Inv, TypeOK, ProgTypeOK
  <2>3. Batch(r)' = Batch(r) /\ Sent(r)' = Sent(r)
    BY <1>1, <1>2 DEF Batch, Sent
  <2>4. InBatch(r)'
    BY <1>1, <1>2, <2>2, <2>3 DEF OnBatch, InBatch, Serving
  <2>5. QED
    BY <2>1, <2>4, UntouchedBatch DEF OnBatch
<1>3. CASE CommandDone(r, vals[r])
  BY <1>1, <1>3, CommandDoneOnBatch, TableIsGood DEF Inv, TypeOK
<1>4. CASE Abort(r)
  BY <1>1, <1>4, RespondOnBatch DEF Abort, Inv, TypeOK
<1>5. QED
  BY <1>2, <1>3, <1>4 DEF Send

LEMMA AwaitOnBatch ==
    ASSUME Inv, OnBatch, NEW r \in Requests, Await(r), UdpTypeOK'
    PROVE  OnBatch' /\ \A q \in Requests \ {r} : Untouched(q)
<1>1. pc[r] = "await" /\ UNCHANGED job /\ outcome' \in Outcome
  BY DEF Await, UdpTypeOK
<1>2. CASE Answered(r)
  BY <1>1, <1>2, NotedTable, CommandDoneOnBatch DEF Answered
<1>3. CASE Unanswered(r)
  <2>1. CASE stage[r] = "read28"
    BY <1>1, <1>3, <2>1, FinishOnBatch, TableIsGood DEF Unanswered, Inv, TypeOK
  <2>2. CASE stage[r] # "read28"
    BY <1>1, <1>3, <2>2, RespondOnBatch DEF Unanswered, Abort, Inv, TypeOK
  <2>3. QED
    BY <2>1, <2>2
<1>4. CASE Abort(r)
  BY <1>1, <1>4, RespondOnBatch DEF Abort, Inv, TypeOK
<1>5. CASE UNCHANGED <<holder, pc, stage, todo, vals, resp>>
  <2>1. \A q \in Requests : Untouched(q)
    BY <1>1, <1>5 DEF Untouched
  <2>2. QED
    BY <2>1, UntouchedBatch DEF OnBatch
<1>6. QED
  BY <1>2, <1>3, <1>4, <1>5 DEF Await

LEMMA NextOnBatch ==
    ASSUME Inv, OnBatch, [Next]_vars
    PROVE  OnBatch'
<1>0. Inv'
  BY NextInv
<1>1. ASSUME NEW r \in Requests, Start(r) PROVE OnBatch'
  <2>1. PICK j \in Jobs : /\ job' = [job EXCEPT ![r] = j]
                          /\ EnterStage(r, j, FirstStage(j), Zeros)
    BY <1>1 DEF Start
  <2>2. j.op \in {"connect", "cvs", "addrGet", "addrSet"}
    BY ProgrammingAssumption DEF Job
  <2>3. /\ FirstStage(j) \in StagesOf(j.op)
        /\ FirstStage(j) \in Stages \ {"none"}
        /\ FirstStage(j) \in AddressStages => j.op = "addrSet"
        /\ FirstStage(j) = "cvs" => j.op = "cvs"
    BY <2>2 DEF FirstStage, StagesOf, AddressStages, Stages
  <2>4. StageCommands(j, FirstStage(j), Zeros) \in Seq(Command)
    BY <2>3, StageCommandsType, ZerosIsGood
  <2>5. pc[r] # "done"
    BY <1>1 DEF Start
  <2>6. QED
    BY <2>1, <2>3, <2>4, <2>5, EnterOnBatch, ZerosIsGood DEF Inv, TypeOK
<1>2. ASSUME NEW r \in Requests, Acquire(r) PROVE OnBatch'
  <2>1. \A q \in Requests \ {r} : Untouched(q)
    BY <1>2 DEF Acquire, Inv, TypeOK, ProgTypeOK, Untouched
  <2>2. pc[r] = "lock" /\ pc'[r] = "send" /\ UNCHANGED <<stage, todo, vals, resp, job>>
    BY <1>2 DEF Acquire, Inv, TypeOK, ProgTypeOK
  <2>3. Batch(r)' = Batch(r) /\ Sent(r)' = Sent(r)
    BY <2>2 DEF Batch, Sent
  <2>4. InBatch(r)'
    BY <2>2, <2>3 DEF OnBatch, InBatch, Serving
  <2>5. QED
    BY <2>1, <2>4, UntouchedBatch DEF OnBatch
<1>3. ASSUME NEW r \in Requests, Warm(r) \/ ConnectFails(r) \/ Cancel(r) PROVE OnBatch'
  <2>1. \E result : Respond(r, result, vals[r])
    BY <1>3 DEF Warm, ConnectFails, Cancel
  <2>2. pc[r] # "idle" /\ UNCHANGED job
    BY <1>3 DEF Warm, ConnectFails, Cancel
  <2>3. QED
    BY <2>1, <2>2, RespondOnBatch DEF Inv, TypeOK
<1>4. ASSUME NEW r \in Requests, Send(r) PROVE OnBatch'
  BY <1>4, SendOnBatch
<1>5. ASSUME NEW r \in Requests, Await(r) PROVE OnBatch'
  BY <1>0, <1>5, AwaitOnBatch DEF Inv, TypeOK
<1>6. CASE UNCHANGED progVars
  <2>1. \A q \in Requests : Untouched(q)
    BY <1>6 DEF progVars, Untouched
  <2>2. QED
    BY <2>1, UntouchedBatch DEF OnBatch
<1>7. QED
  BY <1>1, <1>2, <1>3, <1>4, <1>5, <1>6 DEF Next, vars

LEMMA InitOnBatch == Init => OnBatch
  BY DEF Init, OnBatch, InBatch, Serving

-----------------------------------------------------------------------------
(* Every step keeps what acknowledged batches have done *)

LEMMA FlightHolder ==
    ASSUME Inv, NEW q \in Requests, Acked(q)
    PROVE  holder = q /\ \A r \in Requests \ {q} : pc[r] \notin {"send", "await"}
  BY DEF Inv, SingleFlight, Acked

(* The command of the call under way is the next one of whoever awaits.    *)
LEMMA OwnIsNext ==
    ASSUME Inv, OnBatch, WireInv, NEW q \in Requests, Acked(q),
           toStation # <<>>, Head(toStation).own
    PROVE  Head(toStation).cmd = Batch(q)[Sent(q) + 1]
<1>1. Head(toStation).cmd = call /\ call \in Command
  <2>1. Head(toStation) = toStation[1] /\ 1 \in 1..Len(toStation) /\ Head(toStation).cmd \in Command
    BY QueueParts DEF Inv, TypeOK
  <2>2. QED
    BY <2>1 DEF WireInv
<1>2. call # NoCall
  BY <1>1, NoCallIsNoCommand
<1>3. PICK r \in Requests : pc[r] = "await"
  BY <1>2 DEF Inv, SingleFlight
<1>4. r = q
  BY <1>3, FlightHolder
<1>5. call = Head(todo[q]) /\ stage[q] # "connect" /\ pc[q] \in Serving
  BY <1>3, <1>4 DEF Inv, SingleFlight, Work, Serving
<1>6. QED
  BY <1>1, <1>5, NextOfBatch

LEMMA ExecuteKeeps ==
    ASSUME Inv, OnBatch, WireInv, NEW q \in Requests, Acked(q),
           toStation # <<>>, Head(toStation).own, Execute(Head(toStation).cmd),
           NEW i \in 1..Sent(q)
    PROVE  decoder'[Batch(q)[i].cv] = decoder[Batch(q)[i].cv]
<1> DEFINE c == Head(toStation).cmd
<1>1. c = Batch(q)[Sent(q) + 1] /\ pc[q] \in Serving /\ stage[q] # "connect"
  BY OwnIsNext DEF Acked, Inv, Work, Serving
<1>2. /\ Sent(q) \in Nat /\ Sent(q) + 1 \in 1..Len(Batch(q)) /\ Len(Batch(q)) \in Nat
      /\ Batch(q) \in Seq(Command)
  BY <1>1, NextOfBatch, BatchType
<1>3. i \in 1..Len(Batch(q)) /\ i # Sent(q) + 1
  BY <1>2
<1>4. Batch(q)[i].cv # c.cv
  BY <1>1, <1>2, <1>3, BatchShape
<1>5. Batch(q)[i].cv \in CvNo
  <2>1. Batch(q)[i] \in Command
    BY <1>2, <1>3
  <2>2. QED
    BY <2>1 DEF Command
<1>6. decoder \in [CvNo -> Byte]
  BY DEF Inv, TypeOK, UdpTypeOK
<1> HIDE DEF c
<1>7. CASE c.kind = "write"
  <2>1. decoder' = [decoder EXCEPT ![c.cv] = c.value]
    BY <1>7 DEF Execute, c
  <2>2. QED
    BY <1>4, <1>5, <1>6, <2>1
<1>8. CASE c.kind # "write"
  BY <1>8 DEF Execute, c
<1>9. QED
  BY <1>7, <1>8

LEMMA TailOnlyOwn ==
    ASSUME UdpTypeOK, toStation # <<>>, toStation' = Tail(toStation), OnlyOwn
    PROVE  OnlyOwn'
<1>1. /\ Len(toStation) \in Nat \ {0}
      /\ Len(toStation') = Len(toStation) - 1
      /\ \A i \in 1..Len(toStation') : toStation'[i] = toStation[i + 1]
  BY QueueParts
<1>2. \A i \in 1..Len(toStation') : i + 1 \in 1..Len(toStation)
  BY <1>1
<1>3. QED
  BY <1>1, <1>2 DEF OnlyOwn

LEMMA EnvironmentDone ==
    ASSUME Inv, OnBatch, WireInv, DoneInForce, Environment, UNCHANGED progVars
    PROVE  DoneInForce'
<1> SUFFICES ASSUME NEW q \in Requests, Acked(q) PROVE DoneFor(q)'
  BY DEF DoneInForce, DoneFor, Acked, progVars
<1>1. Batch(q)' = Batch(q) /\ Sent(q)' = Sent(q) /\ vals' = vals
  BY DEF progVars, Batch, Sent
<1>2. Sent(q) \in Nat
  BY BatchType DEF Acked, Serving
<1>3. /\ \A i \in 1..Sent(q) : InForce(Batch(q)[i], vals[q])
      /\ Sent(q) > 0 => OnlyOwn
  BY DEF DoneInForce, DoneFor
<1>4. CASE Sent(q) = 0
  BY <1>1, <1>4 DEF DoneFor
<1>5. CASE Sent(q) > 0
  <2>1. OnlyOwn
    BY <1>3, <1>5
  <2>2. toStation' = toStation \/ (toStation # <<>> /\ toStation' = Tail(toStation))
    BY DEF Environment, StationExec, StationRefuse, Lose, Unreachable
  <2>3. OnlyOwn'
    <3>1. CASE toStation' = toStation
      BY <2>1, <3>1 DEF OnlyOwn
    <3>2. QED
      BY <2>1, <2>2, <3>1, TailOnlyOwn DEF Inv, TypeOK
  <2>4. ASSUME NEW i \in 1..Sent(q) PROVE decoder'[Batch(q)[i].cv] = decoder[Batch(q)[i].cv]
    <3>1. CASE decoder' = decoder
      BY <3>1
    <3>2. CASE toStation # <<>> /\ Execute(Head(toStation).cmd)
      <4>1. Head(toStation).own
        <5>1. Head(toStation) = toStation[1] /\ 1 \in 1..Len(toStation)
          BY <3>2, QueueParts DEF Inv, TypeOK
        <5>2. QED
          BY <2>1, <5>1 DEF OnlyOwn
      <4>2. QED
        BY <3>2, <4>1, ExecuteKeeps
    <3>3. QED
      BY <3>1, <3>2 DEF Environment, StationExec, StationRefuse, Lose, Unreachable
  <2>5. QED
    BY <1>1, <1>3, <2>3, <2>4 DEF DoneFor, InForce
<1>6. QED
  BY <1>2, <1>4, <1>5

InForceNext(c, v) == decoder'[c.cv] = IF c.kind = "read" THEN v[c.cv] ELSE c.value

(* The call has been answered and its request goes on with the batch.      *)
LEMMA AnsweredDone ==
    ASSUME Inv, OnBatch, WireInv, AckInv, DoneInForce, UdpTypeOK', NEW r \in Requests,
           pc[r] = "await", Acked(r), RecvResult,
           NEW v, v = Noted(r, outcome'.value)
    PROVE  /\ \A i \in 1..(Sent(r) + 1) : InForceNext(Batch(r)[i], v)
           /\ OnlyOwn'
<1> DEFINE c == Head(todo[r])
<1>1. /\ c = call /\ c = Batch(r)[Sent(r) + 1] /\ Sent(r) + 1 \in 1..Len(Batch(r))
      /\ c \in Command /\ stage[r] # "connect"
  <2>1. pc[r] \in Serving /\ stage[r] # "connect" /\ c = call
    BY DEF Inv, Work, SingleFlight, Serving
  <2>2. QED
    BY <2>1, NextOfBatch
<1>2. Sent(r) \in Nat /\ Batch(r) \in Seq(Command) /\ Len(Batch(r)) \in Nat
  BY BatchType DEF Serving
<1>3. decoder' = decoder /\ toStation' = Disown(toStation)
      /\ outcome'.value = Head(replies).value /\ replies # <<>> /\ Head(replies).kind = "result"
  BY DEF RecvResult, EndCall, Accepts, Ended
<1>4. Head(replies) = replies[1]
  <2>1. replies \in Seq(Reply)
    BY DEF Inv, TypeOK, UdpTypeOK
  <2>2. QED
    BY <2>1, <1>3
<1>5. toStation = <<>> /\ applied /\ outcome'.value = decoder[call.cv]
  BY <1>3, <1>4 DEF WireInv
<1>6. OnlyOwn'
  BY <1>3, <1>5 DEF OnlyOwn, Disown
<1> HIDE DEF c
<1>7. c.cv \in CvNo /\ c.kind \in {"read", "write"}
  BY <1>1 DEF Command
<1>8. vals[r] \in [CvNo -> Byte \cup {NoValue}]
  BY DEF Inv, TypeOK, ProgTypeOK
<1>9. v = IF c.kind = "read" THEN [vals[r] EXCEPT ![c.cv] = outcome'.value] ELSE vals[r]
  BY DEF Noted, c
<1>10. InForceNext(c, v)
  <2>1. CASE c.kind = "read"
    BY <1>1, <1>3, <1>5, <1>7, <1>8, <1>9, <2>1 DEF InForceNext
  <2>2. CASE c.kind # "read"
    BY <1>1, <1>3, <1>5, <1>7, <2>2 DEF InForceNext, AckInv
  <2>3. QED
    BY <2>1, <2>2
<1>11. ASSUME NEW i \in 1..Sent(r) PROVE InForceNext(Batch(r)[i], v)
  <2>1. i \in 1..Len(Batch(r)) /\ i # Sent(r) + 1
    BY <1>1, <1>2
  <2>2. Batch(r)[i].cv # c.cv
    BY <1>1, <2>1, BatchShape
  <2>3. Batch(r)[i].cv \in CvNo
    <3>1. Batch(r)[i] \in Command
      BY <1>2, <2>1
    <3>2. QED
      BY <3>1 DEF Command
  <2>4. v[Batch(r)[i].cv] = vals[r][Batch(r)[i].cv]
    BY <1>8, <1>9, <2>2, <2>3
  <2>5. InForce(Batch(r)[i], vals[r])
    BY DEF DoneInForce, DoneFor
  <2>6. QED
    BY <1>3, <2>4, <2>5 DEF InForce, InForceNext
<1>12. QED
  BY <1>1, <1>2, <1>6, <1>10, <1>11

(* A request other than the holder of the lock touches neither the client  *)
(* nor the decoder.                                                        *)
LEMMA OtherDone ==
    ASSUME Inv, DoneInForce, NEW r \in Requests, NEW q \in Requests \ {r}, Untouched(q),
           \/ UNCHANGED udpVars
           \/ pc[r] \in {"send", "await"}
    PROVE  DoneFor(q)'
<1> SUFFICES ASSUME Acked(q) PROVE DoneFor(q)'
  BY DEF DoneFor, Acked, Untouched
<1>1. UNCHANGED udpVars
  BY FlightHolder
<1>2. Batch(q)' = Batch(q) /\ Sent(q)' = Sent(q) /\ vals'[q] = vals[q]
  BY UntouchedBatch DEF Untouched
<1>3. QED
  BY <1>1, <1>2 DEF DoneInForce, DoneFor, OnlyOwn, InForce, udpVars

LEMMA LockDone ==
    ASSUME NEW r \in Requests, pc'[r] \in {"idle", "lock", "done"}
    PROVE  DoneFor(r)'
  BY DEF DoneFor, Acked

LEMMA FinishLeaves ==
    ASSUME ProgTypeOK, NEW r \in Requests, NEW v, Finish(r, v)
    PROVE  pc'[r] \in {"lock", "done"}
  BY DEF Finish, EnterStage, Respond, ProgTypeOK

LEMMA SendDone ==
    ASSUME Inv, OnBatch, DoneInForce, NEW r \in Requests, Send(r)
    PROVE  DoneFor(r)'
<1>1. pc[r] = "send" /\ job' = job /\ pc[r] \in Serving
  BY DEF Send, Serving
<1>2. CASE /\ Call(Head(todo[r]))
           /\ pc' = [pc EXCEPT ![r] = "await"]
           /\ UNCHANGED <<holder, stage, todo, vals, resp>>
  <2>1. Batch(r)' = Batch(r) /\ Sent(r)' = Sent(r) /\ vals' = vals /\ decoder' = decoder
    BY <1>1, <1>2 DEF Batch, Sent, Call
  <2>2. Acked(r)' => Acked(r)
    BY <1>1, <1>2 DEF Acked
  <2>3. OnlyOwn => OnlyOwn'
    <3>1. toStation \in Seq(Datagram) /\ Len(toStation) \in Nat
      BY DEF Inv, TypeOK, UdpTypeOK
    <3>2. CASE toStation' = toStation
      BY <3>2 DEF OnlyOwn
    <3>3. CASE toStation' = Append(toStation, [cmd |-> Head(todo[r]), own |-> TRUE])
      <4>1. /\ Len(toStation') = Len(toStation) + 1
            /\ \A i \in 1..Len(toStation) : toStation'[i] = toStation[i]
            /\ toStation'[Len(toStation) + 1].own
        BY <3>1, <3>3
      <4>2. \A i \in 1..(Len(toStation) + 1) : i \in 1..Len(toStation) \/ i = Len(toStation) + 1
        BY <3>1
      <4>3. QED
        BY <4>1, <4>2 DEF OnlyOwn
    <3>4. QED
      BY <1>2, <3>2, <3>3 DEF Call, Transmit
  <2>4. QED
    BY <2>1, <2>2, <2>3 DEF DoneInForce, DoneFor, InForce
<1>3. CASE Post(Head(todo[r])) /\ CommandDone(r, vals[r])
  <2>1. CASE Len(todo[r]) > 1
    <3>1. stage' = stage
      BY <1>3, <2>1 DEF CommandDone
    <3>2. ~Awaited(Head(todo[r]))
      BY <1>3 DEF Post
    <3>3. stage[r] # "connect"
      BY <1>1 DEF Inv, Work
    <3>4. ~Acked(r)
      BY <1>1, <3>2, <3>3, NextOfBatch, BatchShape
    <3>5. QED
      BY <1>1, <3>1, <3>4 DEF DoneFor, Acked
  <2>2. CASE ~(Len(todo[r]) > 1)
    BY <1>3, <2>2, FinishLeaves, LockDone DEF CommandDone, Inv, TypeOK
  <2>3. QED
    BY <2>1, <2>2
<1>4. CASE Abort(r)
  <2>1. pc'[r] = "done"
    BY <1>4 DEF Abort, Respond, Inv, TypeOK, ProgTypeOK
  <2>2. QED
    BY <2>1, LockDone
<1>5. QED
  BY <1>2, <1>3, <1>4 DEF Send

LEMMA AwaitDone ==
    ASSUME Inv, OnBatch, WireInv, AckInv, DoneInForce, NEW r \in Requests, Await(r), UdpTypeOK'
    PROVE  DoneFor(r)'
<1>1. pc[r] = "await" /\ job' = job
  BY DEF Await
<1>2. CASE Answered(r)
  <2> DEFINE v == Noted(r, outcome'.value)
  <2>1. RecvResult /\ CommandDone(r, v)
    BY <1>2 DEF Answered
  <2>2. CASE ~(Len(todo[r]) > 1)
    BY <2>1, <2>2, FinishLeaves, LockDone DEF CommandDone, Inv, TypeOK
  <2>3. CASE Len(todo[r]) > 1
    <3>1. Advanced(r, v)
      BY <1>1, <2>1, <2>3 DEF CommandDone, Inv, TypeOK, ProgTypeOK, Advanced
    <3>2. CASE ~Acked(r)
      BY <1>1, <3>1, <3>2 DEF DoneFor, Acked, Advanced
    <3>3. CASE Acked(r)
      <4>1. stage[r] = "write" => v = vals[r]
        BY <1>1, NotedTable DEF UdpTypeOK
      <4>2. Batch(r)' = Batch(r) /\ Sent(r)' = Sent(r) + 1
        BY <1>1, <3>1, <4>1, AdvancedBatch
      <4>3. OnlyOwn' /\ \A i \in 1..(Sent(r) + 1) : InForceNext(Batch(r)[i], v)
        BY <1>1, <2>1, <3>3, AnsweredDone
      <4>4. vals'[r] = v
        BY <3>1 DEF Advanced
      <4>5. QED
        BY <4>2, <4>3, <4>4 DEF DoneFor, InForce, InForceNext
    <3>4. QED
      BY <3>2, <3>3
  <2>4. QED
    BY <2>2, <2>3
<1>3. CASE Unanswered(r)
  <2>1. pc'[r] \in {"lock", "done"}
    BY <1>3, FinishLeaves DEF Unanswered, Abort, Respond, Inv, TypeOK, ProgTypeOK
  <2>2. QED
    BY <2>1, LockDone
<1>4. CASE Abort(r)
  <2>1. pc'[r] = "done"
    BY <1>4 DEF Abort, Respond, Inv, TypeOK, ProgTypeOK
  <2>2. QED
    BY <2>1, LockDone
<1>5. CASE RecvOther /\ UNCHANGED <<holder, pc, stage, todo, vals, resp>>
  <2>1. Untouched(r) /\ UNCHANGED <<decoder, toStation>>
    BY <1>1, <1>5 DEF Untouched, RecvOther
  <2>2. Batch(r)' = Batch(r) /\ Sent(r)' = Sent(r)
    BY <2>1, UntouchedBatch
  <2>3. QED
    BY <2>1, <2>2 DEF DoneInForce, DoneFor, OnlyOwn, InForce, Acked, Untouched
<1>6. QED
  BY <1>2, <1>3, <1>4, <1>5 DEF Await

LEMMA NextDone ==
    ASSUME Inv, OnBatch, WireInv, AckInv, DoneInForce, [Next]_vars
    PROVE  DoneInForce'
<1>0. UdpTypeOK'
  BY NextInv DEF Inv, TypeOK
<1>1. ASSUME NEW r \in Requests, Start(r) \/ Warm(r) \/ ConnectFails(r) \/ Cancel(r)
      PROVE  DoneInForce'
  <2>1. pc'[r] \in {"lock", "done"}
    BY <1>1 DEF Start, Warm, ConnectFails, Cancel, EnterStage, Respond, Inv, TypeOK, ProgTypeOK
  <2>2. \A q \in Requests \ {r} : Untouched(q)
    BY <1>1 DEF Start, Warm, ConnectFails, Cancel, EnterStage, Respond, Inv, TypeOK, ProgTypeOK,
                Untouched
  <2>3. UNCHANGED udpVars \/ pc[r] \in {"send", "await"}
    BY <1>1 DEF Start, Warm, ConnectFails, Cancel
  <2>4. QED
    BY <2>1, <2>2, <2>3, LockDone, OtherDone DEF DoneInForce
<1>2. ASSUME NEW r \in Requests, Acquire(r) PROVE DoneInForce'
  <2>1. \A q \in Requests \ {r} : Untouched(q)
    BY <1>2 DEF Acquire, Inv, TypeOK, ProgTypeOK, Untouched
  <2>2. UNCHANGED <<stage, todo, vals, job, udpVars>> /\ pc[r] = "lock"
    BY <1>2 DEF Acquire
  <2>3. Batch(r)' = todo'[r] /\ Len(Batch(r)') \in Nat
    BY <2>2 DEF Batch, OnBatch, InBatch, Inv, TypeOK, ProgTypeOK
  <2>4. Sent(r)' = 0
    BY <2>3 DEF Sent
  <2>5. DoneFor(r)'
    BY <2>4 DEF DoneFor
  <2>6. QED
    BY <2>1, <2>2, <2>5, OtherDone DEF DoneInForce
<1>3. ASSUME NEW r \in Requests, Send(r) PROVE DoneInForce'
  <2>1. \A q \in Requests \ {r} : Untouched(q)
    BY <1>3, SendOnBatch
  <2>2. pc[r] \in {"send", "await"}
    BY <1>3 DEF Send
  <2>3. QED
    BY <1>3, <2>1, <2>2, SendDone, OtherDone DEF DoneInForce
<1>4. ASSUME NEW r \in Requests, Await(r) PROVE DoneInForce'
  <2>1. \A q \in Requests \ {r} : Untouched(q)
    BY <1>0, <1>4, AwaitOnBatch
  <2>2. pc[r] \in {"send", "await"}
    BY <1>4 DEF Await
  <2>3. QED
    BY <1>0, <1>4, <2>1, <2>2, AwaitDone, OtherDone DEF DoneInForce
<1>5. CASE Environment /\ UNCHANGED progVars
  BY <1>5, EnvironmentDone
<1>6. CASE UNCHANGED vars
  <2>1. \A q \in Requests : Untouched(q)
    BY <1>6 DEF vars, progVars, Untouched
  <2>2. UNCHANGED <<decoder, toStation>>
    BY <1>6 DEF vars, udpVars
  <2>3. ASSUME NEW q \in Requests PROVE DoneFor(q)'
    <3>1. Batch(q)' = Batch(q) /\ Sent(q)' = Sent(q)
      BY <2>1, UntouchedBatch
    <3>2. QED
      BY <2>1, <2>2, <3>1 DEF DoneInForce, DoneFor, OnlyOwn, InForce, Acked, Untouched
  <2>4. QED
    BY <2>3 DEF DoneInForce
<1>7. QED
  BY <1>1, <1>2, <1>3, <1>4, <1>5, <1>6 DEF Next

Batched == Inv /\ OnBatch /\ WireInv /\ AckInv /\ DoneInForce

LEMMA BatchedInvariant == ASSUME Calm PROVE Spec => []Batched
<1>1. Init => OnBatch /\ DoneInForce
  BY InitOnBatch DEF Init, DoneInForce, DoneFor, Acked
<1>2. Inv /\ OnBatch /\ [Next]_vars => OnBatch'
  BY NextOnBatch
<1>3. Inv /\ OnBatch /\ WireInv /\ AckInv /\ DoneInForce /\ [Next]_vars => DoneInForce'
  BY NextDone
<1>4. QED
  BY <1>1, <1>2, <1>3, Invariant, BackendWire, WireAck, PTL DEF Spec, Batched

-----------------------------------------------------------------------------
(* What a successful answer means *)

LEMMA FinishOk ==
    ASSUME Inv, OnBatch, NEW r \in Requests, pc[r] \in {"send", "await"}, NEW v, Finish(r, v),
           resp'[r] = "ok"
    PROVE  /\ vals'[r] = v
           /\ \/ stage[r] = "write" /\ ~job[r].verify
              \/ stage[r] = "verify" /\ DecodeAddress(v) = job[r].addr
              \/ stage[r] \in {"get", "cvs"}
<1>1. resp[r] = "none"
  BY DEF OnBatch, InBatch
<1>2. ~ \E st, w : EnterStage(r, job[r], st, w)
  BY <1>1 DEF EnterStage
<1>3. ~Respond(r, "mismatch", v)
  BY DEF Respond, Inv, TypeOK, ProgTypeOK
<1>4. (\E result : Respond(r, result, v)) => vals'[r] = v
  BY DEF Respond, Inv, TypeOK, ProgTypeOK
<1>5. QED
  BY <1>2, <1>3, <1>4 DEF Finish

(* Only the last command of a batch ends a request well, or the socket     *)
(* being there.                                                            *)
LEMMA EndsOk ==
    ASSUME Inv, OnBatch, [Next]_vars, NEW r \in Requests, Ends(r, "ok"),
           pc[r] = "lock" => stage[r] # "connect"
    PROVE  /\ job' = job /\ Len(todo[r]) <= 1
           /\ \/ /\ pc[r] = "send" /\ Post(Head(todo[r]))
                 /\ Finish(r, vals[r])
              \/ /\ pc[r] = "await" /\ RecvResult
                 /\ Finish(r, Noted(r, outcome'.value))
<1>1. resp[r] = "none" /\ resp'[r] = "ok"
  BY DEF Ends, OnBatch, InBatch
<1>2. /\ resp \in [Requests -> Responses] /\ todo[r] \in Seq(Command) /\ Len(todo[r]) \in Nat
  BY DEF Inv, TypeOK, ProgTypeOK
<1>3. ~Abort(r)
  BY <1>1, <1>2 DEF Abort, Respond
<1>4. ~(resp' = resp)
  BY <1>1
<1>5. ASSUME NEW v, CommandDone(r, v) PROVE Len(todo[r]) <= 1 /\ Finish(r, v)
  BY <1>2, <1>4, <1>5 DEF CommandDone
<1>6. ASSUME NEW q \in Requests, Start(q) \/ Acquire(q) \/ Warm(q) \/ ConnectFails(q) \/ Cancel(q)
      PROVE  FALSE
  BY <1>1, <1>2, <1>6 DEF Start, Acquire, Warm, ConnectFails, Cancel, EnterStage, Respond
<1>7. PICK q \in Requests : Send(q) \/ Await(q)
  BY <1>4, <1>6 DEF Next, vars, progVars
<1>8. q = r
  <2>1. UdpTypeOK'
    BY NextInv DEF Inv, TypeOK
  <2>2. \A x \in Requests \ {q} : resp'[x] = resp[x]
    BY <1>7, <2>1, SendOnBatch, AwaitOnBatch DEF Untouched
  <2>3. QED
    BY <1>1, <2>2
<1>9. CASE Send(r)
  BY <1>3, <1>4, <1>5, <1>9 DEF Send
<1>10. CASE Await(r)
  <2>1. ~Unanswered(r)
    <3>1. ASSUME Unanswered(r), stage[r] = "read28" PROVE FALSE
      BY <1>1, <1>10, <3>1, FinishOk DEF Unanswered, Await
    <3>2. QED
      BY <1>3, <3>1 DEF Unanswered
  <2>2. QED
    BY <1>3, <1>4, <1>5, <1>10, <2>1 DEF Await, Answered
<1>11. QED
  BY <1>7, <1>8, <1>9, <1>10

LEMMA EndsServing ==
    ASSUME Inv, OnBatch, [Next]_vars, NEW r \in Requests, Ends(r, "ok")
    PROVE  pc[r] \in Serving
<1>1. pc[r] \in {"idle", "lock", "send", "await"}
  BY DEF Inv, TypeOK, ProgTypeOK, Ends
<1>2. pc[r] # "idle"
  BY EndsOk
<1>3. QED
  BY <1>1, <1>2 DEF Serving

(* The whole batch is in force when an acknowledged batch ends well. *)
LEMMA EndsAcked ==
    ASSUME Batched, [Next]_vars, NEW r \in Requests, Ends(r, "ok"),
           stage[r] \in {"get", "verify"} \/ (stage[r] = "write" /\ ~job[r].pom)
    PROVE  /\ \A i \in 1..Len(Batch(r)) : InForce(Batch(r)[i], vals'[r])
           /\ Acked(r)
           /\ stage[r] = "verify" => DecodeAddress(vals'[r]) = job[r].addr
<1>0. Inv /\ OnBatch /\ WireInv /\ AckInv /\ DoneInForce /\ UdpTypeOK'
  BY NextInv DEF Batched, Inv, TypeOK
<1>1. /\ Len(todo[r]) <= 1
      /\ \/ /\ pc[r] = "send" /\ Post(Head(todo[r]))
            /\ Finish(r, vals[r])
         \/ /\ pc[r] = "await" /\ RecvResult
            /\ Finish(r, Noted(r, outcome'.value))
  BY <1>0, EndsOk
<1>2. Acked(r) /\ pc[r] \in Serving /\ stage[r] # "connect"
  BY <1>1 DEF Acked, Serving
<1>3. /\ Len(Batch(r)) \in Nat /\ Sent(r) \in Nat /\ Len(todo[r]) = 1
      /\ Sent(r) + 1 = Len(Batch(r))
  <2>1. Len(todo[r]) \in Nat /\ Len(todo[r]) > 0 /\ Len(Batch(r)) \in Nat /\ Sent(r) \in Nat
    BY <1>0, <1>2, BatchType
  <2>2. \A n, b \in Nat : n > 0 /\ n <= 1 => n = 1 /\ (b - n) + 1 = b
    OBVIOUS
  <2>3. QED
    BY <1>1, <2>1, <2>2 DEF Sent
<1>4. Awaited(Head(todo[r]))
  BY <1>0, <1>2, NextOfBatch, BatchShape
<1>5. /\ pc[r] = "await" /\ RecvResult
      /\ Finish(r, Noted(r, outcome'.value))
  BY <1>1, <1>4 DEF Post
<1>6. /\ vals'[r] = Noted(r, outcome'.value)
      /\ stage[r] = "verify" => DecodeAddress(vals'[r]) = job[r].addr
  BY <1>0, <1>5, FinishOk DEF Ends
<1>7. \A i \in 1..(Sent(r) + 1) : InForceNext(Batch(r)[i], vals'[r])
  BY <1>0, <1>2, <1>5, <1>6, AnsweredDone
<1>8. decoder' = decoder
  BY <1>5 DEF RecvResult, EndCall
<1>9. QED
  BY <1>2, <1>3, <1>6, <1>7, <1>8 DEF InForce, InForceNext

(* The batch that reads the address. *)
LEMMA ReadBatch ==
    ASSUME Inv, OnBatch, NEW r \in Requests, pc[r] \in Serving, stage[r] \in {"get", "verify"}
    PROVE  /\ Len(Batch(r)) = 4 /\ DOMAIN AddrCvs = 1..4
           /\ \A i \in 1..4 : Batch(r)[i].cv = AddrCvs[i] /\ Batch(r)[i].kind = "read"
<1>1. Batch(r) = [i \in 1..4 |-> CommandFor(job[r], "read", AddrCvs[i], 0)]
  BY DEF Batch, StageCommands, Reads, AddrCvs
<1>2. Len(Batch(r)) = 4
  BY <1>1, BatchType
<1>3. DOMAIN AddrCvs = 1..4
  BY DEF AddrCvs
<1>4. QED
  BY <1>1, <1>2, <1>3 DEF CommandFor

LEMMA SameAddress ==
    ASSUME NEW s, NEW t, \A i \in 1..4 : s[AddrCvs[i]] = t[AddrCvs[i]]
    PROVE  DecodeAddress(s) = DecodeAddress(t)
<1>1. /\ 1 \in 1..4 /\ 2 \in 1..4 /\ 3 \in 1..4 /\ 4 \in 1..4
      /\ AddrCvs[1] = 1 /\ AddrCvs[2] = 17 /\ AddrCvs[3] = 18 /\ AddrCvs[4] = 29
  BY DEF AddrCvs
<1>2. s[1] = t[1] /\ s[17] = t[17] /\ s[18] = t[18] /\ s[29] = t[29]
  BY <1>1
<1>3. QED
  BY <1>2 DEF DecodeAddress

(* addr_get answers with one snapshot of the decoder, for any requests and *)
(* jobs and in any environment without late answers, dropped handlers and  *)
(* ICMP errors: other requests may be served before it, between its        *)
(* command and its answer never.                                           *)
THEOREM SnapshotIsRead == ASSUME Calm PROVE Spec => SnapshotRead
<1>1. ASSUME Batched, [Next]_vars, NEW r \in Requests, Ends(r, "ok"), job[r].op = "addrGet"
      PROVE  \A i \in DOMAIN AddrCvs : vals'[r][AddrCvs[i]] = decoder[AddrCvs[i]]
  <2>1. stage[r] = "get"
    <3>1. pc[r] # "idle"
      BY <1>1, EndsServing DEF Batched, Serving
    <3>2. QED
      BY <1>1, <3>1 DEF Batched, OnBatch, InBatch, StagesOf
  <2>2. (\A i \in 1..Len(Batch(r)) : InForce(Batch(r)[i], vals'[r])) /\ pc[r] \in Serving
    BY <1>1, <2>1, EndsAcked DEF Acked, Serving
  <2>3. /\ Len(Batch(r)) = 4 /\ DOMAIN AddrCvs = 1..4
        /\ \A i \in 1..4 : Batch(r)[i].cv = AddrCvs[i] /\ Batch(r)[i].kind = "read"
    BY <1>1, <2>1, <2>2, ReadBatch DEF Batched
  <2>4. \A i \in 1..4 : vals'[r][Batch(r)[i].cv] = decoder[Batch(r)[i].cv]
    BY <2>2, <2>3 DEF InForce
  <2>5. QED
    BY <2>3, <2>4
<1>2. Batched /\ [Next]_vars => [\A r \in Requests :
         Ends(r, "ok") /\ job[r].op = "addrGet"
           => \A i \in DOMAIN AddrCvs : vals'[r][AddrCvs[i]] = decoder[AddrCvs[i]]]_vars
  BY <1>1
<1>3. QED
  BY <1>2, BatchedInvariant, PTL DEF Spec, SnapshotRead

(* The writes of an address, once they are in the decoder, put it on the   *)
(* address; the table a verification reads decides for the decoder.        *)
LEMMA WrittenAddress ==
    ASSUME Inv, OnBatch, NEW r \in Requests, pc[r] \in Serving, stage[r] = "write",
           NEW v, \A i \in 1..Len(Batch(r)) : InForce(Batch(r)[i], v)
    PROVE  DecodeAddress(decoder) = job[r].addr /\ ProperTable(decoder)
<1> DEFINE e == AddressWrites(job[r], vals[r])
<1>1. job[r] \in Job /\ ValidAddress(job[r].addr) /\ vals[r] \in GoodTable
  <2>1. job[r].op = "addrSet" /\ job[r] \in Jobs /\ job[r] \in Job
    BY BatchType DEF Inv, Work, AddressStages
  <2>2. QED
    BY <2>1, ProgrammingAssumption, TableIsGood DEF Inv, TypeOK
<1>2. /\ e \in Seq(Entries)
      /\ \A d \in [CvNo -> Byte] :
           (\A i \in 1..Len(e) : d[e[i].cv] = e[i].value)
             => DecodeAddress(d) = job[r].addr /\ ProperTable(d)
  BY <1>1, AddressWritesType, AddressWritesShape
<1> HIDE DEF e
<1>3. Batch(r) = [i \in 1..Len(e) |-> CommandFor(job[r], "write", e[i].cv, e[i].value)]
  BY <1>2 DEF Batch, StageCommands, Writes, e
<1>4. Len(Batch(r)) = Len(e)
  BY <1>2, <1>3, BatchType
<1>5. \A i \in 1..Len(e) : /\ Batch(r)[i].cv = e[i].cv /\ Batch(r)[i].kind = "write"
                           /\ Batch(r)[i].value = e[i].value
  BY <1>3 DEF CommandFor
<1>6. \A i \in 1..Len(e) : decoder[e[i].cv] = e[i].value
  BY <1>4, <1>5 DEF InForce
<1>7. QED
  BY <1>2, <1>6 DEF Inv, TypeOK, UdpTypeOK

(* An address_set that answers "ok" left the decoder on the address, for   *)
(* any requests, jobs and decoders, and whether or not the decoder has a   *)
(* CV 28: on the programming track by its acknowledged writes, on the main *)
(* track when it verified.                                                 *)
THEOREM AddressIsPut == ASSUME Calm PROVE Spec => AddressIsSet
<1>1. ASSUME Batched, [Next]_vars, NEW r \in Requests, Ends(r, "ok"), job[r].op = "addrSet",
             job[r].verify \/ ~job[r].pom
      PROVE  DecodeAddress(decoder) = job[r].addr
  <2>0. Inv /\ OnBatch /\ pc[r] \in Serving
    BY <1>1, EndsServing DEF Batched
  <2>1. stage[r] \in AddressStages
    BY <1>1, <2>0 DEF OnBatch, InBatch, StagesOf, Serving
  <2>2. \/ stage[r] = "write" /\ ~job[r].verify
        \/ stage[r] = "verify"
    BY <1>1, <2>0, <2>1, EndsOk, FinishOk DEF AddressStages, Ends
  <2>3. CASE stage[r] = "write" /\ ~job[r].verify
    BY <1>1, <2>0, <2>3, EndsAcked, WrittenAddress
  <2>4. CASE stage[r] = "verify"
    <3>1. /\ \A i \in 1..Len(Batch(r)) : InForce(Batch(r)[i], vals'[r])
          /\ DecodeAddress(vals'[r]) = job[r].addr
      BY <1>1, <2>4, EndsAcked
    <3>2. /\ Len(Batch(r)) = 4
          /\ \A i \in 1..4 : Batch(r)[i].cv = AddrCvs[i] /\ Batch(r)[i].kind = "read"
      BY <2>0, <2>4, ReadBatch
    <3>3. \A i \in 1..4 : vals'[r][Batch(r)[i].cv] = decoder[Batch(r)[i].cv]
      BY <3>1, <3>2 DEF InForce
    <3>4. \A i \in 1..4 : vals'[r][AddrCvs[i]] = decoder[AddrCvs[i]]
      BY <3>2, <3>3
    <3>5. DecodeAddress(vals'[r]) = DecodeAddress(decoder)
      BY <3>4, SameAddress
    <3>6. QED
      BY <3>1, <3>5
  <2>5. QED
    BY <2>2, <2>3, <2>4
<1>2. Batched /\ [Next]_vars => [\A r \in Requests :
         Ends(r, "ok") /\ job[r].op = "addrSet" /\ (job[r].verify \/ ~job[r].pom)
           => DecodeAddress(decoder) = job[r].addr]_vars
  BY <1>1
<1>3. QED
  BY <1>2, BatchedInvariant, PTL DEF Spec, AddressIsSet

(* The acknowledgement a cvs_write waited for was that of its own write,   *)
(* for any batch of commands.                                              *)
THEOREM WriteIsAcknowledged == ASSUME Calm PROVE Spec => WriteIsStored
<1>1. ASSUME Batched, [Next]_vars, NEW r \in Requests, Ends(r, "ok"), job[r].op = "cvs",
             ~job[r].pom, Head(todo[r]).kind = "write"
      PROVE  decoder[Head(todo[r]).cv] = Head(todo[r]).value
  <2>0. Inv /\ OnBatch /\ WireInv /\ AckInv /\ pc[r] \in Serving
    BY <1>1, EndsServing DEF Batched
  <2>1. stage[r] = "cvs" /\ job[r] \in Jobs
    BY <1>1, <2>0 DEF OnBatch, InBatch, StagesOf, Serving, Inv, Work
  <2>2. Head(todo[r]) = Batch(r)[Sent(r) + 1] /\ Sent(r) + 1 \in 1..Len(Batch(r))
    BY <2>0, <2>1, NextOfBatch
  <2>3. Batch(r) = job[r].cmds /\ Batch(r) \in Seq(Command)
    BY <2>0, <2>1, BatchType DEF Batch, StageCommands
  <2>4. ~Head(todo[r]).pom
    <3>1. \A i \in DOMAIN job[r].cmds : job[r].cmds[i].pom = job[r].pom
      BY <1>1, <2>1, ProgrammingAssumption
    <3>2. QED
      BY <1>1, <2>2, <2>3, <3>1
  <2>5. pc[r] = "await" /\ RecvResult
    BY <1>1, <2>0, <2>1, <2>4, EndsOk DEF Post, Awaited
  <2>6. call = Head(todo[r]) /\ applied
    <3>1. call = Head(todo[r])
      BY <2>0, <2>5 DEF Inv, SingleFlight
    <3>2. replies \in Seq(Reply)
      BY <2>0 DEF Inv, TypeOK, UdpTypeOK
    <3>3. replies # <<>> /\ replies[1].kind = "result"
      BY <2>5, <3>2 DEF RecvResult, Accepts
    <3>4. QED
      BY <2>0, <3>1, <3>3 DEF WireInv
  <2>7. QED
    BY <1>1, <2>0, <2>6 DEF AckInv
<1>2. Batched /\ [Next]_vars => [\A r \in Requests :
         Ends(r, "ok") /\ job[r].op = "cvs" /\ ~job[r].pom
           => LET c == Head(todo[r])
              IN  c.kind = "write" => decoder[c.cv] = c.value]_vars
  BY <1>1
<1>3. QED
  BY <1>2, BatchedInvariant, PTL DEF Spec, WriteIsStored

(* RailComPlus is off in the decoder before an address CV is written on    *)
(* the programming track, wherever the batch is cut short, for any jobs.   *)
THEOREM RailcomFirst == ASSUME Calm PROVE Spec => []RailcomOffFirst
<1>1. ASSUME Batched, NEW r \in Requests, stage[r] = "write", pc[r] \in {"send", "await"},
             ~job[r].pom, vals[r][28] # NoValue, RailcomPlusOn(vals[r][28]),
             Head(todo[r]).cv # 28
      PROVE  ~RailcomPlusOn(decoder[28])
  <2> DEFINE e == AddressWrites(job[r], vals[r])
  <2>1. Inv /\ OnBatch /\ pc[r] \in Serving /\ Acked(r) /\ stage[r] # "connect"
    BY <1>1 DEF Batched, Serving, Acked
  <2>2. job[r] \in Job /\ ValidAddress(job[r].addr) /\ vals[r] \in GoodTable
    <3>1. job[r].op = "addrSet" /\ job[r] \in Jobs /\ job[r] \in Job
      BY <1>1, <2>1, BatchType DEF Inv, Work, AddressStages
    <3>2. QED
      BY <2>1, <3>1, ProgrammingAssumption, TableIsGood DEF Inv, TypeOK
  <2>3. /\ e \in Seq(Entries) /\ e # <<>>
        /\ e[1] = Entry(28, ClearBit(vals[r][28], RailcomBit))
    BY <1>1, <2>2, AddressWritesType, AddressWritesShape
  <2> HIDE DEF e
  <2>4. Batch(r) = [i \in 1..Len(e) |-> CommandFor(job[r], "write", e[i].cv, e[i].value)]
    BY <1>1, <2>3 DEF Batch, StageCommands, Writes, e
  <2>5. 1 \in 1..Len(e)
    BY <2>3
  <2>6. /\ Batch(r)[1].cv = 28 /\ Batch(r)[1].kind = "write"
        /\ Batch(r)[1].value = ClearBit(vals[r][28], RailcomBit)
    BY <2>3, <2>4, <2>5 DEF CommandFor, Entry
  <2>7. Sent(r) \in Nat /\ Sent(r) # 0
    <3>1. Sent(r) \in Nat /\ Head(todo[r]) = Batch(r)[Sent(r) + 1]
      BY <2>1, NextOfBatch, BatchType
    <3>2. QED
      BY <1>1, <2>6, <3>1
  <2>8. InForce(Batch(r)[1], vals[r])
    <3>1. 1 \in 1..Sent(r)
      BY <2>7
    <3>2. QED
      BY <1>1, <2>1, <3>1 DEF Batched, DoneInForce, DoneFor
  <2>9. decoder[28] = ClearBit(vals[r][28], RailcomBit)
    BY <2>6, <2>8 DEF InForce
  <2>10. vals[r][28] \in Byte
    BY <1>1, <2>2 DEF GoodTable, Table, CvNo
  <2>11. QED
    BY <2>9, <2>10, RailcomBitCleared
<1>2. Batched => RailcomOffFirst
  BY <1>1 DEF RailcomOffFirst
<1>3. QED
  BY <1>2, BatchedInvariant, PTL

-----------------------------------------------------------------------------
(* Which address the decoder answers to *)

(* A command that does not move a proper decoder which it reaches.         *)
LeavesAddress(c) ==
    c.kind = "write" =>
      \A d \in [CvNo -> Byte] :
        ProperTable(d) /\ (c.pom => c.addr = DecodeAddress(d))
          => LET e == [d EXCEPT ![c.cv] = c.value]
             IN  DecodeAddress(e) = DecodeAddress(d) /\ ProperTable(e)

(* What the theorem assumes of the decoders and of the batches of cvs      *)
(* requests, which may name any CV: CV 28, say, or, on the main track, a   *)
(* CV 29 that keeps the form.                                              *)
ProperDecoders == \A d \in InitDecoders : ProperTable(d)
CvsLeaveAddress ==
    \A j \in Jobs : j.op = "cvs" => \A i \in DOMAIN j.cmds : LeavesAddress(j.cmds[i])

(* The writes of an address, one by one; the form bit of a short address   *)
(* follows the address.                                                    *)
LEMMA AddressEntries ==
    ASSUME NEW j \in Job, NEW v, NEW i \in 1..Len(AddressWrites(j, v))
    PROVE  LET a == j.addr
               e == AddressWrites(j, v)
               z == Entry(29, ClearBit(v[29], LongBit))
           IN  \/ e[i].cv = 28
               \/ /\ IsLong(a)
                  /\ e[i] \in {Entry(17, 192 + a \div 256), Entry(18, a % 256),
                               Entry(29, SetBit(v[29], LongBit))}
               \/ ~IsLong(a) /\ e[i] = Entry(1, a)
               \/ ~IsLong(a) /\ e[i] = z /\ i - 1 \in 1..Len(e) /\ e[i - 1] = Entry(1, a)
<1> DEFINE a == j.addr
           e == AddressWrites(j, v)
           r == Entry(28, ClearBit(v[28], RailcomBit))
           on == v[28] # NoValue /\ RailcomPlusOn(v[28])
<1>0. r.cv = 28
  BY DEF Entry
<1>1. CASE IsLong(a)
  <2> DEFINE x == Entry(17, 192 + a \div 256)
             y == Entry(18, a % 256)
             z == Entry(29, SetBit(v[29], LongBit))
  <2>1. AddressCvWrites(a, v[29]) = <<x, y, z>>
    BY <1>1 DEF AddressCvWrites
  <2> HIDE DEF x, y, z, r
  <2>2. e = IF on THEN <<r, x, y, z>> ELSE <<x, y, z>>
    BY <2>1, PrependTriple, r \in {r, x, y, z} DEF AddressWrites, PrependRailcomPlusOff, r
  <2> HIDE DEF e
  <2>3. e[i] \in {r, x, y, z}
    <3>1. i \in 1..Len(e)
      BY DEF e
    <3>2. CASE on
      <4>1. Len(e) = 4 /\ e[1] = r /\ e[2] = x /\ e[3] = y /\ e[4] = z
        BY <2>2, <3>2
      <4>2. \A k \in 1..4 : k = 1 \/ k = 2 \/ k = 3 \/ k = 4
        OBVIOUS
      <4>3. QED
        BY <3>1, <4>1, <4>2
    <3>3. CASE ~on
      <4>1. Len(e) = 3 /\ e[1] = x /\ e[2] = y /\ e[3] = z
        BY <2>2, <3>3
      <4>2. \A k \in 1..3 : k = 1 \/ k = 2 \/ k = 3
        OBVIOUS
      <4>3. QED
        BY <3>1, <4>1, <4>2
    <3>4. QED
      BY <3>2, <3>3
  <2>4. QED
    BY <1>0, <1>1, <2>3 DEF e, x, y, z
<1>2. CASE ~IsLong(a)
  <2> DEFINE x == Entry(1, a)
             z == Entry(29, ClearBit(v[29], LongBit))
  <2>1. AddressCvWrites(a, v[29]) = <<x, z>>
    BY <1>2 DEF AddressCvWrites
  <2> HIDE DEF x, z, r
  <2>2. e = IF on THEN <<r, x, z>> ELSE <<x, z>>
    BY <2>1, PrependPair, r \in {r, x, z} DEF AddressWrites, PrependRailcomPlusOff, r
  <2> HIDE DEF e
  <2>3. e[i] = r \/ e[i] = x \/ (e[i] = z /\ i - 1 \in 1..Len(e) /\ e[i - 1] = x)
    <3>1. i \in 1..Len(e)
      BY DEF e
    <3>2. CASE on
      <4>1. Len(e) = 3 /\ e[1] = r /\ e[2] = x /\ e[3] = z
        BY <2>2, <3>2
      <4>2. \A k \in 1..3 : k = 1 \/ k = 2 \/ (k = 3 /\ k - 1 = 2)
        OBVIOUS
      <4>3. QED
        BY <3>1, <4>1, <4>2
    <3>3. CASE ~on
      <4>1. Len(e) = 2 /\ e[1] = x /\ e[2] = z
        BY <2>2, <3>3
      <4>2. \A k \in 1..2 : k = 1 \/ (k = 2 /\ k - 1 = 1)
        OBVIOUS
      <4>3. QED
        BY <3>1, <4>1, <4>2
    <3>4. QED
      BY <3>2, <3>3
  <2>4. QED
    BY <1>0, <1>2, <2>3 DEF e, x, z
<1>3. QED
  BY <1>1, <1>2

(* CV 28 is no part of the address. *)
LEMMA Cv28LeavesAddress ==
    ASSUME NEW c \in Command, c.cv = 28
    PROVE  LeavesAddress(c)
<1> SUFFICES ASSUME NEW d \in [CvNo -> Byte], ProperTable(d)
             PROVE  LET e == [d EXCEPT ![28] = c.value]
                    IN  DecodeAddress(e) = DecodeAddress(d) /\ ProperTable(e)
  BY DEF LeavesAddress
<1> DEFINE e == [d EXCEPT ![28] = c.value]
<1>1. e[1] = d[1] /\ e[17] = d[17] /\ e[18] = d[18] /\ e[29] = d[29]
  BY DEF CvNo
<1> HIDE DEF e
<1>2. DecodeAddress(e) = DecodeAddress(d)
  BY <1>1 DEF DecodeAddress
<1>3. QED
  BY <1>1, <1>2 DEF ProperTable, e

LEMMA LongParts ==
    ASSUME NEW x \in Byte, NEW y \in Byte, NEW a, ((x % 64) * 256) + y = a
    PROVE  (192 + a \div 256) % 64 = x % 64 /\ a % 256 = y
<1> DEFINE q == x % 64
<1>1. q \in 0..63
  BY DEF Byte
<1> HIDE DEF q
<1>2. ((q * 256) + y) \div 256 = q /\ ((q * 256) + y) % 256 = y /\ (192 + q) % 64 = q
  BY <1>1, SMTT(30) DEF Byte
<1>3. QED
  BY <1>2 DEF q

(* A POM write of an address is addressed to the decoder that already has  *)
(* it: `addr_set` programs the address it is given, at that address.       *)
LEMMA PomWriteLeavesAddress ==
    ASSUME NEW j \in Job, ValidAddress(j.addr), NEW v \in GoodTable, j.pom,
           NEW i \in 1..Len(AddressWrites(j, v)),
           NEW c \in Command,
           c.cv = AddressWrites(j, v)[i].cv, c.value = AddressWrites(j, v)[i].value,
           c.pom, c.addr = j.addr
    PROVE  LeavesAddress(c)
<1> DEFINE a == j.addr
           w == AddressWrites(j, v)[i]
<1>w. c.cv = w.cv /\ c.value = w.value
  OBVIOUS
<1>e. \/ w.cv = 28
      \/ IsLong(a) /\ w \in {Entry(17, 192 + a \div 256), Entry(18, a % 256),
                             Entry(29, SetBit(v[29], LongBit))}
      \/ ~IsLong(a) /\ (w = Entry(1, a) \/ w = Entry(29, ClearBit(v[29], LongBit)))
  BY AddressEntries
<1> HIDE DEF w
<1>0. a \in Nat /\ v[29] \in Byte
  <2>1. a \in Nat
    BY JobType
  <2>2. 29 \in CvNo \ {28}
    BY DEF CvNo
  <2>3. QED
    BY <2>1, <2>2 DEF GoodTable
<1>1. CASE c.cv = 28
  BY <1>1, Cv28LeavesAddress
<1>2. ASSUME c.cv # 28, NEW d \in [CvNo -> Byte], ProperTable(d), DecodeAddress(d) = a
      PROVE  DecodeAddress([d EXCEPT ![c.cv] = c.value]) = a
             /\ (BitOn([d EXCEPT ![c.cv] = c.value][29], LongBit) <=> IsLong(a))
  <2> DEFINE e == [d EXCEPT ![c.cv] = c.value]
  <2>0. /\ d[1] \in Byte /\ d[17] \in Byte /\ d[18] \in Byte /\ d[29] \in Byte
        /\ BitOn(d[29], LongBit) <=> IsLong(a)
    BY <1>2 DEF CvNo, ProperTable
  <2>1. CASE IsLong(a)
    <3>1. ((d[17] % 64) * 256) + d[18] = a /\ BitOn(d[29], LongBit)
      BY <1>2, <2>0, <2>1 DEF DecodeAddress
    <3>2. /\ (192 + a \div 256) % 64 = d[17] % 64
          /\ a % 256 = d[18]
      BY <2>0, <3>1, LongParts
    <3>3. \/ c.cv = 17 /\ c.value = 192 + a \div 256
          \/ c.cv = 18 /\ c.value = a % 256
          \/ c.cv = 29 /\ c.value = SetBit(v[29], LongBit)
      <4>1. w \in {Entry(17, 192 + a \div 256), Entry(18, a % 256),
                  Entry(29, SetBit(v[29], LongBit))}
        BY <1>2, <2>1, <1>e, <1>w
      <4>2. QED
        BY <4>1, <1>w DEF Entry
    <3>4. BitOn(SetBit(v[29], LongBit), LongBit)
      BY <1>0, LongBitSet
    <3>5. CASE c.cv = 17 /\ c.value = 192 + a \div 256
      <4>1. e[17] = 192 + a \div 256 /\ e[18] = d[18] /\ e[29] = d[29]
        BY <3>5 DEF CvNo
      <4> HIDE DEF e
      <4>2. DecodeAddress(e) = a
        BY <3>1, <3>2, <4>1 DEF DecodeAddress
      <4>3. QED
        BY <2>1, <3>1, <4>1, <4>2 DEF e
    <3>6. CASE c.cv = 18 /\ c.value = a % 256
      <4>1. e[17] = d[17] /\ e[18] = a % 256 /\ e[29] = d[29]
        BY <3>6 DEF CvNo
      <4> HIDE DEF e
      <4>2. DecodeAddress(e) = a
        BY <3>1, <3>2, <4>1 DEF DecodeAddress
      <4>3. QED
        BY <2>1, <3>1, <4>1, <4>2 DEF e
    <3>7. CASE c.cv = 29 /\ c.value = SetBit(v[29], LongBit)
      <4>1. e[17] = d[17] /\ e[18] = d[18] /\ e[29] = SetBit(v[29], LongBit)
        BY <3>7 DEF CvNo
      <4> HIDE DEF e
      <4>2. DecodeAddress(e) = a
        BY <3>1, <3>4, <4>1 DEF DecodeAddress
      <4>3. QED
        BY <2>1, <3>4, <4>1, <4>2 DEF e
    <3>8. QED
      BY <3>3, <3>5, <3>6, <3>7
  <2>2. CASE ~IsLong(a)
    <3>1. d[1] = a /\ ~BitOn(d[29], LongBit)
      BY <1>2, <2>0, <2>2 DEF DecodeAddress
    <3>2. \/ c.cv = 1 /\ c.value = a
          \/ c.cv = 29 /\ c.value = ClearBit(v[29], LongBit)
      <4>1. w = Entry(1, a) \/ w = Entry(29, ClearBit(v[29], LongBit))
        BY <1>2, <2>2, <1>e, <1>w
      <4>2. QED
        BY <4>1, <1>w DEF Entry
    <3>3. ~BitOn(ClearBit(v[29], LongBit), LongBit)
      BY <1>0, LongBitSet
    <3>4. e[1] = a /\ (e[29] = d[29] \/ e[29] = ClearBit(v[29], LongBit))
      BY <3>1, <3>2 DEF CvNo
    <3> HIDE DEF e
    <3>5. DecodeAddress(e) = a
      BY <3>1, <3>3, <3>4 DEF DecodeAddress
    <3>6. QED
      BY <2>2, <3>1, <3>3, <3>4, <3>5 DEF e
  <2>3. QED
    BY <2>1, <2>2
<1>3. CASE c.cv # 28
  BY <1>2, <1>3 DEF LeavesAddress, ProperTable
<1>4. QED
  BY <1>1, <1>3

-----------------------------------------------------------------------------
(* The decoder is proper, on an address it had or was asked for, unless a  *)
(* request on the programming track is between the bytes of a long one.    *)

Known ==
    \/ DecodeAddress(decoder) \in { DecodeAddress(d) : d \in InitDecoders }
    \/ \E r \in Requests : job[r] # NoJob /\ job[r].op = "addrSet"
                           /\ DecodeAddress(decoder) = job[r].addr

(* LongAddressCut, by a request on the programming track. *)
CutBy(r) ==
    /\ job[r] # NoJob /\ job[r].op = "addrSet" /\ ~job[r].pom /\ IsLong(job[r].addr)
    /\ stage[r] = "write"
    /\ resp[r] \in {"none", "failed", "cancelled"}

Homed == (Known /\ ProperTable(decoder)) \/ \E r \in Requests : CutBy(r)

(* What is under way and not awaited moves no decoder. *)
Tame == \A i \in 1..Len(toStation) :
            Awaited(toStation[i].cmd) \/ LeavesAddress(toStation[i].cmd)

(* A request has a job once it has started, and a socket once it has had   *)
(* the lock: the write stage, which comes third, cannot fail to connect.   *)
Fresh == \A r \in Requests : pc[r] = "idle" => job[r] = NoJob
Linked ==
    \A r \in Requests :
       pc[r] \in {"send", "await"} \/ stage[r] \in {"read28", "write", "verify"} => connected

HomeInv == Batched /\ Fresh /\ Linked /\ Tame /\ Homed

(* The table a request writes from, and the command at a place of its      *)
(* write batch.                                                            *)
LEMMA WriteCommand ==
    ASSUME Inv, OnBatch, NEW r \in Requests, pc[r] \in Serving, stage[r] = "write",
           NEW i \in 1..Len(Batch(r))
    PROVE  LET e == AddressWrites(job[r], vals[r])
           IN  /\ job[r] \in Job /\ job[r].op = "addrSet" /\ job[r] # NoJob
               /\ ValidAddress(job[r].addr) /\ vals[r] \in GoodTable
               /\ i \in 1..Len(e) /\ Len(e) = Len(Batch(r)) /\ Batch(r)[i] \in Command
               /\ \A k \in 1..Len(e) : Batch(r)[k] = CommandFor(job[r], "write", e[k].cv, e[k].value)
<1> DEFINE e == AddressWrites(job[r], vals[r])
<1>1. job[r].op = "addrSet" /\ job[r] \in Jobs /\ job[r] \in Job
  BY BatchType DEF Inv, Work, AddressStages
<1>2. ValidAddress(job[r].addr) /\ vals[r] \in GoodTable
  BY <1>1, ProgrammingAssumption, TableIsGood DEF Inv, TypeOK
<1>3. job[r] # NoJob
  BY <1>1 DEF NoJob, Job
<1>4. e \in Seq(Entries)
  BY <1>1, <1>2, AddressWritesType
<1> HIDE DEF e
<1>5. Batch(r) = [k \in 1..Len(e) |-> CommandFor(job[r], "write", e[k].cv, e[k].value)]
  BY <1>4 DEF Batch, StageCommands, Writes, e
<1>6. Len(Batch(r)) = Len(e) /\ Batch(r) \in Seq(Command)
  BY <1>4, <1>5, BatchType
<1>7. Batch(r)[i] \in Command
  BY <1>6
<1>8. QED
  BY <1>1, <1>2, <1>3, <1>5, <1>6, <1>7 DEF e

(* A step of the wire that adds at most a tame command. *)
LEMMA TameQueue ==
    ASSUME UdpTypeOK, Tame,
           \/ toStation' = toStation
           \/ toStation' = Disown(toStation)
           \/ toStation # <<>> /\ toStation' = Tail(toStation)
           \/ \E c \in Command, b \in BOOLEAN :
                /\ Awaited(c) \/ LeavesAddress(c)
                /\ toStation' = Append(toStation, [cmd |-> c, own |-> b])
    PROVE  Tame'
<1>0. toStation \in Seq(Datagram) /\ Len(toStation) \in Nat
  BY DEF UdpTypeOK
<1> DEFINE OK(c) == Awaited(c) \/ LeavesAddress(c)
<1> SUFFICES ASSUME NEW i \in 1..Len(toStation') PROVE OK(toStation'[i].cmd)
  BY DEF Tame, LeavesAddress, Awaited, ProperTable
<1>1. \A k \in 1..Len(toStation) : OK(toStation[k].cmd)
  BY DEF Tame
<1> HIDE DEF OK
<1>2. CASE toStation' = toStation
  BY <1>1, <1>2
<1>3. CASE toStation' = Disown(toStation)
  BY <1>0, <1>1, <1>3, DisownDatagrams
<1>4. CASE toStation # <<>> /\ toStation' = Tail(toStation)
  <2>1. /\ Len(toStation') = Len(toStation) - 1
        /\ \A k \in 1..Len(toStation') : toStation'[k] = toStation[k + 1]
    BY <1>4, QueueParts
  <2>2. i + 1 \in 1..Len(toStation)
    BY <1>0, <2>1
  <2>3. QED
    BY <1>1, <2>1, <2>2
<1>5. ASSUME NEW c \in Command, NEW b \in BOOLEAN, OK(c),
             toStation' = Append(toStation, [cmd |-> c, own |-> b])
      PROVE  OK(toStation'[i].cmd)
  <2>1. i \in 1..Len(toStation) \/ i = Len(toStation) + 1
    BY <1>0, <1>5
  <2>2. CASE i \in 1..Len(toStation)
    BY <1>0, <1>1, <1>5, <2>2
  <2>3. CASE i = Len(toStation) + 1
    <3>1. toStation'[i] = [cmd |-> c, own |-> b]
      BY <1>0, <1>5, <2>3
    <3>2. QED
      BY <1>5, <3>1
  <2>4. QED
    BY <2>1, <2>2, <2>3
<1>6. QED
  BY <1>2, <1>3, <1>4, <1>5 DEF OK

(* A POM write that a request posts is tame. *)
LEMMA PostIsTame ==
    ASSUME CvsLeaveAddress, Inv, OnBatch, NEW r \in Requests, pc[r] = "send",
           ~Awaited(Head(todo[r]))
    PROVE  LeavesAddress(Head(todo[r]))
<1> DEFINE n == Sent(r) + 1
           c == Head(todo[r])
<1>1. c = Batch(r)[n] /\ n \in 1..Len(Batch(r)) /\ c \in Command /\ pc[r] \in Serving
  BY NextOfBatch DEF Serving, Inv, Work
<1>2. c.kind = "write" /\ c.pom
  BY DEF Awaited
<1> HIDE DEF n, c
<1>3. CASE stage[r] = "cvs"
  <2>1. Batch(r) = job[r].cmds
    BY <1>3 DEF Batch, StageCommands
  <2>2. job[r] \in Jobs /\ job[r] \in Job /\ job[r].cmds \in Seq(Command)
    BY <1>1, BatchType, JobType
  <2>3. job[r].op = "cvs"
    <3>1. stage[r] \in StagesOf(job[r].op) /\ job[r].op \in {"connect", "cvs", "addrGet", "addrSet"}
      BY <1>1, <2>2 DEF OnBatch, InBatch, Serving, Job
    <3>2. QED
      BY <1>3, <3>1 DEF StagesOf, AddressStages
  <2>4. QED
    BY <1>1, <2>1, <2>2, <2>3 DEF CvsLeaveAddress, c
<1>4. CASE stage[r] = "write"
  <2> DEFINE e == AddressWrites(job[r], vals[r])
  <2>1. /\ job[r] \in Job /\ ValidAddress(job[r].addr) /\ vals[r] \in GoodTable
        /\ n \in 1..Len(e) /\ c = CommandFor(job[r], "write", e[n].cv, e[n].value)
    BY <1>1, <1>4, WriteCommand
  <2> HIDE DEF e
  <2>2. job[r].pom /\ c.cv = e[n].cv /\ c.value = e[n].value /\ c.addr = job[r].addr
    BY <1>2, <2>1 DEF CommandFor
  <2>3. QED
    BY <1>1, <1>2, <2>1, <2>2, PomWriteLeavesAddress DEF e, c
<1>5. CASE stage[r] \notin {"cvs", "write"}
  <2>1. ~ \E cvs : Batch(r) = Reads(job[r], cvs)
    <3>1. ASSUME NEW cvs, Batch(r) = Reads(job[r], cvs) PROVE FALSE
      <4>1. Batch(r) \in Seq(Command)
        BY <1>1, BatchType
      <4>2. n \in DOMAIN Batch(r)
        BY <1>1, <4>1
      <4>3. c.kind = "read"
        BY <1>1, <3>1, <4>2 DEF Reads, CommandFor
      <4>4. QED
        BY <1>2, <4>3
    <3>2. QED
      BY <3>1
  <2>2. stage[r] \in {"read29", "read28", "verify", "get", "connect"}
    BY <1>1, <1>5 DEF OnBatch, InBatch, StagesOf, AddressStages, Serving
  <2>3. stage[r] # "connect"
    BY DEF Inv, Work
  <2>4. QED
    BY <2>1, <2>2, <2>3 DEF Batch, StageCommands
<1>6. QED
  BY <1>3, <1>4, <1>5

(* The decoder executes the oldest command under way. *)
LEMMA ExecuteHomed ==
    ASSUME CvsLeaveAddress, HomeInv, toStation # <<>>, UNCHANGED progVars,
           Reaches(Head(toStation).cmd), Execute(Head(toStation).cmd)
    PROVE  Homed'
<1> DEFINE c == Head(toStation).cmd
<1>0. /\ Inv /\ OnBatch /\ WireInv /\ DoneInForce /\ UdpTypeOK
      /\ decoder \in [CvNo -> Byte] /\ c \in Command
      /\ Head(toStation) = toStation[1] /\ 1 \in 1..Len(toStation)
  BY QueueParts DEF HomeInv, Batched, Inv, TypeOK, UdpTypeOK
<1>1. c.cv \in CvNo /\ c.value \in Byte /\ c.kind \in {"read", "write"}
  BY <1>0 DEF Command
<1>2. decoder' = IF c.kind = "write" THEN [decoder EXCEPT ![c.cv] = c.value] ELSE decoder
  BY DEF Execute
<1>3. c.pom => c.addr = DecodeAddress(decoder)
  BY DEF Reaches
<1>4. (\A r \in Requests : CutBy(r) <=> CutBy(r)') /\ job' = job
  BY DEF CutBy, progVars
<1>5. (Head(toStation).own <=> Awaited(c)) /\ (Head(toStation).own => c = call)
      /\ (Awaited(c) \/ LeavesAddress(c))
  BY <1>0 DEF WireInv, HomeInv, Tame
<1> HIDE DEF c
<1>6. CASE \E r \in Requests : CutBy(r)
  BY <1>4, <1>6 DEF Homed
<1>7. CASE Known /\ ProperTable(decoder) /\ DecodeAddress(decoder') = DecodeAddress(decoder)
           /\ ProperTable(decoder')
  BY <1>4, <1>7 DEF Homed, Known
<1>8. CASE Known /\ ProperTable(decoder) /\ LeavesAddress(c)
  BY <1>0, <1>2, <1>3, <1>7, <1>8 DEF LeavesAddress
<1>9. CASE /\ Known /\ ProperTable(decoder) /\ ~LeavesAddress(c)
           /\ \A r \in Requests : ~CutBy(r)
  <2>1. c = call /\ c.kind = "write" /\ ~c.pom
    BY <1>5, <1>9 DEF Awaited, LeavesAddress
  <2>2. PICK r \in Requests : pc[r] = "await" /\ c = Head(todo[r])
    <3>1. call # NoCall
      BY <1>0, <2>1, NoCallIsNoCommand
    <3>2. QED
      BY <1>0, <2>1, <3>1 DEF Inv, SingleFlight
  <2> DEFINE n == Sent(r) + 1
  <2>3. /\ c = Batch(r)[n] /\ n \in 1..Len(Batch(r)) /\ pc[r] \in Serving /\ Sent(r) \in Nat
        /\ Batch(r) \in Seq(Command) /\ stage[r] # "connect"
    <3>1. pc[r] \in Serving /\ stage[r] # "connect"
      BY <1>0, <2>2 DEF Inv, Work, Serving
    <3>2. QED
      BY <1>0, <2>2, <3>1, NextOfBatch, BatchType
  <2>4. stage[r] # "cvs"
    <3>1. ASSUME stage[r] = "cvs" PROVE FALSE
      <4>1. /\ Batch(r) = job[r].cmds /\ job[r].op = "cvs" /\ job[r] \in Jobs
        <5>1. Batch(r) = job[r].cmds
          BY <3>1 DEF Batch, StageCommands
        <5>2. job[r] \in Jobs /\ job[r] \in Job
          BY <1>0, <2>3, BatchType
        <5>3. stage[r] \in StagesOf(job[r].op)
              /\ job[r].op \in {"connect", "cvs", "addrGet", "addrSet"}
          BY <1>0, <2>3, <5>2 DEF OnBatch, InBatch, Serving, Job
        <5>4. QED
          BY <3>1, <5>1, <5>2, <5>3 DEF StagesOf, AddressStages
      <4>2. n \in DOMAIN job[r].cmds
        BY <2>3, <4>1
      <4>3. QED
        BY <1>9, <2>3, <4>1, <4>2 DEF CvsLeaveAddress
    <3>2. QED
      BY <3>1
  <2>5. stage[r] = "write"
    <3>1. ASSUME NEW cvs, Batch(r) = Reads(job[r], cvs) PROVE FALSE
      <4>1. n \in DOMAIN Batch(r)
        BY <2>3
      <4>2. c.kind = "read"
        BY <2>3, <3>1, <4>1 DEF Reads, CommandFor
      <4>3. QED
        BY <2>1, <4>2
    <3>2. stage[r] \in {"read29", "read28", "verify", "get", "connect", "write", "cvs"}
      BY <1>0, <2>3 DEF OnBatch, InBatch, StagesOf, AddressStages, Serving
    <3>3. stage[r] \notin {"read29", "read28", "verify", "get"}
      BY <3>1 DEF Batch, StageCommands
    <3>4. QED
      BY <2>3, <2>4, <3>2, <3>3
  <2> DEFINE e == AddressWrites(job[r], vals[r])
             a == job[r].addr
  <2>6. /\ job[r] \in Job /\ job[r].op = "addrSet" /\ job[r] # NoJob /\ ValidAddress(a)
        /\ vals[r] \in GoodTable /\ n \in 1..Len(e) /\ Len(e) = Len(Batch(r))
        /\ \A k \in 1..Len(e) : Batch(r)[k] = CommandFor(job[r], "write", e[k].cv, e[k].value)
    BY <1>0, <2>3, <2>5, WriteCommand
  <2>7. c.cv = e[n].cv /\ c.value = e[n].value /\ ~job[r].pom
    <3>1. c = CommandFor(job[r], "write", e[n].cv, e[n].value)
      BY <2>3, <2>6
    <3> HIDE DEF e, n
    <3>2. QED
      BY <2>1, <3>1 DEF CommandFor
  <2>8. resp[r] = "none"
    BY <1>0, <2>2 DEF OnBatch, InBatch
  <2>9. ~IsLong(a)
    <3>1. job[r].op = "addrSet" /\ job[r] # NoJob /\ resp[r] \in {"none", "failed", "cancelled"}
      BY <2>6, <2>8
    <3>2. ~CutBy(r)
      BY <1>9
    <3>3. QED
      BY <2>5, <2>7, <3>1, <3>2 DEF CutBy
  <2>10. c.cv # 28
    BY <1>0, <1>9, Cv28LeavesAddress
  <2>11. /\ a \in Nat /\ vals[r][29] \in Byte
         /\ ~BitOn(ClearBit(vals[r][29], LongBit), LongBit)
    <3>1. 29 \in CvNo \ {28}
      BY DEF CvNo
    <3>2. vals[r][29] \in Byte
      BY <2>6, <3>1 DEF GoodTable
    <3>3. QED
      BY <2>6, <3>2, JobType, LongBitSet
  <2>12. CASE e[n] = Entry(1, a)
    <3>1. decoder'[1] = a /\ decoder'[17] = decoder[17] /\ decoder'[18] = decoder[18]
          /\ decoder'[29] = decoder[29]
      BY <1>0, <1>2, <2>1, <2>7, <2>12 DEF Entry, CvNo
    <3>2. CASE BitOn(decoder[29], LongBit)
      <4>1. DecodeAddress(decoder') = DecodeAddress(decoder)
        BY <3>1, <3>2 DEF DecodeAddress
      <4>2. QED
        BY <1>7, <1>9, <3>1, <4>1 DEF ProperTable
    <3>3. CASE ~BitOn(decoder[29], LongBit)
      <4>1. DecodeAddress(decoder') = a /\ ProperTable(decoder')
        BY <2>9, <3>1, <3>3 DEF DecodeAddress, ProperTable
      <4>2. QED
        BY <1>4, <2>6, <4>1 DEF Homed, Known
    <3>4. QED
      BY <3>2, <3>3
  <2>13. CASE /\ e[n] = Entry(29, ClearBit(vals[r][29], LongBit))
              /\ n - 1 \in 1..Len(e) /\ e[n - 1] = Entry(1, a)
    <3>1. decoder[1] = a
      <4>1. n - 1 \in 1..Sent(r)
        BY <2>3, <2>13
      <4>2. Acked(r)
        BY <2>2, <2>5, <2>7 DEF Acked
      <4>3. InForce(Batch(r)[n - 1], vals[r])
        BY <1>0, <4>1, <4>2 DEF DoneInForce, DoneFor
      <4>4. Batch(r)[n - 1] = CommandFor(job[r], "write", 1, a)
        BY <2>6, <2>13 DEF Entry
      <4>5. QED
        BY <4>3, <4>4 DEF InForce, CommandFor
    <3>2. decoder'[1] = a /\ decoder'[29] = ClearBit(vals[r][29], LongBit)
      BY <1>0, <1>2, <2>1, <2>7, <2>13, <3>1 DEF Entry, CvNo
    <3>3. DecodeAddress(decoder') = a /\ ProperTable(decoder')
      BY <2>9, <2>11, <3>2 DEF DecodeAddress, ProperTable
    <3>4. QED
      BY <1>4, <2>6, <3>3 DEF Homed, Known
  <2>14. \/ e[n].cv = 28
         \/ e[n] = Entry(1, a)
         \/ /\ e[n] = Entry(29, ClearBit(vals[r][29], LongBit))
            /\ n - 1 \in 1..Len(e) /\ e[n - 1] = Entry(1, a)
    BY <2>6, <2>9, AddressEntries
  <2>15. QED
    BY <2>7, <2>10, <2>12, <2>13, <2>14
<1>10. QED
  BY <1>6, <1>8, <1>9 DEF HomeInv, Homed

LEMMA EnvironmentHomed ==
    ASSUME CvsLeaveAddress, HomeInv, Environment, UNCHANGED progVars
    PROVE  Homed' /\ Tame' /\ Fresh' /\ Linked'
<1>1. ASSUME decoder' = decoder PROVE Homed'
  BY <1>1 DEF HomeInv, Homed, Known, CutBy, progVars
<1>2. Homed'
  <2>1. \/ decoder' = decoder
        \/ toStation # <<>> /\ Reaches(Head(toStation).cmd) /\ Execute(Head(toStation).cmd)
    BY DEF Environment, StationExec, StationRefuse, Lose, Unreachable
  <2>2. QED
    BY <1>1, <2>1, ExecuteHomed
<1>3. toStation' = toStation \/ (toStation # <<>> /\ toStation' = Tail(toStation))
  BY DEF Environment, StationExec, StationRefuse, Lose, Unreachable
<1>4. Tame'
  <2>1. UdpTypeOK /\ Tame
    BY DEF HomeInv, Batched, Inv, TypeOK
  <2>2. QED
    BY <1>3, <2>1, TameQueue
<1>5. Fresh' /\ Linked'
  BY DEF HomeInv, Fresh, Linked, progVars
<1>6. QED
  BY <1>2, <1>4, <1>5

(* A programming-track write batch is left with every write in force, or   *)
(* with an error.                                                          *)
LEMMA LeavesWrite ==
    ASSUME Batched, UdpTypeOK', NEW r \in Requests, Send(r) \/ Await(r),
           stage[r] = "write", ~job[r].pom, pc'[r] \in {"lock", "done"}, resp'[r] # "failed"
    PROVE  decoder' = decoder /\ DecodeAddress(decoder) = job[r].addr /\ ProperTable(decoder)
<1>0. /\ Inv /\ OnBatch /\ WireInv /\ AckInv /\ DoneInForce
      /\ pc[r] \in {"send", "await"} /\ pc[r] \in Serving /\ Acked(r)
      /\ resp \in [Requests -> Responses] /\ pc \in [Requests -> {"idle", "lock", "send", "await", "done"}]
  BY DEF Batched, Send, Await, Serving, Acked, Inv, TypeOK, ProgTypeOK
<1>1. ~Abort(r)
  BY <1>0 DEF Abort, Respond
<1>2. Awaited(Head(todo[r]))
  BY <1>0, NextOfBatch, BatchShape
<1>3. ~Send(r)
  <2>1. ~(pc' = [pc EXCEPT ![r] = "await"])
    BY <1>0
  <2>2. QED
    BY <1>1, <1>2, <2>1 DEF Send, Post
<1>4. pc[r] = "await" /\ Answered(r)
  <2>1. ~(pc' = pc)
    BY <1>0
  <2>2. QED
    BY <1>1, <1>3, <2>1 DEF Await, Unanswered
<1> DEFINE v == Noted(r, outcome'.value)
<1>5. RecvResult /\ CommandDone(r, v) /\ decoder' = decoder
  BY <1>4 DEF Answered, RecvResult, EndCall
<1>6. Len(todo[r]) <= 1
  <2>1. Len(todo[r]) \in Nat
    BY <1>0, BatchType
  <2>2. ~(pc' = [pc EXCEPT ![r] = "send"])
    BY <1>0
  <2>3. QED
    BY <1>5, <2>1, <2>2 DEF CommandDone
<1>7. Sent(r) + 1 = Len(Batch(r))
  <2>1. Len(todo[r]) \in Nat /\ Len(todo[r]) > 0 /\ Len(Batch(r)) \in Nat
    BY <1>0, BatchType
  <2>2. \A n, b \in Nat : n > 0 /\ n <= 1 => (b - n) + 1 = b
    OBVIOUS
  <2>3. QED
    BY <1>6, <2>1, <2>2 DEF Sent
<1>8. \A i \in 1..(Sent(r) + 1) : InForceNext(Batch(r)[i], v)
  BY <1>0, <1>4, <1>5, AnsweredDone
<1> HIDE DEF v
<1>9. \A i \in 1..Len(Batch(r)) : InForce(Batch(r)[i], v)
  BY <1>5, <1>7, <1>8 DEF InForce, InForceNext
<1>10. QED
  BY <1>0, <1>5, <1>9, WrittenAddress

(* What a step of a request does to the wire, and to its own control. *)
LEMMA RequestTame ==
    ASSUME CvsLeaveAddress, HomeInv, NEW r \in Requests,
           Start(r) \/ Acquire(r) \/ Warm(r) \/ ConnectFails(r) \/ Send(r) \/ Await(r) \/ Cancel(r)
    PROVE  Tame' /\ decoder' = decoder
<1>0. Inv /\ OnBatch /\ UdpTypeOK /\ Tame
  BY DEF HomeInv, Batched, Inv, TypeOK
<1>1. CASE Start(r) \/ Acquire(r) \/ Warm(r) \/ ConnectFails(r)
  <2>1. UNCHANGED udpVars
    BY <1>1 DEF Start, Acquire, Warm, ConnectFails
  <2>2. QED
    BY <1>0, <2>1, TameQueue DEF udpVars
<1>2. CASE Send(r)
  <2>1. Head(todo[r]) \in Command /\ pc[r] = "send"
    BY <1>0, <1>2, NextOfBatch DEF Send, Inv, Work, Serving
  <2>2. CASE Call(Head(todo[r]))
    <3>1. /\ Awaited(Head(todo[r])) /\ decoder' = decoder
          /\ \/ toStation' = toStation
             \/ toStation' = Append(toStation, [cmd |-> Head(todo[r]), own |-> TRUE])
      BY <2>2 DEF Call, Transmit
    <3>2. QED
      BY <1>0, <2>1, <3>1, TameQueue
  <2>3. CASE Post(Head(todo[r]))
    <3>1. /\ ~Awaited(Head(todo[r])) /\ decoder' = decoder
          /\ \/ toStation' = toStation
             \/ toStation' = Append(toStation, [cmd |-> Head(todo[r]), own |-> FALSE])
      BY <2>3 DEF Post, Transmit
    <3>2. LeavesAddress(Head(todo[r]))
      BY <1>0, <2>1, <3>1, PostIsTame
    <3>3. QED
      BY <1>0, <2>1, <3>1, <3>2, TameQueue
  <2>4. CASE SendError
    <3>1. UNCHANGED <<toStation, decoder>>
      BY <2>4 DEF SendError
    <3>2. QED
      BY <1>0, <3>1, TameQueue
  <2>5. QED
    BY <1>2, <2>2, <2>3, <2>4 DEF Send
<1>3. CASE Await(r) \/ Cancel(r)
  <2>1. decoder' = decoder /\ (toStation' = toStation \/ toStation' = Disown(toStation))
    BY <1>3 DEF Await, Answered, Unanswered, Cancel, RecvResult, RecvNack, RecvError, RecvOther,
                Timeout, Drop, EndCall, udpVars
  <2>2. QED
    BY <1>0, <2>1, TameQueue
<1>4. QED
  BY <1>1, <1>2, <1>3

(* ... and to its control: it never goes back to "idle", the others stay   *)
(* where they are, and only a request that holds the lock changes stage.   *)
LEMMA RequestStages ==
    ASSUME Inv, OnBatch, UdpTypeOK', NEW r \in Requests,
           Start(r) \/ Acquire(r) \/ Warm(r) \/ ConnectFails(r) \/ Send(r) \/ Await(r) \/ Cancel(r)
    PROVE  /\ pc'[r] # "idle" /\ (connected => connected')
           /\ \A q \in Requests \ {r} : Untouched(q)
           /\ pc[r] # "idle" => job' = job
           /\ \/ pc[r] \in {"send", "await"}
              \/ Acquire(r) /\ connected' /\ stage'[r] = stage[r]
              \/ pc'[r] \in {"lock", "done"}
                 /\ (stage'[r] = stage[r] \/ stage'[r] \in {"connect", "cvs", "get", "read29"})
<1>0. ProgTypeOK
  BY DEF Inv, TypeOK
<1>1. CASE Start(r)
  <2>1. PICK j \in Jobs : /\ job' = [job EXCEPT ![r] = j]
                          /\ EnterStage(r, j, FirstStage(j), Zeros)
    BY <1>1 DEF Start
  <2>2. j.op \in {"connect", "cvs", "addrGet", "addrSet"}
    BY ProgrammingAssumption DEF Job
  <2>3. FirstStage(j) \in {"connect", "cvs", "get", "read29"}
    BY <2>2 DEF FirstStage
  <2>4. pc[r] = "idle" /\ connected' = connected
    BY <1>1 DEF Start
  <2>5. /\ pc'[r] = "lock" /\ stage'[r] = FirstStage(j)
        /\ \A q \in Requests \ {r} : Untouched(q)
    BY <1>0, <2>1 DEF EnterStage, ProgTypeOK, Untouched
  <2>6. QED
    BY <2>3, <2>4, <2>5
<1>2. CASE Acquire(r)
  BY <1>0, <1>2 DEF Acquire, ProgTypeOK, Untouched
<1>3. CASE Warm(r) \/ ConnectFails(r) \/ Cancel(r)
  <2>1. PICK result : Respond(r, result, vals[r])
    BY <1>3 DEF Warm, ConnectFails, Cancel
  <2>2. job' = job /\ (connected => connected')
    BY <1>3 DEF Warm, ConnectFails, Cancel
  <2>3. QED
    BY <1>0, <2>1, <2>2 DEF Respond, ProgTypeOK, Untouched
<1>4. CASE Send(r)
  <2>1. pc[r] = "send" /\ connected' = connected /\ job' = job
    BY <1>4 DEF Send
  <2>2. pc'[r] # "idle"
    BY <1>0, <1>4, FinishLeaves DEF Send, CommandDone, Abort, Respond, ProgTypeOK
  <2>3. QED
    BY <1>4, <2>1, <2>2, SendOnBatch
<1>5. CASE Await(r)
  <2>1. pc[r] = "await" /\ connected' = connected /\ job' = job
    BY <1>5 DEF Await
  <2>2. pc'[r] # "idle"
    BY <1>0, <1>5, <2>1, FinishLeaves
    DEF Await, Answered, Unanswered, CommandDone, Abort, Respond, ProgTypeOK
  <2>3. QED
    BY <1>5, <2>1, <2>2, AwaitOnBatch
<1>6. QED
  BY <1>1, <1>2, <1>3, <1>4, <1>5

(* A request that is cut leaves that state only when its writes are all in *)
(* force.                                                                  *)
LEMMA CutEnds ==
    ASSUME HomeInv, UdpTypeOK', NEW r \in Requests, CutBy(r),
           Start(r) \/ Acquire(r) \/ Warm(r) \/ ConnectFails(r) \/ Send(r) \/ Await(r) \/ Cancel(r)
    PROVE  CutBy(r)' \/ (Known /\ ProperTable(decoder))
<1>0. /\ Batched /\ Inv /\ OnBatch /\ ProgTypeOK /\ Fresh /\ Linked
      /\ job[r] # NoJob /\ job[r].op = "addrSet" /\ ~job[r].pom /\ IsLong(job[r].addr)
      /\ stage[r] = "write" /\ pc[r] # "idle"
  BY DEF HomeInv, Batched, Inv, TypeOK, CutBy, Fresh
<1>1. job' = job /\ resp[r] \in {"none", "failed", "cancelled"}
  BY <1>0, RequestStages DEF CutBy
<1>2. CASE stage'[r] = "write" /\ resp'[r] \in {"none", "failed", "cancelled"}
  BY <1>0, <1>1, <1>2 DEF CutBy
<1>3. CASE Start(r) \/ Acquire(r) \/ Warm(r) \/ ConnectFails(r) \/ Cancel(r)
  <2>1. ~Start(r) /\ ~Warm(r)
    BY <1>0 DEF Start, Warm
  <2>2. ~ConnectFails(r)
    BY <1>0 DEF ConnectFails, Linked
  <2>3. stage'[r] = "write" /\ resp'[r] \in {"none", "failed", "cancelled"}
    BY <1>0, <1>1, <1>3, <2>1, <2>2 DEF Acquire, Cancel, Respond, ProgTypeOK
  <2>4. QED
    BY <1>2, <2>3
<1>4. CASE Send(r) \/ Await(r)
  <2>1. CASE stage' = stage /\ resp' = resp
    BY <1>0, <1>1, <1>2, <2>1
  <2>2. CASE Abort(r)
    <3>1. stage' = stage /\ resp'[r] = "failed"
      BY <1>0, <2>2 DEF Abort, Respond, ProgTypeOK
    <3>2. QED
      BY <1>0, <1>2, <3>1
  <2>3. CASE \E v : Finish(r, v) /\ resp'[r] # "failed"
    <3>1. pc'[r] \in {"lock", "done"}
      BY <1>0, <2>3, FinishLeaves
    <3>2. DecodeAddress(decoder) = job[r].addr /\ ProperTable(decoder)
      BY <1>0, <1>4, <2>3, <3>1, LeavesWrite
    <3>3. QED
      BY <1>0, <3>2 DEF Known
  <2>4. \/ stage' = stage /\ resp' = resp
        \/ Abort(r)
        \/ \E v : Finish(r, v)
    BY <1>0, <1>4 DEF Send, Await, Answered, Unanswered, CommandDone
  <2>5. \A v : Finish(r, v) => resp'[r] # "failed"
    <3>1. ASSUME NEW v, Finish(r, v), resp'[r] = "failed" PROVE FALSE
      <4>1. resp[r] = "none"
        BY <1>0, <1>4 DEF Send, Await, OnBatch, InBatch
      <4>2. QED
        BY <1>0, <3>1, <4>1 DEF Finish, EnterStage, Respond, ProgTypeOK
    <3>2. QED
      BY <3>1
  <2>6. QED
    BY <2>1, <2>2, <2>3, <2>4, <2>5
<1>5. QED
  BY <1>3, <1>4

LEMMA RequestHomed ==
    ASSUME CvsLeaveAddress, HomeInv, UdpTypeOK', NEW r \in Requests,
           Start(r) \/ Acquire(r) \/ Warm(r) \/ ConnectFails(r) \/ Send(r) \/ Await(r) \/ Cancel(r)
    PROVE  Homed' /\ Tame' /\ Fresh' /\ Linked'
<1>0. /\ Inv /\ OnBatch /\ Fresh /\ Linked /\ ProgTypeOK
      /\ Tame' /\ decoder' = decoder
  BY RequestTame DEF HomeInv, Batched, Inv, TypeOK
<1>1. /\ pc'[r] # "idle" /\ (connected => connected')
      /\ \A q \in Requests \ {r} : Untouched(q)
      /\ pc[r] # "idle" => job' = job
      /\ \/ pc[r] \in {"send", "await"}
         \/ Acquire(r) /\ connected' /\ stage'[r] = stage[r]
         \/ pc'[r] \in {"lock", "done"}
            /\ (stage'[r] = stage[r] \/ stage'[r] \in {"connect", "cvs", "get", "read29"})
  BY <1>0, RequestStages
<1>2. Fresh'
  BY <1>0, <1>1 DEF Fresh, Untouched
<1>3. Linked'
  <2>1. ASSUME NEW q \in Requests \ {r},
               pc'[q] \in {"send", "await"} \/ stage'[q] \in {"read28", "write", "verify"}
        PROVE  connected'
    BY <1>0, <1>1, <2>1 DEF Linked, Untouched
  <2>2. ASSUME pc'[r] \in {"send", "await"} \/ stage'[r] \in {"read28", "write", "verify"}
        PROVE  connected'
    BY <1>0, <1>1, <2>2 DEF Linked
  <2>3. QED
    BY <2>1, <2>2 DEF Linked
<1>4. ASSUME Known, ProperTable(decoder) PROVE Homed'
  <2>1. \A q \in Requests : job[q] # NoJob => job'[q] = job[q]
    BY <1>0, <1>1 DEF Fresh, Untouched
  <2>2. Known'
    BY <1>0, <1>4, <2>1 DEF Known
  <2>3. QED
    BY <1>0, <1>4, <2>2 DEF Homed
<1>5. ASSUME NEW q \in Requests, CutBy(q) PROVE Homed'
  <2>1. CASE q # r
    BY <1>1, <1>5, <2>1 DEF Homed, CutBy, Untouched
  <2>2. CASE q = r
    BY <1>4, <1>5, <2>2, CutEnds DEF Homed
  <2>3. QED
    BY <2>1, <2>2
<1>6. Homed'
  BY <1>4, <1>5 DEF HomeInv, Homed
<1>7. QED
  BY <1>0, <1>2, <1>3, <1>6

(* The decoder never answers to an address nobody asked for, unless a long *)
(* address is being written, or its writing was cut short: for any         *)
(* requests, and any decoders whose form bit fits their address, in a calm *)
(* environment in which commands may still be lost or refused anywhere.    *)
(* On the main track not even a lost write of a long address does harm.    *)
THEOREM NoForeign ==
    ASSUME Calm, ProperDecoders, CvsLeaveAddress PROVE Spec => []NoForeignAddress
<1>1. Init => Fresh /\ Linked /\ Tame /\ Homed
  <2> SUFFICES ASSUME Init PROVE Fresh /\ Linked /\ Tame /\ Homed
    OBVIOUS
  <2>1. Fresh /\ Linked
    BY DEF Init, Fresh, Linked
  <2>2. Tame
    <3>1. \A i \in 1..Len(<<>>) : FALSE
      OBVIOUS
    <3>2. QED
      BY <3>1 DEF Init, UdpInit, Tame
  <2>3. decoder \in InitDecoders
    BY DEF Init, UdpInit
  <2>4. Homed
    BY <2>3 DEF ProperDecoders, Homed, Known
  <2>5. QED
    BY <2>1, <2>2, <2>4
<1>2. Batched /\ (Fresh /\ Linked /\ Tame /\ Homed) /\ [Next]_vars
        => (Fresh /\ Linked /\ Tame /\ Homed)'
  <2> SUFFICES ASSUME HomeInv, [Next]_vars PROVE (Fresh /\ Linked /\ Tame /\ Homed)'
    BY DEF HomeInv
  <2>1. UdpTypeOK'
    BY NextInv DEF HomeInv, Batched, Inv, TypeOK
  <2>2. CASE UNCHANGED vars
    BY <2>2 DEF HomeInv, Fresh, Linked, Tame, Homed, Known, CutBy, vars, udpVars, progVars
  <2>3. QED
    BY <2>1, <2>2, RequestHomed, EnvironmentHomed DEF Next
<1>3. Homed => NoForeignAddress
  BY DEF Homed, Known, CutBy, NoForeignAddress, LongAddressCut
<1>4. QED
  BY <1>1, <1>2, <1>3, BatchedInvariant, PTL DEF Spec
-----------------------------------------------------------------------------
(* The other bits of CV 29 *)

ChosenBits == { OtherBits(v) : v \in ChosenCv29 }

(* A write of CV 29 brings bits somebody chose. *)
Choosing(c) == c.kind = "write" /\ c.cv = 29 => OtherBits(c.value) \in ChosenBits

(* What has been read of CV 29, or goes out to it, was chosen: in the      *)
(* decoder, on the wire, and in a request from its first answer to its     *)
(* last write.                                                             *)
HeldBits == \A v \in held[29] : OtherBits(v) \in ChosenBits
WireBits == \A i \in 1..Len(toStation) : Choosing(toStation[i].cmd)
RequestBits(r) ==
    /\ \A i \in 1..Len(todo[r]) : Choosing(todo[r][i])
    /\ stage[r] = "read29" =>
         \A i \in 1..Len(todo[r]) : todo[r][i].kind = "read" /\ todo[r][i].cv = 29
    /\ stage[r] \in {"read28", "write"} => OtherBits(vals[r][29]) \in ChosenBits
AllRequestBits == \A r \in Requests : RequestBits(r)

BitsInv == HeldInv /\ HeldBits /\ WireBits /\ AllRequestBits

LEMMA FormKeepsBits ==
    ASSUME NEW v \in Byte
    PROVE  /\ OtherBits(SetBit(v, LongBit)) = OtherBits(v)
           /\ OtherBits(ClearBit(v, LongBit)) = OtherBits(v)
  BY DEF OtherBits, SetBit, ClearBit, BitOn, LongBit, Byte

LEMMA ReadsRead ==
    ASSUME NEW j, NEW cvs, NEW n \in Nat, DOMAIN cvs = 1..n
    PROVE  /\ Len(Reads(j, cvs)) = n
           /\ \A i \in 1..n : Reads(j, cvs)[i].kind = "read" /\ Reads(j, cvs)[i].cv = cvs[i]
  BY DEF Reads, CommandFor

LEMMA BatchOfWrites ==
    ASSUME NEW j \in Jobs, j.op = "addrSet", NEW v \in GoodTable, OtherBits(v[29]) \in ChosenBits,
           NEW i \in 1..Len(Writes(j, AddressWrites(j, v)))
    PROVE  Choosing(Writes(j, AddressWrites(j, v))[i])
<1> DEFINE e == AddressWrites(j, v)
<1>1. j \in Job /\ ValidAddress(j.addr) /\ v[29] \in Byte
  <2>1. 29 \in CvNo \ {28}
    BY DEF CvNo
  <2>2. QED
    BY <2>1, ProgrammingAssumption DEF GoodTable
<1>2. e \in Seq(Entries)
  BY <1>1, AddressWritesType
<1>3. e[i].cv = 29 => e[i].value \in {SetBit(v[29], LongBit), ClearBit(v[29], LongBit)}
  <2>1. i \in 1..Len(e)
    BY <1>2 DEF Writes
  <2>2. \A cv, value : Entry(cv, value).cv = cv /\ Entry(cv, value).value = value
    BY DEF Entry
  <2>3. QED
    BY <1>1, <2>1, <2>2, AddressEntries
<1> HIDE DEF e
<1>4. i \in 1..Len(e) /\ Writes(j, e)[i].cv = e[i].cv /\ Writes(j, e)[i].value = e[i].value
  BY <1>2 DEF Writes, CommandFor, e
<1>5. QED
  BY <1>1, <1>3, <1>4, FormKeepsBits DEF Choosing, e

(* A stage is entered with commands that choose nothing new. *)
LEMMA StageBits ==
    ASSUME NEW j \in Jobs, NEW v \in GoodTable, NEW st \in Stages,
           st \in AddressStages => j.op = "addrSet",
           st = "write" => OtherBits(v[29]) \in ChosenBits,
           NEW i \in 1..Len(StageCommands(j, st, v))
    PROVE  LET c == StageCommands(j, st, v)[i]
           IN  /\ Choosing(c)
               /\ st = "read29" => c.kind = "read" /\ c.cv = 29
<1>1. CASE st \in {"read29", "read28", "verify", "get"}
  <2>1. PICK cvs \in {<<29>>, <<28>>, AddrCvs} :
          /\ StageCommands(j, st, v) = Reads(j, cvs)
          /\ st = "read29" => cvs = <<29>>
    BY <1>1 DEF StageCommands
  <2>2. \E n \in Nat : DOMAIN cvs = 1..n
    <3>1. DOMAIN <<29>> = 1..1 /\ DOMAIN <<28>> = 1..1 /\ DOMAIN AddrCvs = 1..4
      BY DEF AddrCvs
    <3>2. QED
      BY <2>1, <3>1
  <2>3. PICK n \in Nat : DOMAIN cvs = 1..n
    BY <2>2
  <2>4. i \in 1..n /\ StageCommands(j, st, v)[i].kind = "read"
        /\ StageCommands(j, st, v)[i].cv = cvs[i]
    BY <2>1, <2>3, ReadsRead
  <2>5. st = "read29" => cvs[i] = 29
    <3>1. DOMAIN <<29>> = 1..1 /\ <<29>>[1] = 29
      OBVIOUS
    <3>2. i \in DOMAIN cvs
      BY <2>3, <2>4
    <3>3. i \in DOMAIN <<29>> => i = 1
      BY <3>1
    <3>4. QED
      BY <2>1, <3>1, <3>2, <3>3, Zenon
  <2>6. QED
    BY <2>4, <2>5 DEF Choosing
<1>2. CASE st = "write"
  BY <1>2, BatchOfWrites DEF StageCommands, AddressStages
<1>3. CASE st = "cvs"
  <2>1. StageCommands(j, st, v) = j.cmds /\ j.cmds \in Seq(Command)
    BY <1>3, ProgrammingAssumption DEF StageCommands, Job
  <2>2. i \in DOMAIN j.cmds
    BY <2>1
  <2>3. j.cmds[i].kind = "write" /\ j.cmds[i].cv = 29 => j.cmds[i].value \in ChosenCv29
    BY <2>2 DEF ChosenCv29
  <2>4. QED
    BY <1>3, <2>1, <2>3 DEF Choosing, ChosenBits
<1>4. CASE st \in {"none", "connect"}
  BY <1>4 DEF StageCommands
<1>5. QED
  BY <1>1, <1>2, <1>3, <1>4 DEF Stages

LEMMA EnterBits ==
    ASSUME ProgTypeOK, AllRequestBits, NEW r \in Requests, NEW j \in Jobs, NEW v \in GoodTable,
           NEW st \in Stages, EnterStage(r, j, st, v),
           st \in AddressStages => j.op = "addrSet",
           st \in {"read28", "write"} => OtherBits(v[29]) \in ChosenBits
    PROVE  AllRequestBits'
<1>1. /\ todo'[r] = StageCommands(j, st, v) /\ stage'[r] = st /\ vals'[r] = v
      /\ \A q \in Requests \ {r} : todo'[q] = todo[q] /\ stage'[q] = stage[q] /\ vals'[q] = vals[q]
  BY DEF EnterStage, ProgTypeOK
<1>2. \A i \in 1..Len(StageCommands(j, st, v)) :
        LET c == StageCommands(j, st, v)[i]
        IN  Choosing(c) /\ (st = "read29" => c.kind = "read" /\ c.cv = 29)
  BY StageBits
<1>3. RequestBits(r)'
  BY <1>1, <1>2 DEF RequestBits, Choosing, ChosenBits, ChosenCv29
<1>4. \A q \in Requests \ {r} : RequestBits(q)'
  BY <1>1 DEF AllRequestBits, RequestBits, Choosing, ChosenBits, ChosenCv29
<1>5. QED
  BY <1>3, <1>4 DEF AllRequestBits

LEMMA RespondBits ==
    ASSUME ProgTypeOK, AllRequestBits, NEW r \in Requests, NEW v, NEW result,
           Respond(r, result, v),
           stage[r] \in {"read28", "write"} => OtherBits(v[29]) \in ChosenBits
    PROVE  AllRequestBits'
<1>1. /\ todo'[r] = <<>> /\ stage'[r] = stage[r] /\ vals'[r] = v
      /\ \A q \in Requests \ {r} : todo'[q] = todo[q] /\ stage'[q] = stage[q] /\ vals'[q] = vals[q]
  BY DEF Respond, ProgTypeOK
<1>2. \A i \in 1..Len(<<>>) : FALSE
  OBVIOUS
<1>3. RequestBits(r)'
  BY <1>1, <1>2 DEF RequestBits, Choosing, ChosenBits, ChosenCv29
<1>4. \A q \in Requests \ {r} : RequestBits(q)'
  BY <1>1 DEF AllRequestBits, RequestBits, Choosing, ChosenBits, ChosenCv29
<1>5. QED
  BY <1>3, <1>4 DEF AllRequestBits

LEMMA FinishBits ==
    ASSUME Inv, AllRequestBits, NEW r \in Requests, pc[r] \in {"send", "await"},
           NEW v \in GoodTable, Finish(r, v),
           stage[r] \in {"read29", "read28", "write"} => OtherBits(v[29]) \in ChosenBits
    PROVE  AllRequestBits'
<1>1. job[r] \in Jobs /\ ProgTypeOK /\ (stage[r] \in AddressStages => job[r].op = "addrSet")
  BY DEF Inv, TypeOK, ProgTypeOK, Work
<1>2. ASSUME NEW st \in {"read28", "write", "verify"}, NEW w \in GoodTable,
             EnterStage(r, job[r], st, w), stage[r] \in AddressStages,
             st \in {"read28", "write"} => OtherBits(w[29]) \in ChosenBits
      PROVE  AllRequestBits'
  <2>1. st \in Stages
    BY DEF Stages
  <2>2. QED
    BY <1>1, <1>2, <2>1, EnterBits
<1>3. ASSUME NEW result, Respond(r, result, v)
      PROVE  AllRequestBits'
  BY <1>1, <1>3, RespondBits
<1>4. \/ stage[r] = "read29" /\ EnterStage(r, job[r], "read28", v)
      \/ stage[r] = "read28" /\ EnterStage(r, job[r], "write", v)
      \/ stage[r] = "write" /\ EnterStage(r, job[r], "verify", Zeros)
      \/ \E result \in {"ok", "mismatch"} : Respond(r, result, v)
  BY DEF Finish
<1>5. QED
  BY <1>2, <1>3, <1>4, ZerosIsGood DEF AddressStages

LEMMA CommandDoneBits ==
    ASSUME Inv, AllRequestBits, NEW r \in Requests, pc[r] \in {"send", "await"},
           NEW v \in GoodTable, CommandDone(r, v),
           stage[r] \in {"read29", "read28", "write"} => OtherBits(v[29]) \in ChosenBits
    PROVE  AllRequestBits'
<1>1. CASE Len(todo[r]) > 1
  <2>1. todo[r] \in Seq(Command) /\ todo[r] # <<>>
    <3>1. todo[r] \in Seq(Command)
      BY DEF Inv, TypeOK, ProgTypeOK
    <3>2. QED
      BY <1>1, <3>1, EmptySeq
  <2>2. /\ todo'[r] = Tail(todo[r]) /\ stage'[r] = stage[r] /\ vals'[r] = v
        /\ \A q \in Requests \ {r} : /\ todo'[q] = todo[q] /\ stage'[q] = stage[q]
                                     /\ vals'[q] = vals[q]
    BY <1>1 DEF CommandDone, Inv, TypeOK, ProgTypeOK
  <2>3. \A i \in 1..Len(todo'[r]) : i + 1 \in 1..Len(todo[r]) /\ todo'[r][i] = todo[r][i + 1]
    <3>1. /\ Len(todo'[r]) = Len(todo[r]) - 1 /\ Len(todo[r]) \in Nat
          /\ \A i \in 1..Len(todo'[r]) : todo'[r][i] = todo[r][i + 1]
      BY <2>1, <2>2
    <3>2. QED
      BY <3>1
  <2>4. RequestBits(r)'
    BY <2>2, <2>3 DEF AllRequestBits, RequestBits, Choosing, ChosenBits, ChosenCv29
  <2>5. \A q \in Requests \ {r} : RequestBits(q)'
    BY <2>2 DEF AllRequestBits, RequestBits, Choosing, ChosenBits, ChosenCv29
  <2>6. QED
    BY <2>4, <2>5 DEF AllRequestBits
<1>2. CASE ~(Len(todo[r]) > 1)
  BY <1>2, FinishBits DEF CommandDone
<1>3. QED
  BY <1>1, <1>2

(* A step of the wire that adds at most a command of a request. *)
LEMMA WireBitsStep ==
    ASSUME UdpTypeOK, WireBits,
           \/ toStation' = toStation
           \/ toStation' = Disown(toStation)
           \/ toStation # <<>> /\ toStation' = Tail(toStation)
           \/ \E c \in Command, b \in BOOLEAN :
                Choosing(c) /\ toStation' = Append(toStation, [cmd |-> c, own |-> b])
    PROVE  WireBits'
<1>0. toStation \in Seq(Datagram) /\ Len(toStation) \in Nat
  BY DEF UdpTypeOK
<1> SUFFICES ASSUME NEW i \in 1..Len(toStation') PROVE Choosing(toStation'[i].cmd)
  BY DEF WireBits, Choosing, ChosenBits, ChosenCv29
<1>1. \A k \in 1..Len(toStation) : Choosing(toStation[k].cmd)
  BY DEF WireBits
<1>2. CASE toStation' = toStation
  BY <1>1, <1>2
<1>3. CASE toStation' = Disown(toStation)
  BY <1>0, <1>1, <1>3, DisownDatagrams
<1>4. CASE toStation # <<>> /\ toStation' = Tail(toStation)
  <2>1. /\ Len(toStation') = Len(toStation) - 1
        /\ \A k \in 1..Len(toStation') : toStation'[k] = toStation[k + 1]
    BY <1>4, QueueParts
  <2>2. i + 1 \in 1..Len(toStation)
    BY <1>0, <2>1
  <2>3. QED
    BY <1>1, <2>1, <2>2
<1>5. ASSUME NEW c \in Command, NEW b \in BOOLEAN, Choosing(c),
             toStation' = Append(toStation, [cmd |-> c, own |-> b])
      PROVE  Choosing(toStation'[i].cmd)
  <2>1. i \in 1..Len(toStation) \/ i = Len(toStation) + 1
    BY <1>0, <1>5
  <2>2. CASE i \in 1..Len(toStation)
    BY <1>0, <1>1, <1>5, <2>2
  <2>3. CASE i = Len(toStation) + 1
    <3>1. toStation'[i] = [cmd |-> c, own |-> b]
      BY <1>0, <1>5, <2>3
    <3>2. QED
      BY <1>5, <3>1
  <2>4. QED
    BY <2>1, <2>2, <2>3
<1>6. QED
  BY <1>2, <1>3, <1>4, <1>5

LEMMA EnvironmentBits ==
    ASSUME Inv, BitsInv, Environment, UNCHANGED progVars
    PROVE  HeldBits' /\ WireBits' /\ AllRequestBits'
<1>1. toStation' = toStation \/ (toStation # <<>> /\ toStation' = Tail(toStation))
  BY DEF Environment, StationExec, StationRefuse, Lose, Unreachable
<1>2. WireBits'
  BY <1>1, WireBitsStep DEF Inv, TypeOK, BitsInv
<1>3. \/ held' = held
      \/ toStation # <<>> /\ Execute(Head(toStation).cmd)
  BY DEF Environment, StationExec, StationRefuse, Lose, Unreachable
<1>4. HeldBits'
  <2>1. CASE held' = held
    BY <2>1 DEF BitsInv, HeldBits, ChosenBits, ChosenCv29
  <2>2. CASE toStation # <<>> /\ Execute(Head(toStation).cmd)
    <3>1. /\ Head(toStation) = toStation[1] /\ 1 \in 1..Len(toStation)
          /\ Head(toStation).cmd \in Command
      BY <2>2, QueueParts DEF Inv, TypeOK
    <3>2. Choosing(Head(toStation).cmd)
      BY <3>1 DEF BitsInv, WireBits
    <3>3. \A v \in held'[29] :
            \/ v \in held[29]
            \/ /\ v = Head(toStation).cmd.value
               /\ Head(toStation).cmd.kind = "write" /\ Head(toStation).cmd.cv = 29
      <4>1. 29 \in CvNo /\ held \in [CvNo -> SUBSET Byte]
        BY DEF CvNo, Inv, TypeOK, UdpTypeOK
      <4>2. QED
        BY <2>2, <4>1 DEF Execute
    <3>4. QED
      BY <3>2, <3>3 DEF BitsInv, HeldBits, Choosing, ChosenBits, ChosenCv29
  <2>3. QED
    BY <1>3, <2>1, <2>2
<1>5. AllRequestBits'
  BY DEF BitsInv, AllRequestBits, RequestBits, Choosing, ChosenBits, ChosenCv29, progVars
<1>6. QED
  BY <1>2, <1>4, <1>5

LEMMA SendBits ==
    ASSUME Inv, BitsInv, NEW r \in Requests, Send(r)
    PROVE  HeldBits' /\ WireBits' /\ AllRequestBits'
<1>1. /\ todo[r] \in Seq(Command) /\ todo[r] # <<>> /\ pc[r] = "send" /\ vals[r] \in GoodTable
      /\ UdpTypeOK /\ WireBits /\ AllRequestBits
  BY TableIsGood DEF Send, Inv, TypeOK, ProgTypeOK, Work, BitsInv
<1>2. /\ Head(todo[r]) \in Command /\ Choosing(Head(todo[r]))
      /\ stage[r] = "read29" => Head(todo[r]).kind = "read"
  <2>1. Head(todo[r]) = todo[r][1] /\ 1 \in 1..Len(todo[r]) /\ Head(todo[r]) \in Command
    BY <1>1
  <2>2. QED
    BY <1>1, <2>1 DEF AllRequestBits, RequestBits
<1>3. HeldBits'
  <2>1. held' = held
    BY DEF Send, Call, Post, SendError
  <2>2. QED
    BY <2>1 DEF BitsInv, HeldBits, ChosenBits, ChosenCv29
<1>4. CASE /\ Call(Head(todo[r]))
           /\ pc' = [pc EXCEPT ![r] = "await"]
           /\ UNCHANGED <<holder, stage, todo, vals, resp>>
  <2>1. \/ toStation' = toStation
        \/ toStation' = Append(toStation, [cmd |-> Head(todo[r]), own |-> TRUE])
    BY <1>4 DEF Call, Transmit
  <2>2. WireBits'
    BY <1>1, <1>2, <2>1, WireBitsStep
  <2>3. AllRequestBits'
    BY <1>1, <1>4 DEF AllRequestBits, RequestBits, Choosing, ChosenBits, ChosenCv29
  <2>4. QED
    BY <1>3, <2>2, <2>3
<1>5. CASE Post(Head(todo[r])) /\ CommandDone(r, vals[r])
  <2>1. \/ toStation' = toStation
        \/ toStation' = Append(toStation, [cmd |-> Head(todo[r]), own |-> FALSE])
    BY <1>5 DEF Post, Transmit
  <2>2. WireBits'
    BY <1>1, <1>2, <2>1, WireBitsStep
  <2>3. stage[r] # "read29"
    BY <1>2, <1>5 DEF Post, Awaited
  <2>4. stage[r] \in {"read28", "write"} => OtherBits(vals[r][29]) \in ChosenBits
    BY <1>1 DEF AllRequestBits, RequestBits
  <2>5. AllRequestBits'
    BY <1>1, <1>5, <2>3, <2>4, CommandDoneBits
  <2>6. QED
    BY <1>3, <2>2, <2>5
<1>6. CASE SendError /\ Abort(r)
  <2>1. WireBits'
    BY <1>1, <1>6, WireBitsStep DEF SendError
  <2>2. ProgTypeOK /\ (stage[r] \in {"read28", "write"} => OtherBits(vals[r][29]) \in ChosenBits)
    BY <1>1 DEF Inv, TypeOK, AllRequestBits, RequestBits
  <2>3. AllRequestBits'
    BY <1>1, <1>6, <2>2, RespondBits DEF Abort
  <2>4. QED
    BY <1>3, <2>1, <2>3
<1>7. QED
  BY <1>4, <1>5, <1>6 DEF Send

(* The value that answers a read of CV 29 is one it has held. *)
LEMMA NotedBits ==
    ASSUME Inv, BitsInv, NEW r \in Requests, pc[r] = "await", Answered(r),
           stage[r] \in {"read29", "read28", "write"}
    PROVE  OtherBits(Noted(r, outcome'.value)[29]) \in ChosenBits
<1> DEFINE c == Head(todo[r])
<1>1. /\ todo[r] \in Seq(Command) /\ todo[r] # <<>> /\ call = c /\ RequestBits(r)
      /\ UdpTypeOK /\ HeldInv /\ HeldBits
  BY DEF Inv, TypeOK, ProgTypeOK, SingleFlight, BitsInv, AllRequestBits
<1>2. /\ c \in Command /\ c.cv \in CvNo
      /\ stage[r] = "read29" => c.kind = "read" /\ c.cv = 29
  <2>1. c = todo[r][1] /\ 1 \in 1..Len(todo[r]) /\ c \in Command
    BY <1>1
  <2>2. QED
    BY <1>1, <2>1 DEF RequestBits, Command
<1>3. outcome'.value \in held[c.cv]
  <2>1. RecvResult
    BY DEF Answered
  <2>2. call # NoCall /\ call' = NoCall /\ outcome'.st = "ok"
    BY <2>1 DEF RecvResult, EndCall, Ended
  <2>3. UdpStep
    BY <2>1 DEF UdpStep
  <2>4. QED
    BY <1>1, <2>2, <2>3, AcceptsHeld
<1>4. vals[r] \in [CvNo -> Byte \cup {NoValue}] /\ 29 \in CvNo
  BY DEF Inv, TypeOK, ProgTypeOK, CvNo
<1> HIDE DEF c
<1>5. Noted(r, outcome'.value)[29] =
        IF c.kind = "read" /\ c.cv = 29 THEN outcome'.value ELSE vals[r][29]
  BY <1>2, <1>4 DEF Noted, c
<1>6. CASE c.kind = "read" /\ c.cv = 29
  BY <1>1, <1>3, <1>5, <1>6 DEF HeldBits
<1>7. CASE ~(c.kind = "read" /\ c.cv = 29)
  BY <1>1, <1>2, <1>5, <1>7 DEF RequestBits
<1>8. QED
  BY <1>6, <1>7

LEMMA AwaitBits ==
    ASSUME Inv, BitsInv, NEW r \in Requests, Await(r)
    PROVE  HeldBits' /\ WireBits' /\ AllRequestBits'
<1>1. /\ pc[r] = "await" /\ AllRequestBits /\ ProgTypeOK /\ UdpTypeOK /\ WireBits
      /\ stage[r] \in {"read28", "write"} => OtherBits(vals[r][29]) \in ChosenBits
  BY DEF Await, Inv, TypeOK, BitsInv, AllRequestBits, RequestBits
<1>2. held' = held /\ (toStation' = toStation \/ toStation' = Disown(toStation))
  BY DEF Await, Answered, Unanswered, RecvResult, RecvNack, RecvError, RecvOther, Timeout, EndCall
<1>3. HeldBits' /\ WireBits'
  <2>1. HeldBits'
    BY <1>2 DEF BitsInv, HeldBits, ChosenBits, ChosenCv29
  <2>2. QED
    BY <1>1, <1>2, <2>1, WireBitsStep
<1>4. ASSUME Abort(r) PROVE AllRequestBits'
  BY <1>1, <1>4, RespondBits DEF Abort
<1>5. CASE Answered(r)
  <2>1. Noted(r, outcome'.value) \in GoodTable
    <3>1. UdpTypeOK'
      BY <1>1, <1>5, ClientType DEF Answered
    <3>2. outcome'.value \in Byte
      BY <3>1 DEF UdpTypeOK, Outcome
    <3>3. Head(todo[r]).cv \in CvNo
      <4>1. todo[r] # <<>> /\ todo[r] \in Seq(Command)
        BY <1>1 DEF Inv, TypeOK, ProgTypeOK, SingleFlight
      <4>2. Head(todo[r]) \in Command
        BY <4>1
      <4>3. QED
        BY <4>2 DEF Command
    <3>4. QED
      BY <3>2, <3>3, TableIsGood DEF Noted, Inv, TypeOK
  <2>2. QED
    BY <1>1, <1>3, <1>5, <2>1, NotedBits, CommandDoneBits DEF Answered
<1>6. CASE Unanswered(r)
  <2>1. CASE stage[r] = "read28"
    <3>1. [vals[r] EXCEPT ![28] = NoValue] \in GoodTable
      BY TableIsGood DEF Inv, TypeOK
    <3>2. [vals[r] EXCEPT ![28] = NoValue][29] = vals[r][29]
      BY <1>1 DEF ProgTypeOK, CvNo
    <3>3. QED
      BY <1>1, <1>3, <1>6, <2>1, <3>1, <3>2, FinishBits DEF Unanswered
  <2>2. CASE stage[r] # "read28"
    BY <1>3, <1>4, <1>6, <2>2 DEF Unanswered
  <2>3. QED
    BY <2>1, <2>2
<1>7. CASE RecvError /\ Abort(r)
  BY <1>3, <1>4, <1>7
<1>8. CASE RecvOther /\ UNCHANGED <<holder, pc, stage, todo, vals, resp>>
  <2>1. AllRequestBits'
    BY <1>1, <1>8 DEF AllRequestBits, RequestBits, Choosing, ChosenBits, ChosenCv29
  <2>2. QED
    BY <1>3, <2>1
<1>9. QED
  BY <1>5, <1>6, <1>7, <1>8 DEF Await

(* A request that only comes, waits for the lock, or goes. *)
LEMMA IdleBits ==
    ASSUME Inv, BitsInv, NEW r \in Requests,
           Start(r) \/ Acquire(r) \/ Warm(r) \/ ConnectFails(r) \/ Cancel(r)
    PROVE  HeldBits' /\ WireBits' /\ AllRequestBits'
<1>1. /\ AllRequestBits /\ ProgTypeOK /\ UdpTypeOK /\ WireBits
      /\ stage[r] \in {"read28", "write"} => OtherBits(vals[r][29]) \in ChosenBits
  BY DEF Inv, TypeOK, BitsInv, AllRequestBits, RequestBits
<1>2. held' = held /\ (toStation' = toStation \/ toStation' = Disown(toStation))
  BY DEF Start, Acquire, Warm, ConnectFails, Cancel, Drop, EndCall, udpVars
<1>3. HeldBits' /\ WireBits'
  <2>1. HeldBits'
    BY <1>2 DEF BitsInv, HeldBits, ChosenBits, ChosenCv29
  <2>2. QED
    BY <1>1, <1>2, <2>1, WireBitsStep
<1>4. CASE Start(r)
  <2>1. PICK j \in Jobs : EnterStage(r, j, FirstStage(j), Zeros)
    BY <1>4 DEF Start
  <2>2. /\ FirstStage(j) \in Stages \ {"read28", "write"}
        /\ FirstStage(j) \in AddressStages => j.op = "addrSet"
    <3>1. j.op \in {"connect", "cvs", "addrGet", "addrSet"}
      BY ProgrammingAssumption DEF Job
    <3>2. QED
      BY <3>1 DEF FirstStage, Stages, AddressStages
  <2>3. QED
    BY <1>1, <1>3, <2>1, <2>2, EnterBits, ZerosIsGood
<1>5. CASE Acquire(r)
  <2>1. AllRequestBits'
    BY <1>1, <1>5 DEF Acquire, AllRequestBits, RequestBits, Choosing, ChosenBits, ChosenCv29
  <2>2. QED
    BY <1>3, <2>1
<1>6. CASE Warm(r) \/ ConnectFails(r) \/ Cancel(r)
  <2>1. \E result : Respond(r, result, vals[r])
    BY <1>6 DEF Warm, ConnectFails, Cancel
  <2>2. QED
    BY <1>1, <1>3, <2>1, RespondBits
<1>7. QED
  BY <1>4, <1>5, <1>6

(* Whatever the faults, and however many requests overlap, fail or are     *)
(* dropped between the read of CV 29 and its write: setting an address     *)
(* leaves the decoder with bits in CV 29 that it had, or that a batch of   *)
(* `write_cvs` brought; none is invented (addr_set).                       *)
THEOREM NoBitInvented == Spec => []OnlyChosenBits
<1>1. Init => BitsInv
  <2> SUFFICES ASSUME Init PROVE BitsInv
    OBVIOUS
  <2>1. HeldInv /\ decoder \in InitDecoders /\ held[29] = {decoder[29]}
    BY InitHeld DEF Init, UdpInit, CvNo
  <2>2. HeldBits
    BY <2>1 DEF HeldBits, ChosenBits, ChosenCv29
  <2>3. \A i \in 1..Len(<<>>) : FALSE
    OBVIOUS
  <2>4. WireBits
    BY <2>3 DEF Init, UdpInit, WireBits
  <2>5. AllRequestBits
    BY <2>3 DEF Init, AllRequestBits, RequestBits
  <2>6. QED
    BY <2>1, <2>2, <2>4, <2>5 DEF BitsInv
<1>2. Inv /\ BitsInv /\ [Next]_vars => BitsInv'
  <2> SUFFICES ASSUME Inv, BitsInv, [Next]_vars PROVE BitsInv'
    OBVIOUS
  <2>1. HeldInv'
    <3>1. UdpTypeOK /\ HeldInv
      BY DEF Inv, TypeOK, BitsInv
    <3>2. CASE UdpStep
      BY <3>1, <3>2, StepHeld
    <3>3. CASE UNCHANGED udpVars
      BY <3>1, <3>3 DEF HeldInv, udpVars
    <3>4. QED
      BY <3>2, <3>3, StepIsUdp
  <2>2. HeldBits' /\ WireBits' /\ AllRequestBits'
    <3>1. CASE UNCHANGED vars
      BY <3>1 DEF BitsInv, HeldBits, WireBits, AllRequestBits, RequestBits, Choosing,
                  ChosenBits, ChosenCv29, vars, udpVars, progVars
    <3>2. QED
      BY <3>1, IdleBits, SendBits, AwaitBits, EnvironmentBits DEF Next
  <2>3. QED
    BY <2>1, <2>2 DEF BitsInv
<1>3. BitsInv => OnlyChosenBits
  <2>1. 29 \in CvNo
    BY DEF CvNo
  <2>2. QED
    BY <2>1 DEF BitsInv, HeldInv, HeldBits, ChosenBits, OnlyChosenBits
<1>4. QED
  BY <1>1, <1>2, <1>3, Invariant, PTL DEF Spec
=============================================================================
