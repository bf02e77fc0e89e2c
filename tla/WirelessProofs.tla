--------------------------- MODULE WirelessProofs ---------------------------
(* Proofs about programming over the air, for any participants, vehicles,  *)
(* handsets and stations, and any number of jobs.                          *)
EXTENDS FredFlow, SequenceTheorems, WellFoundedInduction, TLAPS

(* What matters here is a job's progress; whose order it is does not.      *)
JobOf(O) == [key : Keys, order : O,
             state : {"asked", "refused", "running"} \cup Terminal,
             page : {"posted", "watching", "succeeded", "failed"},
             feed : {"closed", "open"}, frames : Seq(Frames)]

JobsTyped == (\E O : jobs \in Seq(JobOf(O))) /\ written \in [Keys -> Nat]

Begun == {"running"} \cup Terminal

(* The programmer takes jobs in turn: what is written by one that begins   *)
(* later is not overwritten by one that was asked for earlier.             *)
InTurn ==
    \A m, n \in DOMAIN jobs :
        m < n /\ jobs[n].state \in Begun => jobs[m].state \in Terminal \cup {"refused"}

DoneIsWritten ==
    \A n \in DOMAIN jobs : jobs[n].state = "done" => written[jobs[n].key] >= n

(* No frame on its way says more than the programmer did.                  *)
Truthful(j) == \A i \in DOMAIN j.frames : j.frames[i] = "done" => j.state = "done"
FramesAreTrue == \A n \in DOMAIN jobs : Truthful(jobs[n])

(* The page reports success only for a job that the programmer has done,   *)
(* and what the handset then holds is that order or that of a later job:   *)
(* no order that was given up, and taken up late, replaces it              *)
(* (wireless.ts:172-180, wireless_api.rs:371-402).                         *)
SuccessIsTrue ==
    \A n \in DOMAIN jobs :
        jobs[n].page = "succeeded" => jobs[n].state = "done" /\ written[jobs[n].key] >= n

JobInv == JobsTyped /\ InTurn /\ DoneIsWritten /\ FramesAreTrue /\ SuccessIsTrue

-----------------------------------------------------------------------------
(* One job changes, and the others do not. *)
LEMMA OneJobChanges ==
  ASSUME NEW O, jobs \in Seq(JobOf(O)), NEW n \in DOMAIN jobs, NEW j \in JobOf(O),
         jobs' = [jobs EXCEPT ![n] = j]
  PROVE  /\ jobs' \in Seq(JobOf(O)) /\ DOMAIN jobs' = DOMAIN jobs
         /\ jobs'[n] = j /\ \A m \in DOMAIN jobs : m # n => jobs'[m] = jobs[m]
  BY ExceptSeq

(* A change that begins no job and makes no claim keeps the invariant.     *)
LEMMA JobKeepsToItsPlace ==
  ASSUME JobInv, UNCHANGED written,
         NEW O, jobs \in Seq(JobOf(O)), NEW n \in DOMAIN jobs, NEW j \in JobOf(O),
         jobs' = [jobs EXCEPT ![n] = j],
         j.key = jobs[n].key,
         j.state = jobs[n].state \/ (jobs[n].state = "asked" /\ j.state = "refused"),
         Truthful(j), j.page = "succeeded" => j.state = "done"
  PROVE  JobInv'
<1>0. /\ jobs' \in Seq(JobOf(O)) /\ DOMAIN jobs' = DOMAIN jobs
      /\ jobs'[n] = j /\ \A m \in DOMAIN jobs : m # n => jobs'[m] = jobs[m]
  BY OneJobChanges
<1>1. JobsTyped'
  BY <1>0 DEF JobInv, JobsTyped
<1>2. InTurn'
  BY <1>0 DEF JobInv, InTurn, Begun, Terminal
<1>3. DoneIsWritten'
  BY <1>0 DEF JobInv, DoneIsWritten
<1>4. FramesAreTrue'
  BY <1>0 DEF JobInv, FramesAreTrue, Truthful
<1>5. SuccessIsTrue'
  BY <1>0, <1>3 DEF JobInv, SuccessIsTrue, DoneIsWritten
<1> QED
  BY <1>1, <1>2, <1>3, <1>4, <1>5 DEF JobInv

LEMMA JobIsTyped ==
  ASSUME NEW O, jobs \in Seq(JobOf(O)), NEW n \in DOMAIN jobs
  PROVE  jobs[n] \in JobOf(O) /\ n \in Nat \ {0} /\ jobs[n].frames \in Seq(Frames)
<1>1. jobs[n] \in JobOf(O) /\ n \in Nat \ {0}
  BY ElementOfSeq
<1> QED
  BY <1>1 DEF JobOf

LEMMA AcceptInv == ASSUME JobInv, NEW n \in DOMAIN jobs, Accept(n) PROVE JobInv'
<1> PICK O : jobs \in Seq(JobOf(O))
  BY DEF JobInv, JobsTyped
<1> DEFINE j == [jobs[n] EXCEPT !.state = "running"]
<1>0. jobs[n] \in JobOf(O)
  BY JobIsTyped
<1>1. j \in JobOf(O) /\ jobs' = [jobs EXCEPT ![n] = j]
  <2>1. j \in JobOf(O)
    BY <1>0 DEF JobOf
  <2> QED
    BY <2>1 DEF Accept
<1>2. /\ jobs' \in Seq(JobOf(O)) /\ DOMAIN jobs' = DOMAIN jobs
      /\ jobs'[n] = j /\ \A m \in DOMAIN jobs : m # n => jobs'[m] = jobs[m]
  BY <1>1, OneJobChanges
<1>3. j.state = "running" /\ j.key = jobs[n].key /\ j.page = jobs[n].page /\ j.frames = jobs[n].frames
  BY JobIsTyped DEF JobOf
<1>4. jobs[n].state = "asked" /\ UNCHANGED written
  BY DEF Accept
<1>5. JobsTyped'
  BY <1>2, <1>4 DEF JobInv, JobsTyped
<1>6. InTurn'
  <2> SUFFICES ASSUME NEW m \in DOMAIN jobs, NEW k \in DOMAIN jobs, m < k, jobs'[k].state \in Begun
               PROVE  jobs'[m].state \in Terminal \cup {"refused"}
    BY <1>2 DEF InTurn
  <2>0. jobs[m] \in JobOf(O) /\ m \in Nat /\ k \in Nat /\ n \in Nat
    BY JobIsTyped
  <2>1. CASE k = n
    <3>1. jobs[m].state # "running" /\ jobs[m].state # "asked"
      BY <2>0, <2>1 DEF Accept
    <3>2. jobs[m].state \in {"asked", "refused", "running"} \cup Terminal
      BY <2>0 DEF JobOf
    <3>3. m # n
      BY <2>0, <2>1
    <3> QED
      BY <3>1, <3>2, <3>3, <1>2
  <2>2. CASE k # n
    <3>1. jobs[m].state \in Terminal \cup {"refused"}
      BY <2>2, <1>2 DEF JobInv, InTurn
    <3>2. m # n
      BY <3>1, <1>4 DEF Terminal
    <3> QED
      BY <3>1, <3>2, <1>2
  <2> QED
    BY <2>1, <2>2
<1>7. DoneIsWritten'
  BY <1>2, <1>3, <1>4 DEF JobInv, DoneIsWritten
<1>8. FramesAreTrue'
  <2>1. Truthful(j)
    <3>1. Truthful(jobs[n]) /\ jobs[n].state # "done"
      BY <1>4 DEF JobInv, FramesAreTrue
    <3> QED
      BY <3>1, <1>3 DEF Truthful
  <2> HIDE DEF j
  <2>2. ASSUME NEW m \in DOMAIN jobs PROVE Truthful(jobs'[m])
    <3>1. CASE m = n
      BY <3>1, <2>1, <1>2
    <3>2. CASE m # n
      BY <3>2, <1>2 DEF JobInv, FramesAreTrue
    <3> QED
      BY <3>1, <3>2
  <2> QED
    BY <2>2, <1>2 DEF FramesAreTrue
<1>9. SuccessIsTrue'
  <2>1. jobs[n].page # "succeeded"
    BY <1>4 DEF JobInv, SuccessIsTrue
  <2> HIDE DEF j
  <2> SUFFICES ASSUME NEW m \in DOMAIN jobs, jobs'[m].page = "succeeded"
               PROVE  jobs'[m].state = "done" /\ written'[jobs'[m].key] >= m
    BY <1>2 DEF SuccessIsTrue
  <2>2. m # n
    BY <2>1, <1>2, <1>3
  <2>3. jobs'[m] = jobs[m]
    BY <2>2, <1>2
  <2> QED
    BY <2>3, <1>4 DEF JobInv, SuccessIsTrue
<1> QED
  BY <1>5, <1>6, <1>7, <1>8, <1>9 DEF JobInv

(* Nothing that began after the job which ends is done, for it is its turn. *)
LEMMA EndJobInv ==
  ASSUME JobInv, NEW n \in DOMAIN jobs, NEW s \in Terminal, EndJob(n, s)
  PROVE  JobInv'
<1> PICK O : jobs \in Seq(JobOf(O))
  BY DEF JobInv, JobsTyped
<1> DEFINE j == [jobs[n] EXCEPT !.state = s]
<1>0. jobs[n] \in JobOf(O)
  BY JobIsTyped
<1>1. j \in JobOf(O) /\ jobs' = [jobs EXCEPT ![n] = j]
  <2>1. j \in JobOf(O)
    BY <1>0 DEF JobOf
  <2> QED
    BY <2>1 DEF EndJob
<1>2. /\ jobs' \in Seq(JobOf(O)) /\ DOMAIN jobs' = DOMAIN jobs
      /\ jobs'[n] = j /\ \A m \in DOMAIN jobs : m # n => jobs'[m] = jobs[m]
  BY <1>1, OneJobChanges
<1>3. j.state = s /\ j.key = jobs[n].key /\ j.page = jobs[n].page /\ j.frames = jobs[n].frames
  BY JobIsTyped DEF JobOf
<1>4. /\ jobs[n].state = "running"
      /\ written' = [written EXCEPT ![jobs[n].key] = n] \/ (s # "done" /\ UNCHANGED written)
  BY DEF EndJob
<1>5. n \in Nat /\ jobs[n].key \in Keys
  BY JobIsTyped DEF JobOf
<1>6. JobsTyped'
  BY <1>2, <1>4, <1>5 DEF JobInv, JobsTyped
<1>7. InTurn'
  BY <1>2, <1>3, <1>4 DEF JobInv, InTurn, Begun, Terminal
<1>8. \A m \in DOMAIN jobs : m # n /\ jobs[m].state = "done" => m < n
  <2> SUFFICES ASSUME NEW m \in DOMAIN jobs, m # n, jobs[m].state = "done", ~(m < n) PROVE FALSE
    OBVIOUS
  <2>1. n < m
    BY JobIsTyped
  <2> QED
    BY <2>1, <1>4 DEF JobInv, InTurn, Begun, Terminal
<1>9. DoneIsWritten'
  <2> SUFFICES ASSUME NEW m \in DOMAIN jobs, jobs'[m].state = "done"
               PROVE  written'[jobs'[m].key] >= m
    BY <1>2 DEF DoneIsWritten
  <2>0. m \in Nat /\ jobs[m].key \in Keys
    BY JobIsTyped DEF JobOf
  <2>1. CASE m = n
    <3>1. written' = [written EXCEPT ![jobs[n].key] = n]
      BY <2>1, <1>2, <1>3, <1>4
    <3> QED
      BY <2>1, <3>1, <1>2, <1>3, <1>5 DEF JobInv, JobsTyped
  <2>2. CASE m # n
    <3>1. jobs[m].state = "done" /\ jobs'[m].key = jobs[m].key
      BY <2>2, <1>2
    <3>2. written[jobs[m].key] >= m /\ m < n
      BY <2>2, <3>1, <1>8 DEF JobInv, DoneIsWritten
    <3> QED
      BY <2>0, <3>1, <3>2, <1>4, <1>5 DEF JobInv, JobsTyped
  <2> QED
    BY <2>1, <2>2
<1>10. FramesAreTrue'
  <2>1. Truthful(j)
    <3>1. Truthful(jobs[n]) /\ jobs[n].state # "done"
      BY <1>4 DEF JobInv, FramesAreTrue
    <3> QED
      BY <3>1, <1>3 DEF Truthful
  <2> HIDE DEF j
  <2>2. ASSUME NEW m \in DOMAIN jobs PROVE Truthful(jobs'[m])
    <3>1. CASE m = n
      BY <3>1, <2>1, <1>2
    <3>2. CASE m # n
      BY <3>2, <1>2 DEF JobInv, FramesAreTrue
    <3> QED
      BY <3>1, <3>2
  <2> QED
    BY <2>2, <1>2 DEF FramesAreTrue
<1>11. SuccessIsTrue'
  <2> SUFFICES ASSUME NEW m \in DOMAIN jobs, jobs'[m].page = "succeeded"
               PROVE  jobs'[m].state = "done" /\ written'[jobs'[m].key] >= m
    BY <1>2 DEF SuccessIsTrue
  <2>1. jobs'[m].page = jobs[m].page
    BY <1>2, <1>3
  <2>2. jobs[m].state = "done"
    BY <2>1 DEF JobInv, SuccessIsTrue
  <2>3. m # n
    BY <2>2, <1>4
  <2>4. jobs'[m].state = "done"
    BY <2>2, <2>3, <1>2
  <2>5. m \in DOMAIN jobs'
    BY <1>2
  <2> QED
    BY ONLY <2>4, <2>5, <1>9 DEF DoneIsWritten
<1> QED
  BY <1>6, <1>7, <1>9, <1>10, <1>11 DEF JobInv

LEMMA ProgramInv ==
  ASSUME JobInv, NEW k \in Keys, NEW o, Program(k, o)
  PROVE  JobInv'
<1> PICK O : jobs \in Seq(JobOf(O))
  BY DEF JobInv, JobsTyped
<1> DEFINE j == [key |-> k, order |-> o, state |-> "asked", page |-> "posted",
                 feed |-> "closed", frames |-> <<>>]
           P == O \cup {o}
<1>1. j \in JobOf(P)
  BY DEF JobOf
<1>2. jobs \in Seq(JobOf(P))
  <2>1. JobOf(O) \subseteq JobOf(P)
    BY DEF JobOf
  <2> QED
    BY <2>1, SeqMonotonic
<1>3. jobs' = Append(jobs, j) /\ UNCHANGED written
  BY DEF Program
<1>4. /\ jobs' \in Seq(JobOf(P)) /\ DOMAIN jobs' = 1 .. Len(jobs) + 1
      /\ DOMAIN jobs = 1 .. Len(jobs) /\ Len(jobs) \in Nat
      /\ \A m \in DOMAIN jobs : jobs'[m] = jobs[m]
      /\ jobs'[Len(jobs) + 1] = j
  BY <1>1, <1>2, <1>3, AppendProperties, LenProperties
<1>5. \A m \in DOMAIN jobs' : m \in DOMAIN jobs \/ (m = Len(jobs) + 1 /\ jobs'[m] = j)
  BY <1>4
<1>6. JobsTyped'
  BY <1>3, <1>4 DEF JobInv, JobsTyped
<1>7. InTurn'
  <2> SUFFICES ASSUME NEW m \in DOMAIN jobs', NEW n \in DOMAIN jobs', m < n,
                      jobs'[n].state \in Begun
               PROVE  jobs'[m].state \in Terminal \cup {"refused"}
    BY DEF InTurn
  <2>1. n \in DOMAIN jobs
    BY <1>5 DEF Begun, Terminal
  <2>2. m \in DOMAIN jobs
    BY <2>1, <1>4
  <2> QED
    BY <2>1, <2>2, <1>4 DEF JobInv, InTurn
<1>8. DoneIsWritten'
  BY <1>3, <1>4, <1>5 DEF JobInv, DoneIsWritten
<1>9. FramesAreTrue'
  BY <1>3, <1>4, <1>5 DEF JobInv, FramesAreTrue, Truthful
<1>10. SuccessIsTrue'
  BY <1>3, <1>4, <1>5 DEF JobInv, SuccessIsTrue
<1> QED
  BY <1>6, <1>7, <1>8, <1>9, <1>10 DEF JobInv

-----------------------------------------------------------------------------
(* The frames *)

LEMMA ReadFrameInv == ASSUME JobInv, NEW n \in DOMAIN jobs, ReadFrame(n) PROVE JobInv'
<1> PICK O : jobs \in Seq(JobOf(O))
  BY DEF JobInv, JobsTyped
<1> DEFINE fs == Append(jobs[n].frames, Frame(n))
           f == IF Frame(n) \in Terminal THEN "closed" ELSE "open"
           j == [jobs[n] EXCEPT !.frames = fs, !.feed = f]
<1>0. jobs[n] \in JobOf(O) /\ jobs[n].frames \in Seq(Frames)
  BY JobIsTyped
<1>1. Frame(n) \in Frames /\ (Frame(n) = "done" => jobs[n].state = "done")
  BY DEF Frame, Frames, Terminal
<1>2. fs \in Seq(Frames) /\ f \in {"closed", "open"}
  BY <1>0, <1>1, AppendProperties
<1>3. j \in JobOf(O) /\ j.key = jobs[n].key /\ j.state = jobs[n].state /\ j.page = jobs[n].page
      /\ j.frames = fs
  BY <1>0, <1>2 DEF JobOf
<1>4. jobs' = [jobs EXCEPT ![n] = j] /\ UNCHANGED written
  BY DEF ReadFrame
<1>5. Truthful(j)
  <2> SUFFICES ASSUME NEW i \in DOMAIN fs, fs[i] = "done" PROVE jobs[n].state = "done"
    BY <1>3 DEF Truthful
  <2>1. i \in DOMAIN jobs[n].frames \/ fs[i] = Frame(n)
    BY <1>0, <1>1, AppendProperties, LenProperties
  <2>2. i \in DOMAIN jobs[n].frames => fs[i] = jobs[n].frames[i]
    BY <1>0, <1>1, AppendProperties, LenProperties
  <2> QED
    BY <2>1, <2>2, <1>1 DEF JobInv, FramesAreTrue, Truthful
<1>6. j.page = "succeeded" => j.state = "done"
  BY <1>3 DEF JobInv, SuccessIsTrue
<1> HIDE DEF j
<1> QED
  BY <1>3, <1>4, <1>5, <1>6, JobKeepsToItsPlace

LEMMA ReadErrorInv == ASSUME JobInv, NEW n \in DOMAIN jobs, ReadError(n) PROVE JobInv'
<1> PICK O : jobs \in Seq(JobOf(O))
  BY DEF JobInv, JobsTyped
<1> DEFINE fs == Append(jobs[n].frames, "error")
           j == [jobs[n] EXCEPT !.frames = fs, !.feed = "closed"]
<1>0. jobs[n] \in JobOf(O) /\ jobs[n].frames \in Seq(Frames) /\ "error" \in Frames
  BY JobIsTyped DEF Frames
<1>2. fs \in Seq(Frames)
  BY <1>0, AppendProperties
<1>3. j \in JobOf(O) /\ j.key = jobs[n].key /\ j.state = jobs[n].state /\ j.page = jobs[n].page
      /\ j.frames = fs
  BY <1>0, <1>2 DEF JobOf
<1>4. jobs' = [jobs EXCEPT ![n] = j] /\ UNCHANGED written
  BY DEF ReadError
<1>5. Truthful(j)
  <2> SUFFICES ASSUME NEW i \in DOMAIN fs, fs[i] = "done" PROVE jobs[n].state = "done"
    BY <1>3 DEF Truthful
  <2>1. i \in DOMAIN jobs[n].frames /\ fs[i] = jobs[n].frames[i]
    BY <1>0, AppendProperties, LenProperties
  <2> QED
    BY <2>1 DEF JobInv, FramesAreTrue, Truthful
<1>6. j.page = "succeeded" => j.state = "done"
  BY <1>3 DEF JobInv, SuccessIsTrue
<1> HIDE DEF j
<1> QED
  BY <1>3, <1>4, <1>5, <1>6, JobKeepsToItsPlace

LEMMA ShowProgressInv == ASSUME JobInv, NEW n \in DOMAIN jobs, ShowProgress(n) PROVE JobInv'
<1> PICK O : jobs \in Seq(JobOf(O))
  BY DEF JobInv, JobsTyped
<1> DEFINE fs == Tail(jobs[n].frames)
           j == [jobs[n] EXCEPT !.frames = fs]
<1>0. jobs[n] \in JobOf(O) /\ jobs[n].frames \in Seq(Frames) /\ jobs[n].frames # <<>>
  BY JobIsTyped DEF ShowProgress
<1>2. fs \in Seq(Frames) /\ Len(fs) = Len(jobs[n].frames) - 1
      /\ \A i \in 1 .. Len(fs) : fs[i] = jobs[n].frames[i + 1]
  BY <1>0, HeadTailProperties
<1>3. j \in JobOf(O) /\ j.key = jobs[n].key /\ j.state = jobs[n].state /\ j.page = jobs[n].page
      /\ j.frames = fs
  BY <1>0, <1>2 DEF JobOf
<1>4. jobs' = [jobs EXCEPT ![n] = j] /\ UNCHANGED written
  BY DEF ShowProgress
<1>5. Truthful(j)
  <2> SUFFICES ASSUME NEW i \in DOMAIN fs, fs[i] = "done" PROVE jobs[n].state = "done"
    BY <1>3 DEF Truthful
  <2>1. i + 1 \in DOMAIN jobs[n].frames /\ fs[i] = jobs[n].frames[i + 1]
    BY <1>0, <1>2, LenProperties
  <2> QED
    BY <2>1 DEF JobInv, FramesAreTrue, Truthful
<1>6. j.page = "succeeded" => j.state = "done"
  BY <1>3 DEF JobInv, SuccessIsTrue
<1> HIDE DEF j
<1> QED
  BY <1>3, <1>4, <1>5, <1>6, JobKeepsToItsPlace

(* A success is taken from a frame, and no frame says more than is so.     *)
LEMMA SettleInv ==
  ASSUME JobInv, NEW n \in DOMAIN jobs, NEW p \in {"succeeded", "failed"}, Settle(n, p),
         p = "succeeded" => jobs[n].frames # <<>> /\ Head(jobs[n].frames) = "done"
  PROVE  JobInv'
<1> PICK O : jobs \in Seq(JobOf(O))
  BY DEF JobInv, JobsTyped
<1>0. jobs[n] \in JobOf(O) /\ jobs[n].frames \in Seq(Frames)
  BY JobIsTyped
<1>1. PICK fs \in Seq(Frames) : fs = <<>>
  BY EmptySeq
<1> DEFINE j == [jobs[n] EXCEPT !.page = p, !.feed = "closed", !.frames = fs]
<1>2. j \in JobOf(O) /\ j.key = jobs[n].key /\ j.state = jobs[n].state /\ j.page = p
      /\ j.frames = fs
  BY <1>0 DEF JobOf
<1>3. j \in JobOf(O) /\ j.key = jobs[n].key /\ j.state = jobs[n].state /\ j.page = p
      /\ j.frames = <<>>
  BY <1>1, <1>2
<1>4. jobs' = [jobs EXCEPT ![n] = j] /\ UNCHANGED written
  BY <1>1 DEF Settle
<1>5. Truthful(j)
  BY <1>3 DEF Truthful
<1>6. p = "succeeded" => jobs[n].state = "done"
  <2> SUFFICES ASSUME p = "succeeded" PROVE jobs[n].state = "done"
    OBVIOUS
  <2>1. 1 \in DOMAIN jobs[n].frames /\ jobs[n].frames[1] = "done"
    BY <1>0, HeadTailProperties, LenProperties
  <2> QED
    BY <2>1 DEF JobInv, FramesAreTrue, Truthful
<1> HIDE DEF j
<1> QED
  BY <1>3, <1>4, <1>5, <1>6, JobKeepsToItsPlace

(* The rest changes neither frames nor outcome, or fails. *)
LEMMA OtherJobInv ==
  ASSUME JobInv, NEW n \in DOMAIN jobs,
         Refuse(n) \/ ReadFails(n) \/ ProgramAnswers(n) \/ ProgramFails(n)
  PROVE  JobInv'
<1> PICK O : jobs \in Seq(JobOf(O))
  BY DEF JobInv, JobsTyped
<1>0. jobs[n] \in JobOf(O)
  BY JobIsTyped
<1>1. PICK j \in JobOf(O) :
        /\ jobs' = [jobs EXCEPT ![n] = j] /\ UNCHANGED written
        /\ j.key = jobs[n].key /\ j.frames = jobs[n].frames
        /\ j.state = jobs[n].state \/ (jobs[n].state = "asked" /\ j.state = "refused")
        /\ j.page = "succeeded" => jobs[n].page = "succeeded"
  <2>1. CASE Refuse(n)
    <3> DEFINE j == [jobs[n] EXCEPT !.state = "refused"]
    <3>1. j \in JobOf(O) /\ j.key = jobs[n].key /\ j.frames = jobs[n].frames
          /\ j.state = "refused" /\ j.page = jobs[n].page
      BY <1>0 DEF JobOf
    <3> QED
      BY <2>1, <3>1 DEF Refuse
  <2>2. CASE ReadFails(n)
    <3> DEFINE j == [jobs[n] EXCEPT !.feed = "closed"]
    <3>1. j \in JobOf(O) /\ j.key = jobs[n].key /\ j.frames = jobs[n].frames
          /\ j.state = jobs[n].state /\ j.page = jobs[n].page
      BY <1>0 DEF JobOf
    <3> QED
      BY <2>2, <3>1 DEF ReadFails
  <2>3. CASE ProgramAnswers(n)
    <3> DEFINE j == [jobs[n] EXCEPT !.page = "watching", !.feed = "open"]
    <3>1. j \in JobOf(O) /\ j.key = jobs[n].key /\ j.frames = jobs[n].frames
          /\ j.state = jobs[n].state /\ j.page = "watching"
      BY <1>0 DEF JobOf
    <3> QED
      BY <2>3, <3>1 DEF ProgramAnswers
  <2>4. CASE ProgramFails(n)
    <3>1. PICK s \in {jobs[n].state} \cup (IF jobs[n].state = "asked" THEN {"refused"} ELSE {}) :
            jobs' = [jobs EXCEPT ![n].page = "failed", ![n].state = s]
      BY <2>4 DEF ProgramFails
    <3> DEFINE j == [jobs[n] EXCEPT !.page = "failed", !.state = s]
    <3>3. s \in {"asked", "refused", "running"} \cup Terminal
      BY <1>0 DEF JobOf
    <3>2. j \in JobOf(O) /\ j.key = jobs[n].key /\ j.frames = jobs[n].frames
          /\ j.state = s /\ j.page = "failed"
      BY <1>0, <3>3 DEF JobOf
    <3> QED
      BY <2>4, <3>1, <3>2 DEF ProgramFails
  <2> QED
    BY <2>1, <2>2, <2>3, <2>4
<1>2. jobs[n].frames \in Seq(Frames)
  BY JobIsTyped
<1>3. Truthful(j)
  BY <1>1 DEF JobInv, FramesAreTrue, Truthful
<1>4. j.page = "succeeded" => j.state = "done"
  BY <1>1 DEF JobInv, SuccessIsTrue
<1> QED
  BY <1>1, <1>3, <1>4, JobKeepsToItsPlace

-----------------------------------------------------------------------------
(* All that the pages do with jobs, whoever orders what *)
SomeJobStep ==
    \/ \E k \in Keys : \E o : Program(k, o)
    \/ \E n \in DOMAIN jobs : JobStep(n) \/ ProgramAnswers(n) \/ Resolves(n) \/ Unsuccessful(n)
    \/ UNCHANGED jobVars

LEMMA JobStepsKeep == ASSUME JobInv, SomeJobStep PROVE JobInv'
<1>1. CASE \E k \in Keys : \E o : Program(k, o)
  BY <1>1, ProgramInv
<1>2. CASE UNCHANGED jobVars
  BY <1>2 DEF jobVars, JobInv, JobsTyped, InTurn, DoneIsWritten, FramesAreTrue, Truthful, SuccessIsTrue
<1>3. ASSUME NEW n \in DOMAIN jobs,
             JobStep(n) \/ ProgramAnswers(n) \/ Resolves(n) \/ Unsuccessful(n)
      PROVE  JobInv'
  <2>1. CASE Accept(n)
    BY <2>1, AcceptInv
  <2>2. CASE \E s \in Terminal : EndJob(n, s)
    BY <2>2, EndJobInv
  <2>3. CASE ReadFrame(n) \/ ReadError(n) \/ ShowProgress(n)
    BY <2>3, ReadFrameInv, ReadErrorInv, ShowProgressInv
  <2>4. CASE Refuse(n) \/ ReadFails(n) \/ ProgramAnswers(n) \/ ProgramFails(n)
    BY <2>4, OtherJobInv
  <2>5. CASE Resolves(n)
    BY <2>5, SettleInv DEF Resolves
  <2>6. CASE ResolvesNotDone(n) \/ StreamEnds(n) \/ StreamBreaks(n)
    <3>1. Settle(n, "failed")
      BY <2>6 DEF ResolvesNotDone, StreamEnds, StreamBreaks
    <3> QED
      BY <3>1, SettleInv
  <2> QED
    BY <1>3, <2>1, <2>2, <2>3, <2>4, <2>5, <2>6
       DEF JobStep, ProgrammerStep, BridgeStep, Unsuccessful
<1> QED
  BY <1>1, <1>2, <1>3 DEF SomeJobStep

-----------------------------------------------------------------------------
(* What the pages program is one of the things that can be programmed.     *)
KeysKnown ==
    /\ candidates \subseteq Keys /\ candidate \in Keys \cup {None}
    /\ \A c \in calls : c.kind = "start" => c.key \in Keys

FlowStep == SomeJobStep /\ KeysKnown'

(* A call is known by its kind, and one that begins programming by its key. *)
LEMMA MadeCalls ==
  ASSUME NEW cs, NEW c, "kind" \in DOMAIN c,
         c.kind = "start" => "key" \in DOMAIN c /\ c.key \in Keys,
         \A d \in cs : d.kind = "start" => d.key \in Keys
  PROVE  \A d \in Made(cs, c) : d.kind = "start" => d.key \in Keys
<1> DEFINE e == Marked(c, Marked(c, FALSE) \in cs)
<1>1. e.kind = c.kind /\ ("key" \in DOMAIN c => e.key = c.key)
  BY DEF Marked
<1>2. Made(cs, c) = cs \cup {e}
  BY DEF Made
<1> HIDE DEF e
<1> QED
  BY <1>1, <1>2

LEMMA EnterKeeps ==
  ASSUME KeysKnown, NEW p, Enter(p), UNCHANGED calls
  PROVE  KeysKnown'
  BY DEF KeysKnown, Enter, RunScan, scan

(* The operator's steps that neither call nor program *)
LEMMA TurnKeeps ==
  ASSUME KeysKnown,
         \/ \E u \in Users : PickUser(u)
         \/ EnterPin \/ Keep \/ RetryScan \/ Leave
         \/ \E s \in Stations : ChooseStation(s)
         \/ \E v \in Vehicles : Toggle(v)
         \/ \E f, t : Turn(f, t)
  PROVE  FlowStep
<1>1. UNCHANGED jobVars
  BY DEF PickUser, EnterPin, Keep, RetryScan, Leave, ChooseStation, Toggle, Turn, jobVars
<1>2. CASE EnterPin \/ \E f, t : Turn(f, t)
  <2>1. UNCHANGED calls /\ \E p : Enter(p)
    BY <1>2 DEF EnterPin, Turn
  <2> QED
    BY <2>1, <1>1, EnterKeeps DEF FlowStep, SomeJobStep
<1>3. CASE RetryScan
  <2>1. KeysKnown'
    BY <1>3 DEF RetryScan, RunScan, KeysKnown
  <2> QED
    BY <2>1, <1>1 DEF FlowStep, SomeJobStep
<1>4. CASE Leave
  <2>1. KeysKnown'
    BY <1>4 DEF Leave, KeysKnown
  <2> QED
    BY <2>1, <1>1 DEF FlowStep, SomeJobStep
<1>5. CASE \/ \E u \in Users : PickUser(u)
           \/ Keep
           \/ \E s \in Stations : ChooseStation(s)
           \/ \E v \in Vehicles : Toggle(v)
  <2>1. KeysKnown'
    BY <1>5 DEF PickUser, Keep, ChooseStation, Toggle, scan, KeysKnown
  <2> QED
    BY <2>1, <1>1 DEF FlowStep, SomeJobStep
<1> QED
  BY <1>2, <1>3, <1>4, <1>5

(* The operator's steps that call *)
LEMMA AskKeeps ==
  ASSUME KeysKnown, SubmitPin \/ StartAtStation \/ Replace \/ StartProgramming
  PROVE  FlowStep
<1>1. UNCHANGED <<jobVars, candidates, candidate>>
  BY DEF SubmitPin, StartAtStation, Replace, StartProgramming, jobVars, scan
<1>2. PICK c : /\ calls' = Made(calls, c) /\ "kind" \in DOMAIN c
               /\ c.kind = "start" => "key" \in DOMAIN c /\ c.key \in Keys
  <2>1. CASE SubmitPin
    BY <2>1 DEF SubmitPin, Calling
  <2>2. CASE StartAtStation
    BY <2>2 DEF StartAtStation, Calling, Status
  <2>3. CASE Replace
    BY <2>3 DEF Replace, Calling
  <2>4. CASE StartProgramming
    BY <2>4 DEF StartProgramming, Calling, KeysKnown
  <2> QED
    BY <2>1, <2>2, <2>3, <2>4
<1>3. \A d \in calls' : d.kind = "start" => d.key \in Keys
  BY <1>2, MadeCalls DEF KeysKnown
<1> QED
  BY <1>1, <1>3 DEF FlowStep, SomeJobStep, KeysKnown

LEMMA PickCandidateKeeps ==
  ASSUME KeysKnown, NEW k \in Keys, PickCandidate(k)
  PROVE  FlowStep
<1>1. candidate' = k /\ UNCHANGED candidates
  BY DEF PickCandidate
<1>2. CASE device = "longfred"
  <2>1. UNCHANGED calls /\ \E o : Program(k, o)
    BY <1>2 DEF PickCandidate
  <2> QED
    BY <1>1, <2>1 DEF FlowStep, SomeJobStep, KeysKnown
<1>3. CASE device # "longfred"
  <2>1. UNCHANGED jobVars /\ calls' = Made(calls, [kind |-> "load", user |-> user])
    BY <1>3 DEF PickCandidate, Calling, jobVars
  <2>2. \A d \in calls' : d.kind = "start" => d.key \in Keys
    BY <2>1, MadeCalls DEF KeysKnown
  <2> QED
    BY <1>1, <2>1, <2>2 DEF FlowStep, SomeJobStep, KeysKnown
<1> QED
  BY <1>2, <1>3

(* The answers *)
LEMMA CallEndsKeeps == ASSUME KeysKnown, CallEnds PROVE FlowStep
<1> PICK c \in calls :
      \/ PinVerified(c) \/ StatusAnswers(c) \/ UnpairDone(c) \/ ListArrives(c)
      \/ ProgramCode(c) \/ NoCode(c) \/ CancelEnds(c) \/ CallFails(c)
  BY DEF CallEnds
<1>1. CASE PinVerified(c)
  <2>1. UNCHANGED <<jobVars, candidates, candidate>>
    BY <1>1 DEF PinVerified, jobVars, scan
  <2>2. \/ calls' = calls \ {c}
        \/ \E s : calls' = Made(calls \ {c}, Status(c.user, s))
    BY <1>1 DEF PinVerified, Returned
  <2>3. \A d \in calls' : d.kind = "start" => d.key \in Keys
    BY <2>2, MadeCalls DEF KeysKnown, Status
  <2> QED
    BY <2>1, <2>3 DEF FlowStep, SomeJobStep, KeysKnown
<1>2. CASE StatusAnswers(c) \/ UnpairDone(c) \/ ListArrives(c) \/ NoCode(c) \/ CancelEnds(c)
           \/ CallFails(c)
  <2>1. UNCHANGED <<jobVars, candidates, candidate>> /\ calls' = calls \ {c}
    BY <1>2 DEF StatusAnswers, UnpairDone, ListArrives, NoCode, CancelEnds, CallFails, Returned,
                jobVars, scan
  <2> QED
    BY <2>1 DEF FlowStep, SomeJobStep, KeysKnown
<1>3. CASE ProgramCode(c)
  <2>1. /\ UNCHANGED <<candidates, candidate>> /\ calls' = calls \ {c}
        /\ c.kind = "start" /\ \E o : Program(c.key, o)
    BY <1>3 DEF ProgramCode, Returned, scan
  <2> QED
    BY <2>1 DEF FlowStep, SomeJobStep, KeysKnown
<1> QED
  BY <1>1, <1>2, <1>3

LEMMA ScanEndsKeeps == ASSUME KeysKnown, ScanEnds PROVE FlowStep
<1>1. UNCHANGED <<jobVars, calls>>
  BY DEF ScanEnds, HelloAnswers, ScanFails, ScanAnswers, jobVars
<1>2. candidates' \subseteq Keys /\ candidate' \in {candidate, None}
  BY DEF ScanEnds, HelloAnswers, ScanFails, ScanAnswers, KeysKnown
<1> QED
  BY <1>1, <1>2 DEF FlowStep, SomeJobStep, KeysKnown

LEMMA JobsKeep ==
  ASSUME KeysKnown, NEW n \in DOMAIN jobs, JobDone(n) \/ JobFails(n) \/ JobGoesOn(n)
  PROVE  FlowStep
<1>1. JobStep(n) \/ ProgramAnswers(n) \/ Resolves(n) \/ Unsuccessful(n)
  BY DEF JobDone, JobFails, JobGoesOn
<1>2. UNCHANGED <<candidates, candidate>>
  BY DEF JobDone, JobFails, JobGoesOn, pageVars, scan
<1>3. \A d \in calls' : d.kind = "start" => d.key \in Keys
  <2>1. CASE UNCHANGED calls
    BY <2>1 DEF KeysKnown
  <2>2. CASE JobFails(n)
    <3>1. UNCHANGED calls \/ \E u, s : calls' = Made(calls, [kind |-> "cancel", user |-> u, station |-> s])
      BY <2>2 DEF JobFails
    <3> QED
      BY <3>1, MadeCalls DEF KeysKnown
  <2> QED
    BY <2>1, <2>2 DEF JobDone, JobGoesOn, pageVars
<1> QED
  BY <1>1, <1>2, <1>3 DEF FlowStep, SomeJobStep, KeysKnown

LEMMA WirelessKeeps == ASSUME KeysKnown, WirelessNext PROVE FlowStep
<1>1. CASE WirelessOperator
  BY <1>1, TurnKeeps, AskKeeps, PickCandidateKeeps DEF WirelessOperator
<1>2. CASE ScanEnds \/ CallEnds
  BY <1>2, ScanEndsKeeps, CallEndsKeeps
<1>3. CASE SomeJob(JobDone) \/ SomeJob(JobFails) \/ SomeJob(JobGoesOn)
  BY <1>3, JobsKeep DEF SomeJob
<1>4. CASE \E p \in DOMAIN pairings : HandsetJoins(p) \/ PairingExpires(p)
  BY <1>4 DEF HandsetJoins, PairingExpires, scan, jobVars, FlowStep, SomeJobStep, KeysKnown
<1> QED
  BY <1>1, <1>2, <1>3, <1>4 DEF WirelessNext, Elsewhere

-----------------------------------------------------------------------------
(* The pages of a FRED *)

LEMMA StepsKeep ==
  ASSUME KeysKnown,
         \/ \E f, t : Steps(f, t)
         \/ AccountNo
         \/ \E f, t : ForgetUser(f, t)
  PROVE  FlowStep
<1>1. UNCHANGED <<jobVars, calls>> /\ \E p : Enter(p)
  BY DEF Steps, AccountNo, ForgetUser, jobVars
<1> QED
  BY <1>1, EnterKeeps DEF FlowStep, SomeJobStep

LEMMA FredKeeps == ASSUME KeysKnown, FredNext PROVE FlowStep
<1>1. CASE \/ AccountYes \/ AccountNo \/ BackFromAddress
           \/ ForgetUser("user", "fredAccountAsk") \/ ForgetUser("fredRoster", "user")
           \/ BackFromZ21 \/ BackFromPlug \/ RetryFred \/ AskLocoRetry
  BY <1>1, StepsKeep DEF AccountYes, BackFromAddress, BackFromZ21, BackFromPlug, RetryFred, AskLocoRetry
<1>2. CASE TypeAddress \/ ConfigPoll
  BY <1>2 DEF TypeAddress, ConfigPoll, wirelessVars, scan, jobVars, FlowStep, SomeJobStep, KeysKnown
<1>3. CASE \E u \in Users : PickFredUser(u)
  <2>1. /\ UNCHANGED <<jobVars, candidates, candidate>>
        /\ \E u : calls' = Made(calls, [kind |-> "load", user |-> u])
    BY <1>3 DEF PickFredUser, Calling, scan, jobVars
  <2>2. \A d \in calls' : d.kind = "start" => d.key \in Keys
    BY <2>1, MadeCalls DEF KeysKnown
  <2> QED
    BY <2>1, <2>2 DEF FlowStep, SomeJobStep, KeysKnown
<1>4. CASE GoAfterFredAddress
  <2>1. UNCHANGED <<jobVars, calls>>
    BY <1>4 DEF GoAfterFredAddress, jobVars
  <2>2. (candidate' = FixedKey /\ UNCHANGED candidates) \/ Enter("fredZ21")
    BY <1>4 DEF GoAfterFredAddress
  <2>3. KeysKnown'
    BY <2>1, <2>2, EnterKeeps, FredAssumption DEF KeysKnown
  <2> QED
    BY <2>1, <2>3 DEF FlowStep, SomeJobStep
<1>5. CASE \E k \in Keys : PickStation(k)
  BY <1>5 DEF PickStation, jobVars, FlowStep, SomeJobStep, KeysKnown
<1>6. CASE StartFredProgramming
  <2>1. UNCHANGED <<candidates, calls>> /\ candidate' \in Keys /\ \E o : Program(candidate', o)
    BY <1>6, FredAssumption DEF StartFredProgramming, KeysKnown
  <2> QED
    BY <2>1 DEF FlowStep, SomeJobStep, KeysKnown
<1> QED
  BY <1>1, <1>2, <1>3, <1>4, <1>5, <1>6 DEF FredNext

LEMMA FlowSteps == ASSUME KeysKnown, [Next]_vars PROVE FlowStep
<1>1. CASE FredNext
  BY <1>1, FredKeeps
<1>2. CASE WirelessNext
  BY <1>2, WirelessKeeps
<1>3. CASE UNCHANGED vars
  BY <1>3 DEF vars, wirelessVars, scan, jobVars, FlowStep, SomeJobStep, KeysKnown
<1> QED
  BY <1>1, <1>2, <1>3 DEF Next

LEMMA KnownAtFirst == Init => JobsInit /\ KeysKnown
  BY DEF Init, WirelessInit, KeysKnown

-----------------------------------------------------------------------------
(* Jobs proceed in turn, and no frame says more than is so. *)
LEMMA JobsProceed == Spec => []JobInv
<1>1. Init => JobInv /\ KeysKnown
  <2> SUFFICES ASSUME Init PROVE JobInv /\ KeysKnown
    OBVIOUS
  <2>1. jobs = <<>> /\ written = [k \in Keys |-> 0] /\ candidates = {} /\ candidate = None /\ calls = {}
    BY DEF Init, WirelessInit, JobsInit, NoJob
  <2>2. jobs \in Seq(JobOf({})) /\ DOMAIN jobs = {}
    BY <2>1
  <2> QED
    BY <2>1, <2>2 DEF JobInv, JobsTyped, InTurn, DoneIsWritten, FramesAreTrue, SuccessIsTrue, KeysKnown
<1>2. JobInv /\ KeysKnown /\ [Next]_vars => (JobInv /\ KeysKnown)'
  <2> SUFFICES ASSUME JobInv, KeysKnown, [Next]_vars PROVE (JobInv /\ KeysKnown)'
    OBVIOUS
  <2>1. FlowStep
    BY FlowSteps
  <2> QED
    BY <2>1, JobStepsKeep DEF FlowStep
<1> QED
  BY <1>1, <1>2, PTL DEF Spec

LEMMA JobsAreTyped == Spec => []JobsTyped
<1>1. JobInv => JobsTyped
  BY DEF JobInv
<1> QED
  BY <1>1, JobsProceed, PTL

(* A success shown by the page is one, and the handset holds what was      *)
(* ordered, or ordered later (wireless.ts:172-180, wireless_api.rs:371-402)*)
THEOREM SuccessesAreTrue == Spec => []SuccessIsTrue
<1>1. JobInv => SuccessIsTrue
  BY DEF JobInv
<1> QED
  BY <1>1, JobsProceed, PTL

-----------------------------------------------------------------------------
(* Handsets as registers *)

(* What has been written was so by a job that has ended. *)
WrittenEnded ==
    \A k \in Keys : written[k] # NoJob =>
        written[k] \in DOMAIN jobs /\ jobs[written[k]].state \in Terminal

(* One call changes, and the others do not. *)
LEMMA OutcomeChanges ==
  ASSUME NEW n \in DOMAIN jobs, NEW j, jobs' = [jobs EXCEPT ![n] = j]
  PROVE  Outcomes' = [Outcomes EXCEPT ![n] = Outcome(j)]
<1>1. DOMAIN jobs' = DOMAIN jobs /\ jobs'[n] = j
      /\ \A m \in DOMAIN jobs : m # n => jobs'[m] = jobs[m]
  OBVIOUS
<1> QED
  BY <1>1 DEF Outcomes

(* A step that nobody sees in the outcomes. *)
LEMMA QuietOutcome ==
  ASSUME NEW n \in DOMAIN jobs, NEW j, jobs' = [jobs EXCEPT ![n] = j], UNCHANGED written,
         Outcome(j) = Outcome(jobs[n])
  PROVE  UNCHANGED Handsets!registerVars
<1>1. Outcomes' = [Outcomes EXCEPT ![n] = Outcomes[n]]
  BY OutcomeChanges DEF Outcomes
<1>2. Outcomes' = Outcomes
  BY <1>1 DEF Outcomes
<1> QED
  BY <1>2 DEF Handsets!registerVars

LEMMA QuietStep ==
  ASSUME JobInv, NEW n \in DOMAIN jobs,
         \/ Accept(n) \/ ReadFrame(n) \/ ReadError(n) \/ ReadFails(n)
         \/ ShowProgress(n) \/ ProgramAnswers(n)
  PROVE  UNCHANGED Handsets!registerVars
<1> PICK O : jobs \in Seq(JobOf(O))
  BY DEF JobInv, JobsTyped
<1>0. jobs[n] \in JobOf(O)
  BY JobIsTyped
<1>1. CASE Accept(n)
  <2> DEFINE j == [jobs[n] EXCEPT !.state = "running"]
  <2>1. j.key = jobs[n].key /\ j.state = "running" /\ jobs[n].state = "asked" /\ j.page = jobs[n].page
    BY <1>0, <1>1 DEF Accept, JobOf
  <2>2. jobs' = [jobs EXCEPT ![n] = j] /\ UNCHANGED written
    BY <1>1 DEF Accept
  <2> HIDE DEF j
  <2>3. Outcome(j) = Outcome(jobs[n])
    BY <2>1 DEF Outcome
  <2> QED
    BY <2>2, <2>3, QuietOutcome
<1>2. CASE ReadFrame(n) \/ ReadError(n) \/ ReadFails(n) \/ ShowProgress(n)
  <2>1. \E f, fs : /\ jobs' = [jobs EXCEPT ![n] = [jobs[n] EXCEPT !.feed = f, !.frames = fs]]
                   /\ UNCHANGED written
    <3>1. CASE ReadFrame(n)
      <4> DEFINE fs == Append(jobs[n].frames, Frame(n))
                 f == IF Frame(n) \in Terminal THEN "closed" ELSE "open"
      <4>1. jobs' = [jobs EXCEPT ![n] = [jobs[n] EXCEPT !.feed = f, !.frames = fs]]
            /\ UNCHANGED written
        BY <3>1, <1>0 DEF ReadFrame, JobOf
      <4> QED
        BY <4>1
    <3>2. CASE ReadError(n)
      <4> DEFINE fs == Append(jobs[n].frames, "error")
      <4>1. jobs' = [jobs EXCEPT ![n] = [jobs[n] EXCEPT !.feed = "closed", !.frames = fs]]
            /\ UNCHANGED written
        BY <3>2, <1>0 DEF ReadError, JobOf
      <4> QED
        BY <4>1
    <3>3. CASE ReadFails(n)
      <4>1. jobs' = [jobs EXCEPT ![n] = [jobs[n] EXCEPT !.feed = "closed", !.frames = jobs[n].frames]]
            /\ UNCHANGED written
        BY <3>3, <1>0 DEF ReadFails, JobOf
      <4> QED
        BY <4>1
    <3>4. CASE ShowProgress(n)
      <4>1. jobs' = [jobs EXCEPT ![n] = [jobs[n] EXCEPT !.feed = jobs[n].feed,
                                                        !.frames = Tail(jobs[n].frames)]]
            /\ UNCHANGED written
        BY <3>4, <1>0 DEF ShowProgress, JobOf
      <4> QED
        BY <4>1
    <3> QED
      BY <1>2, <3>1, <3>2, <3>3, <3>4
  <2>2. PICK f, fs : /\ jobs' = [jobs EXCEPT ![n] = [jobs[n] EXCEPT !.feed = f, !.frames = fs]]
                     /\ UNCHANGED written
    BY <2>1
  <2> DEFINE j == [jobs[n] EXCEPT !.feed = f, !.frames = fs]
  <2>3. j.key = jobs[n].key /\ j.state = jobs[n].state /\ j.page = jobs[n].page
    BY <1>0 DEF JobOf
  <2>4. jobs' = [jobs EXCEPT ![n] = j]
    BY <2>2
  <2> HIDE DEF j
  <2>5. Outcome(j) = Outcome(jobs[n])
    BY <2>3 DEF Outcome
  <2> QED
    BY <2>2, <2>4, <2>5, QuietOutcome
<1>3. CASE ProgramAnswers(n)
  <2> DEFINE j == [jobs[n] EXCEPT !.page = "watching", !.feed = "open"]
  <2>1. /\ j.key = jobs[n].key /\ j.state = jobs[n].state
        /\ j.page = "watching" /\ jobs[n].page = "posted"
    BY <1>0, <1>3 DEF ProgramAnswers, JobOf
  <2>2. jobs' = [jobs EXCEPT ![n] = j] /\ UNCHANGED written
    BY <1>3 DEF ProgramAnswers
  <2> HIDE DEF j
  <2>3. Outcome(j) = Outcome(jobs[n])
    BY <2>1 DEF Outcome
  <2> QED
    BY <2>2, <2>3, QuietOutcome
<1> QED
  BY <1>1, <1>2, <1>3

(* A job that ends has written over nothing later, and now or never. *)
LEMMA EndStep ==
  ASSUME JobInv, WrittenEnded, NEW n \in DOMAIN jobs, NEW s \in Terminal, EndJob(n, s)
  PROVE  Handsets!TakeEffect(n) \/ Handsets!Lapse(n)
<1> PICK O : jobs \in Seq(JobOf(O))
  BY DEF JobInv, JobsTyped
<1>0. jobs[n] \in JobOf(O) /\ n \in Nat \ {0}
  BY JobIsTyped
<1> DEFINE j == [jobs[n] EXCEPT !.state = s]
           e == IF s = "done" THEN "done" ELSE "lapsed"
           k == jobs[n].key
<1>1. j.key = k /\ j.state = s /\ j.page = jobs[n].page /\ jobs[n].state = "running" /\ k \in Keys
  BY <1>0 DEF EndJob, JobOf
<1>2. jobs' = [jobs EXCEPT ![n] = j]
  BY DEF EndJob
<1>3. Outcomes[n] = Outcome(jobs[n]) /\ Outcomes[n].effect = "open" /\ Outcomes[n].register = k
  BY <1>1 DEF Outcomes, Outcome
<1> HIDE DEF j
<1>4. Outcome(j) = [Outcomes[n] EXCEPT !.effect = e]
  BY <1>1, <1>3 DEF Outcome, Terminal
<1>5. Outcomes' = [Outcomes EXCEPT ![n].effect = e]
  <2>1. Outcomes' = [Outcomes EXCEPT ![n] = Outcome(j)]
    BY <1>2, OutcomeChanges
  <2> QED
    BY <1>4, <2>1
<1>6. written[k] < n
  <2>1. written[k] \in Nat
    BY <1>1 DEF JobInv, JobsTyped
  <2>2. CASE written[k] = NoJob
    BY <1>0, <2>2 DEF NoJob
  <2>3. CASE written[k] # NoJob
    <3> DEFINE m == written[k]
    <3>1. m \in DOMAIN jobs /\ jobs[m].state \in Terminal
      BY <1>1, <2>3 DEF WrittenEnded
    <3>2. m # n /\ ~(n < m)
      BY <1>1, <3>1 DEF JobInv, InTurn, Begun, Terminal
    <3> QED
      BY <1>0, <2>1, <3>2
  <2> QED
    BY <2>2, <2>3
<1>7. CASE written' = [written EXCEPT ![k] = n]
  BY <1>3, <1>5, <1>6, <1>7 DEF Handsets!TakeEffect
<1>8. CASE s # "done" /\ UNCHANGED written
  BY <1>3, <1>5, <1>8 DEF Handsets!Lapse
<1> QED
  BY <1>7, <1>8 DEF EndJob

LEMMA RefuseStep ==
  ASSUME JobInv, NEW n \in DOMAIN jobs, Refuse(n)
  PROVE  Handsets!Lapse(n)
<1> PICK O : jobs \in Seq(JobOf(O))
  BY DEF JobInv, JobsTyped
<1>0. jobs[n] \in JobOf(O)
  BY JobIsTyped
<1> DEFINE j == [jobs[n] EXCEPT !.state = "refused"]
<1>1. j.key = jobs[n].key /\ j.state = "refused" /\ j.page = jobs[n].page /\ jobs[n].state = "asked"
  BY <1>0 DEF Refuse, JobOf
<1>2. jobs' = [jobs EXCEPT ![n] = j] /\ UNCHANGED written
  BY DEF Refuse
<1>3. Outcomes[n] = Outcome(jobs[n]) /\ Outcomes[n].effect = "open"
  BY <1>1 DEF Outcomes, Outcome
<1> HIDE DEF j
<1>4. Outcome(j) = [Outcomes[n] EXCEPT !.effect = "lapsed"]
  BY <1>1, <1>3 DEF Outcome
<1> QED
  BY <1>2, <1>3, <1>4, OutcomeChanges DEF Handsets!Lapse

LEMMA ProgramFailsStep ==
  ASSUME JobInv, NEW n \in DOMAIN jobs, ProgramFails(n)
  PROVE  Handsets!Fail(n)
<1> PICK O : jobs \in Seq(JobOf(O))
  BY DEF JobInv, JobsTyped
<1>0. jobs[n] \in JobOf(O)
  BY JobIsTyped
<1>1. PICK s \in {jobs[n].state} \cup (IF jobs[n].state = "asked" THEN {"refused"} ELSE {}) :
        jobs' = [jobs EXCEPT ![n].page = "failed", ![n].state = s]
  BY DEF ProgramFails
<1> DEFINE j == [jobs[n] EXCEPT !.page = "failed", !.state = s]
<1>2. j.key = jobs[n].key /\ j.state = s /\ j.page = "failed" /\ jobs[n].page = "posted"
  BY <1>0 DEF ProgramFails, JobOf
<1>3. jobs' = [jobs EXCEPT ![n] = j] /\ UNCHANGED written
  BY <1>1 DEF ProgramFails
<1>4. Outcomes[n] = Outcome(jobs[n]) /\ Outcomes[n].answer = "none"
  BY <1>2 DEF Outcomes, Outcome
<1> HIDE DEF j
<1>c. Outcomes' = [Outcomes EXCEPT ![n] = Outcome(j)]
  BY <1>3, OutcomeChanges
<1>5. CASE s = jobs[n].state
  <2>1. Outcome(j) = [Outcomes[n] EXCEPT !.answer = "failed"]
    BY <1>2, <1>4, <1>5 DEF Outcome
  <2> QED
    BY <1>3, <1>4, <1>c, <2>1 DEF Handsets!Fail
<1>6. CASE jobs[n].state = "asked" /\ s = "refused"
  <2>1. Outcomes[n].effect = "open"
    BY <1>4, <1>6 DEF Outcome
  <2>2. Outcome(j) = [register |-> jobs[n].key, effect |-> "lapsed", answer |-> "failed"]
    BY <1>2, <1>6 DEF Outcome
  <2>3. jobs[n].key = Outcomes[n].register
    BY <1>4 DEF Outcome
  <2>4. Outcomes[n].answer = "none" /\ UNCHANGED written
    BY <1>3, <1>4
  <2> QED
    BY <1>c, <2>1, <2>2, <2>3, <2>4 DEF Handsets!Fail
<1> QED
  BY <1>1, <1>5, <1>6

LEMMA SettleStep ==
  ASSUME JobInv, NEW n \in DOMAIN jobs, NEW o \in {"succeeded", "failed"}, Settle(n, o),
         o = "succeeded" => jobs[n].state = "done"
  PROVE  Handsets!Succeed(n) \/ Handsets!Fail(n)
<1> PICK O : jobs \in Seq(JobOf(O))
  BY DEF JobInv, JobsTyped
<1>0. jobs[n] \in JobOf(O)
  BY JobIsTyped
<1> DEFINE j == [jobs[n] EXCEPT !.page = o, !.feed = "closed", !.frames = <<>>]
<1>1. j.key = jobs[n].key /\ j.state = jobs[n].state /\ j.page = o /\ jobs[n].page = "watching"
  BY <1>0 DEF Settle, JobOf
<1>2. jobs' = [jobs EXCEPT ![n] = j] /\ UNCHANGED written
  BY DEF Settle
<1>3. Outcomes[n] = Outcome(jobs[n]) /\ Outcomes[n].answer = "none"
  BY <1>1 DEF Outcomes, Outcome
<1> HIDE DEF j
<1>4. Outcome(j) = [Outcomes[n] EXCEPT !.answer = o]
  BY <1>1, <1>3 DEF Outcome
<1>5. Outcomes' = [Outcomes EXCEPT ![n].answer = o]
  BY <1>2, <1>4, OutcomeChanges
<1>6. o = "succeeded" => Outcomes[n].effect = "done"
  BY <1>3 DEF Outcome
<1> QED
  BY <1>2, <1>3, <1>5, <1>6 DEF Handsets!Succeed, Handsets!Fail

LEMMA FunctionIsSeq ==
  ASSUME NEW S, NEW n \in Nat, NEW f \in [1 .. n -> S]
  PROVE  f \in Seq(S) /\ Len(f) = n
  OBVIOUS

LEMMA AppendIs ==
  ASSUME NEW S, NEW s \in Seq(S), NEW x
  PROVE  Append(s, x) = [m \in 1 .. Len(s) + 1 |-> IF m = Len(s) + 1 THEN x ELSE s[m]]
<1> DEFINE T == S \cup {x}
           a == Append(s, x)
<1>1. s \in Seq(T) /\ x \in T
  OBVIOUS
<1>2. /\ a \in Seq(T) /\ Len(a) = Len(s) + 1 /\ Len(s) \in Nat
      /\ \A i \in 1 .. Len(s) : a[i] = s[i]
      /\ a[Len(s) + 1] = x
  BY <1>1, AppendProperties
<1> HIDE DEF a
<1>3. a = [m \in 1 .. Len(a) |-> a[m]]
  BY <1>2, SeqDef
<1>4. \A m \in 1 .. Len(s) + 1 : a[m] = IF m = Len(s) + 1 THEN x ELSE s[m]
  BY <1>2
<1> QED
  BY <1>2, <1>3, <1>4 DEF a

LEMMA ProgramStep ==
  ASSUME JobInv, NEW k \in Keys, NEW o, Program(k, o)
  PROVE  Handsets!Invoke(k)
<1> PICK O : jobs \in Seq(JobOf(O))
  BY DEF JobInv, JobsTyped
<1> DEFINE j == [key |-> k, order |-> o, state |-> "asked", page |-> "posted",
                 feed |-> "closed", frames |-> <<>>]
           c == [register |-> k, effect |-> "open", answer |-> "none"]
           N == Len(jobs)
<1>1. jobs' = Append(jobs, j) /\ UNCHANGED written
  BY DEF Program
<1>2. Outcome(j) = c
  BY DEF Outcome
<1> HIDE DEF j, c
<1>3. /\ DOMAIN jobs = 1 .. N /\ N \in Nat /\ DOMAIN jobs' = 1 .. N + 1
      /\ \A m \in 1 .. N : jobs'[m] = jobs[m]
      /\ jobs'[N + 1] = j
  BY <1>1, LenProperties
<1>4. Outcomes = [m \in 1 .. N |-> Outcome(jobs[m])]
  BY <1>3 DEF Outcomes
<1>5. Outcomes' = [m \in 1 .. N + 1 |-> Outcome(jobs'[m])]
  BY <1>3 DEF Outcomes
<1>6. Outcomes' = Append(Outcomes, c)
  <2>1. Append(Outcomes, c) = [m \in 1 .. N + 1 |-> IF m = N + 1 THEN c ELSE Outcomes[m]]
    <3> DEFINE S == { Outcome(jobs[m]) : m \in 1 .. N }
    <3>1. Outcomes \in [1 .. N -> S]
      BY <1>4
    <3>2. Outcomes \in Seq(S) /\ Len(Outcomes) = N
      BY <1>3, <3>1, FunctionIsSeq
    <3> HIDE DEF S
    <3>3. Append(Outcomes, c) = [m \in 1 .. Len(Outcomes) + 1 |->
                                   IF m = Len(Outcomes) + 1 THEN c ELSE Outcomes[m]]
      BY <3>2, AppendIs
    <3> QED
      BY <3>2, <3>3
  <2>2. \A m \in 1 .. N + 1 : Outcome(jobs'[m]) = IF m = N + 1 THEN c ELSE Outcomes[m]
    BY <1>2, <1>3, <1>4
  <2> QED
    BY <1>5, <2>1, <2>2
<1> QED
  BY <1>1, <1>6 DEF Handsets!Invoke, c

LEMMA StepOfRegister ==
  ASSUME JobInv, WrittenEnded, SomeJobStep
  PROVE  Handsets!RegisterNext \/ UNCHANGED Handsets!registerVars
<1>0. DOMAIN Outcomes = DOMAIN jobs
  BY DEF Outcomes
<1>1. CASE \E k \in Keys : \E o : Program(k, o)
  BY <1>1, ProgramStep DEF Handsets!RegisterNext
<1>2. CASE UNCHANGED jobVars
  BY <1>2 DEF jobVars, Handsets!registerVars, Outcomes
<1>3. ASSUME NEW n \in DOMAIN jobs,
             JobStep(n) \/ ProgramAnswers(n) \/ Resolves(n) \/ Unsuccessful(n)
      PROVE  Handsets!RegisterNext \/ UNCHANGED Handsets!registerVars
  <2>1. CASE \/ Accept(n) \/ ReadFrame(n) \/ ReadError(n) \/ ReadFails(n)
             \/ ShowProgress(n) \/ ProgramAnswers(n)
    BY <2>1, QuietStep
  <2>2. CASE Refuse(n) \/ ProgramFails(n) \/ \E s \in Terminal : EndJob(n, s)
    BY <1>0, <2>2, RefuseStep, ProgramFailsStep, EndStep DEF Handsets!RegisterNext
  <2>3. CASE Resolves(n)
    <3>1. jobs[n].state = "done"
      <4>1. 1 \in DOMAIN jobs[n].frames /\ jobs[n].frames[1] = "done"
        <5>1. PICK O : jobs \in Seq(JobOf(O))
          BY DEF JobInv, JobsTyped
        <5>2. jobs[n].frames \in Seq(Frames)
          BY <5>1, JobIsTyped
        <5> QED
          BY <2>3, <5>2, EmptySeq, LenProperties DEF Resolves
      <4> QED
        BY <4>1 DEF JobInv, FramesAreTrue, Truthful
    <3> QED
      BY <1>0, <2>3, <3>1, SettleStep DEF Resolves, Handsets!RegisterNext
  <2>4. CASE ResolvesNotDone(n) \/ StreamEnds(n) \/ StreamBreaks(n)
    <3>1. Settle(n, "failed")
      BY <2>4 DEF ResolvesNotDone, StreamEnds, StreamBreaks
    <3> QED
      BY <1>0, <3>1, SettleStep DEF Handsets!RegisterNext
  <2> QED
    BY <1>3, <2>1, <2>2, <2>3, <2>4 DEF JobStep, ProgrammerStep, BridgeStep, Unsuccessful
<1> QED
  BY <1>1, <1>2, <1>3 DEF SomeJobStep

(* Of all the steps only the end of a job writes, and none revives a job. *)
LEMMA EndedStaysEnded ==
  ASSUME JobInv, WrittenEnded, SomeJobStep
  PROVE  WrittenEnded'
<1> PICK O : jobs \in Seq(JobOf(O))
  BY DEF JobInv, JobsTyped
<1>0. written \in [Keys -> Nat]
  BY DEF JobInv, JobsTyped
<1>1. ASSUME UNCHANGED written, DOMAIN jobs \subseteq DOMAIN jobs',
             \A m \in DOMAIN jobs : jobs[m].state \in Terminal => jobs'[m].state \in Terminal
      PROVE  WrittenEnded'
  BY <1>1 DEF WrittenEnded
<1>2. ASSUME NEW k \in Keys, NEW o, Program(k, o) PROVE WrittenEnded'
  <2>1. /\ DOMAIN jobs \subseteq DOMAIN jobs' /\ UNCHANGED written
        /\ \A m \in DOMAIN jobs : jobs'[m] = jobs[m]
    BY <1>2, LenProperties DEF Program
  <2> QED
    BY <1>1, <2>1
<1>3. CASE UNCHANGED jobVars
  BY <1>1, <1>3 DEF jobVars
<1>4. ASSUME NEW n \in DOMAIN jobs,
             JobStep(n) \/ ProgramAnswers(n) \/ Resolves(n) \/ Unsuccessful(n)
      PROVE  WrittenEnded'
  <2>0. jobs[n] \in JobOf(O)
    BY JobIsTyped
  <2>1. ASSUME NEW s \in Terminal, EndJob(n, s) PROVE WrittenEnded'
    <3>1. /\ DOMAIN jobs' = DOMAIN jobs /\ jobs'[n].state = s
          /\ \A m \in DOMAIN jobs : m # n => jobs'[m] = jobs[m]
      BY <2>0, <2>1 DEF EndJob, JobOf
    <3>2. \A k \in Keys : written'[k] = written[k] \/ written'[k] = n
      BY <1>0, <2>1 DEF EndJob
    <3> QED
      BY <3>1, <3>2 DEF WrittenEnded
  <2>2. CASE ~\E s \in Terminal : EndJob(n, s)
    <3>1. /\ DOMAIN jobs' = DOMAIN jobs /\ UNCHANGED written
          /\ \A m \in DOMAIN jobs : m # n => jobs'[m] = jobs[m]
          /\ jobs[n].state \in Terminal => jobs'[n].state = jobs[n].state
      <4>1. CASE Accept(n) \/ Refuse(n) \/ ProgramFails(n)
        BY <2>0, <4>1 DEF Accept, Refuse, ProgramFails, JobOf, Terminal
      <4>2. CASE ReadFrame(n) \/ ReadError(n) \/ ReadFails(n) \/ ShowProgress(n) \/ ProgramAnswers(n)
        BY <2>0, <4>2 DEF ReadFrame, ReadError, ReadFails, ShowProgress, ProgramAnswers, JobOf
      <4>3. ASSUME NEW x, Settle(n, x)
            PROVE  /\ DOMAIN jobs' = DOMAIN jobs /\ UNCHANGED written
                   /\ \A m \in DOMAIN jobs : m # n => jobs'[m] = jobs[m]
                   /\ jobs'[n].state = jobs[n].state
        BY <2>0, <4>3 DEF Settle, JobOf
      <4> QED
        BY <1>4, <2>2, <4>1, <4>2, <4>3
           DEF JobStep, ProgrammerStep, BridgeStep, Unsuccessful, Resolves, ResolvesNotDone,
               StreamEnds, StreamBreaks
    <3> QED
      BY <1>1, <3>1
  <2> QED
    BY <2>1, <2>2
<1> QED
  BY <1>2, <1>3, <1>4 DEF SomeJobStep

LEMMA NothingWritten ==
  ASSUME JobsInit PROVE JobInv /\ WrittenEnded /\ Handsets!RegisterInit
<1>1. jobs = <<>> /\ written = [k \in Keys |-> 0] /\ DOMAIN jobs = {}
  BY DEF JobsInit, NoJob
<1>2. jobs \in Seq(JobOf({}))
  BY <1>1
<1>3. Outcomes = <<>>
  BY <1>1 DEF Outcomes
<1> QED
  BY <1>1, <1>2, <1>3
     DEF JobInv, JobsTyped, InTurn, DoneIsWritten, FramesAreTrue, SuccessIsTrue, WrittenEnded,
         NoJob, Handsets!RegisterInit

(* Programmer, bridge and page implement numbered writes to registers,     *)
(* which take effect once and in order: for any number of jobs, handsets   *)
(* and orders and any queue of the bridge, whatever is refused, fails or   *)
(* is lost (wireless.ts:147-195, wireless_api.rs:300-402).                 *)
THEOREM JobsAreRegisters == JobSpec => HandsetsAreRegisters
<1>1. JobNext => SomeJobStep
  BY DEF JobNext, SomeJobStep
<1>2. JobInv /\ WrittenEnded /\ [JobNext]_jobVars
        => (JobInv /\ WrittenEnded)' /\ [Handsets!RegisterNext]_(Handsets!registerVars)
  <2> SUFFICES ASSUME JobInv, WrittenEnded, [JobNext]_jobVars
               PROVE  /\ (JobInv /\ WrittenEnded)'
                      /\ Handsets!RegisterNext \/ UNCHANGED Handsets!registerVars
    OBVIOUS
  <2>1. SomeJobStep
    BY <1>1 DEF SomeJobStep
  <2> QED
    BY <2>1, JobStepsKeep, EndedStaysEnded, StepOfRegister
<1> QED
  BY <1>2, NothingWritten, PTL DEF JobSpec, HandsetsAreRegisters, Handsets!RegisterSpec

(* The pages use the programmer in no other way: whatever operators,       *)
(* participants and BigFred do, and however often an order is given again. *)
THEOREM PagesUseRegisters == Spec => HandsetsAreRegisters
<1>1. JobInv /\ WrittenEnded /\ KeysKnown /\ [Next]_vars
        => /\ (JobInv /\ WrittenEnded /\ KeysKnown)'
           /\ [Handsets!RegisterNext]_(Handsets!registerVars)
  <2> SUFFICES ASSUME JobInv, WrittenEnded, KeysKnown, [Next]_vars
               PROVE  /\ (JobInv /\ WrittenEnded /\ KeysKnown)'
                      /\ Handsets!RegisterNext \/ UNCHANGED Handsets!registerVars
    OBVIOUS
  <2>1. SomeJobStep /\ KeysKnown'
    BY FlowSteps DEF FlowStep
  <2> QED
    BY <2>1, JobStepsKeep, EndedStaysEnded, StepOfRegister
<1> QED
  BY <1>1, KnownAtFirst, NothingWritten, PTL DEF Spec, HandsetsAreRegisters, Handsets!RegisterSpec

-----------------------------------------------------------------------------
(* Pairings: whose they are does not matter here, only that it does not    *)
(* change.                                                                 *)
PairingOf(U, T) ==
    [user : U, station : T, state : {"open", "closed", "expired", "joined"}]

PairingsTyped == \E U, T : pairings \in Seq(PairingOf(U, T))

CodesInv == JobsTyped /\ PairingsTyped /\ FailedCodesAreCancelled

(* No pairing opens, and none changes hands. *)
NoneOpens ==
    /\ DOMAIN pairings' = DOMAIN pairings
    /\ \A p \in DOMAIN pairings :
         /\ pairings'[p].user = pairings[p].user /\ pairings'[p].station = pairings[p].station
         /\ pairings'[p].state = "open" => Open(p)

(* The jobs keep their orders, and none of them fails the page. *)
JobsGoOn ==
    \A n \in DOMAIN jobs :
        /\ n \in DOMAIN jobs' /\ jobs'[n].order = jobs[n].order
        /\ jobs'[n].page = "failed" => jobs[n].page = "failed"

CancelsGoOn == \A c \in calls : c.kind = "cancel" => c \in calls'

LEMMA SetOpensNone ==
  ASSUME PairingsTyped, NEW n \in DOMAIN pairings, NEW s \in {"closed", "expired", "joined"},
         pairings' = Set(n, s)
  PROVE  PairingsTyped' /\ NoneOpens
<1> PICK U, T : pairings \in Seq(PairingOf(U, T))
  BY DEF PairingsTyped
<1> DEFINE q == [pairings[n] EXCEPT !.state = s]
<1>1. pairings[n] \in PairingOf(U, T) /\ n \in 1 .. Len(pairings)
  BY ElementOfSeq, LenProperties
<1>2. q \in PairingOf(U, T) /\ q.user = pairings[n].user /\ q.station = pairings[n].station
      /\ q.state = s
  BY <1>1 DEF PairingOf
<1>3. pairings' = [pairings EXCEPT ![n] = q]
  BY DEF Set
<1> HIDE DEF q
<1>4. /\ pairings' \in Seq(PairingOf(U, T)) /\ DOMAIN pairings' = DOMAIN pairings
      /\ pairings'[n] = q /\ \A m \in DOMAIN pairings : m # n => pairings'[m] = pairings[m]
  BY <1>1, <1>2, <1>3, ExceptSeq, LenProperties
<1> QED
  BY <1>2, <1>4 DEF PairingsTyped, NoneOpens, Open

LEMMA ClosedProperties ==
  ASSUME NEW U, NEW T, pairings \in Seq(PairingOf(U, T)), NEW u, NEW s
  PROVE  /\ Closed(u, s) \in Seq(PairingOf(U, T)) /\ Len(Closed(u, s)) = Len(pairings)
         /\ DOMAIN Closed(u, s) = DOMAIN pairings
         /\ \A p \in DOMAIN pairings :
              /\ Closed(u, s)[p].user = pairings[p].user
              /\ Closed(u, s)[p].station = pairings[p].station
              /\ Closed(u, s)[p].state = "open" =>
                   Open(p) /\ ~(pairings[p].user = u /\ pairings[p].station = s)
<1> DEFINE e(p) == IF pairings[p].user = u /\ pairings[p].station = s /\ Open(p)
                   THEN [pairings[p] EXCEPT !.state = "closed"] ELSE pairings[p]
<1>1. DOMAIN pairings = 1 .. Len(pairings) /\ Len(pairings) \in Nat
  BY LenProperties
<1>2. \A p \in DOMAIN pairings :
        /\ e(p) \in PairingOf(U, T)
        /\ e(p).user = pairings[p].user /\ e(p).station = pairings[p].station
        /\ e(p).state = "open" => Open(p) /\ ~(pairings[p].user = u /\ pairings[p].station = s)
  <2> TAKE p \in DOMAIN pairings
  <2>1. pairings[p] \in PairingOf(U, T)
    BY <1>1, ElementOfSeq
  <2> QED
    BY <2>1 DEF PairingOf, Open
<1>3. Closed(u, s) = [p \in DOMAIN pairings |-> e(p)]
  BY DEF Closed
<1> HIDE DEF e
<1>4. Closed(u, s) \in [1 .. Len(pairings) -> PairingOf(U, T)]
  BY <1>1, <1>2, <1>3
<1> QED
  BY <1>1, <1>2, <1>3, <1>4, FunctionIsSeq

LEMMA ClosedOpensNone ==
  ASSUME PairingsTyped, NEW u, NEW s, pairings' = Closed(u, s)
  PROVE  PairingsTyped' /\ NoneOpens
<1> PICK U, T : pairings \in Seq(PairingOf(U, T))
  BY DEF PairingsTyped
<1> QED
  BY ClosedProperties DEF PairingsTyped, NoneOpens

LEMMA UnpairedOpensNone ==
  ASSUME PairingsTyped, NEW u, NEW s, NEW k, Unpaired(u, s, k)
  PROVE  PairingsTyped' /\ NoneOpens
<1>1. CASE UNCHANGED pairings
  BY <1>1 DEF PairingsTyped, NoneOpens, Open
<1>2. CASE \E h \in DOMAIN pairings : pairings' = Set(h, "closed")
  BY <1>2, SetOpensNone
<1> QED
  BY <1>1, <1>2 DEF Unpaired, bigfred

(* What opens no pairing, fails no job and forgets no cancellation         *)
LEMMA CodesKept ==
  ASSUME CodesInv, NoneOpens, JobsGoOn, CancelsGoOn, UNCHANGED uncancelled
  PROVE  FailedCodesAreCancelled'
<1> SUFFICES ASSUME ~uncancelled, NEW p \in DOMAIN pairings, pairings'[p].state = "open"
             PROVE  \/ \E n \in DOMAIN jobs' : jobs'[n].order.code = p /\ jobs'[n].page # "failed"
                    \/ \E c \in calls' : /\ c.kind = "cancel" /\ c.user = pairings'[p].user
                                         /\ c.station = pairings'[p].station
  BY DEF FailedCodesAreCancelled, NoneOpens, Open
<1>1. Open(p) /\ pairings'[p].user = pairings[p].user /\ pairings'[p].station = pairings[p].station
  BY DEF NoneOpens
<1>2. CASE \E n \in DOMAIN jobs : jobs[n].order.code = p /\ jobs[n].page # "failed"
  BY <1>2 DEF JobsGoOn
<1>3. CASE \E c \in calls : /\ c.kind = "cancel"
                           /\ c.user = pairings[p].user /\ c.station = pairings[p].station
  BY <1>1, <1>3 DEF CancelsGoOn
<1> QED
  BY <1>1, <1>2, <1>3 DEF CodesInv, FailedCodesAreCancelled

LEMMA SameJobsGoOn == ASSUME UNCHANGED jobs PROVE JobsGoOn
  BY DEF JobsGoOn

LEMMA SamePairingsOpenNone ==
  ASSUME PairingsTyped, UNCHANGED pairings
  PROVE  PairingsTyped' /\ NoneOpens
  BY DEF PairingsTyped, NoneOpens, Open

LEMMA MadeGoesOn == ASSUME NEW c, calls' = Made(calls, c) PROVE CancelsGoOn
  BY DEF Made, CancelsGoOn

-----------------------------------------------------------------------------
LEMMA JobStepsGoOn ==
  ASSUME JobsTyped, NEW n \in DOMAIN jobs, JobStep(n) \/ ProgramAnswers(n) \/ Resolves(n)
  PROVE  JobsGoOn
<1> PICK O : jobs \in Seq(JobOf(O))
  BY DEF JobsTyped
<1>0. jobs[n] \in JobOf(O)
  BY JobIsTyped
<1>1. CASE Accept(n)
  BY <1>0, <1>1 DEF Accept, JobOf, JobsGoOn
<1>2. CASE Refuse(n)
  BY <1>0, <1>2 DEF Refuse, JobOf, JobsGoOn
<1>3. ASSUME NEW s, EndJob(n, s) PROVE JobsGoOn
  BY <1>0, <1>3 DEF EndJob, JobOf, JobsGoOn
<1>4. CASE ReadFrame(n)
  BY <1>0, <1>4 DEF ReadFrame, JobOf, JobsGoOn
<1>5. CASE ReadError(n)
  BY <1>0, <1>5 DEF ReadError, JobOf, JobsGoOn
<1>6. CASE ReadFails(n)
  BY <1>0, <1>6 DEF ReadFails, JobOf, JobsGoOn
<1>7. CASE ShowProgress(n)
  BY <1>0, <1>7 DEF ShowProgress, JobOf, JobsGoOn
<1>8. CASE ProgramAnswers(n)
  BY <1>0, <1>8 DEF ProgramAnswers, JobOf, JobsGoOn
<1>9. CASE Resolves(n)
  BY <1>0, <1>9 DEF Resolves, Settle, JobOf, JobsGoOn
<1> QED
  BY <1>1, <1>2, <1>3, <1>4, <1>5, <1>6, <1>7, <1>8, <1>9 DEF JobStep, ProgrammerStep, BridgeStep

LEMMA UnsuccessfulChangesOne ==
  ASSUME JobsTyped, NEW n \in DOMAIN jobs, Unsuccessful(n)
  PROVE  /\ DOMAIN jobs' = DOMAIN jobs
         /\ \A m \in DOMAIN jobs : /\ jobs'[m].order = jobs[m].order
                                   /\ m # n => jobs'[m].page = jobs[m].page
<1> PICK O : jobs \in Seq(JobOf(O))
  BY DEF JobsTyped
<1>0. jobs[n] \in JobOf(O)
  BY JobIsTyped
<1>1. CASE ProgramFails(n)
  BY <1>0, <1>1 DEF ProgramFails, JobOf
<1>2. CASE ResolvesNotDone(n) \/ StreamEnds(n) \/ StreamBreaks(n)
  <2>1. Settle(n, "failed")
    BY <1>2 DEF ResolvesNotDone, StreamEnds, StreamBreaks
  <2> QED
    BY <1>0, <2>1 DEF Settle, JobOf
<1> QED
  BY <1>1, <1>2 DEF Unsuccessful

LEMMA ProgramGoesOn ==
  ASSUME JobsTyped, NEW k, NEW o, Program(k, o)
  PROVE  /\ JobsGoOn
         /\ \E n \in DOMAIN jobs' : jobs'[n].order = o /\ jobs'[n].page = "posted"
<1> PICK O : jobs \in Seq(JobOf(O))
  BY DEF JobsTyped
<1> DEFINE j == [key |-> k, order |-> o, state |-> "asked", page |-> "posted",
                 feed |-> "closed", frames |-> <<>>]
<1>1. jobs' = Append(jobs, j)
  BY DEF Program
<1>2. jobs \in Seq(JobOf(O) \cup {j})
  BY SeqMonotonic
<1>3. /\ DOMAIN jobs' = 1 .. Len(jobs) + 1 /\ DOMAIN jobs = 1 .. Len(jobs) /\ Len(jobs) \in Nat
      /\ \A m \in DOMAIN jobs : jobs'[m] = jobs[m]
      /\ jobs'[Len(jobs) + 1] = j
  BY <1>1, <1>2, AppendProperties, LenProperties
<1>4. j.order = o /\ j.page = "posted"
  OBVIOUS
<1> HIDE DEF j
<1> QED
  BY <1>3, <1>4 DEF JobsGoOn

CodesStep == PairingsTyped' /\ FailedCodesAreCancelled'

(* Steps that neither open nor end anything *)
LEMMA QuietKeepsCodes ==
  ASSUME CodesInv, UNCHANGED pairings, UNCHANGED uncancelled, JobsGoOn, CancelsGoOn
  PROVE  CodesStep
  BY SamePairingsOpenNone, CodesKept DEF CodesInv, CodesStep

LEMMA OperatorKeepsCodes == ASSUME CodesInv, WirelessOperator PROVE CodesStep
<1>1. UNCHANGED pairings /\ UNCHANGED uncancelled
  BY DEF WirelessOperator, PickUser, EnterPin, SubmitPin, StartAtStation, Replace, Keep,
         StartProgramming, RetryScan, ChooseStation, Toggle, PickCandidate, Turn, Leave,
         bigfred, marks
<1>2. CancelsGoOn
  <2>1. CASE UNCHANGED calls
    BY <2>1 DEF CancelsGoOn
  <2>2. CASE \E c : calls' = Made(calls, c)
    BY <2>2, MadeGoesOn
  <2>3. CASE Leave
    BY <2>3 DEF Leave, CancelsGoOn
  <2>4. SubmitPin \/ StartAtStation \/ Replace \/ StartProgramming => \E c : calls' = Made(calls, c)
    BY DEF SubmitPin, StartAtStation, Replace, StartProgramming, Calling
  <2>5. \A k \in Keys : PickCandidate(k) => UNCHANGED calls \/ \E c : calls' = Made(calls, c)
    BY DEF PickCandidate, Calling
  <2>6. (\E u \in Users : PickUser(u)) \/ EnterPin \/ Keep \/ RetryScan
        \/ (\E s \in Stations : ChooseStation(s)) \/ (\E v \in Vehicles : Toggle(v))
        \/ (\E f, t : Turn(f, t)) => UNCHANGED calls
    BY DEF PickUser, EnterPin, Keep, RetryScan, ChooseStation, Toggle, Turn
  <2> QED
    BY <2>1, <2>2, <2>3, <2>4, <2>5, <2>6 DEF WirelessOperator
<1>3. JobsGoOn
  <2>1. CASE \E k \in Keys : PickCandidate(k)
    <3>1. UNCHANGED jobs \/ \E k, o : Program(k, o)
      BY <2>1 DEF PickCandidate, jobVars
    <3> QED
      BY <3>1, SameJobsGoOn, ProgramGoesOn DEF CodesInv
  <2>2. CASE ~\E k \in Keys : PickCandidate(k)
    <3>1. UNCHANGED jobs
      BY <2>2 DEF WirelessOperator, PickUser, EnterPin, SubmitPin, StartAtStation, Replace, Keep,
         StartProgramming, RetryScan, ChooseStation, Toggle, Turn, Leave, jobVars
    <3> QED
      BY <3>1, SameJobsGoOn
  <2> QED
    BY <2>1, <2>2
<1> QED
  BY <1>1, <1>2, <1>3, QuietKeepsCodes

(* A code is handed out together with the job that writes it. *)
LEMMA ProgramCodeKeeps == ASSUME CodesInv, NEW c \in calls, ProgramCode(c) PROVE CodesStep
<1> PICK U, T : pairings \in Seq(PairingOf(U, T))
  BY DEF CodesInv, PairingsTyped
<1> DEFINE U2 == U \cup {c.user}
           T2 == T \cup {c.station}
           q == [user |-> c.user, station |-> c.station, state |-> "open"]
           cl == Closed(c.user, c.station)
           o == Order(c.user, None, Len(pairings) + 1, c.roster)
<1>1. cl \in Seq(PairingOf(U2, T2)) /\ Len(cl) = Len(pairings) /\ DOMAIN cl = DOMAIN pairings
      /\ q \in PairingOf(U2, T2) /\ Len(pairings) \in Nat /\ DOMAIN pairings = 1 .. Len(pairings)
  <2>1. PairingOf(U, T) \subseteq PairingOf(U2, T2)
    BY DEF PairingOf
  <2>2. cl \in Seq(PairingOf(U, T)) /\ Len(cl) = Len(pairings) /\ DOMAIN cl = DOMAIN pairings
    BY ClosedProperties
  <2>3. q \in PairingOf(U2, T2)
    BY DEF PairingOf
  <2> HIDE DEF cl, q, U2, T2
  <2> QED
    <3>1. cl \in Seq(PairingOf(U2, T2))
      BY <2>1, <2>2, SeqMonotonic
    <3>2. Len(pairings) \in Nat /\ DOMAIN pairings = 1 .. Len(pairings)
      BY LenProperties
    <3> QED
      BY <2>2, <2>3, <3>1, <3>2
<1>2. pairings' = Append(cl, q)
  BY DEF ProgramCode, Opened
<1>3. /\ pairings' \in Seq(PairingOf(U2, T2)) /\ DOMAIN pairings' = 1 .. Len(pairings) + 1
      /\ \A p \in DOMAIN pairings : pairings'[p] = cl[p]
  BY <1>1, <1>2, AppendProperties, LenProperties
<1>4. PairingsTyped'
  BY <1>3 DEF PairingsTyped
<1>5. JobsGoOn /\ \E n \in DOMAIN jobs' : jobs'[n].order = o /\ jobs'[n].page = "posted"
  BY ProgramGoesOn DEF ProgramCode, CodesInv
<1>6. o.code = Len(pairings) + 1
  BY DEF Order
<1>7. calls' = calls \ {c} /\ c.kind = "start" /\ UNCHANGED uncancelled
  BY DEF ProgramCode, Returned, marks
<1>8. \A p \in DOMAIN pairings :
        /\ cl[p].user = pairings[p].user /\ cl[p].station = pairings[p].station
        /\ cl[p].state = "open" => Open(p)
  BY ClosedProperties
<1> HIDE DEF cl, q, o
<1>9. FailedCodesAreCancelled'
  <2> SUFFICES ASSUME ~uncancelled, NEW p \in DOMAIN pairings', pairings'[p].state = "open"
               PROVE  \/ \E n \in DOMAIN jobs' : jobs'[n].order.code = p /\ jobs'[n].page # "failed"
                      \/ \E d \in calls' : /\ d.kind = "cancel" /\ d.user = pairings'[p].user
                                           /\ d.station = pairings'[p].station
    BY <1>7 DEF FailedCodesAreCancelled, Open
  <2>1. CASE p = Len(pairings) + 1
    BY <2>1, <1>5, <1>6
  <2>2. CASE p \in DOMAIN pairings
    <3>1. Open(p) /\ pairings'[p].user = pairings[p].user /\ pairings'[p].station = pairings[p].station
      BY <2>2, <1>3, <1>8
    <3>2. CASE \E n \in DOMAIN jobs : jobs[n].order.code = p /\ jobs[n].page # "failed"
      BY <3>2, <1>5 DEF JobsGoOn
    <3>3. CASE \E d \in calls : /\ d.kind = "cancel"
                               /\ d.user = pairings[p].user /\ d.station = pairings[p].station
      BY <3>1, <3>3, <1>7
    <3> QED
      BY <2>2, <3>1, <3>2, <3>3 DEF CodesInv, FailedCodesAreCancelled
  <2> QED
    BY <2>1, <2>2, <1>1, <1>3
<1> QED
  BY <1>4, <1>9 DEF CodesStep

(* A cancellation that arrives closes what it is for. *)
LEMMA CancelEndsKeeps == ASSUME CodesInv, NEW c \in calls, CancelEnds(c) PROVE CodesStep
<1> PICK U, T : pairings \in Seq(PairingOf(U, T))
  BY DEF CodesInv, PairingsTyped
<1>1. calls' = calls \ {c} /\ UNCHANGED jobs
  BY DEF CancelEnds, Returned, jobVars
<1>2. CASE uncancelled' /\ UNCHANGED pairings
  BY <1>2, SamePairingsOpenNone DEF CodesInv, CodesStep, FailedCodesAreCancelled
<1>3. CASE pairings' = Closed(c.user, c.station) /\ UNCHANGED uncancelled
  <2>1. PairingsTyped'
    BY <1>3, ClosedOpensNone DEF CodesInv
  <2>2. /\ DOMAIN pairings' = DOMAIN pairings
        /\ \A p \in DOMAIN pairings :
             /\ pairings'[p].user = pairings[p].user /\ pairings'[p].station = pairings[p].station
             /\ pairings'[p].state = "open" =>
                  Open(p) /\ ~(pairings[p].user = c.user /\ pairings[p].station = c.station)
    BY <1>3, ClosedProperties
  <2>3. FailedCodesAreCancelled'
    <3> SUFFICES ASSUME ~uncancelled, NEW p \in DOMAIN pairings, pairings'[p].state = "open"
                 PROVE  \/ \E n \in DOMAIN jobs : jobs[n].order.code = p /\ jobs[n].page # "failed"
                        \/ \E d \in calls' : /\ d.kind = "cancel" /\ d.user = pairings'[p].user
                                             /\ d.station = pairings'[p].station
      BY <1>1, <1>3, <2>2 DEF FailedCodesAreCancelled, Open
    <3> QED
      BY <1>1, <2>2 DEF CodesInv, FailedCodesAreCancelled
  <2> QED
    BY <2>1, <2>3 DEF CodesStep
<1> QED
  BY <1>2, <1>3 DEF CancelEnds

LEMMA CallEndsKeepsCodes == ASSUME CodesInv, CallEnds PROVE CodesStep
<1> PICK c \in calls :
      \/ PinVerified(c) \/ StatusAnswers(c) \/ UnpairDone(c) \/ ListArrives(c)
      \/ ProgramCode(c) \/ NoCode(c) \/ CancelEnds(c) \/ CallFails(c)
  BY DEF CallEnds
<1>1. CASE PinVerified(c) \/ StatusAnswers(c) \/ ListArrives(c)
  <2>1. UNCHANGED pairings /\ UNCHANGED jobs /\ UNCHANGED uncancelled
    BY <1>1 DEF PinVerified, StatusAnswers, ListArrives, bigfred, jobVars
  <2>2. c.kind # "cancel"
        /\ (calls' = calls \ {c} \/ \E d : calls' = Made(calls \ {c}, d))
    BY <1>1 DEF PinVerified, StatusAnswers, ListArrives, Returned
  <2>3. CancelsGoOn
    BY <2>2 DEF CancelsGoOn, Made
  <2> QED
    BY <2>1, <2>3, SameJobsGoOn, QuietKeepsCodes
<1>2. CASE UnpairDone(c) \/ NoCode(c) \/ CallFails(c)
  <2>1. UNCHANGED jobs /\ UNCHANGED uncancelled /\ calls' = calls \ {c} /\ c.kind # "cancel"
    BY <1>2 DEF UnpairDone, NoCode, CallFails, Returned, marks, jobVars
  <2>2. PairingsTyped' /\ NoneOpens
    <3>1. CASE UNCHANGED pairings
      BY <3>1, SamePairingsOpenNone DEF CodesInv
    <3>2. CASE \E u, s, k : Unpaired(u, s, k)
      BY <3>2, UnpairedOpensNone DEF CodesInv
    <3>3. CASE \E u, s : pairings' = Closed(u, s)
      BY <3>3, ClosedOpensNone DEF CodesInv
    <3>4. UNCHANGED pairings \/ (\E u, s, k : Unpaired(u, s, k)) \/ (\E u, s : pairings' = Closed(u, s))
      BY <1>2 DEF UnpairDone, NoCode, CallFails, bigfred
    <3> QED
      BY <3>1, <3>2, <3>3, <3>4
  <2>3. CancelsGoOn
    BY <2>1 DEF CancelsGoOn
  <2> QED
    BY <2>1, <2>2, <2>3, SameJobsGoOn, CodesKept DEF CodesStep
<1> QED
  BY <1>1, <1>2, ProgramCodeKeeps, CancelEndsKeeps

(* A job that fails the page leaves a cancellation behind. *)
LEMMA JobFailsKeepsCodes ==
  ASSUME CodesInv, NEW n \in DOMAIN jobs, JobFails(n)
  PROVE  CodesStep
<1> DEFINE code == jobs[n].order.code
<1>1. /\ UNCHANGED pairings /\ UNCHANGED uncancelled
      /\ DOMAIN jobs' = DOMAIN jobs
      /\ \A m \in DOMAIN jobs : /\ jobs'[m].order = jobs[m].order
                                /\ m # n => jobs'[m].page = jobs[m].page
  BY UnsuccessfulChangesOne DEF JobFails, CodesInv, bigfred, marks
<1>2. PairingsTyped' /\ NoneOpens
  BY <1>1, SamePairingsOpenNone DEF CodesInv
<1>3. \A d \in calls : d \in calls'
  BY DEF JobFails, Made
<1>4. code \in DOMAIN pairings =>
        \E d \in calls' : /\ d.kind = "cancel" /\ d.user = pairings[code].user
                          /\ d.station = pairings[code].station
  <2> SUFFICES ASSUME code \in DOMAIN pairings
               PROVE  \E d \in calls' : /\ d.kind = "cancel" /\ d.user = pairings[code].user
                                        /\ d.station = pairings[code].station
    OBVIOUS
  <2> DEFINE r == [kind |-> "cancel", user |-> pairings[code].user,
                   station |-> pairings[code].station]
             d == Marked(r, Marked(r, FALSE) \in calls)
  <2>1. code # NoPairing
    <3> PICK U, T : pairings \in Seq(PairingOf(U, T))
      BY DEF CodesInv, PairingsTyped
    <3> QED
      BY LenProperties DEF NoPairing
  <2>2. calls' = calls \cup {d}
    BY <2>1 DEF JobFails, Made
  <2>3. d.kind = "cancel" /\ d.user = pairings[code].user /\ d.station = pairings[code].station
    BY DEF Marked
  <2> HIDE DEF d
  <2> QED
    BY <2>2, <2>3
<1>5. FailedCodesAreCancelled'
  <2> SUFFICES ASSUME ~uncancelled, NEW p \in DOMAIN pairings, Open(p)
               PROVE  \/ \E m \in DOMAIN jobs : jobs[m].order.code = p /\ jobs'[m].page # "failed"
                      \/ \E d \in calls' : /\ d.kind = "cancel" /\ d.user = pairings[p].user
                                           /\ d.station = pairings[p].station
    BY <1>1 DEF FailedCodesAreCancelled, Open
  <2>1. CASE p = code
    BY <2>1, <1>4
  <2>2. CASE p # code
    BY <2>2, <1>1, <1>3 DEF CodesInv, FailedCodesAreCancelled
  <2> QED
    BY <2>1, <2>2
<1> QED
  BY <1>2, <1>5 DEF CodesStep

LEMMA WirelessKeepsCodes == ASSUME CodesInv, WirelessNext PROVE CodesStep
<1>1. CASE WirelessOperator
  BY <1>1, OperatorKeepsCodes
<1>2. CASE ScanEnds
  <2>1. UNCHANGED pairings /\ UNCHANGED uncancelled /\ UNCHANGED jobs /\ UNCHANGED calls
    BY <1>2 DEF ScanEnds, HelloAnswers, ScanFails, ScanAnswers, bigfred, marks, jobVars
  <2> QED
    BY <2>1, SameJobsGoOn, QuietKeepsCodes DEF CancelsGoOn
<1>3. CASE CallEnds
  BY <1>3, CallEndsKeepsCodes
<1>4. ASSUME NEW n \in DOMAIN jobs, JobDone(n) \/ JobGoesOn(n) PROVE CodesStep
  <2>1. UNCHANGED pairings /\ UNCHANGED uncancelled /\ UNCHANGED calls
    BY <1>4 DEF JobDone, JobGoesOn, pageVars, bigfred, marks
  <2>2. JobsGoOn
    BY <1>4, JobStepsGoOn DEF JobDone, JobGoesOn, CodesInv
  <2> QED
    BY <2>1, <2>2, QuietKeepsCodes DEF CancelsGoOn
<1>5. ASSUME NEW p \in DOMAIN pairings, HandsetJoins(p) \/ PairingExpires(p) PROVE CodesStep
  <2>1. UNCHANGED uncancelled /\ UNCHANGED calls /\ UNCHANGED jobs
        /\ \E s \in {"joined", "expired"} : pairings' = Set(p, s)
    BY <1>5 DEF HandsetJoins, PairingExpires, Joins, Expires, marks, jobVars
  <2>2. PairingsTyped' /\ NoneOpens
    BY <2>1, SetOpensNone DEF CodesInv
  <2> QED
    BY <2>1, <2>2, SameJobsGoOn, CodesKept DEF CancelsGoOn, CodesStep
<1> QED
  BY <1>1, <1>2, <1>3, <1>4, <1>5, JobFailsKeepsCodes DEF WirelessNext, Elsewhere, SomeJob

LEMMA FredKeepsCodes == ASSUME CodesInv, FredNext PROVE CodesStep
<1>1. UNCHANGED pairings /\ UNCHANGED uncancelled
  BY DEF FredNext, AccountYes, AccountNo, TypeAddress, BackFromAddress, PickFredUser, ForgetUser,
         GoAfterFredAddress, PickStation, BackFromZ21, BackFromPlug, StartFredProgramming, RetryFred,
         AskLocoRetry, ConfigPoll, Steps, wirelessVars, bigfred, marks
<1>2. CancelsGoOn
  <2>1. UNCHANGED calls \/ \E c : calls' = Made(calls, c)
    BY DEF FredNext, AccountYes, AccountNo, TypeAddress, BackFromAddress, PickFredUser, ForgetUser,
           GoAfterFredAddress, PickStation, BackFromZ21, BackFromPlug, StartFredProgramming,
           RetryFred, AskLocoRetry, ConfigPoll, Steps, wirelessVars, Calling
  <2> QED
    BY <2>1, MadeGoesOn DEF CancelsGoOn
<1>3. JobsGoOn
  <2>1. UNCHANGED jobs \/ \E k, o : Program(k, o)
    BY DEF FredNext, AccountYes, AccountNo, TypeAddress, BackFromAddress, PickFredUser, ForgetUser,
           GoAfterFredAddress, PickStation, BackFromZ21, BackFromPlug, StartFredProgramming,
           RetryFred, AskLocoRetry, ConfigPoll, Steps, wirelessVars, jobVars
  <2> QED
    BY <2>1, SameJobsGoOn, ProgramGoesOn DEF CodesInv
<1> QED
  BY <1>1, <1>2, <1>3, QuietKeepsCodes

(* The code of a job that failed is cancelled, whatever became of the page *)
(* (WirelessProgramFlow.tsx:232, 239).                                     *)
THEOREM FailedCodesAreClosed == Spec => []FailedCodesAreCancelled
<1>1. Init => PairingsTyped /\ FailedCodesAreCancelled
  <2> SUFFICES ASSUME Init PROVE PairingsTyped /\ FailedCodesAreCancelled
    OBVIOUS
  <2>1. pairings = <<>>
    BY DEF Init, WirelessInit, PairingsInit
  <2>2. pairings \in Seq(PairingOf({}, {})) /\ DOMAIN pairings = {}
    BY <2>1
  <2> QED
    BY <2>2 DEF PairingsTyped, FailedCodesAreCancelled
<1>2. JobsTyped /\ (PairingsTyped /\ FailedCodesAreCancelled) /\ [Next]_vars
        => (PairingsTyped /\ FailedCodesAreCancelled)'
  <2> SUFFICES ASSUME JobsTyped, PairingsTyped, FailedCodesAreCancelled, [Next]_vars
               PROVE  CodesStep
    BY DEF CodesStep
  <2>0. CodesInv
    BY DEF CodesInv
  <2>1. CASE FredNext
    BY <2>0, <2>1, FredKeepsCodes
  <2>2. CASE WirelessNext
    BY <2>0, <2>2, WirelessKeepsCodes
  <2>3. CASE UNCHANGED vars
    <3>1. UNCHANGED pairings /\ UNCHANGED uncancelled /\ UNCHANGED jobs /\ UNCHANGED calls
      BY <2>3 DEF vars, wirelessVars, bigfred, marks, jobVars
    <3> QED
      BY <2>0, <3>1, SameJobsGoOn, QuietKeepsCodes DEF CancelsGoOn
  <2> QED
    BY <2>1, <2>2, <2>3 DEF Next
<1> QED
  BY <1>1, <1>2, JobsAreTyped, PTL DEF Spec

(***************************************************************************)
(* The type invariant, and that every order is its participant's           *)
(***************************************************************************)
(* A set of numbers has a least one. *)

LEMMA LeastExists ==
    ASSUME NEW S, S \subseteq Nat, S # {}
    PROVE  \E i \in S : \A j \in S : i <= j
<1>1. PICK i \in S : \A j \in S : ~(<<j, i>> \in OpToRel(<, Nat))
  BY NatLessThanWellFounded, WFMin
<1>2. \A j \in S : ~(j < i)
  BY <1>1 DEF OpToRel
<1>3. QED
  BY <1>2

(* Kept keeps members of S only, and adds none. *)
LEMMA KeptProperties ==
    ASSUME NEW T, NEW S, NEW ids \in Seq(T)
    PROVE  Kept(ids, S) \in Seq(T \cap S) /\ Len(Kept(ids, S)) <= Len(ids)
<1> DEFINE N == 0 .. Len(ids)
           More(w, n) == IF ids[n] \in S THEN Append(w, ids[n]) ELSE w
           Def(f) == f = [n \in N |-> IF n = 0 THEN <<>> ELSE
                                      IF ids[n] \in S THEN Append(f[n - 1], ids[n]) ELSE f[n - 1]]
           kept == CHOOSE f : Def(f)
           Upto(k, f) == f = [n \in 0 .. k |-> IF n = 0 THEN <<>> ELSE More(f[n - 1], n)]
<1>1. Len(ids) \in Nat /\ N \subseteq Nat /\ 0 \in N /\ \A n \in N : n # 0 => n - 1 \in N /\ n - 1 < n
  BY LenProperties
<1>2. \A k \in N : \E f : Upto(k, f)
  <2> DEFINE bad == { k \in N : ~\E f : Upto(k, f) }
  <2> SUFFICES ASSUME bad # {} PROVE FALSE
    OBVIOUS
  <2>1. PICK k \in bad : \A j \in bad : k <= j
    <3>1. bad \subseteq Nat
      BY <1>1
    <3> HIDE DEF bad
    <3> QED
      BY <3>1, LeastExists
  <2>2. CASE k = 0
    <3>1. Upto(0, [n \in 0 .. 0 |-> <<>>])
      OBVIOUS
    <3> QED
      BY <2>1, <2>2, <3>1
  <2>3. CASE k # 0
    <3>1. k - 1 \in N /\ k \in Nat /\ k - 1 \notin bad
      <4>1. k - 1 \in N /\ k \in Nat
        BY <1>1, <2>1, <2>3
      <4> HIDE DEF bad
      <4>2. k - 1 \notin bad
        BY <4>1, <2>1
      <4> QED
        BY <4>1, <4>2
    <3>2. PICK f : Upto(k - 1, f)
      BY <3>1
    <3> DEFINE g == [n \in 0 .. k |-> IF n = k THEN More(f[k - 1], k) ELSE f[n]]
    <3>3. \A n \in 0 .. k : g[n] = IF n = 0 THEN <<>> ELSE More(g[n - 1], n)
      <4> SUFFICES ASSUME NEW n \in 0 .. k
                   PROVE  g[n] = IF n = 0 THEN <<>> ELSE More(g[n - 1], n)
        OBVIOUS
      <4> HIDE DEF More
      <4>1. CASE n = k
        <5>1. g[n] = More(f[k - 1], k) /\ g[n - 1] = f[k - 1]
          BY <3>1, <4>1, <2>3
        <5> QED
          BY <4>1, <5>1, <2>3
      <4>2. CASE n # k
        <5>1. n \in 0 .. k - 1 /\ g[n] = f[n] /\ (n # 0 => g[n - 1] = f[n - 1])
          BY <3>1, <4>2
        <5>2. f[n] = IF n = 0 THEN <<>> ELSE More(f[n - 1], n)
          BY <3>2, <5>1
        <5> QED
          BY <5>1, <5>2
      <4> QED
        BY <4>1, <4>2
    <3>4. g = [n \in 0 .. k |-> g[n]]
      OBVIOUS
    <3> HIDE DEF g, More
    <3>5. Upto(k, g)
      BY <3>3, <3>4
    <3> QED
      BY <2>1, <3>5
  <2> QED
    BY <2>2, <2>3
<1>3. \E f : Def(f)
  <2>1. Len(ids) \in N
    BY <1>1
  <2>2. PICK f : Upto(Len(ids), f)
    BY <2>1, <1>2
  <2> QED
    BY <2>2
<1>4. Def(kept)
  <2> HIDE DEF Def
  <2> QED
    BY <1>3
<1>5. Kept(ids, S) = kept[Len(ids)]
  BY DEF Kept
<1> HIDE DEF kept
<1>6. \A n \in N : kept[n] = IF n = 0 THEN <<>> ELSE More(kept[n - 1], n)
  BY <1>4
<1> DEFINE Good(n) == kept[n] \in Seq(T \cap S) /\ Len(kept[n]) <= n
<1>7. \A n \in N : Good(n)
  <2> DEFINE bad == { n \in N : ~Good(n) }
  <2> SUFFICES ASSUME bad # {} PROVE FALSE
    OBVIOUS
  <2>1. PICK n \in bad : \A j \in bad : n <= j
    <3>1. bad \subseteq Nat
      BY <1>1
    <3> HIDE DEF bad
    <3> QED
      BY <3>1, LeastExists
  <2>2. n # 0
    <3>1. kept[0] = <<>> /\ <<>> \in Seq(T \cap S) /\ Len(<<>>) = 0
      BY <1>1, <1>6, EmptySeq
    <3>2. Good(0)
      BY <3>1
    <3> QED
      BY <2>1, <3>2
  <2>3. n \in N /\ n - 1 \in N /\ n \in Nat /\ n - 1 \in Nat /\ n - 1 \notin bad
    BY <1>1, <2>1, <2>2
  <2>4. kept[n - 1] \in Seq(T \cap S) /\ Len(kept[n - 1]) <= n - 1 /\ Len(kept[n - 1]) \in Nat
    BY <2>3, LenProperties
  <2>5. kept[n] = More(kept[n - 1], n)
    BY <1>6, <2>2, <2>3
  <2>6. ids[n] \in T
    BY <1>1, <2>2, <2>3, ElementOfSeq
  <2> HIDE DEF bad, N
  <2>7. Good(n)
    <3>1. CASE ids[n] \in S
      <4>1. kept[n] = Append(kept[n - 1], ids[n]) /\ ids[n] \in T \cap S
        BY <2>5, <2>6, <3>1
      <4>2. kept[n] \in Seq(T \cap S) /\ Len(kept[n]) = Len(kept[n - 1]) + 1
        BY <4>1, <2>4, AppendProperties
      <4> QED
        BY <4>2, <2>3, <2>4
    <3>2. CASE ids[n] \notin S
      BY <3>2, <2>3, <2>4, <2>5
    <3> QED
      BY <3>1, <3>2
  <2> QED
    BY <2>1, <2>7 DEF bad
<1> QED
  BY <1>1, <1>5, <1>7

(* A roster is made of vehicles of the list. *)
LEMMA RosterMembers ==
    ASSUME NEW vs, vs \subseteq Vehicles, NEW ids \in Seq(Vehicles)
    PROVE  /\ RosterFromVehicles(vs, ids) \in Seq(Vehicles)
           /\ \A i \in DOMAIN RosterFromVehicles(vs, ids) : RosterFromVehicles(vs, ids)[i] \in vs
<1> DEFINE r == RosterFromVehicles(vs, ids)
<1>1. r \in Seq(Vehicles \cap (vs \cap Addressed))
  BY KeptProperties DEF RosterFromVehicles
<1> HIDE DEF r
<1>2. r \in Seq(Vehicles)
  BY <1>1, SeqMonotonic
<1>3. \A i \in DOMAIN r : r[i] \in Vehicles \cap (vs \cap Addressed)
  BY <1>1, ElementOfSeq, LenProperties
<1> QED
  BY <1>2, <1>3 DEF r

(* A roster that is toggled keeps to its limit. *)
LEMMA ToggledRoster ==
    ASSUME NEW ids \in Seq(Vehicles), NEW max \in Nat, Len(ids) <= max, NEW v \in Vehicles
    PROVE  Toggled(ids, v, max) \in Seq(Vehicles) /\ Len(Toggled(ids, v, max)) <= max
<1>0. Len(ids) \in Nat
  BY LenProperties
<1>1. CASE Contains(ids, v)
  <2> DEFINE k == Kept(ids, Vehicles \ {v})
  <2>1. k \in Seq(Vehicles \cap (Vehicles \ {v})) /\ Len(k) <= Len(ids)
    BY KeptProperties
  <2>2. Toggled(ids, v, max) = k
    BY <1>1 DEF Toggled
  <2> HIDE DEF k
  <2>3. k \in Seq(Vehicles) /\ Len(k) \in Nat
    BY <2>1, SeqMonotonic, LenProperties
  <2> QED
    BY <1>0, <2>1, <2>2, <2>3
<1>2. CASE ~Contains(ids, v) /\ Len(ids) >= max
  BY <1>2 DEF Toggled
<1>3. CASE ~Contains(ids, v) /\ ~(Len(ids) >= max)
  <2>1. Toggled(ids, v, max) = Append(ids, v)
    BY <1>3 DEF Toggled
  <2>2. Append(ids, v) \in Seq(Vehicles) /\ Len(Append(ids, v)) = Len(ids) + 1
    BY AppendProperties
  <2> QED
    BY <1>0, <1>3, <2>1, <2>2
<1> QED
  BY <1>1, <1>2, <1>3

CallKinds == {"verify", "load", "status", "cancel", "unpair", "start"}

(* What a call in flight carries. *)
LEMMA CallFields ==
    ASSUME NEW c \in Calls
    PROVE  /\ c.kind \in CallKinds /\ c.user \in Users
           /\ c.kind \in {"status", "cancel", "unpair", "start"} => c.station \in Stations
           /\ c.kind = "unpair" => c.client \in 0 .. OldHandset
           /\ c.kind = "start" => c.key \in Keys /\ c.roster \in Seq(Vehicles)
<1>1. CASE c \in [kind : {"verify", "load"}, user : Users, again : BOOLEAN]
  BY <1>1 DEF CallKinds
<1>2. CASE c \in [kind : {"status", "cancel"}, user : Users, station : Stations, again : BOOLEAN]
  BY <1>2 DEF CallKinds
<1>3. CASE c \in [kind : {"unpair"}, user : Users, station : Stations, client : 0 .. OldHandset,
                  again : BOOLEAN]
  BY <1>3 DEF CallKinds
<1>4. CASE c \in [kind : {"start"}, user : Users, station : Stations, key : Keys,
                  roster : Seq(Vehicles), again : BOOLEAN]
  BY <1>4 DEF CallKinds
<1> QED
  BY <1>1, <1>2, <1>3, <1>4 DEF Calls

(* A call that is made becomes one of those in flight. *)
LEMMA MarkedCalls ==
    ASSUME NEW u \in Users, NEW again \in BOOLEAN
    PROVE  /\ \A k \in {"verify", "load"} : Marked([kind |-> k, user |-> u], again) \in Calls
           /\ \A k \in {"status", "cancel"}, s \in Stations :
                Marked([kind |-> k, user |-> u, station |-> s], again) \in Calls
           /\ \A s \in Stations, h \in 0 .. OldHandset :
                Marked([kind |-> "unpair", user |-> u, station |-> s, client |-> h], again) \in Calls
           /\ \A s \in Stations, k \in Keys, r \in Seq(Vehicles) :
                Marked([kind |-> "start", user |-> u, station |-> s, key |-> k, roster |-> r], again)
                  \in Calls
<1>1. \A k \in {"verify", "load"} : Marked([kind |-> k, user |-> u], again) \in Calls
  <2> TAKE k \in {"verify", "load"}
  <2>1. Marked([kind |-> k, user |-> u], again) = [kind |-> k, user |-> u, again |-> again]
    BY DEF Marked
  <2> QED
    BY <2>1 DEF Calls
<1>2. \A k \in {"status", "cancel"}, s \in Stations :
        Marked([kind |-> k, user |-> u, station |-> s], again) \in Calls
  <2> TAKE k \in {"status", "cancel"}, s \in Stations
  <2>1. Marked([kind |-> k, user |-> u, station |-> s], again)
          = [kind |-> k, user |-> u, station |-> s, again |-> again]
    BY DEF Marked
  <2> QED
    BY <2>1 DEF Calls
<1>3. \A s \in Stations, h \in 0 .. OldHandset :
        Marked([kind |-> "unpair", user |-> u, station |-> s, client |-> h], again) \in Calls
  <2> TAKE s \in Stations, h \in 0 .. OldHandset
  <2>1. Marked([kind |-> "unpair", user |-> u, station |-> s, client |-> h], again)
          = [kind |-> "unpair", user |-> u, station |-> s, client |-> h, again |-> again]
    BY DEF Marked
  <2> QED
    BY <2>1 DEF Calls
<1>4. \A s \in Stations, k \in Keys, r \in Seq(Vehicles) :
        Marked([kind |-> "start", user |-> u, station |-> s, key |-> k, roster |-> r], again) \in Calls
  <2> TAKE s \in Stations, k \in Keys, r \in Seq(Vehicles)
  <2>1. Marked([kind |-> "start", user |-> u, station |-> s, key |-> k, roster |-> r], again)
          = [kind |-> "start", user |-> u, station |-> s, key |-> k, roster |-> r, again |-> again]
    BY DEF Marked
  <2> QED
    BY <2>1 DEF Calls
<1> QED
  BY <1>1, <1>2, <1>3, <1>4

Active(n) == jobs[n].page \in {"posted", "watching"}

(* Sequences with one domain have one length. *)
LEMMA SameDomain ==
    ASSUME NEW S, NEW s \in Seq(S), NEW T, NEW t \in Seq(T), DOMAIN s = DOMAIN t
    PROVE  Len(s) = Len(t)
<1>1. 1 .. Len(s) = 1 .. Len(t) /\ Len(s) \in Nat /\ Len(t) \in Nat
  BY LenProperties
<1> DEFINE a == Len(s)
           b == Len(t)
<1> HIDE DEF a, b
<1>2. ASSUME 1 .. a = 1 .. b, a \in Nat, b \in Nat PROVE a = b
  <2>1. a # 0 => a \in 1 .. b
    BY <1>2
  <2>2. b # 0 => b \in 1 .. a
    BY <1>2
  <2> QED
    BY <1>2, <2>1, <2>2
<1> QED
  BY <1>1, <1>2 DEF a, b

(* All jobs keep their order and their key; only one changes its page.     *)
OthersKept(n) ==
    /\ DOMAIN jobs' = DOMAIN jobs /\ Len(jobs') = Len(jobs)
    /\ \A m \in DOMAIN jobs : /\ jobs'[m].order = jobs[m].order /\ jobs'[m].key = jobs[m].key
                              /\ m # n => jobs'[m].page = jobs[m].page

LEMMA OneJobKept ==
    ASSUME NEW O, jobs \in Seq(JobOf(O)), NEW n \in DOMAIN jobs, NEW j \in JobOf(O),
           jobs' = [jobs EXCEPT ![n] = j], j.order = jobs[n].order, j.key = jobs[n].key
    PROVE  OthersKept(n) /\ jobs'[n] = j
<1>1. /\ jobs' \in Seq(JobOf(O)) /\ DOMAIN jobs' = DOMAIN jobs
      /\ jobs'[n] = j /\ \A m \in DOMAIN jobs : m # n => jobs'[m] = jobs[m]
  BY OneJobChanges
<1>2. Len(jobs') = Len(jobs)
  BY <1>1, SameDomain
<1> QED
  BY <1>1, <1>2 DEF OthersKept

(* A job that goes on is as active as before. *)
LEMMA JobGoesOnParts ==
    ASSUME JobsTyped, NEW n \in DOMAIN jobs, JobStep(n) \/ ProgramAnswers(n)
    PROVE  /\ OthersKept(n)
           /\ jobs'[n].page = jobs[n].page \/ (jobs[n].page = "posted" /\ jobs'[n].page = "watching")
           /\ \A k \in Keys : written'[k] \in {written[k], n}
<1> PICK O : jobs \in Seq(JobOf(O))
  BY DEF JobsTyped
<1>0. jobs[n] \in JobOf(O) /\ jobs[n].frames \in Seq(Frames)
  BY JobIsTyped
<1> DEFINE Goal ==
             /\ OthersKept(n)
             /\ jobs'[n].page = jobs[n].page
                  \/ (jobs[n].page = "posted" /\ jobs'[n].page = "watching")
             /\ \A k \in Keys : written'[k] \in {written[k], n}
<1>1. CASE Accept(n)
  <2> DEFINE j == [jobs[n] EXCEPT !.state = "running"]
  <2>1. j \in JobOf(O) /\ j.order = jobs[n].order /\ j.key = jobs[n].key /\ j.page = jobs[n].page
    BY <1>0 DEF JobOf
  <2>2. jobs' = [jobs EXCEPT ![n] = j] /\ UNCHANGED written
    BY <1>1 DEF Accept
  <2> HIDE DEF j
  <2> QED
    BY <2>1, <2>2, OneJobKept
<1>2. CASE Refuse(n)
  <2> DEFINE j == [jobs[n] EXCEPT !.state = "refused"]
  <2>1. j \in JobOf(O) /\ j.order = jobs[n].order /\ j.key = jobs[n].key /\ j.page = jobs[n].page
    BY <1>0 DEF JobOf
  <2>2. jobs' = [jobs EXCEPT ![n] = j] /\ UNCHANGED written
    BY <1>2 DEF Refuse
  <2> HIDE DEF j
  <2> QED
    BY <2>1, <2>2, OneJobKept
<1>3. ASSUME NEW s \in Terminal, EndJob(n, s) PROVE Goal
  <2> DEFINE j == [jobs[n] EXCEPT !.state = s]
  <2>1. j \in JobOf(O) /\ j.order = jobs[n].order /\ j.key = jobs[n].key /\ j.page = jobs[n].page
    BY <1>0 DEF JobOf
  <2>2. jobs' = [jobs EXCEPT ![n] = j]
        /\ (written' = [written EXCEPT ![jobs[n].key] = n] \/ UNCHANGED written)
    BY <1>3 DEF EndJob
  <2>3. \A k \in Keys : written'[k] \in {written[k], n}
    BY <2>2 DEF JobsTyped
  <2> HIDE DEF j
  <2> QED
    BY <2>1, <2>2, <2>3, OneJobKept
<1>4. ASSUME NEW fs \in Seq(Frames), NEW f \in {"closed", "open"},
             jobs' = [jobs EXCEPT ![n].frames = fs, ![n].feed = f], UNCHANGED written
      PROVE  Goal
  <2> DEFINE j == [jobs[n] EXCEPT !.frames = fs, !.feed = f]
  <2>1. j \in JobOf(O) /\ j.order = jobs[n].order /\ j.key = jobs[n].key /\ j.page = jobs[n].page
    BY <1>0 DEF JobOf
  <2>2. jobs' = [jobs EXCEPT ![n] = j]
    BY <1>4
  <2> HIDE DEF j
  <2> QED
    BY <1>4, <2>1, <2>2, OneJobKept
<1>5. CASE ReadFrame(n)
  <2>1. Frame(n) \in Frames
    BY DEF Frame, Frames, Terminal
  <2>2. Append(jobs[n].frames, Frame(n)) \in Seq(Frames)
    BY <1>0, <2>1, AppendProperties
  <2> QED
    BY <1>4, <1>5, <2>2 DEF ReadFrame
<1>6. CASE ReadError(n)
  <2>1. Append(jobs[n].frames, "error") \in Seq(Frames)
    BY <1>0, AppendProperties DEF Frames
  <2> QED
    BY <1>4, <1>6, <2>1 DEF ReadError
<1>7. CASE ReadFails(n)
  <2> DEFINE j == [jobs[n] EXCEPT !.feed = "closed"]
  <2>1. j \in JobOf(O) /\ j.order = jobs[n].order /\ j.key = jobs[n].key /\ j.page = jobs[n].page
    BY <1>0 DEF JobOf
  <2>2. jobs' = [jobs EXCEPT ![n] = j] /\ UNCHANGED written
    BY <1>7 DEF ReadFails
  <2> HIDE DEF j
  <2> QED
    BY <2>1, <2>2, OneJobKept
<1>8. CASE ShowProgress(n)
  <2> DEFINE fs == Tail(jobs[n].frames)
             j == [jobs[n] EXCEPT !.frames = fs]
  <2>1. fs \in Seq(Frames)
    BY <1>0, <1>8, HeadTailProperties DEF ShowProgress
  <2>2. j \in JobOf(O) /\ j.order = jobs[n].order /\ j.key = jobs[n].key /\ j.page = jobs[n].page
    BY <1>0, <2>1 DEF JobOf
  <2>3. jobs' = [jobs EXCEPT ![n] = j] /\ UNCHANGED written
    BY <1>8 DEF ShowProgress
  <2> HIDE DEF j
  <2> QED
    BY <2>2, <2>3, OneJobKept
<1>9. CASE ProgramAnswers(n)
  <2> DEFINE j == [jobs[n] EXCEPT !.page = "watching", !.feed = "open"]
  <2>1. j \in JobOf(O) /\ j.order = jobs[n].order /\ j.key = jobs[n].key /\ j.page = "watching"
    BY <1>0 DEF JobOf
  <2>2. jobs' = [jobs EXCEPT ![n] = j] /\ UNCHANGED written /\ jobs[n].page = "posted"
    BY <1>9 DEF ProgramAnswers
  <2> HIDE DEF j
  <2> QED
    BY <2>1, <2>2, OneJobKept
<1> QED
  BY <1>1, <1>2, <1>3, <1>5, <1>6, <1>7, <1>8, <1>9 DEF JobStep, ProgrammerStep, BridgeStep

(* A job that ends for the page was active, and is so no more. *)
LEMMA JobEndsParts ==
    ASSUME JobsTyped, NEW n \in DOMAIN jobs, Resolves(n) \/ Unsuccessful(n)
    PROVE  /\ OthersKept(n) /\ Active(n) /\ UNCHANGED written
           /\ jobs'[n].page = IF Resolves(n) THEN "succeeded" ELSE "failed"
<1> PICK O : jobs \in Seq(JobOf(O))
  BY DEF JobsTyped
<1>0. jobs[n] \in JobOf(O)
  BY JobIsTyped
<1>1. ASSUME NEW p \in {"succeeded", "failed"}, Settle(n, p)
      PROVE  OthersKept(n) /\ Active(n) /\ UNCHANGED written /\ jobs'[n].page = p
  <2>0. PICK fs \in Seq(Frames) : fs = <<>>
    BY EmptySeq
  <2> DEFINE j == [jobs[n] EXCEPT !.page = p, !.feed = "closed", !.frames = fs]
  <2>1. j \in JobOf(O) /\ j.order = jobs[n].order /\ j.key = jobs[n].key /\ j.page = p
    BY <1>0 DEF JobOf
  <2>2. jobs' = [jobs EXCEPT ![n] = j] /\ UNCHANGED written /\ jobs[n].page = "watching"
    BY <1>1, <2>0 DEF Settle
  <2> HIDE DEF j
  <2> QED
    BY <2>1, <2>2, OneJobKept DEF Active
<1>2. CASE Resolves(n)
  BY <1>1, <1>2 DEF Resolves
<1>3. CASE ProgramFails(n) /\ ~Resolves(n)
  <2>1. PICK s \in {jobs[n].state} \cup (IF jobs[n].state = "asked" THEN {"refused"} ELSE {}) :
          jobs' = [jobs EXCEPT ![n].page = "failed", ![n].state = s]
    BY <1>3 DEF ProgramFails
  <2> DEFINE j == [jobs[n] EXCEPT !.page = "failed", !.state = s]
  <2>2. s \in {"asked", "refused", "running"} \cup Terminal
    BY <1>0 DEF JobOf
  <2>3. j \in JobOf(O) /\ j.order = jobs[n].order /\ j.key = jobs[n].key /\ j.page = "failed"
    BY <1>0, <2>2 DEF JobOf
  <2>4. jobs' = [jobs EXCEPT ![n] = j] /\ UNCHANGED written /\ jobs[n].page = "posted"
    BY <1>3, <2>1 DEF ProgramFails
  <2> HIDE DEF j
  <2> QED
    BY <1>3, <2>3, <2>4, OneJobKept DEF Active
<1>4. CASE (ResolvesNotDone(n) \/ StreamEnds(n) \/ StreamBreaks(n)) /\ ~Resolves(n)
  BY <1>1, <1>4 DEF ResolvesNotDone, StreamEnds, StreamBreaks
<1> QED
  BY <1>2, <1>3, <1>4 DEF Unsuccessful

(* A new job comes last. *)
LEMMA ProgramParts ==
    ASSUME JobsTyped, NEW k, NEW o, Program(k, o)
    PROVE  /\ Len(jobs) \in Nat /\ Len(jobs) < MaxJobs /\ Len(jobs') = Len(jobs) + 1
           /\ DOMAIN jobs = 1 .. Len(jobs) /\ DOMAIN jobs' = 1 .. Len(jobs) + 1
           /\ \A n \in DOMAIN jobs : jobs'[n] = jobs[n]
           /\ jobs'[Len(jobs) + 1].key = k /\ jobs'[Len(jobs) + 1].order = o
           /\ jobs'[Len(jobs) + 1].page = "posted"
           /\ UNCHANGED written
<1> PICK O : jobs \in Seq(JobOf(O))
  BY DEF JobsTyped
<1> DEFINE j == [key |-> k, order |-> o, state |-> "asked", page |-> "posted",
                 feed |-> "closed", frames |-> <<>>]
<1>1. jobs' = Append(jobs, j) /\ UNCHANGED written /\ Len(jobs) < MaxJobs
  BY DEF Program
<1>2. jobs \in Seq(JobOf(O) \cup {j})
  BY SeqMonotonic
<1>3. j.order = o /\ j.page = "posted" /\ j.key = k
  OBVIOUS
<1> HIDE DEF j
<1> QED
  BY <1>1, <1>2, <1>3, AppendProperties, LenProperties

-----------------------------------------------------------------------------
Pairing == PairingOf(Users, Stations)

(* Pairings keep their participant and their station. *)
PairingsKept ==
    /\ DOMAIN pairings' = DOMAIN pairings /\ Len(pairings') = Len(pairings)
    /\ \A p \in DOMAIN pairings : /\ pairings'[p].user = pairings[p].user
                                  /\ pairings'[p].station = pairings[p].station

LEMMA SetParts ==
    ASSUME pairings \in Seq(Pairing), NEW n \in DOMAIN pairings,
           NEW s \in {"closed", "expired", "joined"}, pairings' = Set(n, s)
    PROVE  /\ pairings' \in Seq(Pairing) /\ PairingsKept
           /\ pairings'[n].state = s
           /\ \A p \in DOMAIN pairings : p # n => pairings'[p].state = pairings[p].state
<1> DEFINE q == [pairings[n] EXCEPT !.state = s]
<1>1. pairings[n] \in Pairing /\ n \in 1 .. Len(pairings)
  BY ElementOfSeq, LenProperties
<1>2. q \in Pairing /\ q.user = pairings[n].user /\ q.station = pairings[n].station
      /\ q.state = s
  BY <1>1 DEF Pairing, PairingOf
<1>3. pairings' = [pairings EXCEPT ![n] = q]
  BY DEF Set
<1> HIDE DEF q
<1>4. /\ pairings' \in Seq(Pairing) /\ DOMAIN pairings' = DOMAIN pairings
      /\ pairings'[n] = q /\ \A m \in DOMAIN pairings : m # n => pairings'[m] = pairings[m]
  BY <1>1, <1>2, <1>3, ExceptSeq, LenProperties
<1>5. Len(pairings') = Len(pairings)
  BY <1>4, SameDomain
<1> QED
  BY <1>2, <1>4, <1>5 DEF PairingsKept

(* Closing changes states only. *)
LEMMA ClosedParts ==
    ASSUME pairings \in Seq(Pairing), NEW u, NEW s, pairings' = Closed(u, s)
    PROVE  pairings' \in Seq(Pairing) /\ PairingsKept
  BY ClosedProperties DEF PairingsKept, Pairing

(* A pairing that is opened comes last. *)
LEMMA OpenedParts ==
    ASSUME pairings \in Seq(Pairing), NEW u \in Users, NEW s \in Stations,
           pairings' = Opened(u, s)
    PROVE  /\ pairings' \in Seq(Pairing) /\ Len(pairings) \in Nat
           /\ Len(pairings') = Len(pairings) + 1
           /\ DOMAIN pairings = 1 .. Len(pairings) /\ DOMAIN pairings' = 1 .. Len(pairings) + 1
           /\ \A p \in DOMAIN pairings : pairings'[p].user = pairings[p].user
           /\ pairings'[Len(pairings) + 1].user = u
           /\ pairings'[Len(pairings) + 1].state = "open"
<1> DEFINE cl == Closed(u, s)
           q == [user |-> u, station |-> s, state |-> "open"]
<1>1. cl \in Seq(Pairing) /\ Len(cl) = Len(pairings) /\ DOMAIN cl = DOMAIN pairings
      /\ \A p \in DOMAIN pairings : cl[p].user = pairings[p].user
  BY ClosedProperties DEF Pairing
<1>2. q \in Pairing /\ q.user = u /\ q.state = "open"
  BY DEF Pairing, PairingOf
<1>3. pairings' = Append(cl, q)
  BY DEF Opened
<1> HIDE DEF cl, q
<1>4. Len(pairings) \in Nat /\ DOMAIN pairings = 1 .. Len(pairings)
  BY LenProperties
<1>5. /\ pairings' \in Seq(Pairing) /\ Len(pairings') = Len(pairings) + 1
      /\ pairings'[Len(pairings) + 1] = q
      /\ \A p \in 1 .. Len(pairings) : pairings'[p] = cl[p]
  BY <1>1, <1>2, <1>3, <1>4, AppendProperties
<1>6. DOMAIN pairings' = 1 .. Len(pairings) + 1
  BY <1>5, LenProperties
<1> QED
  BY <1>1, <1>2, <1>4, <1>5, <1>6

(* Unpairing closes at most the pairing of the handset that it names. *)
LEMMA UnpairedParts ==
    ASSUME pairings \in Seq(Pairing), NEW I, handset \in [Slots -> I], NoHandset \in I,
           NEW u \in Users, NEW s \in Stations, NEW k, Unpaired(u, s, k)
    PROVE  /\ pairings' \in Seq(Pairing) /\ PairingsKept
           /\ handset' \in [Slots -> I]
           /\ \A x \in Slots : handset'[x] \in {handset[x], NoHandset}
           /\ \A p \in DOMAIN pairings :
                pairings'[p].state = "closed" => pairings[p].state = "closed" \/ k \in {NoHandset, p}
<1> DEFINE h == handset[<<u, s>>]
<1>0. <<u, s>> \in Slots
  BY DEF Slots
<1>1. CASE UNCHANGED bigfred
  BY <1>1 DEF bigfred, PairingsKept
<1>2. CASE /\ handset' = [handset EXCEPT ![<<u, s>>] = NoHandset] /\ k \in {NoHandset, h}
           /\ pairings' = IF h \in DOMAIN pairings THEN Set(h, "closed") ELSE pairings
  <2>1. handset' \in [Slots -> I] /\ \A x \in Slots : handset'[x] \in {handset[x], NoHandset}
    BY <1>0, <1>2
  <2>2. CASE h \in DOMAIN pairings
    BY <1>2, <2>1, <2>2, SetParts
  <2>3. CASE h \notin DOMAIN pairings
    BY <1>2, <2>1, <2>3 DEF PairingsKept
  <2> QED
    BY <2>2, <2>3
<1> QED
  BY <1>1, <1>2 DEF Unpaired

(***************************************************************************)
(* The steps that leave calls, BigFred and jobs alone                      *)
(***************************************************************************)
Turns ==
    \/ Turn("station", "wpPin") \/ Turn("wpEnterPairing", "wpPin")
    \/ Turn("wpEnterPairing", "wpScan") \/ Turn("wpRoster", "wpScan") \/ Turn("wpFailed", "wpScan")
    \/ Turn("wpScan", "wpEnterPairing")

WirelessWalk ==
    /\ \/ \E u \in Users : PickUser(u)
       \/ EnterPin \/ Keep \/ RetryScan
       \/ \E s \in Stations : ChooseStation(s)
       \/ \E v \in Vehicles : Toggle(v)
       \/ Turns
       \/ HelloAnswers \/ ScanFails \/ \E found \in SUBSET Keys : ScanAnswers(found)
    /\ UNCHANGED fredVars

FredWalk ==
    \/ AccountYes \/ AccountNo \/ TypeAddress \/ BackFromAddress
    \/ ForgetUser("user", "fredAccountAsk") \/ ForgetUser("fredRoster", "user")
    \/ GoAfterFredAddress
    \/ \E k \in Keys : PickStation(k)
    \/ BackFromZ21 \/ BackFromPlug \/ RetryFred \/ AskLocoRetry \/ ConfigPoll

Walk == WirelessWalk \/ FredWalk

(* Those that make a call, and those that order at once *)
Ask ==
    \/ SubmitPin \/ StartAtStation \/ Replace \/ StartProgramming
    \/ \E k \in Keys : PickCandidate(k) /\ device # "longfred"
    \/ \E u \in Users : PickFredUser(u)
OrderNow ==
    \/ \E k \in Keys : PickCandidate(k) /\ device = "longfred"
    \/ StartFredProgramming

Others ==
    \/ Ask \/ OrderNow \/ Leave \/ CallEnds
    \/ \E n \in DOMAIN jobs : JobDone(n) \/ JobFails(n) \/ JobGoesOn(n)
    \/ \E p \in DOMAIN pairings : HandsetJoins(p) \/ PairingExpires(p)

(* Every step is a walk or one of the others. *)
LEMMA StepCases ==
    ASSUME [Next]_vars
    PROVE  \/ UNCHANGED vars
           \/ UNCHANGED <<device, usable>> /\ Walk
           \/ UNCHANGED <<device, usable, guest, typed, fixed>> /\ Others
<1>1. CASE FredNext
  BY <1>1 DEF FredNext, FredWalk, Walk, Ask, OrderNow, Others, PickFredUser, StartFredProgramming,
     fredVars
<1>2. CASE WirelessNext /\ UNCHANGED fredVars
  <2>1. CASE WirelessOperator
    BY <1>2, <2>1 DEF WirelessNext, WirelessOperator, WirelessWalk, Walk, Turns, Ask, OrderNow,
       Others, fredVars
  <2>2. CASE Elsewhere
    BY <1>2, <2>2 DEF WirelessNext, Elsewhere, ScanEnds, SomeJob, WirelessWalk, Walk, Others,
       fredVars
  <2> QED
    BY <1>2, <2>1, <2>2 DEF WirelessNext
<1> QED
  BY <1>1, <1>2 DEF Next

(* A walk leaves what others may be waiting for alone. *)
LEMMA WalkParts ==
    ASSUME Walk
    PROVE  /\ UNCHANGED calls /\ UNCHANGED late /\ UNCHANGED uncancelled
           /\ UNCHANGED pairings /\ UNCHANGED handset /\ UNCHANGED jobs /\ UNCHANGED written
<1>1. CASE (\E u \in Users : PickUser(u)) /\ UNCHANGED fredVars
  BY <1>1 DEF PickUser, On, display, who, scan, list, marks, bigfred, jobVars, fredVars
<1>2. CASE EnterPin /\ UNCHANGED fredVars
  BY <1>2 DEF EnterPin, On, Enter, RunScan, ScanPage, display, who, scan, list, marks, bigfred,
     jobVars, fredVars
<1>3. CASE Keep /\ UNCHANGED fredVars
  BY <1>3 DEF Keep, On, display, who, scan, list, marks, bigfred, jobVars, fredVars
<1>4. CASE RetryScan /\ UNCHANGED fredVars
  BY <1>4 DEF RetryScan, RunScan, ScanPage, display, who, scan, list, marks, bigfred, jobVars,
     fredVars
<1>5. CASE (\E s \in Stations : ChooseStation(s)) /\ UNCHANGED fredVars
  BY <1>5 DEF ChooseStation, On, display, who, scan, list, marks, bigfred, jobVars, fredVars
<1>6. CASE (\E v \in Vehicles : Toggle(v)) /\ UNCHANGED fredVars
  BY <1>6 DEF Toggle, ListPage, display, who, scan, list, marks, bigfred, jobVars, fredVars
<1>7. CASE Turns /\ UNCHANGED fredVars
  BY <1>7 DEF Turns, Turn, On, Enter, RunScan, ScanPage, display, who, scan, list, marks,
     bigfred, jobVars, fredVars
<1>8. CASE HelloAnswers /\ UNCHANGED fredVars
  BY <1>8 DEF HelloAnswers, display, who, scan, list, marks, bigfred, jobVars, fredVars
<1>9. CASE ScanFails /\ UNCHANGED fredVars
  BY <1>9 DEF ScanFails, display, who, scan, list, marks, bigfred, jobVars, fredVars
<1>10. CASE (\E found \in SUBSET Keys : ScanAnswers(found)) /\ UNCHANGED fredVars
  BY <1>10 DEF ScanAnswers, display, who, scan, list, marks, bigfred, jobVars, fredVars
<1>11. CASE AccountYes
  BY <1>11 DEF AccountYes, Steps, FredOn, Enter, RunScan, ScanPage, display, who, scan, list,
     marks, bigfred, jobVars, fredVars
<1>12. CASE AccountNo
  BY <1>12 DEF AccountNo, FredOn, Enter, RunScan, ScanPage, display, who, scan, list, marks,
     bigfred, jobVars, fredVars
<1>13. CASE TypeAddress
  BY <1>13 DEF TypeAddress, FredOn, wirelessVars, display, who, scan, list, marks, bigfred,
     jobVars, fredVars
<1>14. CASE BackFromAddress
  BY <1>14 DEF BackFromAddress, Steps, FredOn, Enter, RunScan, ScanPage, display, who, scan,
     list, marks, bigfred, jobVars, fredVars
<1>15. CASE ForgetUser("user", "fredAccountAsk")
  BY <1>15 DEF ForgetUser, FredOn, Enter, RunScan, ScanPage, display, who, scan, list, marks,
     bigfred, jobVars, fredVars
<1>16. CASE ForgetUser("fredRoster", "user")
  BY <1>16 DEF ForgetUser, FredOn, Enter, RunScan, ScanPage, display, who, scan, list, marks,
     bigfred, jobVars, fredVars
<1>17. CASE GoAfterFredAddress
  BY <1>17 DEF GoAfterFredAddress, AddressTyped, AddressPicked, FredOn, Enter, RunScan,
     ScanPage, display, who, scan, list, marks, bigfred, jobVars, fredVars
<1>18. CASE \E k \in Keys : PickStation(k)
  BY <1>18 DEF PickStation, FredOn, display, who, scan, list, marks, bigfred, jobVars, fredVars
<1>19. CASE BackFromZ21
  BY <1>19 DEF BackFromZ21, AddressPage, Steps, FredOn, Enter, RunScan, ScanPage, display, who,
     scan, list, marks, bigfred, jobVars, fredVars
<1>20. CASE BackFromPlug
  BY <1>20 DEF BackFromPlug, AddressPage, Steps, FredOn, Enter, RunScan, ScanPage, display, who,
     scan, list, marks, bigfred, jobVars, fredVars
<1>21. CASE RetryFred
  BY <1>21 DEF RetryFred, Steps, FredOn, Enter, RunScan, ScanPage, display, who, scan, list,
     marks, bigfred, jobVars, fredVars
<1>22. CASE AskLocoRetry
  BY <1>22 DEF AskLocoRetry, Steps, FredOn, Enter, RunScan, ScanPage, display, who, scan, list,
     marks, bigfred, jobVars, fredVars
<1>23. CASE ConfigPoll
  BY <1>23 DEF ConfigPoll, wirelessVars, display, who, scan, list, marks, bigfred, jobVars,
     fredVars
<1> QED
  BY <1>1, <1>2, <1>3, <1>4, <1>5, <1>6, <1>7, <1>8, <1>9, <1>10, <1>11, <1>12, <1>13, <1>14,
     <1>15, <1>16, <1>17, <1>18, <1>19, <1>20, <1>21, <1>22, <1>23 DEF Walk, WirelessWalk,
     FredWalk

(* The pages of a programming chain are left by its end alone. *)
LEMMA WalkPages ==
    ASSUME Walk
    PROVE  /\ phase \in {"home", "wpProgramming"} => phase' = phase
           /\ phase' \in {"wpProgramming", "wpDone", "fredAskLoco"}
                => /\ phase' = phase
                   /\ UNCHANGED <<user, candidate, guest, typed, vehicles, rosterIds>>
           /\ phase' \in {"rePairConfirm", "station"} => phase' = phase
           /\ existing' \in {existing, NoHandset}
           /\ phase' = "rePairConfirm" => existing' = existing
<1>1. CASE (\E u \in Users : PickUser(u)) /\ UNCHANGED fredVars
  BY <1>1 DEF PickUser, On, display, who, scan, list, marks, bigfred, jobVars, fredVars
<1>2. CASE EnterPin /\ UNCHANGED fredVars
  BY <1>2 DEF EnterPin, On, Enter, RunScan, ScanPage, display, who, scan, list, marks, bigfred,
     jobVars, fredVars
<1>3. CASE Keep /\ UNCHANGED fredVars
  BY <1>3 DEF Keep, On, display, who, scan, list, marks, bigfred, jobVars, fredVars
<1>4. CASE RetryScan /\ UNCHANGED fredVars
  BY <1>4 DEF RetryScan, RunScan, ScanPage, display, who, scan, list, marks, bigfred, jobVars,
     fredVars
<1>5. CASE (\E s \in Stations : ChooseStation(s)) /\ UNCHANGED fredVars
  BY <1>5 DEF ChooseStation, On, display, who, scan, list, marks, bigfred, jobVars, fredVars
<1>6. CASE (\E v \in Vehicles : Toggle(v)) /\ UNCHANGED fredVars
  BY <1>6 DEF Toggle, ListPage, display, who, scan, list, marks, bigfred, jobVars, fredVars
<1>7. CASE Turns /\ UNCHANGED fredVars
  BY <1>7 DEF Turns, Turn, On, Enter, RunScan, ScanPage, display, who, scan, list, marks,
     bigfred, jobVars, fredVars
<1>8. CASE HelloAnswers /\ UNCHANGED fredVars
  BY <1>8 DEF HelloAnswers, display, who, scan, list, marks, bigfred, jobVars, fredVars
<1>9. CASE ScanFails /\ UNCHANGED fredVars
  BY <1>9 DEF ScanFails, display, who, scan, list, marks, bigfred, jobVars, fredVars
<1>10. CASE (\E found \in SUBSET Keys : ScanAnswers(found)) /\ UNCHANGED fredVars
  BY <1>10 DEF ScanAnswers, display, who, scan, list, marks, bigfred, jobVars, fredVars
<1>11. CASE AccountYes
  BY <1>11 DEF AccountYes, Steps, FredOn, Enter, RunScan, ScanPage, display, who, scan, list,
     marks, bigfred, jobVars, fredVars
<1>12. CASE AccountNo
  BY <1>12 DEF AccountNo, FredOn, Enter, RunScan, ScanPage, display, who, scan, list, marks,
     bigfred, jobVars, fredVars
<1>13. CASE TypeAddress
  BY <1>13 DEF TypeAddress, FredOn, wirelessVars, display, who, scan, list, marks, bigfred,
     jobVars, fredVars
<1>14. CASE BackFromAddress
  BY <1>14 DEF BackFromAddress, Steps, FredOn, Enter, RunScan, ScanPage, display, who, scan,
     list, marks, bigfred, jobVars, fredVars
<1>15. CASE ForgetUser("user", "fredAccountAsk")
  BY <1>15 DEF ForgetUser, FredOn, Enter, RunScan, ScanPage, display, who, scan, list, marks,
     bigfred, jobVars, fredVars
<1>16. CASE ForgetUser("fredRoster", "user")
  BY <1>16 DEF ForgetUser, FredOn, Enter, RunScan, ScanPage, display, who, scan, list, marks,
     bigfred, jobVars, fredVars
<1>17. CASE GoAfterFredAddress
  BY <1>17 DEF GoAfterFredAddress, AddressTyped, AddressPicked, FredOn, Enter, RunScan,
     ScanPage, display, who, scan, list, marks, bigfred, jobVars, fredVars
<1>18. CASE \E k \in Keys : PickStation(k)
  BY <1>18 DEF PickStation, FredOn, display, who, scan, list, marks, bigfred, jobVars, fredVars
<1>19. CASE BackFromZ21
  BY <1>19 DEF BackFromZ21, AddressPage, Steps, FredOn, Enter, RunScan, ScanPage, display, who,
     scan, list, marks, bigfred, jobVars, fredVars
<1>20. CASE BackFromPlug
  BY <1>20 DEF BackFromPlug, AddressPage, Steps, FredOn, Enter, RunScan, ScanPage, display, who,
     scan, list, marks, bigfred, jobVars, fredVars
<1>21. CASE RetryFred
  BY <1>21 DEF RetryFred, Steps, FredOn, Enter, RunScan, ScanPage, display, who, scan, list,
     marks, bigfred, jobVars, fredVars
<1>22. CASE AskLocoRetry
  BY <1>22 DEF AskLocoRetry, Steps, FredOn, Enter, RunScan, ScanPage, display, who, scan, list,
     marks, bigfred, jobVars, fredVars
<1>23. CASE ConfigPoll
  BY <1>23 DEF ConfigPoll, wirelessVars, display, who, scan, list, marks, bigfred, jobVars,
     fredVars
<1> QED
  BY <1>1, <1>2, <1>3, <1>4, <1>5, <1>6, <1>7, <1>8, <1>9, <1>10, <1>11, <1>12, <1>13, <1>14,
     <1>15, <1>16, <1>17, <1>18, <1>19, <1>20, <1>21, <1>22, <1>23 DEF Walk, WirelessWalk,
     FredWalk

(***************************************************************************)
(* The type invariant of the pages, in parts                               *)
(***************************************************************************)
Pages == {"home", "user", "wpPin", "station", "rePairConfirm", "wpEnterPairing", "wpScan",
          "wpRoster", "wpProgramming", "wpFailed", "wpDone", "fredAccountAsk",
          "fredGuestAddress", "fredRoster", "fredZ21", "fredPlug", "fredAskLoco"}

MarksOK ==
    /\ busy \in BOOLEAN /\ hello \in BOOLEAN /\ uncancelled \in BOOLEAN /\ late \in BOOLEAN
    /\ guest \in BOOLEAN /\ typed \in BOOLEAN /\ fixed \in BOOLEAN

PageOK ==
    /\ device \in Devices /\ usable \in SUBSET Stations /\ phase \in Pages
    /\ user \in Users \cup {None} /\ pin \in Users \cup {None} /\ station \in Stations \cup {None}
    /\ candidates \in SUBSET Keys /\ candidate \in Keys \cup {None}

ScansOK == hellos \in Nat /\ scans \in Nat /\ 2 * hellos + scans <= MaxScans

ListOK ==
    /\ vehicles \in SUBSET Vehicles
    /\ rosterIds \in Seq(Vehicles) /\ Len(rosterIds) <= MaxRoster

(* A walk keeps the types of what it changes. *)
LEMMA WalkMarks == ASSUME MarksOK, Walk PROVE MarksOK'
<1>1. CASE (\E u \in Users : PickUser(u)) /\ UNCHANGED fredVars
  BY <1>1 DEF PickUser, On, display, who, scan, list, marks, bigfred, jobVars, fredVars, MarksOK
<1>2. CASE EnterPin /\ UNCHANGED fredVars
  BY <1>2 DEF EnterPin, On, Enter, RunScan, ScanPage, display, who, scan, list, marks, bigfred,
     jobVars, fredVars, MarksOK
<1>3. CASE Keep /\ UNCHANGED fredVars
  BY <1>3 DEF Keep, On, display, who, scan, list, marks, bigfred, jobVars, fredVars, MarksOK
<1>4. CASE RetryScan /\ UNCHANGED fredVars
  BY <1>4 DEF RetryScan, RunScan, ScanPage, display, who, scan, list, marks, bigfred, jobVars,
     fredVars, MarksOK
<1>5. CASE (\E s \in Stations : ChooseStation(s)) /\ UNCHANGED fredVars
  BY <1>5 DEF ChooseStation, On, display, who, scan, list, marks, bigfred, jobVars, fredVars,
     MarksOK
<1>6. CASE (\E v \in Vehicles : Toggle(v)) /\ UNCHANGED fredVars
  BY <1>6 DEF Toggle, ListPage, display, who, scan, list, marks, bigfred, jobVars, fredVars,
     MarksOK
<1>7. CASE Turns /\ UNCHANGED fredVars
  BY <1>7 DEF Turns, Turn, On, Enter, RunScan, ScanPage, display, who, scan, list, marks,
     bigfred, jobVars, fredVars, MarksOK
<1>8. CASE HelloAnswers /\ UNCHANGED fredVars
  BY <1>8 DEF HelloAnswers, display, who, scan, list, marks, bigfred, jobVars, fredVars, MarksOK
<1>9. CASE ScanFails /\ UNCHANGED fredVars
  BY <1>9 DEF ScanFails, display, who, scan, list, marks, bigfred, jobVars, fredVars, MarksOK
<1>10. CASE (\E found \in SUBSET Keys : ScanAnswers(found)) /\ UNCHANGED fredVars
  BY <1>10 DEF ScanAnswers, display, who, scan, list, marks, bigfred, jobVars, fredVars, MarksOK
<1>11. CASE AccountYes
  BY <1>11 DEF AccountYes, Steps, FredOn, Enter, RunScan, ScanPage, display, who, scan, list,
     marks, bigfred, jobVars, fredVars, MarksOK
<1>12. CASE AccountNo
  BY <1>12 DEF AccountNo, FredOn, Enter, RunScan, ScanPage, display, who, scan, list, marks,
     bigfred, jobVars, fredVars, MarksOK
<1>13. CASE TypeAddress
  BY <1>13 DEF TypeAddress, FredOn, wirelessVars, display, who, scan, list, marks, bigfred,
     jobVars, fredVars, MarksOK
<1>14. CASE BackFromAddress
  BY <1>14 DEF BackFromAddress, Steps, FredOn, Enter, RunScan, ScanPage, display, who, scan,
     list, marks, bigfred, jobVars, fredVars, MarksOK
<1>15. CASE ForgetUser("user", "fredAccountAsk")
  BY <1>15 DEF ForgetUser, FredOn, Enter, RunScan, ScanPage, display, who, scan, list, marks,
     bigfred, jobVars, fredVars, MarksOK
<1>16. CASE ForgetUser("fredRoster", "user")
  BY <1>16 DEF ForgetUser, FredOn, Enter, RunScan, ScanPage, display, who, scan, list, marks,
     bigfred, jobVars, fredVars, MarksOK
<1>17. CASE GoAfterFredAddress
  BY <1>17 DEF GoAfterFredAddress, AddressTyped, AddressPicked, FredOn, Enter, RunScan,
     ScanPage, display, who, scan, list, marks, bigfred, jobVars, fredVars, MarksOK
<1>18. CASE \E k \in Keys : PickStation(k)
  BY <1>18 DEF PickStation, FredOn, display, who, scan, list, marks, bigfred, jobVars, fredVars,
     MarksOK
<1>19. CASE BackFromZ21
  BY <1>19 DEF BackFromZ21, AddressPage, Steps, FredOn, Enter, RunScan, ScanPage, display, who,
     scan, list, marks, bigfred, jobVars, fredVars, MarksOK
<1>20. CASE BackFromPlug
  BY <1>20 DEF BackFromPlug, AddressPage, Steps, FredOn, Enter, RunScan, ScanPage, display, who,
     scan, list, marks, bigfred, jobVars, fredVars, MarksOK
<1>21. CASE RetryFred
  BY <1>21 DEF RetryFred, Steps, FredOn, Enter, RunScan, ScanPage, display, who, scan, list,
     marks, bigfred, jobVars, fredVars, MarksOK
<1>22. CASE AskLocoRetry
  BY <1>22 DEF AskLocoRetry, Steps, FredOn, Enter, RunScan, ScanPage, display, who, scan, list,
     marks, bigfred, jobVars, fredVars, MarksOK
<1>23. CASE ConfigPoll
  BY <1>23 DEF ConfigPoll, wirelessVars, display, who, scan, list, marks, bigfred, jobVars,
     fredVars, MarksOK
<1> QED
  BY <1>1, <1>2, <1>3, <1>4, <1>5, <1>6, <1>7, <1>8, <1>9, <1>10, <1>11, <1>12, <1>13, <1>14,
     <1>15, <1>16, <1>17, <1>18, <1>19, <1>20, <1>21, <1>22, <1>23 DEF Walk, WirelessWalk,
     FredWalk

LEMMA WalkPage == ASSUME PageOK, Walk, UNCHANGED <<device, usable>> PROVE PageOK'
<1>1. CASE (\E u \in Users : PickUser(u)) /\ UNCHANGED fredVars
  BY <1>1, FredAssumption DEF PickUser, On, display, who, scan, list, marks, bigfred, jobVars,
     fredVars, PageOK, Pages
<1>2. CASE EnterPin /\ UNCHANGED fredVars
  BY <1>2, FredAssumption DEF EnterPin, On, Enter, RunScan, ScanPage, display, who, scan, list,
     marks, bigfred, jobVars, fredVars, PageOK, Pages
<1>3. CASE Keep /\ UNCHANGED fredVars
  BY <1>3, FredAssumption DEF Keep, On, display, who, scan, list, marks, bigfred, jobVars,
     fredVars, PageOK, Pages
<1>4. CASE RetryScan /\ UNCHANGED fredVars
  BY <1>4, FredAssumption DEF RetryScan, RunScan, ScanPage, display, who, scan, list, marks,
     bigfred, jobVars, fredVars, PageOK, Pages
<1>5. CASE (\E s \in Stations : ChooseStation(s)) /\ UNCHANGED fredVars
  BY <1>5, FredAssumption DEF ChooseStation, On, display, who, scan, list, marks, bigfred,
     jobVars, fredVars, PageOK, Pages
<1>6. CASE (\E v \in Vehicles : Toggle(v)) /\ UNCHANGED fredVars
  BY <1>6, FredAssumption DEF Toggle, ListPage, display, who, scan, list, marks, bigfred,
     jobVars, fredVars, PageOK, Pages
<1>7. CASE Turns /\ UNCHANGED fredVars
  BY <1>7, FredAssumption DEF Turns, Turn, On, Enter, RunScan, ScanPage, display, who, scan,
     list, marks, bigfred, jobVars, fredVars, PageOK, Pages
<1>8. CASE HelloAnswers /\ UNCHANGED fredVars
  BY <1>8, FredAssumption DEF HelloAnswers, display, who, scan, list, marks, bigfred, jobVars,
     fredVars, PageOK, Pages
<1>9. CASE ScanFails /\ UNCHANGED fredVars
  BY <1>9, FredAssumption DEF ScanFails, display, who, scan, list, marks, bigfred, jobVars,
     fredVars, PageOK, Pages
<1>10. CASE (\E found \in SUBSET Keys : ScanAnswers(found)) /\ UNCHANGED fredVars
  BY <1>10, FredAssumption DEF ScanAnswers, display, who, scan, list, marks, bigfred, jobVars,
     fredVars, PageOK, Pages
<1>11. CASE AccountYes
  BY <1>11, FredAssumption DEF AccountYes, Steps, FredOn, Enter, RunScan, ScanPage, display,
     who, scan, list, marks, bigfred, jobVars, fredVars, PageOK, Pages
<1>12. CASE AccountNo
  BY <1>12, FredAssumption DEF AccountNo, FredOn, Enter, RunScan, ScanPage, display, who, scan,
     list, marks, bigfred, jobVars, fredVars, PageOK, Pages
<1>13. CASE TypeAddress
  BY <1>13, FredAssumption DEF TypeAddress, FredOn, wirelessVars, display, who, scan, list,
     marks, bigfred, jobVars, fredVars, PageOK, Pages
<1>14. CASE BackFromAddress
  BY <1>14, FredAssumption DEF BackFromAddress, Steps, FredOn, Enter, RunScan, ScanPage,
     display, who, scan, list, marks, bigfred, jobVars, fredVars, PageOK, Pages
<1>15. CASE ForgetUser("user", "fredAccountAsk")
  BY <1>15, FredAssumption DEF ForgetUser, FredOn, Enter, RunScan, ScanPage, display, who, scan,
     list, marks, bigfred, jobVars, fredVars, PageOK, Pages
<1>16. CASE ForgetUser("fredRoster", "user")
  BY <1>16, FredAssumption DEF ForgetUser, FredOn, Enter, RunScan, ScanPage, display, who, scan,
     list, marks, bigfred, jobVars, fredVars, PageOK, Pages
<1>17. CASE GoAfterFredAddress
  BY <1>17, FredAssumption DEF GoAfterFredAddress, AddressTyped, AddressPicked, FredOn, Enter,
     RunScan, ScanPage, display, who, scan, list, marks, bigfred, jobVars, fredVars, PageOK,
     Pages
<1>18. CASE \E k \in Keys : PickStation(k)
  BY <1>18, FredAssumption DEF PickStation, FredOn, display, who, scan, list, marks, bigfred,
     jobVars, fredVars, PageOK, Pages
<1>19. CASE BackFromZ21
  BY <1>19, FredAssumption DEF BackFromZ21, AddressPage, Steps, FredOn, Enter, RunScan,
     ScanPage, display, who, scan, list, marks, bigfred, jobVars, fredVars, PageOK, Pages
<1>20. CASE BackFromPlug
  BY <1>20, FredAssumption DEF BackFromPlug, AddressPage, Steps, FredOn, Enter, RunScan,
     ScanPage, display, who, scan, list, marks, bigfred, jobVars, fredVars, PageOK, Pages
<1>21. CASE RetryFred
  BY <1>21, FredAssumption DEF RetryFred, Steps, FredOn, Enter, RunScan, ScanPage, display, who,
     scan, list, marks, bigfred, jobVars, fredVars, PageOK, Pages
<1>22. CASE AskLocoRetry
  BY <1>22, FredAssumption DEF AskLocoRetry, Steps, FredOn, Enter, RunScan, ScanPage, display,
     who, scan, list, marks, bigfred, jobVars, fredVars, PageOK, Pages
<1>23. CASE ConfigPoll
  BY <1>23, FredAssumption DEF ConfigPoll, wirelessVars, display, who, scan, list, marks,
     bigfred, jobVars, fredVars, PageOK, Pages
<1> QED
  BY <1>1, <1>2, <1>3, <1>4, <1>5, <1>6, <1>7, <1>8, <1>9, <1>10, <1>11, <1>12, <1>13, <1>14,
     <1>15, <1>16, <1>17, <1>18, <1>19, <1>20, <1>21, <1>22, <1>23 DEF Walk, WirelessWalk,
     FredWalk

LEMMA WalkScans == ASSUME ScansOK, Walk PROVE ScansOK'
<1>1. CASE (\E u \in Users : PickUser(u)) /\ UNCHANGED fredVars
  BY <1>1, FlowAssumption DEF PickUser, On, display, who, scan, list, marks, bigfred, jobVars,
     fredVars, ScansOK
<1>2. CASE EnterPin /\ UNCHANGED fredVars
  BY <1>2, FlowAssumption DEF EnterPin, On, Enter, RunScan, ScanPage, display, who, scan, list,
     marks, bigfred, jobVars, fredVars, ScansOK
<1>3. CASE Keep /\ UNCHANGED fredVars
  BY <1>3, FlowAssumption DEF Keep, On, display, who, scan, list, marks, bigfred, jobVars,
     fredVars, ScansOK
<1>4. CASE RetryScan /\ UNCHANGED fredVars
  BY <1>4, FlowAssumption DEF RetryScan, RunScan, ScanPage, display, who, scan, list, marks,
     bigfred, jobVars, fredVars, ScansOK
<1>5. CASE (\E s \in Stations : ChooseStation(s)) /\ UNCHANGED fredVars
  BY <1>5, FlowAssumption DEF ChooseStation, On, display, who, scan, list, marks, bigfred,
     jobVars, fredVars, ScansOK
<1>6. CASE (\E v \in Vehicles : Toggle(v)) /\ UNCHANGED fredVars
  BY <1>6, FlowAssumption DEF Toggle, ListPage, display, who, scan, list, marks, bigfred,
     jobVars, fredVars, ScansOK
<1>7. CASE Turns /\ UNCHANGED fredVars
  BY <1>7, FlowAssumption DEF Turns, Turn, On, Enter, RunScan, ScanPage, display, who, scan,
     list, marks, bigfred, jobVars, fredVars, ScansOK
<1>8. CASE HelloAnswers /\ UNCHANGED fredVars
  BY <1>8, FlowAssumption DEF HelloAnswers, display, who, scan, list, marks, bigfred, jobVars,
     fredVars, ScansOK
<1>9. CASE ScanFails /\ UNCHANGED fredVars
  BY <1>9, FlowAssumption DEF ScanFails, display, who, scan, list, marks, bigfred, jobVars,
     fredVars, ScansOK
<1>10. CASE (\E found \in SUBSET Keys : ScanAnswers(found)) /\ UNCHANGED fredVars
  BY <1>10, FlowAssumption DEF ScanAnswers, display, who, scan, list, marks, bigfred, jobVars,
     fredVars, ScansOK
<1>11. CASE AccountYes
  BY <1>11, FlowAssumption DEF AccountYes, Steps, FredOn, Enter, RunScan, ScanPage, display,
     who, scan, list, marks, bigfred, jobVars, fredVars, ScansOK
<1>12. CASE AccountNo
  BY <1>12, FlowAssumption DEF AccountNo, FredOn, Enter, RunScan, ScanPage, display, who, scan,
     list, marks, bigfred, jobVars, fredVars, ScansOK
<1>13. CASE TypeAddress
  BY <1>13, FlowAssumption DEF TypeAddress, FredOn, wirelessVars, display, who, scan, list,
     marks, bigfred, jobVars, fredVars, ScansOK
<1>14. CASE BackFromAddress
  BY <1>14, FlowAssumption DEF BackFromAddress, Steps, FredOn, Enter, RunScan, ScanPage,
     display, who, scan, list, marks, bigfred, jobVars, fredVars, ScansOK
<1>15. CASE ForgetUser("user", "fredAccountAsk")
  BY <1>15, FlowAssumption DEF ForgetUser, FredOn, Enter, RunScan, ScanPage, display, who, scan,
     list, marks, bigfred, jobVars, fredVars, ScansOK
<1>16. CASE ForgetUser("fredRoster", "user")
  BY <1>16, FlowAssumption DEF ForgetUser, FredOn, Enter, RunScan, ScanPage, display, who, scan,
     list, marks, bigfred, jobVars, fredVars, ScansOK
<1>17. CASE GoAfterFredAddress
  BY <1>17, FlowAssumption DEF GoAfterFredAddress, AddressTyped, AddressPicked, FredOn, Enter,
     RunScan, ScanPage, display, who, scan, list, marks, bigfred, jobVars, fredVars, ScansOK
<1>18. CASE \E k \in Keys : PickStation(k)
  BY <1>18, FlowAssumption DEF PickStation, FredOn, display, who, scan, list, marks, bigfred,
     jobVars, fredVars, ScansOK
<1>19. CASE BackFromZ21
  BY <1>19, FlowAssumption DEF BackFromZ21, AddressPage, Steps, FredOn, Enter, RunScan,
     ScanPage, display, who, scan, list, marks, bigfred, jobVars, fredVars, ScansOK
<1>20. CASE BackFromPlug
  BY <1>20, FlowAssumption DEF BackFromPlug, AddressPage, Steps, FredOn, Enter, RunScan,
     ScanPage, display, who, scan, list, marks, bigfred, jobVars, fredVars, ScansOK
<1>21. CASE RetryFred
  BY <1>21, FlowAssumption DEF RetryFred, Steps, FredOn, Enter, RunScan, ScanPage, display, who,
     scan, list, marks, bigfred, jobVars, fredVars, ScansOK
<1>22. CASE AskLocoRetry
  BY <1>22, FlowAssumption DEF AskLocoRetry, Steps, FredOn, Enter, RunScan, ScanPage, display,
     who, scan, list, marks, bigfred, jobVars, fredVars, ScansOK
<1>23. CASE ConfigPoll
  BY <1>23, FlowAssumption DEF ConfigPoll, wirelessVars, display, who, scan, list, marks,
     bigfred, jobVars, fredVars, ScansOK
<1> QED
  BY <1>1, <1>2, <1>3, <1>4, <1>5, <1>6, <1>7, <1>8, <1>9, <1>10, <1>11, <1>12, <1>13, <1>14,
     <1>15, <1>16, <1>17, <1>18, <1>19, <1>20, <1>21, <1>22, <1>23 DEF Walk, WirelessWalk,
     FredWalk

LEMMA EmptyRoster == <<>> \in Seq(Vehicles) /\ Len(<<>>) = 0
  BY EmptySeq

LEMMA MaxRosterIsNat == MaxRoster \in Nat
  BY FlowAssumption DEF MaxRoster

LEMMA WalkList == ASSUME ListOK, Walk, UNCHANGED device PROVE ListOK'
<1>0. MaxRoster' = MaxRoster
  BY DEF MaxRoster
<1>1. CASE (\E u \in Users : PickUser(u)) /\ UNCHANGED fredVars
  BY <1>1, <1>0 DEF PickUser, On, display, who, scan, list, marks, bigfred, jobVars, fredVars,
     ListOK
<1>2. CASE EnterPin /\ UNCHANGED fredVars
  BY <1>2, <1>0 DEF EnterPin, On, Enter, RunScan, ScanPage, display, who, scan, list, marks,
     bigfred, jobVars, fredVars, ListOK
<1>3. CASE Keep /\ UNCHANGED fredVars
  BY <1>3, <1>0 DEF Keep, On, display, who, scan, list, marks, bigfred, jobVars, fredVars,
     ListOK
<1>4. CASE RetryScan /\ UNCHANGED fredVars
  BY <1>4, <1>0 DEF RetryScan, RunScan, ScanPage, display, who, scan, list, marks, bigfred,
     jobVars, fredVars, ListOK
<1>5. CASE (\E s \in Stations : ChooseStation(s)) /\ UNCHANGED fredVars
  BY <1>5, <1>0 DEF ChooseStation, On, display, who, scan, list, marks, bigfred, jobVars,
     fredVars, ListOK
<1>6. CASE (\E v \in Vehicles : Toggle(v)) /\ UNCHANGED fredVars
  <2>1. PICK v \in Vehicles : rosterIds' = Toggled(rosterIds, v, MaxRoster) /\ UNCHANGED vehicles
    BY <1>6 DEF Toggle
  <2> QED
    BY <1>0, <2>1, MaxRosterIsNat, ToggledRoster DEF ListOK
<1>7. CASE Turns /\ UNCHANGED fredVars
  BY <1>7, <1>0 DEF Turns, Turn, On, Enter, RunScan, ScanPage, display, who, scan, list, marks,
     bigfred, jobVars, fredVars, ListOK
<1>8. CASE HelloAnswers /\ UNCHANGED fredVars
  BY <1>8, <1>0 DEF HelloAnswers, display, who, scan, list, marks, bigfred, jobVars, fredVars,
     ListOK
<1>9. CASE ScanFails /\ UNCHANGED fredVars
  BY <1>9, <1>0 DEF ScanFails, display, who, scan, list, marks, bigfred, jobVars, fredVars,
     ListOK
<1>10. CASE (\E found \in SUBSET Keys : ScanAnswers(found)) /\ UNCHANGED fredVars
  BY <1>10, <1>0 DEF ScanAnswers, display, who, scan, list, marks, bigfred, jobVars, fredVars,
     ListOK
<1>11. CASE AccountYes
  BY <1>11, <1>0 DEF AccountYes, Steps, FredOn, Enter, RunScan, ScanPage, display, who, scan,
     list, marks, bigfred, jobVars, fredVars, ListOK
<1>12. CASE AccountNo
  BY <1>12, <1>0, MaxRosterIsNat, EmptyRoster DEF AccountNo, FredOn, Enter, RunScan, ScanPage, display, who, scan, list,
     marks, bigfred, jobVars, fredVars, ListOK
<1>13. CASE TypeAddress
  BY <1>13, <1>0 DEF TypeAddress, FredOn, wirelessVars, display, who, scan, list, marks,
     bigfred, jobVars, fredVars, ListOK
<1>14. CASE BackFromAddress
  BY <1>14, <1>0 DEF BackFromAddress, Steps, FredOn, Enter, RunScan, ScanPage, display, who,
     scan, list, marks, bigfred, jobVars, fredVars, ListOK
<1>15. CASE ForgetUser("user", "fredAccountAsk")
  BY <1>15, <1>0 DEF ForgetUser, FredOn, Enter, RunScan, ScanPage, display, who, scan, list,
     marks, bigfred, jobVars, fredVars, ListOK
<1>16. CASE ForgetUser("fredRoster", "user")
  BY <1>16, <1>0 DEF ForgetUser, FredOn, Enter, RunScan, ScanPage, display, who, scan, list,
     marks, bigfred, jobVars, fredVars, ListOK
<1>17. CASE GoAfterFredAddress
  BY <1>17, <1>0 DEF GoAfterFredAddress, AddressTyped, AddressPicked, FredOn, Enter, RunScan,
     ScanPage, display, who, scan, list, marks, bigfred, jobVars, fredVars, ListOK
<1>18. CASE \E k \in Keys : PickStation(k)
  BY <1>18, <1>0 DEF PickStation, FredOn, display, who, scan, list, marks, bigfred, jobVars,
     fredVars, ListOK
<1>19. CASE BackFromZ21
  BY <1>19, <1>0 DEF BackFromZ21, AddressPage, Steps, FredOn, Enter, RunScan, ScanPage, display,
     who, scan, list, marks, bigfred, jobVars, fredVars, ListOK
<1>20. CASE BackFromPlug
  BY <1>20, <1>0 DEF BackFromPlug, AddressPage, Steps, FredOn, Enter, RunScan, ScanPage,
     display, who, scan, list, marks, bigfred, jobVars, fredVars, ListOK
<1>21. CASE RetryFred
  BY <1>21, <1>0 DEF RetryFred, Steps, FredOn, Enter, RunScan, ScanPage, display, who, scan,
     list, marks, bigfred, jobVars, fredVars, ListOK
<1>22. CASE AskLocoRetry
  BY <1>22, <1>0 DEF AskLocoRetry, Steps, FredOn, Enter, RunScan, ScanPage, display, who, scan,
     list, marks, bigfred, jobVars, fredVars, ListOK
<1>23. CASE ConfigPoll
  BY <1>23, <1>0 DEF ConfigPoll, wirelessVars, display, who, scan, list, marks, bigfred,
     jobVars, fredVars, ListOK
<1> QED
  BY <1>1, <1>2, <1>3, <1>4, <1>5, <1>6, <1>7, <1>8, <1>9, <1>10, <1>11, <1>12, <1>13, <1>14,
     <1>15, <1>16, <1>17, <1>18, <1>19, <1>20, <1>21, <1>22, <1>23 DEF Walk, WirelessWalk,
     FredWalk

CallsOK == calls \subseteq Calls

HandsetIds == (0 .. Len(pairings)) \cup {OldHandset}

HandsetsKnown ==
    /\ existing \in HandsetIds
    /\ \A c \in calls : c.kind = "unpair" => c.client \in HandsetIds

DeviceKnown ==
    /\ device # "wifred" => /\ phase \notin {"station", "rePairConfirm"}
                            /\ \A c \in calls : c.kind \notin {"verify", "status"}
    /\ device = "fred" => \A c \in calls : c.kind # "start"

PairingsOK == pairings \in Seq(Pairing) /\ Len(pairings) <= MaxPairings

LEMMA HandsetIdsInRange == ASSUME PairingsOK PROVE HandsetIds \subseteq 0 .. OldHandset
<1>1. Len(pairings) \in Nat /\ MaxPairings \in Nat
  BY LenProperties, PairingsAssumption DEF PairingsOK
<1> QED
  BY <1>1 DEF HandsetIds, OldHandset, PairingsOK

(* A call that is made is marked one way or the other. *)
LEMMA MadeOne ==
    ASSUME NEW cs, NEW c
    PROVE  \E again \in BOOLEAN : Made(cs, c) = cs \cup {Marked(c, again)}
<1> DEFINE b == Marked(c, FALSE) \in cs
<1>1. b \in BOOLEAN
  OBVIOUS
<1>2. Made(cs, c) = cs \cup {Marked(c, b)}
  BY DEF Made
<1> QED
  BY <1>1, <1>2

(* What is common to the steps that make a call m. *)
Asks(m) ==
    /\ calls' = calls \cup {m} /\ m \in Calls
    /\ phase \in {"wpPin", "station", "rePairConfirm", "wpScan", "wpRoster", "user"}
    /\ m.kind \in {"verify", "status"} => device = "wifred"
    /\ m.kind = "unpair" => phase = "rePairConfirm" /\ m.client = existing
    /\ m.kind = "start" => /\ phase = "wpRoster" /\ phase' = "wpProgramming" /\ device # "fred"
                           /\ m.user = user /\ m.key = candidate
                           /\ m.roster = RosterFromVehicles(vehicles, rosterIds)
                           /\ UNCHANGED candidate
    /\ m.kind # "start" => phase' = phase
    /\ m.kind # "cancel"
    /\ UNCHANGED user \/ (device = "fred" /\ phase = "user")
    /\ UNCHANGED <<pin, existing, vehicles, rosterIds, late, uncancelled, pairings, handset,
                   jobs, written>>

(* Every step of Ask makes one call. *)
LEMMA AskParts ==
    ASSUME PageOK, ListOK, PairingsOK, HandsetsKnown, DeviceKnown, Ask
    PROVE  \E m : Asks(m)
<1>0. existing \in 0 .. OldHandset
  BY HandsetIdsInRange DEF HandsetsKnown
<1>1. CASE SubmitPin
  <2> DEFINE c == [kind |-> "verify", user |-> user]
  <2>1. /\ user \in Users /\ phase = "wpPin" /\ device = "wifred" /\ calls' = Made(calls, c)
        /\ UNCHANGED <<phase, who, scan, list, marks, bigfred, jobVars>>
    BY <1>1 DEF SubmitPin, On, Calling, PageOK
  <2>2. PICK again \in BOOLEAN : calls' = calls \cup {Marked(c, again)}
    BY <2>1, MadeOne
  <2>3. Marked(c, again) \in Calls /\ Marked(c, again).kind = "verify"
    <3>1. Marked(c, again).kind = "verify"
      BY DEF Marked
    <3> QED
      BY <2>1, <3>1, MarkedCalls
  <2> HIDE DEF c
  <2>4. Asks(Marked(c, again))
    BY <2>1, <2>2, <2>3 DEF Asks, who, scan, list, marks, bigfred, jobVars
  <2> QED
    BY <2>4
<1>2. CASE StartAtStation
  <2> DEFINE c == [kind |-> "status", user |-> user, station |-> station]
  <2>1. /\ user \in Users /\ station \in Stations /\ phase = "station" /\ calls' = Made(calls, c)
        /\ UNCHANGED <<phase, who, scan, list, marks, bigfred, jobVars>>
    BY <1>2 DEF StartAtStation, Status, On, Calling, PageOK
  <2>2. PICK again \in BOOLEAN : calls' = calls \cup {Marked(c, again)}
    BY <2>1, MadeOne
  <2>3. Marked(c, again) \in Calls /\ Marked(c, again).kind = "status"
    <3>1. Marked(c, again).kind = "status"
      BY DEF Marked
    <3> QED
      BY <2>1, <3>1, MarkedCalls
  <2> HIDE DEF c
  <2>4. Asks(Marked(c, again))
    BY <2>1, <2>2, <2>3 DEF Asks, DeviceKnown, who, scan, list, marks, bigfred, jobVars
  <2> QED
    BY <2>4
<1>3. CASE Replace
  <2> DEFINE c == [kind |-> "unpair", user |-> user, station |-> station, client |-> existing]
  <2>1. /\ user \in Users /\ station \in Stations /\ phase = "rePairConfirm"
        /\ calls' = Made(calls, c)
        /\ UNCHANGED <<phase, who, scan, list, marks, bigfred, jobVars>>
    BY <1>3 DEF Replace, On, Calling, PageOK
  <2>2. PICK again \in BOOLEAN : calls' = calls \cup {Marked(c, again)}
    BY <2>1, MadeOne
  <2>3. Marked(c, again) \in Calls /\ Marked(c, again).kind = "unpair"
        /\ Marked(c, again).client = existing
    <3>1. Marked(c, again).kind = "unpair" /\ Marked(c, again).client = existing
      BY DEF Marked
    <3> QED
      BY <1>0, <2>1, <3>1, MarkedCalls
  <2> HIDE DEF c
  <2>4. Asks(Marked(c, again))
    BY <2>1, <2>2, <2>3 DEF Asks, who, scan, list, marks, bigfred, jobVars
  <2> QED
    BY <2>4
<1>4. CASE StartProgramming
  <2> DEFINE r == RosterFromVehicles(vehicles, rosterIds)
             c == [kind |-> "start", user |-> user, station |-> station, key |-> candidate,
                   roster |-> r]
  <2>1. /\ user \in Users /\ station \in Stations /\ candidate \in Keys
        /\ phase = "wpRoster" /\ phase' = "wpProgramming" /\ device # "fred"
        /\ calls' = Made(calls, c)
        /\ UNCHANGED <<who, scan, list, marks, bigfred, jobVars>>
    BY <1>4 DEF StartProgramming, Programming, On, Calling, PageOK
  <2>2. r \in Seq(Vehicles)
    BY RosterMembers DEF ListOK
  <2>3. PICK again \in BOOLEAN : calls' = calls \cup {Marked(c, again)}
    BY <2>1, MadeOne
  <2>4. /\ Marked(c, again).kind = "start" /\ Marked(c, again).user = user
        /\ Marked(c, again).key = candidate /\ Marked(c, again).roster = r
    BY DEF Marked
  <2>5. Marked(c, again) \in Calls
    BY <2>1, <2>2, MarkedCalls
  <2> HIDE DEF c
  <2>6. Asks(Marked(c, again))
    BY <2>1, <2>3, <2>4, <2>5 DEF Asks, who, scan, list, marks, bigfred, jobVars
  <2> QED
    BY <2>6
<1>5. ASSUME NEW k \in Keys, PickCandidate(k), device # "longfred" PROVE \E m : Asks(m)
  <2> DEFINE c == [kind |-> "load", user |-> user]
  <2>1. /\ user \in Users /\ phase = "wpScan" /\ calls' = Made(calls, c)
        /\ UNCHANGED <<phase, who, list, marks, bigfred, jobVars>>
    BY <1>5 DEF PickCandidate, On, Calling, PageOK
  <2>2. PICK again \in BOOLEAN : calls' = calls \cup {Marked(c, again)}
    BY <2>1, MadeOne
  <2>3. Marked(c, again) \in Calls /\ Marked(c, again).kind = "load"
    <3>1. Marked(c, again).kind = "load"
      BY DEF Marked
    <3> QED
      BY <2>1, <3>1, MarkedCalls
  <2> HIDE DEF c
  <2>4. Asks(Marked(c, again))
    BY <2>1, <2>2, <2>3 DEF Asks, who, list, marks, bigfred, jobVars
  <2> QED
    BY <2>4
<1>6. ASSUME NEW u \in Users, PickFredUser(u) PROVE \E m : Asks(m)
  <2> DEFINE c == [kind |-> "load", user |-> u]
  <2>1. /\ phase = "user" /\ device = "fred" /\ calls' = Made(calls, c)
        /\ UNCHANGED <<phase, pin, existing, scan, list, marks, bigfred, jobVars>>
    BY <1>6 DEF PickFredUser, FredOn, Calling
  <2>2. PICK again \in BOOLEAN : calls' = calls \cup {Marked(c, again)}
    BY <2>1, MadeOne
  <2>3. Marked(c, again) \in Calls /\ Marked(c, again).kind = "load"
    <3>1. Marked(c, again).kind = "load"
      BY DEF Marked
    <3> QED
      BY <3>1, MarkedCalls
  <2> HIDE DEF c
  <2>4. Asks(Marked(c, again))
    BY <2>1, <2>2, <2>3 DEF Asks, list, marks, bigfred, jobVars
  <2> QED
    BY <2>4
<1> QED
  BY <1>1, <1>2, <1>3, <1>4, <1>5, <1>6 DEF Ask

-----------------------------------------------------------------------------
(* What is common to the steps that order o at once *)
OrdersAtOnce(o) ==
    /\ Program(candidate', o) /\ candidate' \in Keys
    /\ o \in HandsetOrders /\ o.user = user /\ o.code = NoPairing
    /\ device = "fred" => phase = "fredPlug" /\ o.pin = None /\ o.roster = FredAddress
    /\ device # "fred" => /\ device = "longfred" /\ phase = "wpScan"
                          /\ o.pin = pin /\ o.roster = <<>>
    /\ phase' = "wpProgramming"
    /\ UNCHANGED <<user, pin, existing, guest, typed, vehicles, rosterIds, calls, late,
                   uncancelled, pairings, handset>>

(* The address of a FRED is a vehicle of the list, or typed. *)
LEMMA FredAddressRoster ==
    ASSUME ListOK
    PROVE  /\ FredAddress \in Seq(Vehicles \cup {None})
           /\ \A i \in DOMAIN FredAddress : FredAddress[i] # None => FredAddress[i] \in vehicles
<1>1. CASE guest
  <2>1. FredAddress \in {<<None>>, <<>>}
    BY <1>1 DEF FredAddress
  <2>2. <<>> \in Seq(Vehicles \cup {None}) /\ DOMAIN <<>> = {}
    BY EmptySeq
  <2>3. <<None>> \in Seq(Vehicles \cup {None}) /\ \A i \in DOMAIN <<None>> : <<None>>[i] = None
    OBVIOUS
  <2> QED
    BY <2>1, <2>2, <2>3
<1>2. CASE ~guest
  <2> DEFINE r == RosterFromVehicles(vehicles, rosterIds)
  <2>1. r \in Seq(Vehicles) /\ \A i \in DOMAIN r : r[i] \in vehicles
    BY RosterMembers DEF ListOK
  <2>2. FredAddress = r
    BY <1>2 DEF FredAddress
  <2> HIDE DEF r
  <2>3. r \in Seq(Vehicles \cup {None})
    BY <2>1, SeqMonotonic
  <2> QED
    BY <2>1, <2>2, <2>3
<1> QED
  BY <1>1, <1>2

(* Every step of OrderNow orders once. *)
LEMMA OrderNowParts ==
    ASSUME PageOK, ListOK, OrderNow, UNCHANGED fredVars
    PROVE  \E o : OrdersAtOnce(o)
<1>0. NoPairing \in 0 .. MaxPairings
  BY PairingsAssumption DEF NoPairing
<1>1. ASSUME NEW k \in Keys, PickCandidate(k), device = "longfred" PROVE \E o : OrdersAtOnce(o)
  <2>0. <<>> \in Seq(Vehicles \cup {None})
    BY EmptySeq
  <2> DEFINE o == Order(user, pin, NoPairing, <<>>)
  <2>1. o \in HandsetOrders /\ o.user = user /\ o.pin = pin /\ o.code = NoPairing /\ o.roster = <<>>
    <3>1. user \in Users \cup {None} /\ pin \in Users \cup {None}
      BY DEF PageOK
    <3> QED
      BY <1>0, <2>0, <3>1 DEF Order, HandsetOrders
  <2>2. /\ candidate' = k /\ Program(k, o) /\ phase = "wpScan" /\ phase' = "wpProgramming"
        /\ UNCHANGED <<who, calls, list, marks, bigfred>>
    BY <1>1 DEF PickCandidate, Programming, On
  <2> HIDE DEF o
  <2>3. OrdersAtOnce(o)
    BY <1>1, <2>1, <2>2 DEF OrdersAtOnce, who, list, marks, bigfred, fredVars
  <2> QED
    BY <2>3
<1>2. CASE StartFredProgramming
  <2>0. FredAddress \in Seq(Vehicles \cup {None})
    BY FredAddressRoster
  <2> DEFINE o == Order(user, None, NoPairing, FredAddress)
  <2>1. o \in HandsetOrders /\ o.user = user /\ o.pin = None /\ o.code = NoPairing
        /\ o.roster = FredAddress
    <3>1. user \in Users \cup {None} /\ None \in Users \cup {None}
      BY DEF PageOK
    <3> QED
      BY <1>0, <2>0, <3>1 DEF Order, HandsetOrders
  <2>2. /\ candidate' \in Keys /\ Program(candidate', o) /\ phase = "fredPlug" /\ device = "fred"
        /\ phase' = "wpProgramming"
        /\ UNCHANGED <<who, calls, list, marks, bigfred, fredVars>>
    BY <1>2, FredAssumption DEF StartFredProgramming, Programming, FredOn, PageOK
  <2> HIDE DEF o
  <2>3. OrdersAtOnce(o)
    BY <2>1, <2>2 DEF OrdersAtOnce, who, list, marks, bigfred, fredVars
  <2> QED
    BY <2>3
<1> QED
  BY <1>1, <1>2 DEF OrderNow

(* So do the others. *)
LEMMA OthersMarks == ASSUME MarksOK, Others, UNCHANGED fredVars PROVE MarksOK'
<1>1. CASE SubmitPin
  BY <1>1 DEF SubmitPin, On, display, who, scan, list, marks, bigfred, jobVars, fredVars,
     MarksOK
<1>2. CASE StartAtStation
  BY <1>2 DEF StartAtStation, On, display, who, scan, list, marks, bigfred, jobVars, fredVars,
     MarksOK
<1>3. CASE Replace
  BY <1>3 DEF Replace, On, display, who, scan, list, marks, bigfred, jobVars, fredVars, MarksOK
<1>4. CASE StartProgramming
  BY <1>4 DEF StartProgramming, Programming, On, display, who, scan, list, marks, bigfred,
     jobVars, fredVars, MarksOK
<1>5. CASE \E k \in Keys : PickCandidate(k)
  BY <1>5 DEF PickCandidate, Programming, On, display, who, scan, list, marks, bigfred, jobVars,
     fredVars, MarksOK
<1>6. CASE \E u \in Users : PickFredUser(u)
  BY <1>6 DEF PickFredUser, FredOn, display, who, scan, list, marks, bigfred, jobVars, fredVars,
     MarksOK
<1>7. CASE StartFredProgramming
  BY <1>7 DEF StartFredProgramming, Programming, FredOn, display, who, scan, list, marks,
     bigfred, jobVars, fredVars, MarksOK
<1>8. CASE Leave
  BY <1>8 DEF Leave, display, who, scan, list, marks, bigfred, jobVars, fredVars, MarksOK
<1>9. CASE \E c \in calls : PinVerified(c)
  BY <1>9 DEF PinVerified, MarkLate, display, who, scan, list, marks, bigfred, jobVars,
     fredVars, MarksOK
<1>10. CASE \E c \in calls : StatusAnswers(c)
  BY <1>10 DEF StatusAnswers, MarkLate, display, who, scan, list, marks, bigfred, jobVars,
     fredVars, MarksOK
<1>11. CASE \E c \in calls : UnpairDone(c)
  BY <1>11 DEF UnpairDone, MarkLate, display, who, scan, list, marks, bigfred, jobVars,
     fredVars, MarksOK
<1>12. CASE \E c \in calls : ListArrives(c)
  BY <1>12 DEF ListArrives, ListPage, MarkLate, display, who, scan, list, marks, bigfred,
     jobVars, fredVars, MarksOK
<1>13. CASE \E c \in calls : ProgramCode(c)
  BY <1>13 DEF ProgramCode, display, who, scan, list, marks, bigfred, jobVars, fredVars, MarksOK
<1>14. CASE \E c \in calls : NoCode(c)
  BY <1>14 DEF NoCode, Show, Gone, display, who, scan, list, marks, bigfred, jobVars, fredVars,
     MarksOK
<1>15. CASE \E c \in calls : CancelEnds(c)
  BY <1>15 DEF CancelEnds, Show, Gone, display, who, scan, list, marks, bigfred, jobVars,
     fredVars, MarksOK
<1>16. CASE \E c \in calls : CallFails(c)
  BY <1>16 DEF CallFails, display, who, scan, list, marks, bigfred, jobVars, fredVars, MarksOK
<1>17. CASE \E n \in DOMAIN jobs : JobDone(n)
  BY <1>17 DEF JobDone, DonePage, Show, Gone, display, who, scan, list, marks, bigfred, jobVars,
     fredVars, MarksOK
<1>18. CASE \E n \in DOMAIN jobs : JobFails(n)
  BY <1>18 DEF JobFails, Show, Gone, display, who, scan, list, marks, bigfred, jobVars,
     fredVars, MarksOK
<1>19. CASE \E n \in DOMAIN jobs : JobGoesOn(n)
  BY <1>19 DEF JobGoesOn, pageVars, display, who, scan, list, marks, bigfred, jobVars, fredVars,
     MarksOK
<1>20. CASE \E p \in DOMAIN pairings : HandsetJoins(p)
  BY <1>20 DEF HandsetJoins, display, who, scan, list, marks, bigfred, jobVars, fredVars,
     MarksOK
<1>21. CASE \E p \in DOMAIN pairings : PairingExpires(p)
  BY <1>21 DEF PairingExpires, display, who, scan, list, marks, bigfred, jobVars, fredVars,
     MarksOK
<1> QED
  BY <1>1, <1>2, <1>3, <1>4, <1>5, <1>6, <1>7, <1>8, <1>9, <1>10, <1>11, <1>12, <1>13, <1>14,
     <1>15, <1>16, <1>17, <1>18, <1>19, <1>20, <1>21 DEF Others, Ask, OrderNow, CallEnds

LEMMA OthersPage ==
    ASSUME PageOK, CallsOK, Others, UNCHANGED <<device, usable>>
    PROVE  PageOK'
<1>0. \A c \in calls : c.user \in Users
  BY CallFields DEF CallsOK
<1>1. CASE SubmitPin
  BY <1>1, <1>0, FredAssumption DEF SubmitPin, On, display, who, scan, list, marks, bigfred,
     jobVars, fredVars, PageOK, Pages
<1>2. CASE StartAtStation
  BY <1>2, <1>0, FredAssumption DEF StartAtStation, On, display, who, scan, list, marks,
     bigfred, jobVars, fredVars, PageOK, Pages
<1>3. CASE Replace
  BY <1>3, <1>0, FredAssumption DEF Replace, On, display, who, scan, list, marks, bigfred,
     jobVars, fredVars, PageOK, Pages
<1>4. CASE StartProgramming
  BY <1>4, <1>0, FredAssumption DEF StartProgramming, Programming, On, display, who, scan, list,
     marks, bigfred, jobVars, fredVars, PageOK, Pages
<1>5. CASE \E k \in Keys : PickCandidate(k)
  BY <1>5, <1>0, FredAssumption DEF PickCandidate, Programming, On, display, who, scan, list,
     marks, bigfred, jobVars, fredVars, PageOK, Pages
<1>6. CASE \E u \in Users : PickFredUser(u)
  BY <1>6, <1>0, FredAssumption DEF PickFredUser, FredOn, display, who, scan, list, marks,
     bigfred, jobVars, fredVars, PageOK, Pages
<1>7. CASE StartFredProgramming
  BY <1>7, <1>0, FredAssumption DEF StartFredProgramming, Programming, FredOn, display, who,
     scan, list, marks, bigfred, jobVars, fredVars, PageOK, Pages
<1>8. CASE Leave
  BY <1>8, <1>0, FredAssumption DEF Leave, display, who, scan, list, marks, bigfred, jobVars,
     fredVars, PageOK, Pages
<1>9. CASE \E c \in calls : PinVerified(c)
  BY <1>9, <1>0, FredAssumption DEF PinVerified, MarkLate, display, who, scan, list, marks,
     bigfred, jobVars, fredVars, PageOK, Pages
<1>10. CASE \E c \in calls : StatusAnswers(c)
  BY <1>10, <1>0, FredAssumption DEF StatusAnswers, MarkLate, display, who, scan, list, marks,
     bigfred, jobVars, fredVars, PageOK, Pages
<1>11. CASE \E c \in calls : UnpairDone(c)
  BY <1>11, <1>0, FredAssumption DEF UnpairDone, MarkLate, display, who, scan, list, marks,
     bigfred, jobVars, fredVars, PageOK, Pages
<1>12. CASE \E c \in calls : ListArrives(c)
  BY <1>12, <1>0, FredAssumption DEF ListArrives, ListPage, MarkLate, display, who, scan, list,
     marks, bigfred, jobVars, fredVars, PageOK, Pages
<1>13. CASE \E c \in calls : ProgramCode(c)
  BY <1>13, <1>0, FredAssumption DEF ProgramCode, display, who, scan, list, marks, bigfred,
     jobVars, fredVars, PageOK, Pages
<1>14. CASE \E c \in calls : NoCode(c)
  BY <1>14, <1>0, FredAssumption DEF NoCode, Show, Gone, display, who, scan, list, marks,
     bigfred, jobVars, fredVars, PageOK, Pages
<1>15. CASE \E c \in calls : CancelEnds(c)
  BY <1>15, <1>0, FredAssumption DEF CancelEnds, Show, Gone, display, who, scan, list, marks,
     bigfred, jobVars, fredVars, PageOK, Pages
<1>16. CASE \E c \in calls : CallFails(c)
  BY <1>16, <1>0, FredAssumption DEF CallFails, display, who, scan, list, marks, bigfred,
     jobVars, fredVars, PageOK, Pages
<1>17. CASE \E n \in DOMAIN jobs : JobDone(n)
  BY <1>17, <1>0, FredAssumption DEF JobDone, DonePage, Show, Gone, display, who, scan, list,
     marks, bigfred, jobVars, fredVars, PageOK, Pages
<1>18. CASE \E n \in DOMAIN jobs : JobFails(n)
  BY <1>18, <1>0, FredAssumption DEF JobFails, Show, Gone, display, who, scan, list, marks,
     bigfred, jobVars, fredVars, PageOK, Pages
<1>19. CASE \E n \in DOMAIN jobs : JobGoesOn(n)
  BY <1>19, <1>0, FredAssumption DEF JobGoesOn, pageVars, display, who, scan, list, marks,
     bigfred, jobVars, fredVars, PageOK, Pages
<1>20. CASE \E p \in DOMAIN pairings : HandsetJoins(p)
  BY <1>20, <1>0, FredAssumption DEF HandsetJoins, display, who, scan, list, marks, bigfred,
     jobVars, fredVars, PageOK, Pages
<1>21. CASE \E p \in DOMAIN pairings : PairingExpires(p)
  BY <1>21, <1>0, FredAssumption DEF PairingExpires, display, who, scan, list, marks, bigfred,
     jobVars, fredVars, PageOK, Pages
<1> QED
  BY <1>1, <1>2, <1>3, <1>4, <1>5, <1>6, <1>7, <1>8, <1>9, <1>10, <1>11, <1>12, <1>13, <1>14,
     <1>15, <1>16, <1>17, <1>18, <1>19, <1>20, <1>21 DEF Others, Ask, OrderNow, CallEnds

LEMMA OthersScans == ASSUME ScansOK, Others PROVE ScansOK'
<1>1. CASE SubmitPin
  BY <1>1, FlowAssumption DEF SubmitPin, On, display, who, scan, list, marks, bigfred, jobVars,
     fredVars, ScansOK
<1>2. CASE StartAtStation
  BY <1>2, FlowAssumption DEF StartAtStation, On, display, who, scan, list, marks, bigfred,
     jobVars, fredVars, ScansOK
<1>3. CASE Replace
  BY <1>3, FlowAssumption DEF Replace, On, display, who, scan, list, marks, bigfred, jobVars,
     fredVars, ScansOK
<1>4. CASE StartProgramming
  BY <1>4, FlowAssumption DEF StartProgramming, Programming, On, display, who, scan, list,
     marks, bigfred, jobVars, fredVars, ScansOK
<1>5. CASE \E k \in Keys : PickCandidate(k)
  BY <1>5, FlowAssumption DEF PickCandidate, Programming, On, display, who, scan, list, marks,
     bigfred, jobVars, fredVars, ScansOK
<1>6. CASE \E u \in Users : PickFredUser(u)
  BY <1>6, FlowAssumption DEF PickFredUser, FredOn, display, who, scan, list, marks, bigfred,
     jobVars, fredVars, ScansOK
<1>7. CASE StartFredProgramming
  BY <1>7, FlowAssumption DEF StartFredProgramming, Programming, FredOn, display, who, scan,
     list, marks, bigfred, jobVars, fredVars, ScansOK
<1>8. CASE Leave
  BY <1>8, FlowAssumption DEF Leave, display, who, scan, list, marks, bigfred, jobVars,
     fredVars, ScansOK
<1>9. CASE \E c \in calls : PinVerified(c)
  BY <1>9, FlowAssumption DEF PinVerified, MarkLate, display, who, scan, list, marks, bigfred,
     jobVars, fredVars, ScansOK
<1>10. CASE \E c \in calls : StatusAnswers(c)
  BY <1>10, FlowAssumption DEF StatusAnswers, MarkLate, display, who, scan, list, marks,
     bigfred, jobVars, fredVars, ScansOK
<1>11. CASE \E c \in calls : UnpairDone(c)
  BY <1>11, FlowAssumption DEF UnpairDone, MarkLate, display, who, scan, list, marks, bigfred,
     jobVars, fredVars, ScansOK
<1>12. CASE \E c \in calls : ListArrives(c)
  BY <1>12, FlowAssumption DEF ListArrives, ListPage, MarkLate, display, who, scan, list, marks,
     bigfred, jobVars, fredVars, ScansOK
<1>13. CASE \E c \in calls : ProgramCode(c)
  BY <1>13, FlowAssumption DEF ProgramCode, display, who, scan, list, marks, bigfred, jobVars,
     fredVars, ScansOK
<1>14. CASE \E c \in calls : NoCode(c)
  BY <1>14, FlowAssumption DEF NoCode, Show, Gone, display, who, scan, list, marks, bigfred,
     jobVars, fredVars, ScansOK
<1>15. CASE \E c \in calls : CancelEnds(c)
  BY <1>15, FlowAssumption DEF CancelEnds, Show, Gone, display, who, scan, list, marks, bigfred,
     jobVars, fredVars, ScansOK
<1>16. CASE \E c \in calls : CallFails(c)
  BY <1>16, FlowAssumption DEF CallFails, display, who, scan, list, marks, bigfred, jobVars,
     fredVars, ScansOK
<1>17. CASE \E n \in DOMAIN jobs : JobDone(n)
  BY <1>17, FlowAssumption DEF JobDone, DonePage, Show, Gone, display, who, scan, list, marks,
     bigfred, jobVars, fredVars, ScansOK
<1>18. CASE \E n \in DOMAIN jobs : JobFails(n)
  BY <1>18, FlowAssumption DEF JobFails, Show, Gone, display, who, scan, list, marks, bigfred,
     jobVars, fredVars, ScansOK
<1>19. CASE \E n \in DOMAIN jobs : JobGoesOn(n)
  BY <1>19, FlowAssumption DEF JobGoesOn, pageVars, display, who, scan, list, marks, bigfred,
     jobVars, fredVars, ScansOK
<1>20. CASE \E p \in DOMAIN pairings : HandsetJoins(p)
  BY <1>20, FlowAssumption DEF HandsetJoins, display, who, scan, list, marks, bigfred, jobVars,
     fredVars, ScansOK
<1>21. CASE \E p \in DOMAIN pairings : PairingExpires(p)
  BY <1>21, FlowAssumption DEF PairingExpires, display, who, scan, list, marks, bigfred,
     jobVars, fredVars, ScansOK
<1> QED
  BY <1>1, <1>2, <1>3, <1>4, <1>5, <1>6, <1>7, <1>8, <1>9, <1>10, <1>11, <1>12, <1>13, <1>14,
     <1>15, <1>16, <1>17, <1>18, <1>19, <1>20, <1>21 DEF Others, Ask, OrderNow, CallEnds

LEMMA OthersList ==
    ASSUME ListOK, Others, UNCHANGED device
    PROVE  ListOK'
<1>0. MaxRoster' = MaxRoster
  BY DEF MaxRoster
<1>1. CASE SubmitPin
  BY <1>1, <1>0, MaxRosterIsNat, EmptyRoster DEF SubmitPin, On, display, who, scan, list, marks,
     bigfred, jobVars, fredVars, ListOK, OwnedVehicles
<1>2. CASE StartAtStation
  BY <1>2, <1>0, MaxRosterIsNat, EmptyRoster DEF StartAtStation, On, display, who, scan, list,
     marks, bigfred, jobVars, fredVars, ListOK, OwnedVehicles
<1>3. CASE Replace
  BY <1>3, <1>0, MaxRosterIsNat, EmptyRoster DEF Replace, On, display, who, scan, list, marks,
     bigfred, jobVars, fredVars, ListOK, OwnedVehicles
<1>4. CASE StartProgramming
  BY <1>4, <1>0, MaxRosterIsNat, EmptyRoster DEF StartProgramming, Programming, On, display,
     who, scan, list, marks, bigfred, jobVars, fredVars, ListOK, OwnedVehicles
<1>5. CASE \E k \in Keys : PickCandidate(k)
  BY <1>5, <1>0, MaxRosterIsNat, EmptyRoster DEF PickCandidate, Programming, On, display, who,
     scan, list, marks, bigfred, jobVars, fredVars, ListOK, OwnedVehicles
<1>6. CASE \E u \in Users : PickFredUser(u)
  BY <1>6, <1>0, MaxRosterIsNat, EmptyRoster DEF PickFredUser, FredOn, display, who, scan, list,
     marks, bigfred, jobVars, fredVars, ListOK, OwnedVehicles
<1>7. CASE StartFredProgramming
  BY <1>7, <1>0, MaxRosterIsNat, EmptyRoster DEF StartFredProgramming, Programming, FredOn,
     display, who, scan, list, marks, bigfred, jobVars, fredVars, ListOK, OwnedVehicles
<1>8. CASE Leave
  BY <1>8, <1>0, MaxRosterIsNat, EmptyRoster DEF Leave, display, who, scan, list, marks,
     bigfred, jobVars, fredVars, ListOK, OwnedVehicles
<1>9. CASE \E c \in calls : PinVerified(c)
  BY <1>9, <1>0, MaxRosterIsNat, EmptyRoster DEF PinVerified, MarkLate, display, who, scan,
     list, marks, bigfred, jobVars, fredVars, ListOK, OwnedVehicles
<1>10. CASE \E c \in calls : StatusAnswers(c)
  BY <1>10, <1>0, MaxRosterIsNat, EmptyRoster DEF StatusAnswers, MarkLate, display, who, scan,
     list, marks, bigfred, jobVars, fredVars, ListOK, OwnedVehicles
<1>11. CASE \E c \in calls : UnpairDone(c)
  BY <1>11, <1>0, MaxRosterIsNat, EmptyRoster DEF UnpairDone, MarkLate, display, who, scan,
     list, marks, bigfred, jobVars, fredVars, ListOK, OwnedVehicles
<1>12. CASE \E c \in calls : ListArrives(c)
  BY <1>12, <1>0, MaxRosterIsNat, EmptyRoster DEF ListArrives, ListPage, MarkLate, display, who,
     scan, list, marks, bigfred, jobVars, fredVars, ListOK, OwnedVehicles
<1>13. CASE \E c \in calls : ProgramCode(c)
  BY <1>13, <1>0, MaxRosterIsNat, EmptyRoster DEF ProgramCode, display, who, scan, list, marks,
     bigfred, jobVars, fredVars, ListOK, OwnedVehicles
<1>14. CASE \E c \in calls : NoCode(c)
  BY <1>14, <1>0, MaxRosterIsNat, EmptyRoster DEF NoCode, Show, Gone, display, who, scan, list,
     marks, bigfred, jobVars, fredVars, ListOK, OwnedVehicles
<1>15. CASE \E c \in calls : CancelEnds(c)
  BY <1>15, <1>0, MaxRosterIsNat, EmptyRoster DEF CancelEnds, Show, Gone, display, who, scan,
     list, marks, bigfred, jobVars, fredVars, ListOK, OwnedVehicles
<1>16. CASE \E c \in calls : CallFails(c)
  BY <1>16, <1>0, MaxRosterIsNat, EmptyRoster DEF CallFails, display, who, scan, list, marks,
     bigfred, jobVars, fredVars, ListOK, OwnedVehicles
<1>17. CASE \E n \in DOMAIN jobs : JobDone(n)
  BY <1>17, <1>0, MaxRosterIsNat, EmptyRoster DEF JobDone, DonePage, Show, Gone, display, who,
     scan, list, marks, bigfred, jobVars, fredVars, ListOK, OwnedVehicles
<1>18. CASE \E n \in DOMAIN jobs : JobFails(n)
  BY <1>18, <1>0, MaxRosterIsNat, EmptyRoster DEF JobFails, Show, Gone, display, who, scan,
     list, marks, bigfred, jobVars, fredVars, ListOK, OwnedVehicles
<1>19. CASE \E n \in DOMAIN jobs : JobGoesOn(n)
  BY <1>19, <1>0, MaxRosterIsNat, EmptyRoster DEF JobGoesOn, pageVars, display, who, scan, list,
     marks, bigfred, jobVars, fredVars, ListOK, OwnedVehicles
<1>20. CASE \E p \in DOMAIN pairings : HandsetJoins(p)
  BY <1>20, <1>0, MaxRosterIsNat, EmptyRoster DEF HandsetJoins, display, who, scan, list, marks,
     bigfred, jobVars, fredVars, ListOK, OwnedVehicles
<1>21. CASE \E p \in DOMAIN pairings : PairingExpires(p)
  BY <1>21, <1>0, MaxRosterIsNat, EmptyRoster DEF PairingExpires, display, who, scan, list,
     marks, bigfred, jobVars, fredVars, ListOK, OwnedVehicles
<1> QED
  BY <1>1, <1>2, <1>3, <1>4, <1>5, <1>6, <1>7, <1>8, <1>9, <1>10, <1>11, <1>12, <1>13, <1>14,
     <1>15, <1>16, <1>17, <1>18, <1>19, <1>20, <1>21 DEF Others, Ask, OrderNow, CallEnds

(* What an order and its pairing have in common *)
CodesKnown ==
    \A n \in DOMAIN jobs :
        LET o == jobs[n].order
        IN  /\ o.code \in 0 .. Len(pairings)
            /\ o.code # NoPairing => pairings[o.code].user = o.user
            /\ device = "wifred" => o.code # NoPairing

OrdersOK == Len(jobs) <= MaxJobs /\ \A n \in DOMAIN jobs : jobs[n].order \in HandsetOrders

WrittenKnown == \A k \in Keys : written[k] \in 0 .. Len(jobs)

(* The jobs are the same, with the same orders. *)
OrdersKept ==
    /\ DOMAIN jobs' = DOMAIN jobs /\ Len(jobs') = Len(jobs)
    /\ \A n \in DOMAIN jobs : jobs'[n].order = jobs[n].order /\ jobs'[n].key = jobs[n].key
    /\ \A k \in Keys : written'[k] \in {written[k]} \cup DOMAIN jobs

LEMMA SameJobsKept == ASSUME UNCHANGED <<jobs, written>> PROVE OrdersKept
  BY DEF OrdersKept

LEMMA JobEndsKept ==
    ASSUME JobsTyped, NEW n \in DOMAIN jobs, Resolves(n) \/ Unsuccessful(n)
    PROVE  OrdersKept
<1>1. OthersKept(n) /\ UNCHANGED written
  BY JobEndsParts
<1> QED
  BY <1>1 DEF OthersKept, OrdersKept

LEMMA JobGoesOnKept ==
    ASSUME JobsTyped, NEW n \in DOMAIN jobs, JobStep(n) \/ ProgramAnswers(n)
    PROVE  OrdersKept
<1>1. OthersKept(n) /\ \A k \in Keys : written'[k] \in {written[k], n}
  BY JobGoesOnParts
<1> QED
  BY <1>1 DEF OthersKept, OrdersKept

(* Only a step that orders, at once or with a code, adds a job.            *)
LEMMA JobsParts ==
    ASSUME JobsTyped, Others
    PROVE  OrdersKept \/ OrderNow \/ \E c \in calls : ProgramCode(c)
<1>1. CASE Ask
  <2>1. UNCHANGED <<jobs, written>>
    BY <1>1 DEF Ask, SubmitPin, StartAtStation, Replace, StartProgramming, PickCandidate,
       PickFredUser, jobVars
  <2> QED
    BY <2>1, SameJobsKept
<1>2. CASE Leave \/ \E p \in DOMAIN pairings : HandsetJoins(p) \/ PairingExpires(p)
  <2>1. UNCHANGED <<jobs, written>>
    BY <1>2 DEF Leave, HandsetJoins, PairingExpires, jobVars
  <2> QED
    BY <2>1, SameJobsKept
<1>3. ASSUME NEW c \in calls,
             \/ PinVerified(c) \/ StatusAnswers(c) \/ UnpairDone(c) \/ ListArrives(c)
             \/ NoCode(c) \/ CancelEnds(c) \/ CallFails(c)
      PROVE  OrdersKept
  <2>1. UNCHANGED <<jobs, written>>
    BY <1>3 DEF PinVerified, StatusAnswers, UnpairDone, ListArrives, NoCode, CancelEnds,
       CallFails, jobVars
  <2> QED
    BY <2>1, SameJobsKept
<1>4. ASSUME NEW n \in DOMAIN jobs, JobDone(n) \/ JobFails(n) PROVE OrdersKept
  <2>1. Resolves(n) \/ Unsuccessful(n)
    BY <1>4 DEF JobDone, JobFails
  <2> QED
    BY <2>1, JobEndsKept
<1>5. ASSUME NEW n \in DOMAIN jobs, JobGoesOn(n) PROVE OrdersKept
  BY <1>5, JobGoesOnKept DEF JobGoesOn
<1> QED
  BY <1>1, <1>2, <1>3, <1>4, <1>5 DEF Others, CallEnds

-----------------------------------------------------------------------------
(* A call that a step may add *)
MayBeMade(m) ==
    /\ m \in Calls
    /\ m.kind \in {"verify", "status"} => device = "wifred"
    /\ m.kind = "unpair" => m.client \in HandsetIds
    /\ m.kind = "start" => device # "fred"

CallsGrow == \A d \in calls' \ calls : MayBeMade(d)

LEMMA FewerCalls == ASSUME calls' \subseteq calls PROVE CallsGrow
  BY DEF CallsGrow

LEMMA OneMoreCall == ASSUME NEW m, calls' \subseteq calls \cup {m}, MayBeMade(m) PROVE CallsGrow
  BY DEF CallsGrow

(* Calls are made only by those who may make them. *)
LEMMA CallsParts ==
    ASSUME PageOK, ListOK, CallsOK, PairingsOK, HandsetsKnown, DeviceKnown, CodesKnown, Others,
           UNCHANGED fredVars
    PROVE  CallsGrow
<1>1. CASE Ask
  <2>1. PICK m : Asks(m)
    BY <1>1, AskParts
  <2>2. MayBeMade(m)
    BY <2>1 DEF Asks, MayBeMade, HandsetsKnown
  <2> QED
    BY <2>1, <2>2, OneMoreCall DEF Asks
<1>2. CASE \/ OrderNow \/ Leave
           \/ \E n \in DOMAIN jobs : JobDone(n) \/ JobGoesOn(n)
           \/ \E p \in DOMAIN pairings : HandsetJoins(p) \/ PairingExpires(p)
  <2>1. calls' \subseteq calls
    BY <1>2, OrderNowParts DEF OrdersAtOnce, Leave, JobDone, JobGoesOn, HandsetJoins,
       PairingExpires, pageVars
  <2> QED
    BY <2>1, FewerCalls
<1>3. ASSUME NEW c \in calls,
             \/ StatusAnswers(c) \/ UnpairDone(c) \/ ListArrives(c) \/ ProgramCode(c)
             \/ NoCode(c) \/ CancelEnds(c) \/ CallFails(c)
      PROVE  CallsGrow
  <2>1. calls' \subseteq calls
    BY <1>3 DEF StatusAnswers, UnpairDone, ListArrives, ProgramCode, NoCode, CancelEnds,
       CallFails, Returned
  <2> QED
    BY <2>1, FewerCalls
<1>4. ASSUME NEW c \in calls, PinVerified(c) PROVE CallsGrow
  <2>1. c.kind = "verify" /\ c.user \in Users /\ device = "wifred"
    BY <1>4, CallFields DEF PinVerified, CallsOK, DeviceKnown
  <2>2. CASE calls' = Made(calls \ {c}, Status(c.user, station')) /\ station' \in usable
    <3> DEFINE s == [kind |-> "status", user |-> c.user, station |-> station']
    <3>1. PICK again \in BOOLEAN : calls' = (calls \ {c}) \cup {Marked(s, again)}
      BY <2>2, MadeOne DEF Status
    <3>2. Marked(s, again) \in Calls /\ Marked(s, again).kind = "status"
      <4>1. Marked(s, again).kind = "status"
        BY DEF Marked
      <4> QED
        BY <2>1, <2>2, <4>1, MarkedCalls DEF PageOK
    <3> HIDE DEF s
    <3>3. MayBeMade(Marked(s, again))
      BY <2>1, <3>2 DEF MayBeMade
    <3> QED
      BY <3>1, <3>3, OneMoreCall
  <2>3. CASE Returned(c)
    BY <2>3, FewerCalls DEF Returned
  <2> QED
    BY <1>4, <2>2, <2>3 DEF PinVerified
<1>5. ASSUME NEW n \in DOMAIN jobs, JobFails(n) PROVE CallsGrow
  <2> DEFINE p == jobs[n].order.code
             d == [kind |-> "cancel", user |-> pairings[p].user, station |-> pairings[p].station]
  <2>1. CASE p # NoPairing /\ calls' = Made(calls, d)
    <3>1. pairings[p] \in Pairing
      <4>1. p \in 1 .. Len(pairings)
        BY <2>1, LenProperties DEF CodesKnown, NoPairing, PairingsOK
      <4> QED
        BY <4>1, ElementOfSeq, LenProperties DEF PairingsOK
    <3>2. pairings[p].user \in Users /\ pairings[p].station \in Stations
      BY <3>1 DEF Pairing, PairingOf
    <3>3. PICK again \in BOOLEAN : calls' = calls \cup {Marked(d, again)}
      BY <2>1, MadeOne
    <3>4. Marked(d, again) \in Calls /\ Marked(d, again).kind = "cancel"
      <4>1. Marked(d, again).kind = "cancel"
        BY DEF Marked
      <4> QED
        BY <3>2, <4>1, MarkedCalls
    <3> HIDE DEF d
    <3>5. MayBeMade(Marked(d, again))
      BY <3>4 DEF MayBeMade
    <3> QED
      BY <3>3, <3>5, OneMoreCall
  <2>2. CASE UNCHANGED calls
    BY <2>2, FewerCalls
  <2> QED
    BY <1>5, <2>1, <2>2 DEF JobFails
<1> QED
  BY <1>1, <1>2, <1>3, <1>4, <1>5 DEF Others, CallEnds

BigFredOK == PairingsOK /\ handset \in [Slots -> HandsetIds]

LEMMA NoHandsetIsKnown ==
    ASSUME PairingsOK
    PROVE  NoHandset \in HandsetIds /\ DOMAIN pairings \subseteq HandsetIds
<1>1. Len(pairings) \in Nat /\ DOMAIN pairings = 1 .. Len(pairings)
  BY LenProperties DEF PairingsOK
<1> QED
  BY <1>1 DEF NoHandset, HandsetIds

LEMMA SamePairingsKept ==
    ASSUME PairingsOK, UNCHANGED pairings
    PROVE  PairingsKept /\ PairingsOK' /\ HandsetIds' = HandsetIds
  BY DEF PairingsKept, PairingsOK, Pairing, PairingOf, HandsetIds, OldHandset

LEMMA KeptIds ==
    ASSUME PairingsOK, PairingsKept, pairings' \in Seq(Pairing)
    PROVE  PairingsOK' /\ HandsetIds' = HandsetIds
  BY DEF PairingsKept, PairingsOK, Pairing, PairingOf, HandsetIds, OldHandset

(* Only a new code adds a pairing. *)
LEMMA PairingsParts ==
    ASSUME CallsOK, BigFredOK, Others
    PROVE  /\ BigFredOK'
           /\ HandsetIds \subseteq HandsetIds'
           /\ PairingsKept \/ \E c \in calls : ProgramCode(c)
<1> DEFINE Goal == BigFredOK' /\ HandsetIds \subseteq HandsetIds' /\ PairingsKept
<1>0. PairingsOK
  BY DEF BigFredOK
<1>1. ASSUME UNCHANGED bigfred PROVE Goal
  BY <1>0, <1>1, SamePairingsKept DEF BigFredOK, bigfred
<1>2. ASSUME PairingsKept, pairings' \in Seq(Pairing), handset' \in [Slots -> HandsetIds] PROVE Goal
  BY <1>0, <1>2, KeptIds DEF BigFredOK
<1>3. CASE \/ Ask \/ OrderNow \/ Leave
           \/ \E n \in DOMAIN jobs : JobDone(n) \/ JobFails(n) \/ JobGoesOn(n)
           \/ \E c \in calls : PinVerified(c) \/ StatusAnswers(c) \/ ListArrives(c)
  BY <1>1, <1>3 DEF Ask, SubmitPin, StartAtStation, Replace, StartProgramming, PickCandidate,
     PickFredUser, OrderNow, StartFredProgramming, Leave, JobDone, JobFails, JobGoesOn, pageVars,
     PinVerified, StatusAnswers, ListArrives
<1>4. ASSUME NEW c \in calls, NEW k, Unpaired(c.user, c.station, k), c.kind = "unpair" PROVE Goal
  <2>1. c.user \in Users /\ c.station \in Stations
    BY <1>4, CallFields DEF CallsOK
  <2>2. pairings' \in Seq(Pairing) /\ PairingsKept /\ handset' \in [Slots -> HandsetIds]
    BY <1>0, <1>4, <2>1, UnpairedParts, NoHandsetIsKnown DEF BigFredOK, PairingsOK
  <2> QED
    BY <1>2, <2>2
<1>5. ASSUME NEW c \in calls, UnpairDone(c) \/ CallFails(c) PROVE Goal
  <2>1. UNCHANGED bigfred \/ (c.kind = "unpair" /\ Unpaired(c.user, c.station, c.client))
    BY <1>5 DEF UnpairDone, CallFails
  <2> QED
    BY <1>1, <1>4, <2>1
<1>6. ASSUME NEW c \in calls, NoCode(c) \/ CancelEnds(c) PROVE Goal
  <2>1. UNCHANGED handset /\ (UNCHANGED pairings \/ pairings' = Closed(c.user, c.station))
    BY <1>6 DEF NoCode, CancelEnds
  <2>2. CASE UNCHANGED pairings
    BY <1>1, <2>1, <2>2 DEF bigfred
  <2>3. CASE pairings' = Closed(c.user, c.station)
    BY <1>2, <2>1, <2>3, ClosedParts DEF BigFredOK, PairingsOK
  <2> QED
    BY <2>1, <2>2, <2>3
<1>7. ASSUME NEW p \in DOMAIN pairings, HandsetJoins(p) \/ PairingExpires(p) PROVE Goal
  <2>1. pairings[p] \in Pairing
    BY <1>0, ElementOfSeq, LenProperties DEF PairingsOK
  <2>2. <<pairings[p].user, pairings[p].station>> \in Slots
    BY <2>1 DEF Pairing, PairingOf, Slots
  <2>3. handset' \in [Slots -> HandsetIds]
    BY <1>0, <1>7, <2>2, NoHandsetIsKnown DEF HandsetJoins, PairingExpires, Joins, Expires, BigFredOK
  <2>4. pairings' = Set(p, "joined") \/ pairings' = Set(p, "expired")
    BY <1>7 DEF HandsetJoins, PairingExpires, Joins, Expires
  <2>5. pairings' \in Seq(Pairing) /\ PairingsKept
    BY <1>0, <2>4, SetParts DEF PairingsOK
  <2> QED
    BY <1>2, <2>3, <2>5
<1>8. ASSUME NEW c \in calls, ProgramCode(c) PROVE BigFredOK' /\ HandsetIds \subseteq HandsetIds'
  <2>1. c.user \in Users /\ c.station \in Stations
    BY <1>8, CallFields DEF CallsOK, ProgramCode
  <2>2. /\ pairings' \in Seq(Pairing) /\ Len(pairings) \in Nat /\ Len(pairings') = Len(pairings) + 1
    BY <1>0, <1>8, <2>1, OpenedParts DEF ProgramCode, PairingsOK
  <2>3. Len(pairings) < MaxPairings /\ UNCHANGED handset /\ MaxPairings \in Nat
    BY <1>8, PairingsAssumption DEF ProgramCode
  <2>4. Pairing' = Pairing /\ OldHandset' = OldHandset
    BY DEF Pairing, PairingOf, OldHandset
  <2>5. PairingsOK'
    BY <2>2, <2>3, <2>4 DEF PairingsOK
  <2>6. HandsetIds \subseteq HandsetIds'
    BY <2>2, <2>4 DEF HandsetIds
  <2> QED
    BY <2>3, <2>5, <2>6 DEF BigFredOK
<1> QED
  BY <1>3, <1>5, <1>6, <1>7, <1>8 DEF Others, CallEnds

(* The handset that a participant has is known only from BigFred. *)
LEMMA ExistingParts ==
    ASSUME CallsOK, BigFredOK, existing \in HandsetIds, Others
    PROVE  existing' \in HandsetIds
<1>1. NoHandset \in HandsetIds
  BY NoHandsetIsKnown DEF BigFredOK
<1>2. ASSUME NEW c \in calls, StatusAnswers(c) PROVE existing' \in HandsetIds
  <2>1. <<c.user, c.station>> \in Slots
    BY <1>2, CallFields DEF CallsOK, StatusAnswers, Slots
  <2> QED
    BY <1>2, <2>1 DEF StatusAnswers, BigFredOK
<1>3. CASE \/ Leave \/ \E c \in calls : UnpairDone(c)
  BY <1>1, <1>3 DEF Leave, UnpairDone
<1>4. CASE \/ Ask \/ OrderNow
  BY <1>4 DEF Ask, OrderNow, SubmitPin, StartAtStation, Replace, StartProgramming, PickCandidate,
     PickFredUser, StartFredProgramming, who
<1>5. CASE \E c \in calls : \/ PinVerified(c) \/ ListArrives(c) \/ ProgramCode(c) \/ NoCode(c)
                           \/ CancelEnds(c) \/ CallFails(c)
  BY <1>5 DEF PinVerified, ListArrives, ProgramCode, NoCode, CancelEnds, CallFails, who
<1>6. CASE \/ \E n \in DOMAIN jobs : JobDone(n) \/ JobFails(n) \/ JobGoesOn(n)
           \/ \E p \in DOMAIN pairings : HandsetJoins(p) \/ PairingExpires(p)
  BY <1>6 DEF JobDone, JobFails, JobGoesOn, HandsetJoins, PairingExpires, pageVars, who
<1> QED
  BY <1>2, <1>3, <1>4, <1>5, <1>6 DEF Others, CallEnds

(* Only the pages of a wiFRED ask for a station or a pairing. *)
LEMMA DevicePhases ==
    ASSUME CallsOK, DeviceKnown, Others, UNCHANGED device,
           phase' \in {"station", "rePairConfirm"}
    PROVE  device = "wifred"
<1>1. CASE SubmitPin
  BY <1>1 DEF SubmitPin, On, display, who, scan, list, marks, bigfred, jobVars, fredVars,
     DeviceKnown, ListPage
<1>2. CASE StartAtStation
  BY <1>2 DEF StartAtStation, On, display, who, scan, list, marks, bigfred, jobVars, fredVars,
     DeviceKnown, ListPage
<1>3. CASE Replace
  BY <1>3 DEF Replace, On, display, who, scan, list, marks, bigfred, jobVars, fredVars,
     DeviceKnown, ListPage
<1>4. CASE StartProgramming
  BY <1>4 DEF StartProgramming, Programming, On, display, who, scan, list, marks, bigfred,
     jobVars, fredVars, DeviceKnown, ListPage
<1>5. CASE \E k \in Keys : PickCandidate(k)
  BY <1>5 DEF PickCandidate, Programming, On, display, who, scan, list, marks, bigfred, jobVars,
     fredVars, DeviceKnown, ListPage
<1>6. CASE \E u \in Users : PickFredUser(u)
  BY <1>6 DEF PickFredUser, FredOn, display, who, scan, list, marks, bigfred, jobVars, fredVars,
     DeviceKnown, ListPage
<1>7. CASE StartFredProgramming
  BY <1>7 DEF StartFredProgramming, Programming, FredOn, display, who, scan, list, marks,
     bigfred, jobVars, fredVars, DeviceKnown, ListPage
<1>8. CASE Leave
  BY <1>8 DEF Leave, display, who, scan, list, marks, bigfred, jobVars, fredVars, DeviceKnown,
     ListPage
<1>9. CASE \E c \in calls : PinVerified(c)
  BY <1>9 DEF PinVerified, MarkLate, display, who, scan, list, marks, bigfred, jobVars,
     fredVars, DeviceKnown, ListPage
<1>10. CASE \E c \in calls : StatusAnswers(c)
  BY <1>10 DEF StatusAnswers, MarkLate, display, who, scan, list, marks, bigfred, jobVars,
     fredVars, DeviceKnown, ListPage
<1>11. CASE \E c \in calls : UnpairDone(c)
  BY <1>11 DEF UnpairDone, MarkLate, display, who, scan, list, marks, bigfred, jobVars,
     fredVars, DeviceKnown, ListPage
<1>12. CASE \E c \in calls : ListArrives(c)
  BY <1>12 DEF ListArrives, ListPage, MarkLate, display, who, scan, list, marks, bigfred,
     jobVars, fredVars, DeviceKnown
<1>13. CASE \E c \in calls : ProgramCode(c)
  BY <1>13 DEF ProgramCode, display, who, scan, list, marks, bigfred, jobVars, fredVars,
     DeviceKnown, ListPage
<1>14. CASE \E c \in calls : NoCode(c)
  BY <1>14 DEF NoCode, Show, Gone, display, who, scan, list, marks, bigfred, jobVars, fredVars,
     DeviceKnown, ListPage
<1>15. CASE \E c \in calls : CancelEnds(c)
  BY <1>15 DEF CancelEnds, Show, Gone, display, who, scan, list, marks, bigfred, jobVars,
     fredVars, DeviceKnown, ListPage
<1>16. CASE \E c \in calls : CallFails(c)
  BY <1>16 DEF CallFails, display, who, scan, list, marks, bigfred, jobVars, fredVars,
     DeviceKnown, ListPage
<1>17. CASE \E n \in DOMAIN jobs : JobDone(n)
  BY <1>17 DEF JobDone, DonePage, Show, Gone, display, who, scan, list, marks, bigfred, jobVars,
     fredVars, DeviceKnown, ListPage
<1>18. CASE \E n \in DOMAIN jobs : JobFails(n)
  BY <1>18 DEF JobFails, Show, Gone, display, who, scan, list, marks, bigfred, jobVars,
     fredVars, DeviceKnown, ListPage
<1>19. CASE \E n \in DOMAIN jobs : JobGoesOn(n)
  BY <1>19 DEF JobGoesOn, pageVars, display, who, scan, list, marks, bigfred, jobVars, fredVars,
     DeviceKnown, ListPage
<1>20. CASE \E p \in DOMAIN pairings : HandsetJoins(p)
  BY <1>20 DEF HandsetJoins, display, who, scan, list, marks, bigfred, jobVars, fredVars,
     DeviceKnown, ListPage
<1>21. CASE \E p \in DOMAIN pairings : PairingExpires(p)
  BY <1>21 DEF PairingExpires, display, who, scan, list, marks, bigfred, jobVars, fredVars,
     DeviceKnown, ListPage
<1> QED
  BY <1>1, <1>2, <1>3, <1>4, <1>5, <1>6, <1>7, <1>8, <1>9, <1>10, <1>11, <1>12, <1>13, <1>14,
     <1>15, <1>16, <1>17, <1>18, <1>19, <1>20, <1>21 DEF Others, Ask, OrderNow, CallEnds

TypeInv ==
    /\ MarksOK /\ PageOK /\ ScansOK /\ ListOK /\ CallsOK /\ BigFredOK
    /\ HandsetsKnown /\ DeviceKnown /\ OrdersOK /\ CodesKnown /\ WrittenKnown

(* A new order, and what it has in common with its pairing *)
LEMMA NewOrder ==
    ASSUME TypeInv, JobsTyped, NEW k, NEW o \in HandsetOrders, Program(k, o),
           Len(pairings') \in Nat, Len(pairings) <= Len(pairings'),
           \A p \in DOMAIN pairings : pairings'[p].user = pairings[p].user,
           o.code \in 0 .. Len(pairings'), o.code # NoPairing => pairings'[o.code].user = o.user,
           device = "wifred" => o.code # NoPairing, UNCHANGED device
    PROVE  OrdersOK' /\ CodesKnown' /\ WrittenKnown'
<1>1. /\ Len(jobs) \in Nat /\ Len(jobs) < MaxJobs /\ Len(jobs') = Len(jobs) + 1
      /\ DOMAIN jobs = 1 .. Len(jobs) /\ DOMAIN jobs' = 1 .. Len(jobs) + 1
      /\ \A n \in DOMAIN jobs : jobs'[n] = jobs[n]
      /\ jobs'[Len(jobs) + 1].order = o /\ UNCHANGED written
  BY ProgramParts
<1>2. DOMAIN pairings = 1 .. Len(pairings) /\ Len(pairings) \in Nat
  BY LenProperties DEF TypeInv, BigFredOK, PairingsOK
<1>3. MaxJobs \in Nat /\ HandsetOrders' = HandsetOrders
  BY JobAssumption DEF HandsetOrders
<1>4. OrdersOK'
  BY <1>1, <1>3 DEF TypeInv, OrdersOK
<1>5. CodesKnown'
  <2> SUFFICES ASSUME NEW n \in DOMAIN jobs'
               PROVE  /\ jobs'[n].order.code \in 0 .. Len(pairings')
                      /\ jobs'[n].order.code # NoPairing
                           => pairings'[jobs'[n].order.code].user = jobs'[n].order.user
                      /\ device' = "wifred" => jobs'[n].order.code # NoPairing
    BY DEF CodesKnown, NoPairing
  <2>1. CASE n = Len(jobs) + 1
    BY <1>1, <2>1
  <2>2. CASE n # Len(jobs) + 1
    <3>1. n \in DOMAIN jobs /\ jobs'[n] = jobs[n]
      BY <1>1, <2>2
    <3>2. /\ jobs[n].order.code \in 0 .. Len(pairings)
          /\ jobs[n].order.code # NoPairing
               => pairings[jobs[n].order.code].user = jobs[n].order.user
          /\ device = "wifred" => jobs[n].order.code # NoPairing
      BY <3>1 DEF TypeInv, CodesKnown
    <3> QED
      BY <1>2, <3>1, <3>2 DEF NoPairing
  <2> QED
    BY <2>1, <2>2
<1>6. WrittenKnown'
  BY <1>1 DEF TypeInv, WrittenKnown
<1> QED
  BY <1>4, <1>5, <1>6

(* Orders and pairings that are kept go on having that in common. *)
LEMMA OldOrders ==
    ASSUME TypeInv, JobsTyped, OrdersKept, PairingsKept, UNCHANGED device
    PROVE  OrdersOK' /\ CodesKnown' /\ WrittenKnown'
<1>1. DOMAIN pairings = 1 .. Len(pairings) /\ Len(pairings) \in Nat
  BY LenProperties DEF TypeInv, BigFredOK, PairingsOK
<1>2. DOMAIN jobs = 1 .. Len(jobs) /\ Len(jobs) \in Nat
  BY LenProperties DEF JobsTyped
<1>3. HandsetOrders' = HandsetOrders
  BY DEF HandsetOrders
<1>4. OrdersOK'
  BY <1>3 DEF TypeInv, OrdersOK, OrdersKept
<1>5. CodesKnown'
  BY <1>1 DEF TypeInv, CodesKnown, OrdersKept, PairingsKept, NoPairing
<1>6. WrittenKnown'
  BY <1>2 DEF TypeInv, WrittenKnown, OrdersKept
<1> QED
  BY <1>4, <1>5, <1>6

(* The code ordered is that of the pairing just opened. *)
LEMMA ProgramCodeOrders ==
    ASSUME TypeInv, JobsTyped, NEW c \in calls, ProgramCode(c), UNCHANGED device
    PROVE  OrdersOK' /\ CodesKnown' /\ WrittenKnown'
<1>1. c.user \in Users /\ c.station \in Stations /\ c.roster \in Seq(Vehicles)
  BY CallFields DEF TypeInv, CallsOK, ProgramCode
<1>2. /\ Len(pairings) \in Nat /\ Len(pairings') = Len(pairings) + 1
      /\ \A p \in DOMAIN pairings : pairings'[p].user = pairings[p].user
      /\ pairings'[Len(pairings) + 1].user = c.user
  BY <1>1, OpenedParts DEF ProgramCode, TypeInv, BigFredOK, PairingsOK
<1> DEFINE code == Len(pairings) + 1
           o == Order(c.user, None, code, c.roster)
<1>3. c.roster \in Seq(Vehicles \cup {None})
  BY <1>1, SeqMonotonic
<1>4. code \in 0 .. MaxPairings
  BY <1>2, PairingsAssumption DEF ProgramCode
<1>5. o \in HandsetOrders /\ o.user = c.user /\ o.code = code
  <2> HIDE DEF code
  <2> QED
    BY <1>1, <1>3, <1>4 DEF Order, HandsetOrders
<1>6. Program(c.key, o)
  BY DEF ProgramCode
<1> HIDE DEF o
<1> QED
  BY <1>2, <1>5, <1>6, NewOrder DEF NoPairing

(* So with every step. *)
LEMMA OthersOrders ==
    ASSUME TypeInv, JobsTyped, Others, UNCHANGED device, UNCHANGED fredVars
    PROVE  OrdersOK' /\ CodesKnown' /\ WrittenKnown'
<1>1. CASE \E c \in calls : ProgramCode(c)
  BY <1>1, ProgramCodeOrders
<1>2. CASE OrderNow
  <2>1. PICK o : OrdersAtOnce(o)
    BY <1>2, OrderNowParts DEF TypeInv
  <2>2. Len(pairings) \in Nat
    BY LenProperties DEF TypeInv, BigFredOK, PairingsOK
  <2>3. device # "wifred" /\ o.code \in 0 .. Len(pairings) /\ UNCHANGED pairings
    BY <2>1, <2>2 DEF OrdersAtOnce, NoPairing
  <2> QED
    BY <2>1, <2>2, <2>3, NewOrder DEF OrdersAtOnce
<1>3. CASE ~OrderNow /\ ~\E c \in calls : ProgramCode(c)
  <2>1. OrdersKept /\ PairingsKept
    BY <1>3, JobsParts, PairingsParts DEF TypeInv
  <2> QED
    BY <2>1, OldOrders
<1> QED
  BY <1>1, <1>2, <1>3

(* Calls in flight stay known. *)
LEMMA OthersCalls ==
    ASSUME TypeInv, Others, UNCHANGED device, UNCHANGED fredVars
    PROVE  CallsOK' /\ HandsetsKnown' /\ DeviceKnown'
<1>1. CallsGrow
  BY CallsParts DEF TypeInv, BigFredOK
<1>2. HandsetIds \subseteq HandsetIds' /\ existing' \in HandsetIds
  BY PairingsParts, ExistingParts DEF TypeInv, HandsetsKnown
<1>3. Calls' = Calls
  BY DEF Calls, OldHandset
<1>4. CallsOK'
  BY <1>1, <1>3 DEF TypeInv, CallsOK, CallsGrow, MayBeMade
<1>5. HandsetsKnown'
  BY <1>1, <1>2 DEF TypeInv, HandsetsKnown, CallsGrow, MayBeMade
<1>6. DeviceKnown'
  <2>1. phase' \in {"station", "rePairConfirm"} => device = "wifred"
    BY DevicePhases DEF TypeInv
  <2> QED
    BY <1>1, <2>1 DEF TypeInv, DeviceKnown, CallsGrow, MayBeMade
<1> QED
  BY <1>4, <1>5, <1>6

(* A step that leaves calls, BigFred and jobs alone, or changes nothing    *)
LEMMA CalmKeeps ==
    ASSUME TypeInv, UNCHANGED <<device, calls, pairings, handset, jobs, written>>,
           existing' \in {existing, NoHandset},
           phase' \in {"station", "rePairConfirm"} => phase' = phase
    PROVE  /\ CallsOK' /\ BigFredOK' /\ HandsetsKnown' /\ DeviceKnown' /\ OrdersOK' /\ CodesKnown'
           /\ WrittenKnown'
<1>1. PairingsOK' /\ HandsetIds' = HandsetIds /\ NoHandset \in HandsetIds
  BY SamePairingsKept, NoHandsetIsKnown DEF TypeInv, BigFredOK
<1>2. Calls' = Calls /\ HandsetOrders' = HandsetOrders
  BY DEF Calls, OldHandset, HandsetOrders
<1>3. CallsOK' /\ BigFredOK' /\ HandsetsKnown'
  BY <1>1, <1>2 DEF TypeInv, CallsOK, BigFredOK, HandsetsKnown
<1>4. DeviceKnown'
  BY DEF TypeInv, DeviceKnown
<1>5. OrdersOK' /\ WrittenKnown'
  BY <1>2 DEF TypeInv, OrdersOK, WrittenKnown
<1>6. CodesKnown'
  BY DEF TypeInv, CodesKnown
<1> QED
  BY <1>3, <1>4, <1>5, <1>6

(* The induction step of the type invariant *)
LEMMA TypeKept ==
    ASSUME TypeInv, JobsTyped, [Next]_vars
    PROVE  TypeInv'
<1>1. CASE UNCHANGED vars
  <2>1. /\ UNCHANGED <<device, usable, phase, busy, user, pin, station, existing, hello,
                       candidates, candidate, hellos, scans, vehicles, rosterIds, calls,
                       uncancelled, late, guest, typed, fixed>>
        /\ UNCHANGED <<pairings, handset, jobs, written>>
    BY <1>1 DEF vars, wirelessVars, display, who, scan, list, marks, bigfred, jobVars, fredVars
  <2>2. MarksOK'
    BY <2>1 DEF TypeInv, MarksOK
  <2>3. PageOK'
    BY <2>1 DEF TypeInv, PageOK, Pages
  <2>4. ScansOK'
    BY <2>1 DEF TypeInv, ScansOK
  <2>5. ListOK'
    BY <2>1 DEF TypeInv, ListOK, MaxRoster
  <2>6. /\ CallsOK' /\ BigFredOK' /\ HandsetsKnown' /\ DeviceKnown' /\ OrdersOK' /\ CodesKnown'
        /\ WrittenKnown'
    BY <2>1, CalmKeeps
  <2> QED
    BY <2>2, <2>3, <2>4, <2>5, <2>6 DEF TypeInv
<1>2. CASE UNCHANGED <<device, usable>> /\ Walk
  <2>1. MarksOK' /\ PageOK' /\ ScansOK' /\ ListOK'
    BY <1>2, WalkMarks, WalkPage, WalkScans, WalkList DEF TypeInv
  <2>2. /\ CallsOK' /\ BigFredOK' /\ HandsetsKnown' /\ DeviceKnown' /\ OrdersOK' /\ CodesKnown'
        /\ WrittenKnown'
    BY <1>2, WalkParts, WalkPages, CalmKeeps
  <2> QED
    BY <2>1, <2>2 DEF TypeInv
<1>3. CASE UNCHANGED <<device, usable, guest, typed, fixed>> /\ Others
  <2>0. UNCHANGED fredVars
    BY <1>3 DEF fredVars
  <2>1. MarksOK' /\ PageOK' /\ ScansOK' /\ ListOK'
    BY <1>3, <2>0, OthersMarks, OthersPage, OthersScans, OthersList DEF TypeInv
  <2>2. CallsOK' /\ HandsetsKnown' /\ DeviceKnown'
    BY <1>3, <2>0, OthersCalls
  <2>3. BigFredOK'
    BY <1>3, PairingsParts DEF TypeInv
  <2>4. OrdersOK' /\ CodesKnown' /\ WrittenKnown'
    BY <1>3, <2>0, OthersOrders
  <2> QED
    BY <2>1, <2>2, <2>3, <2>4 DEF TypeInv
<1> QED
  BY <1>1, <1>2, <1>3, StepCases

LEMMA TypeBegins == ASSUME Init PROVE TypeInv
<1>0. PICK d \in Devices : WirelessInit(d)
  BY DEF Init
<1>1. PairingsInit /\ JobsInit
  BY <1>0 DEF WirelessInit
<1>2. MarksOK
  BY <1>0 DEF Init, WirelessInit, MarksOK
<1>3. PageOK
  BY <1>0 DEF WirelessInit, PageOK, Pages
<1>4. ScansOK
  BY <1>0, FlowAssumption DEF WirelessInit, ScansOK
<1>5. ListOK
  BY <1>0, EmptyRoster, MaxRosterIsNat DEF WirelessInit, ListOK
<1>6. calls = {} /\ existing = NoHandset /\ phase \in {"fredAccountAsk", "user"}
  BY <1>0 DEF WirelessInit
<1>7. pairings = <<>> /\ \E p \in Paired :
        handset = [s \in Slots |-> IF s \in p THEN OldHandset ELSE NoHandset]
  BY <1>1 DEF PairingsInit
<1>8. PairingsOK
  BY <1>7, PairingsAssumption, EmptySeq DEF PairingsOK
<1>9. NoHandset \in HandsetIds /\ OldHandset \in HandsetIds
  BY <1>8, NoHandsetIsKnown DEF HandsetIds
<1>10. BigFredOK /\ HandsetsKnown /\ DeviceKnown /\ CallsOK
  BY <1>6, <1>7, <1>8, <1>9 DEF BigFredOK, HandsetsKnown, DeviceKnown, CallsOK
<1>11. jobs = <<>> /\ written = [k \in Keys |-> 0] /\ MaxJobs \in Nat
  BY <1>1, JobAssumption DEF JobsInit, NoJob
<1>12. OrdersOK /\ CodesKnown /\ WrittenKnown
  BY <1>11 DEF OrdersOK, CodesKnown, WrittenKnown
<1> QED
  BY <1>2, <1>3, <1>4, <1>5, <1>10, <1>12 DEF TypeInv

LEMMA TypeHolds == Spec => []TypeInv
<1>1. Init => TypeInv
  BY TypeBegins
<1>2. JobsTyped /\ TypeInv /\ [Next]_vars => TypeInv'
  BY TypeKept
<1> QED
  BY <1>1, <1>2, JobsAreTyped, PTL DEF Spec

(* Every variable of the pages, of BigFred and of the programmer keeps to  *)
(* what the type invariant says, if the orders of the pages are ones that  *)
(* may be written.                                                         *)
THEOREM FredTypeCorrect == ASSUME HandsetOrders \subseteq Orders PROVE Spec => []FredTypeOK
<1>1. TypeInv /\ JobsTyped => FredTypeOK
  <2> SUFFICES ASSUME TypeInv, JobsTyped PROVE FredTypeOK
    OBVIOUS
  <2>1. PairingsTypeOK
    <3>0. HandsetIds \subseteq 0 .. OldHandset
      BY HandsetIdsInRange DEF TypeInv, BigFredOK
    <3>1. handset \in [Slots -> 0 .. OldHandset]
      BY <3>0 DEF TypeInv, BigFredOK
    <3>2. \A n \in DOMAIN pairings : pairings[n] \in Pairing
      BY ElementOfSeq, LenProperties DEF TypeInv, BigFredOK, PairingsOK
    <3> QED
      BY <3>1, <3>2 DEF PairingsTypeOK, Pairing, PairingOf, TypeInv, BigFredOK, PairingsOK
  <2>2. JobsTypeOK
    <3> PICK O : jobs \in Seq(JobOf(O))
      BY DEF JobsTyped
    <3>1. Len(jobs) \in Nat /\ DOMAIN jobs = 1 .. Len(jobs)
      BY LenProperties
    <3>2. \A n \in 1 .. Len(jobs) : jobs[n] \in Job
      <4> TAKE n \in 1 .. Len(jobs)
      <4>1. jobs[n] \in JobOf(O) /\ jobs[n].order \in Orders
        BY <3>1, JobIsTyped DEF TypeInv, OrdersOK
      <4> QED
        BY <4>1 DEF JobOf, Job
    <3>3. jobs \in Seq(Job)
      BY <3>1, <3>2, FunctionIsSeq
    <3>4. written \in [Keys -> 0 .. MaxJobs]
      BY <3>1, JobAssumption DEF JobsTyped, TypeInv, WrittenKnown, OrdersOK
    <3> QED
      BY <3>3, <3>4 DEF JobsTypeOK, TypeInv, OrdersOK
  <2>3. existing \in 0 .. OldHandset
    BY HandsetIdsInRange DEF TypeInv, BigFredOK, HandsetsKnown
  <2>4. hellos + scans \in 0 .. MaxScans
    BY FlowAssumption DEF TypeInv, ScansOK
  <2>5. WirelessTypeOK
    <3>1. busy \in BOOLEAN /\ hello \in BOOLEAN /\ uncancelled \in BOOLEAN /\ late \in BOOLEAN
      BY DEF TypeInv, MarksOK
    <3>2. PageOK /\ ListOK /\ CallsOK
      BY DEF TypeInv
    <3> QED
      BY <2>1, <2>2, <2>3, <2>4, <3>1, <3>2 DEF WirelessTypeOK, PageOK, Pages, ListOK, CallsOK
  <2> QED
    BY <2>5 DEF FredTypeOK, TypeInv, MarksOK
<1> QED
  BY <1>1, TypeHolds, JobsAreTyped, PTL

(***************************************************************************)
(* One chain at a time                                                     *)
(***************************************************************************)
Chain(c) == c.kind \in {"start", "cancel"}

Idle == (\A c \in calls : ~Chain(c)) /\ (\A n \in DOMAIN jobs : ~Active(n))

OneChain ==
    /\ \A c, d \in calls : Chain(c) /\ Chain(d) => c = d
    /\ \A c \in calls : Chain(c) => \A n \in DOMAIN jobs : ~Active(n)
    /\ \A n \in DOMAIN jobs : Active(n) => n = Len(jobs)

(* A chain that programs runs only behind the page that shows it, unless   *)
(* the operator has left.                                                  *)
ChainInv ==
    ~late /\ phase # "home" => (phase # "wpProgramming" => Idle) /\ OneChain

(* What the page shows is what was ordered.                                *)
StillPaired(code) ==
    /\ pairings[code].state # "closed"
    /\ \A c \in calls : c.kind = "unpair" => c.client # code

Mine(n) ==
    LET o == jobs[n].order
    IN  /\ jobs[n].key = candidate /\ o.user = user
        /\ device = "wifred" => StillPaired(o.code)
        /\ device = "fred" => o.roster = FredAddress

ShownInv ==
    ~late =>
        /\ phase = "wpProgramming" =>
             /\ \A c \in calls : c.kind = "start" => c.user = user /\ c.key = candidate
             /\ \A n \in DOMAIN jobs : Active(n) => Mine(n)
        /\ phase = DonePage =>
             Len(jobs) > 0 /\ jobs[Len(jobs)].page = "succeeded" /\ Mine(Len(jobs))

(* A handset is unpaired by its own number.                                *)
UnpairInv ==
    ~late => /\ phase = "rePairConfirm" => existing # NoHandset
             /\ \A c \in calls : c.kind = "unpair" => c.client # NoHandset

(* What is ordered, or may be, is the participant's.                       *)
OwnRoster(r, u) == \A i \in DOMAIN r : r[i] # None => Owner[r[i]] = u
OwnOrders ==
    \A n \in DOMAIN jobs : LET o == jobs[n].order
                           IN  OwnRoster(o.roster, o.user) /\ o.pin \in {None, o.user}
OwnStarts == \A c \in calls : c.kind = "start" => OwnRoster(c.roster, c.user)
OwnList ==
    phase = "wpRoster" \/ (device = "fred" /\ phase \notin {"fredAccountAsk", "user", "home"})
        => \A v \in vehicles : Owner[v] = user
OwnPin == device = "longfred" => pin \in {None, user} /\ (phase = "user" => pin = None)
OwnInv == ~late => OwnOrders /\ OwnStarts /\ OwnList /\ OwnPin

FlowInv == ChainInv /\ ShownInv /\ UnpairInv /\ OwnInv

(* The list and the PIN of the participant shown are theirs on every walk. *)
LEMMA WalkOwn ==
    ASSUME OwnList, OwnPin, DeviceKnown, Walk, UNCHANGED device
    PROVE  OwnList' /\ OwnPin'
<1>1. CASE (\E u \in Users : PickUser(u)) /\ UNCHANGED fredVars
  BY <1>1 DEF PickUser, On, display, who, scan, list, marks, bigfred, jobVars, fredVars,
     OwnList, OwnPin, DeviceKnown
<1>2. CASE EnterPin /\ UNCHANGED fredVars
  BY <1>2 DEF EnterPin, On, Enter, RunScan, ScanPage, display, who, scan, list, marks, bigfred,
     jobVars, fredVars, OwnList, OwnPin, DeviceKnown
<1>3. CASE Keep /\ UNCHANGED fredVars
  BY <1>3 DEF Keep, On, display, who, scan, list, marks, bigfred, jobVars, fredVars, OwnList,
     OwnPin, DeviceKnown
<1>4. CASE RetryScan /\ UNCHANGED fredVars
  BY <1>4 DEF RetryScan, RunScan, ScanPage, display, who, scan, list, marks, bigfred, jobVars,
     fredVars, OwnList, OwnPin, DeviceKnown
<1>5. CASE (\E s \in Stations : ChooseStation(s)) /\ UNCHANGED fredVars
  BY <1>5 DEF ChooseStation, On, display, who, scan, list, marks, bigfred, jobVars, fredVars,
     OwnList, OwnPin, DeviceKnown
<1>6. CASE (\E v \in Vehicles : Toggle(v)) /\ UNCHANGED fredVars
  BY <1>6 DEF Toggle, ListPage, display, who, scan, list, marks, bigfred, jobVars, fredVars,
     OwnList, OwnPin, DeviceKnown
<1>7. CASE Turns /\ UNCHANGED fredVars
  BY <1>7 DEF Turns, Turn, On, Enter, RunScan, ScanPage, display, who, scan, list, marks,
     bigfred, jobVars, fredVars, OwnList, OwnPin, DeviceKnown
<1>8. CASE HelloAnswers /\ UNCHANGED fredVars
  BY <1>8 DEF HelloAnswers, display, who, scan, list, marks, bigfred, jobVars, fredVars,
     OwnList, OwnPin, DeviceKnown
<1>9. CASE ScanFails /\ UNCHANGED fredVars
  BY <1>9 DEF ScanFails, display, who, scan, list, marks, bigfred, jobVars, fredVars, OwnList,
     OwnPin, DeviceKnown
<1>10. CASE (\E found \in SUBSET Keys : ScanAnswers(found)) /\ UNCHANGED fredVars
  BY <1>10 DEF ScanAnswers, display, who, scan, list, marks, bigfred, jobVars, fredVars,
     OwnList, OwnPin, DeviceKnown
<1>11. CASE AccountYes
  BY <1>11 DEF AccountYes, Steps, FredOn, Enter, RunScan, ScanPage, display, who, scan, list,
     marks, bigfred, jobVars, fredVars, OwnList, OwnPin, DeviceKnown
<1>12. CASE AccountNo
  BY <1>12 DEF AccountNo, FredOn, Enter, RunScan, ScanPage, display, who, scan, list, marks,
     bigfred, jobVars, fredVars, OwnList, OwnPin, DeviceKnown
<1>13. CASE TypeAddress
  BY <1>13 DEF TypeAddress, FredOn, wirelessVars, display, who, scan, list, marks, bigfred,
     jobVars, fredVars, OwnList, OwnPin, DeviceKnown
<1>14. CASE BackFromAddress
  BY <1>14 DEF BackFromAddress, Steps, FredOn, Enter, RunScan, ScanPage, display, who, scan,
     list, marks, bigfred, jobVars, fredVars, OwnList, OwnPin, DeviceKnown
<1>15. CASE ForgetUser("user", "fredAccountAsk")
  BY <1>15 DEF ForgetUser, FredOn, Enter, RunScan, ScanPage, display, who, scan, list, marks,
     bigfred, jobVars, fredVars, OwnList, OwnPin, DeviceKnown
<1>16. CASE ForgetUser("fredRoster", "user")
  BY <1>16 DEF ForgetUser, FredOn, Enter, RunScan, ScanPage, display, who, scan, list, marks,
     bigfred, jobVars, fredVars, OwnList, OwnPin, DeviceKnown
<1>17. CASE GoAfterFredAddress
  BY <1>17 DEF GoAfterFredAddress, AddressTyped, AddressPicked, FredOn, Enter, RunScan,
     ScanPage, display, who, scan, list, marks, bigfred, jobVars, fredVars, OwnList, OwnPin,
     DeviceKnown
<1>18. CASE \E k \in Keys : PickStation(k)
  BY <1>18 DEF PickStation, FredOn, display, who, scan, list, marks, bigfred, jobVars, fredVars,
     OwnList, OwnPin, DeviceKnown
<1>19. CASE BackFromZ21
  BY <1>19 DEF BackFromZ21, AddressPage, Steps, FredOn, Enter, RunScan, ScanPage, display, who,
     scan, list, marks, bigfred, jobVars, fredVars, OwnList, OwnPin, DeviceKnown
<1>20. CASE BackFromPlug
  BY <1>20 DEF BackFromPlug, AddressPage, Steps, FredOn, Enter, RunScan, ScanPage, display, who,
     scan, list, marks, bigfred, jobVars, fredVars, OwnList, OwnPin, DeviceKnown
<1>21. CASE RetryFred
  BY <1>21 DEF RetryFred, Steps, FredOn, Enter, RunScan, ScanPage, display, who, scan, list,
     marks, bigfred, jobVars, fredVars, OwnList, OwnPin, DeviceKnown
<1>22. CASE AskLocoRetry
  BY <1>22 DEF AskLocoRetry, Steps, FredOn, Enter, RunScan, ScanPage, display, who, scan, list,
     marks, bigfred, jobVars, fredVars, OwnList, OwnPin, DeviceKnown
<1>23. CASE ConfigPoll
  BY <1>23 DEF ConfigPoll, wirelessVars, display, who, scan, list, marks, bigfred, jobVars,
     fredVars, OwnList, OwnPin, DeviceKnown
<1> QED
  BY <1>1, <1>2, <1>3, <1>4, <1>5, <1>6, <1>7, <1>8, <1>9, <1>10, <1>11, <1>12, <1>13, <1>14,
     <1>15, <1>16, <1>17, <1>18, <1>19, <1>20, <1>21, <1>22, <1>23 DEF Walk, WirelessWalk,
     FredWalk

(* A walk disturbs no chain. *)
LEMMA WalkFlow ==
    ASSUME FlowInv, TypeInv, JobsTyped, Walk, UNCHANGED device
    PROVE  FlowInv'
<1>0. /\ UNCHANGED calls /\ UNCHANGED late /\ UNCHANGED uncancelled
      /\ UNCHANGED pairings /\ UNCHANGED handset /\ UNCHANGED jobs /\ UNCHANGED written
  BY WalkParts
<1>1. /\ phase \in {"home", "wpProgramming"} => phase' = phase
      /\ phase' \in {"wpProgramming", "wpDone", "fredAskLoco"}
           => /\ phase' = phase
              /\ UNCHANGED <<user, candidate, guest, typed, vehicles, rosterIds>>
      /\ phase' = "rePairConfirm" => phase' = phase /\ existing' = existing
  BY WalkPages
<1>2. ChainInv'
  BY <1>0, <1>1 DEF FlowInv, ChainInv, Idle, OneChain, Active
<1>3. ShownInv'
  <2>1. DonePage' = DonePage /\ DonePage \in {"wpDone", "fredAskLoco"}
    BY DEF DonePage
  <2>2. ASSUME UNCHANGED <<user, candidate, guest, typed, vehicles, rosterIds>>,
               NEW n \in DOMAIN jobs, Mine(n)
        PROVE  Mine(n)'
    <3>1. FredAddress' = FredAddress
      BY <2>2 DEF FredAddress
    <3> QED
      BY <1>0, <2>2, <3>1 DEF Mine, StillPaired
  <2>3. Len(jobs) > 0 => Len(jobs) \in DOMAIN jobs
    BY LenProperties DEF JobsTyped
  <2> QED
    BY <1>0, <1>1, <2>1, <2>2, <2>3 DEF FlowInv, ShownInv, Active
<1>4. UnpairInv'
  BY <1>0, <1>1 DEF FlowInv, UnpairInv
<1>5. OwnInv'
  BY <1>0, WalkOwn DEF FlowInv, TypeInv, OwnInv, OwnOrders, OwnStarts
<1> QED
  BY <1>2, <1>3, <1>4, <1>5 DEF FlowInv

(* An answer that is not late finds the page and the participant it was for. *)
LEMMA OnTime ==
    ASSUME NEW c, MarkLate(c), ~late'
    PROVE  /\ ~late /\ c.user = user
           /\ c.kind = "verify" => phase = "wpPin"
           /\ c.kind = "status" => phase \in {"wpPin", "station"}
           /\ c.kind = "unpair" => phase = "rePairConfirm"
           /\ c.kind = "load" => phase \in {"wpScan", "user"}
  BY DEF MarkLate

LEMMA JobNumbers ==
    ASSUME JobsTyped
    PROVE  DOMAIN jobs = 1 .. Len(jobs) /\ Len(jobs) \in Nat
  BY LenProperties DEF JobsTyped

LEMMA DonePages == DonePage \in {"wpDone", "fredAskLoco"}
  BY DEF DonePage

(* What is picked from an own list is own. *)
LEMMA RosterIsOwn ==
    ASSUME ListOK, \A v \in vehicles : Owner[v] = user
    PROVE  /\ OwnRoster(RosterFromVehicles(vehicles, rosterIds), user)
           /\ OwnRoster(FredAddress, user)
<1>1. OwnRoster(RosterFromVehicles(vehicles, rosterIds), user)
  <2> DEFINE r == RosterFromVehicles(vehicles, rosterIds)
  <2>1. \A i \in DOMAIN r : r[i] \in vehicles
    BY RosterMembers DEF ListOK
  <2> HIDE DEF r
  <2> QED
    BY <2>1 DEF OwnRoster, r
<1>2. OwnRoster(FredAddress, user)
  BY FredAddressRoster DEF OwnRoster
<1> QED
  BY <1>1, <1>2

(* Asking starts a chain where none is, for what is shown. *)
LEMMA AskFlow ==
    ASSUME FlowInv, TypeInv, JobsTyped, Ask, UNCHANGED <<device, guest, typed, fixed>>
    PROVE  FlowInv'
<1>0. PICK m : Asks(m)
  BY AskParts DEF TypeInv, BigFredOK
<1>1. /\ calls' = calls \cup {m}
      /\ phase \in {"wpPin", "station", "rePairConfirm", "wpScan", "wpRoster", "user"}
      /\ m.kind = "unpair" => phase = "rePairConfirm" /\ m.client = existing
      /\ m.kind = "start" => /\ phase = "wpRoster" /\ phase' = "wpProgramming" /\ device # "fred"
                             /\ m.user = user /\ m.key = candidate
                             /\ m.roster = RosterFromVehicles(vehicles, rosterIds)
                             /\ UNCHANGED candidate
      /\ m.kind # "start" => phase' = phase
      /\ m.kind # "cancel"
      /\ UNCHANGED user \/ (device = "fred" /\ phase = "user")
      /\ UNCHANGED <<pin, existing, vehicles, late, pairings, jobs>>
  BY <1>0 DEF Asks
<1>2. ~late => Idle
  BY <1>1 DEF FlowInv, ChainInv
<1>3. ChainInv'
  <2>1. CASE m.kind = "start"
    BY <1>1, <1>2, <2>1 DEF ChainInv, OneChain, Idle, Chain, Active
  <2>2. CASE m.kind # "start"
    BY <1>1, <1>2, <2>2 DEF ChainInv, OneChain, Idle, Chain, Active
  <2> QED
    BY <2>1, <2>2
<1>4. ShownInv'
  <2>1. DonePage' \in {"wpDone", "fredAskLoco"}
    BY DEF DonePage
  <2>2. CASE m.kind = "start"
    <3>1. UNCHANGED user
      BY <1>1, <2>2
    <3> QED
      BY <1>1, <1>2, <2>1, <2>2, <3>1 DEF ShownInv, Idle, Chain, Active
  <2>3. CASE m.kind # "start"
    BY <1>1, <2>1, <2>3 DEF ShownInv
  <2> QED
    BY <2>2, <2>3
<1>5. UnpairInv'
  BY <1>1 DEF FlowInv, UnpairInv
<1>6. OwnInv'
  <2> SUFFICES ASSUME ~late' PROVE OwnOrders' /\ OwnStarts' /\ OwnList' /\ OwnPin'
    BY DEF OwnInv
  <2>0. OwnOrders /\ OwnStarts /\ OwnList /\ OwnPin
    BY <1>1 DEF FlowInv, OwnInv
  <2>1. OwnOrders'
    BY <1>1, <2>0 DEF OwnOrders, OwnRoster
  <2>2. m.kind = "start" => OwnRoster(m.roster, m.user)
    BY <1>1, <2>0, RosterIsOwn DEF OwnList, TypeInv
  <2>3. OwnStarts'
    BY <1>1, <2>0, <2>2 DEF OwnStarts, OwnRoster
  <2>4. OwnList'
    BY <1>1, <2>0 DEF OwnList
  <2>5. OwnPin'
    BY <1>1, <2>0 DEF OwnPin
  <2> QED
    BY <2>1, <2>3, <2>4, <2>5
<1> QED
  BY <1>3, <1>4, <1>5, <1>6 DEF FlowInv

(* So does ordering at once. *)
LEMMA OrderNowFlow ==
    ASSUME FlowInv, TypeInv, JobsTyped, OrderNow, UNCHANGED <<device, guest, typed, fixed>>
    PROVE  FlowInv'
<1>0. PICK o : OrdersAtOnce(o)
  BY OrderNowParts DEF TypeInv, fredVars
<1>1. /\ Program(candidate', o) /\ o.user = user
      /\ device = "fred" => phase = "fredPlug" /\ o.pin = None /\ o.roster = FredAddress
      /\ device # "fred" => /\ device = "longfred" /\ phase = "wpScan"
                            /\ o.pin = pin /\ o.roster = <<>>
      /\ phase' = "wpProgramming"
      /\ UNCHANGED <<user, pin, existing, guest, typed, vehicles, rosterIds, calls, late, pairings>>
  BY <1>0 DEF OrdersAtOnce
<1>2. /\ Len(jobs) \in Nat /\ Len(jobs') = Len(jobs) + 1
      /\ DOMAIN jobs = 1 .. Len(jobs) /\ DOMAIN jobs' = 1 .. Len(jobs) + 1
      /\ \A n \in DOMAIN jobs : jobs'[n] = jobs[n]
      /\ jobs'[Len(jobs) + 1].key = candidate' /\ jobs'[Len(jobs) + 1].order = o
  BY <1>1, ProgramParts
<1>3. ~late => Idle
  BY <1>1 DEF FlowInv, ChainInv
<1>4. ~late => \A n \in DOMAIN jobs' : Active(n)' => n = Len(jobs) + 1
  BY <1>2, <1>3 DEF Idle, Active
<1>5. ChainInv'
  BY <1>1, <1>2, <1>3, <1>4 DEF ChainInv, OneChain, Idle, Chain
<1>6. ShownInv'
  <2>1. DonePage' \in {"wpDone", "fredAskLoco"} /\ FredAddress' = FredAddress
    BY <1>1 DEF DonePage, FredAddress
  <2>2. ASSUME NEW n, n = Len(jobs) + 1 PROVE Mine(n)'
    BY <1>1, <1>2, <2>1, <2>2 DEF Mine
  <2> QED
    BY <1>1, <1>3, <1>4, <2>1, <2>2 DEF ShownInv, Idle, Chain
<1>7. UnpairInv'
  BY <1>1 DEF FlowInv, UnpairInv
<1>8. OwnInv'
  <2> SUFFICES ASSUME ~late' PROVE OwnOrders' /\ OwnStarts' /\ OwnList' /\ OwnPin'
    BY DEF OwnInv
  <2>0. OwnOrders /\ OwnStarts /\ OwnList /\ OwnPin
    BY <1>1 DEF FlowInv, OwnInv
  <2>1. OwnRoster(o.roster, o.user) /\ o.pin \in {None, o.user}
    <3>1. CASE device = "fred"
      BY <1>1, <2>0, <3>1, RosterIsOwn DEF OwnList, TypeInv
    <3>2. CASE device # "fred"
      BY <1>1, <2>0, <3>2 DEF OwnPin, OwnRoster
    <3> QED
      BY <3>1, <3>2
  <2>2. OwnOrders'
    BY <1>2, <2>0, <2>1 DEF OwnOrders, OwnRoster
  <2>3. OwnStarts' /\ OwnList' /\ OwnPin'
    BY <1>1, <2>0 DEF OwnStarts, OwnRoster, OwnList, OwnPin
  <2> QED
    BY <2>2, <2>3
<1> QED
  BY <1>5, <1>6, <1>7, <1>8 DEF FlowInv

(* Who leaves is shown nothing. *)
LEMMA LeaveFlow ==
    ASSUME FlowInv, TypeInv, Leave, UNCHANGED <<device, guest, typed, fixed>>
    PROVE  FlowInv'
<1>1. /\ phase' = "home" /\ pin' = None /\ vehicles' = {}
      /\ calls' = { c \in calls : Chain(c) } /\ UNCHANGED <<late, jobs>>
  BY DEF Leave, Chain, marks, jobVars
<1>2. DonePage' \in {"wpDone", "fredAskLoco"}
  BY DEF DonePage
<1>3. ChainInv' /\ ShownInv'
  BY <1>1, <1>2 DEF ChainInv, ShownInv
<1>4. UnpairInv'
  BY <1>1 DEF UnpairInv, Chain
<1>5. OwnInv'
  BY <1>1 DEF FlowInv, OwnInv, OwnOrders, OwnStarts, OwnRoster, OwnList, OwnPin
<1> QED
  BY <1>3, <1>4, <1>5 DEF FlowInv

(* What is common to the answers that move the operator to another page    *)
LEMMA PageAnswerParts ==
    ASSUME NEW c \in calls, ~late',
           PinVerified(c) \/ StatusAnswers(c) \/ UnpairDone(c) \/ ListArrives(c)
    PROVE  /\ ~late /\ c.user = user /\ UNCHANGED user /\ UNCHANGED jobs
           /\ phase \in {"wpPin", "station", "rePairConfirm", "wpScan", "user"}
           /\ phase' \in {"wpPin", "station", "rePairConfirm", "wpEnterPairing", "wpRoster",
                          "fredRoster"}
           /\ phase' = "rePairConfirm" => existing' # NoHandset
           /\ \A d \in calls' : d \in calls \/ d.kind = "status"
<1>1. CASE PinVerified(c)
  <2>1. ~late /\ c.user = user /\ phase = "wpPin"
    BY <1>1, OnTime DEF PinVerified
  <2>2. /\ UNCHANGED user /\ UNCHANGED jobs
        /\ phase' \in {phase, "station"}
        /\ calls' = Made(calls \ {c}, Status(c.user, station')) \/ calls' = calls \ {c}
    BY <1>1 DEF PinVerified, Returned, jobVars
  <2>3. \A d \in Made(calls \ {c}, Status(c.user, station')) : d \in calls \/ d.kind = "status"
    <3> DEFINE s == [kind |-> "status", user |-> c.user, station |-> station']
    <3>1. PICK again \in BOOLEAN : Made(calls \ {c}, s) = (calls \ {c}) \cup {Marked(s, again)}
      BY MadeOne
    <3>2. Marked(s, again).kind = "status"
      BY DEF Marked
    <3>3. s = Status(c.user, station')
      BY DEF Status
    <3> HIDE DEF s
    <3> QED
      BY <3>1, <3>2, <3>3
  <2> QED
    BY <2>1, <2>2, <2>3
<1>2. CASE StatusAnswers(c)
  <2>1. ~late /\ c.user = user /\ phase \in {"wpPin", "station"}
    BY <1>2, OnTime DEF StatusAnswers
  <2> QED
    BY <1>2, <2>1 DEF StatusAnswers, Returned, jobVars
<1>3. CASE UnpairDone(c)
  <2>1. ~late /\ c.user = user /\ phase = "rePairConfirm"
    BY <1>3, OnTime DEF UnpairDone
  <2> QED
    BY <1>3, <2>1 DEF UnpairDone, Returned, jobVars
<1>4. CASE ListArrives(c)
  <2>1. ~late /\ c.user = user /\ phase \in {"wpScan", "user"}
    BY <1>4, OnTime DEF ListArrives
  <2> QED
    BY <1>4, <2>1 DEF ListArrives, ListPage, Returned, jobVars, who
<1> QED
  BY <1>1, <1>2, <1>3, <1>4

(* An answer on time comes while no chain is running. *)
LEMMA PageAnswerFlow ==
    ASSUME FlowInv, TypeInv, NEW c \in calls,
           PinVerified(c) \/ StatusAnswers(c) \/ UnpairDone(c) \/ ListArrives(c),
           UNCHANGED <<device, guest, typed, fixed>>
    PROVE  FlowInv'
<1>1. ASSUME ~late'
      PROVE  /\ ~late /\ c.user = user /\ UNCHANGED user /\ UNCHANGED jobs
             /\ phase \in {"wpPin", "station", "rePairConfirm", "wpScan", "user"}
             /\ phase' \in {"wpPin", "station", "rePairConfirm", "wpEnterPairing", "wpRoster",
                            "fredRoster"}
             /\ phase' = "rePairConfirm" => existing' # NoHandset
             /\ \A d \in calls' : d \in calls \/ d.kind = "status"
  BY <1>1, PageAnswerParts
<1>2. DonePage' \in {"wpDone", "fredAskLoco"}
  BY DEF DonePage
<1>3. ChainInv'
  <2> SUFFICES ASSUME ~late' PROVE Idle' /\ OneChain'
    BY DEF ChainInv
  <2>1. Idle
    BY <1>1 DEF FlowInv, ChainInv
  <2> QED
    BY <1>1, <2>1 DEF Idle, OneChain, Chain, Active
<1>4. ShownInv'
  BY <1>1, <1>2 DEF ShownInv
<1>5. UnpairInv'
  BY <1>1 DEF FlowInv, UnpairInv
<1>6. OwnInv'
  <2> SUFFICES ASSUME ~late' PROVE OwnOrders' /\ OwnStarts' /\ OwnList' /\ OwnPin'
    BY DEF OwnInv
  <2>0. OwnOrders /\ OwnStarts /\ OwnList /\ OwnPin
    BY <1>1 DEF FlowInv, OwnInv
  <2>1. OwnOrders' /\ OwnStarts'
    BY <1>1, <2>0 DEF OwnOrders, OwnStarts, OwnRoster
  <2>2. CASE ListArrives(c)
    <3>1. vehicles' = OwnedVehicles(c.user) /\ phase' # "user" /\ UNCHANGED pin
      BY <2>2 DEF ListArrives, ListPage, who
    <3>2. \A v \in vehicles' : Owner[v] = user'
      BY <1>1, <3>1 DEF OwnedVehicles
    <3> QED
      BY <1>1, <2>0, <2>1, <3>1, <3>2 DEF OwnList, OwnPin
  <2>3. CASE PinVerified(c) \/ StatusAnswers(c) \/ UnpairDone(c)
    <3>1. device = "wifred"
      <4>1. CASE PinVerified(c) \/ StatusAnswers(c)
        BY <4>1 DEF PinVerified, StatusAnswers, TypeInv, DeviceKnown
      <4>2. CASE UnpairDone(c)
        <5>1. phase = "rePairConfirm"
          BY <4>2, OnTime DEF UnpairDone
        <5> QED
          BY <5>1 DEF TypeInv, DeviceKnown
      <4> QED
        BY <2>3, <4>1, <4>2
    <3>2. phase' # "wpRoster"
      BY <1>1, <2>3 DEF PinVerified, StatusAnswers, UnpairDone
    <3> QED
      BY <2>1, <3>1, <3>2 DEF OwnList, OwnPin
  <2> QED
    BY <2>2, <2>3
<1> QED
  BY <1>3, <1>4, <1>5, <1>6 DEF FlowInv

-----------------------------------------------------------------------------
(* A call that fails may still unpair, but not the handset being programmed. *)
LEMMA CallFailsFlow ==
    ASSUME FlowInv, TypeInv, JobsTyped, NEW c \in calls, CallFails(c),
           UNCHANGED <<device, guest, typed, fixed>>
    PROVE  FlowInv'
<1>1. /\ calls' = calls \ {c}
      /\ UNCHANGED <<phase, user, pin, existing, candidate, vehicles, rosterIds, late, jobs>>
  BY DEF CallFails, Returned, who, scan, list, marks, jobVars
<1>2. DonePage' = DonePage /\ FredAddress' = FredAddress
  BY <1>1 DEF DonePage, FredAddress
<1>3. ChainInv'
  BY <1>1 DEF FlowInv, ChainInv, Idle, OneChain, Chain, Active
<1>4. ASSUME ~late, NEW code \in 1 .. Len(pairings), StillPaired(code) PROVE StillPaired(code)'
  <2>1. DOMAIN pairings = 1 .. Len(pairings)
    BY LenProperties DEF TypeInv, BigFredOK, PairingsOK
  <2>2. pairings'[code].state # "closed"
    <3>1. CASE UNCHANGED bigfred
      BY <1>4, <3>1 DEF bigfred, StillPaired
    <3>2. CASE c.kind = "unpair" /\ Unpaired(c.user, c.station, c.client)
      <4>1. c.user \in Users /\ c.station \in Stations
        BY <3>2, CallFields DEF TypeInv, CallsOK
      <4>2. \A p \in DOMAIN pairings :
              pairings'[p].state = "closed"
                => pairings[p].state = "closed" \/ c.client \in {NoHandset, p}
        BY <3>2, <4>1, UnpairedParts, NoHandsetIsKnown DEF TypeInv, BigFredOK, PairingsOK
      <4>3. c.client # NoHandset /\ c.client # code
        BY <1>4, <3>2 DEF FlowInv, UnpairInv, StillPaired
      <4> QED
        BY <1>4, <2>1, <4>2, <4>3 DEF StillPaired
    <3> QED
      BY <3>1, <3>2 DEF CallFails
  <2> QED
    BY <1>1, <1>4, <2>2 DEF StillPaired
<1>5. ASSUME ~late, NEW n \in DOMAIN jobs, Mine(n) PROVE Mine(n)'
  <2>1. device = "wifred" => jobs[n].order.code \in 1 .. Len(pairings)
    <3>1. Len(pairings) \in Nat
      BY LenProperties DEF TypeInv, BigFredOK, PairingsOK
    <3> QED
      BY <3>1 DEF TypeInv, CodesKnown, NoPairing
  <2> QED
    BY <1>1, <1>2, <1>4, <1>5, <2>1 DEF Mine
<1>6. ShownInv'
  BY <1>1, <1>2, <1>5, JobNumbers DEF FlowInv, ShownInv, Active
<1>7. UnpairInv'
  BY <1>1 DEF FlowInv, UnpairInv
<1>8. OwnInv'
  BY <1>1 DEF FlowInv, OwnInv, OwnOrders, OwnStarts, OwnRoster, OwnList, OwnPin
<1> QED
  BY <1>3, <1>6, <1>7, <1>8 DEF FlowInv

-----------------------------------------------------------------------------
(* The job takes the place of the call in the chain. *)
LEMMA ProgramCodeFlow ==
    ASSUME FlowInv, TypeInv, JobsTyped, NEW c \in calls, ProgramCode(c),
           UNCHANGED <<device, guest, typed, fixed>>
    PROVE  FlowInv'
<1>1. c.user \in Users /\ c.station \in Stations /\ c.kind = "start"
  BY CallFields DEF TypeInv, CallsOK, ProgramCode
<1> DEFINE code == Len(pairings) + 1
           o == Order(c.user, None, code, c.roster)
<1>2. /\ calls' = calls \ {c} /\ Program(c.key, o) /\ Len(pairings) < MaxPairings
      /\ UNCHANGED <<phase, user, pin, existing, candidate, vehicles, rosterIds, late>>
  BY DEF ProgramCode, Returned, display, who, scan, list, marks
<1>3. /\ Len(pairings) \in Nat /\ pairings'[code].state = "open"
  BY <1>1, OpenedParts DEF ProgramCode, TypeInv, BigFredOK, PairingsOK
<1>4. o.user = c.user /\ o.pin = None /\ o.code = code /\ o.roster = c.roster
  <2> HIDE DEF code
  <2> QED
    BY DEF Order
<1> HIDE DEF o
<1>5. /\ Len(jobs) \in Nat /\ Len(jobs') = Len(jobs) + 1
      /\ DOMAIN jobs = 1 .. Len(jobs) /\ DOMAIN jobs' = 1 .. Len(jobs) + 1
      /\ \A n \in DOMAIN jobs : jobs'[n] = jobs[n]
      /\ jobs'[Len(jobs) + 1].key = c.key /\ jobs'[Len(jobs) + 1].order = o
  BY <1>2, ProgramParts
<1>6. ~late /\ phase # "home" =>
        /\ phase = "wpProgramming" /\ \A n \in DOMAIN jobs : ~Active(n)
        /\ \A d \in calls : Chain(d) => d = c
  BY <1>1 DEF FlowInv, ChainInv, OneChain, Idle, Chain
<1>7. ~late /\ phase # "home" => \A n \in DOMAIN jobs' : Active(n)' => n = Len(jobs) + 1
  BY <1>5, <1>6 DEF Active
<1>8. ChainInv'
  BY <1>2, <1>5, <1>6, <1>7 DEF ChainInv, OneChain, Chain
<1>9. ShownInv'
  <2> SUFFICES ASSUME ~late', phase' # "home"
               PROVE  ShownInv'
    BY DonePages DEF ShownInv, DonePage
  <2>1. DonePage' \in {"wpDone", "fredAskLoco"} /\ phase = "wpProgramming"
    BY <1>2, <1>6 DEF DonePage
  <2>2. c.user = user /\ c.key = candidate
    BY <1>1, <1>2, <2>1 DEF FlowInv, ShownInv
  <2>3. device # "fred"
    BY <1>1 DEF TypeInv, DeviceKnown
  <2>4. ASSUME NEW p, p = code PROVE StillPaired(p)'
    <3>1. MaxPairings \in Nat
      BY PairingsAssumption
    <3>2. \A d \in calls : d.kind = "unpair" => d.client # code
      BY <1>2, <1>3, <3>1 DEF TypeInv, HandsetsKnown, HandsetIds, OldHandset
    <3> QED
      BY <1>2, <1>3, <2>4, <3>2 DEF StillPaired
  <2>5. ASSUME NEW n, n = Len(jobs) + 1 PROVE Mine(n)'
    BY <1>2, <1>4, <1>5, <2>2, <2>3, <2>4, <2>5 DEF Mine
  <2> QED
    BY <1>2, <1>6, <1>7, <2>1, <2>5 DEF ShownInv, Chain
<1>10. UnpairInv'
  BY <1>2 DEF FlowInv, UnpairInv
<1>11. OwnInv'
  <2> SUFFICES ASSUME ~late' PROVE OwnOrders' /\ OwnStarts' /\ OwnList' /\ OwnPin'
    BY DEF OwnInv
  <2>0. OwnOrders /\ OwnStarts /\ OwnList /\ OwnPin
    BY <1>2 DEF FlowInv, OwnInv
  <2>1. OwnRoster(o.roster, o.user) /\ o.pin \in {None, o.user}
    BY <1>1, <1>4, <2>0 DEF OwnStarts
  <2>2. OwnOrders'
    BY <1>5, <2>0, <2>1 DEF OwnOrders, OwnRoster
  <2>3. OwnStarts' /\ OwnList' /\ OwnPin'
    BY <1>2, <2>0 DEF OwnStarts, OwnRoster, OwnList, OwnPin
  <2> QED
    BY <2>2, <2>3
<1> QED
  BY <1>8, <1>9, <1>10, <1>11 DEF FlowInv

(* A chain that ends shows its page, and leaves nothing running.           *)
LEMMA EndFlow ==
    ASSUME FlowInv, TypeInv, JobsTyped, NEW p \in {"wpFailed", "wpDone", "fredAskLoco"}, Show(p),
           UNCHANGED <<device, guest, typed, fixed, user, pin, existing, candidate, vehicles,
                       rosterIds, late>>,
           calls' \subseteq calls, OrdersKept,
           ~late /\ phase # "home" => phase = "wpProgramming" /\ Idle',
           ~late /\ phase # "home" /\ p # "wpFailed"
             => /\ UNCHANGED pairings /\ Len(jobs) \in DOMAIN jobs
                /\ jobs'[Len(jobs)].page = "succeeded" /\ Mine(Len(jobs))
    PROVE  FlowInv'
<1>1. phase' = IF phase = "home" THEN "home" ELSE p
  BY DEF Show, Gone, display
<1>2. ChainInv'
  <2> SUFFICES ASSUME ~late', phase' # "home" PROVE Idle' /\ OneChain'
    BY DEF ChainInv
  <2>1. Idle'
    BY <1>1
  <2> QED
    BY <2>1 DEF Idle, OneChain
<1>3. ShownInv'
  <2>1. DonePage' = DonePage /\ DonePage \in {"wpDone", "fredAskLoco"} /\ FredAddress' = FredAddress
    BY DEF DonePage, FredAddress
  <2> SUFFICES ASSUME ~late', phase' = DonePage
               PROVE  Len(jobs') > 0 /\ jobs'[Len(jobs')].page = "succeeded" /\ Mine(Len(jobs))'
    BY <1>1, <2>1 DEF ShownInv
  <2>2. ~late /\ phase # "home" /\ p # "wpFailed"
    BY <1>1, <2>1
  <2>3. ASSUME NEW n \in DOMAIN jobs, Mine(n) PROVE Mine(n)'
    BY <2>1, <2>2, <2>3 DEF Mine, StillPaired, OrdersKept
  <2>4. PICK n : n = Len(jobs)
    OBVIOUS
  <2>5. n \in DOMAIN jobs /\ Mine(n) /\ Len(jobs') = n
    BY <2>2, <2>4 DEF OrdersKept
  <2>6. Mine(n)'
    BY <2>3, <2>5
  <2> QED
    BY <2>2, <2>4, <2>5, <2>6, JobNumbers DEF OrdersKept
<1>4. UnpairInv'
  BY <1>1 DEF FlowInv, UnpairInv
<1>5. OwnInv'
  <2> SUFFICES ASSUME ~late' PROVE OwnOrders' /\ OwnStarts' /\ OwnList' /\ OwnPin'
    BY DEF OwnInv
  <2>0. OwnOrders /\ OwnStarts /\ OwnList /\ OwnPin
    BY DEF FlowInv, OwnInv
  <2>1. OwnOrders' /\ OwnStarts'
    BY <2>0 DEF OwnOrders, OwnStarts, OwnRoster, OrdersKept
  <2>2. OwnList' /\ OwnPin'
    BY <1>1, <2>0 DEF OwnList, OwnPin
  <2> QED
    BY <2>1, <2>2
<1> QED
  BY <1>2, <1>3, <1>4, <1>5 DEF FlowInv

(* A chain without a job ends. *)
LEMMA CallEndsChain ==
    ASSUME FlowInv, TypeInv, JobsTyped, NEW c \in calls, NoCode(c) \/ CancelEnds(c),
           UNCHANGED <<device, guest, typed, fixed>>
    PROVE  FlowInv'
<1>1. /\ Chain(c) /\ calls' = calls \ {c} /\ Show("wpFailed")
      /\ UNCHANGED <<user, pin, existing, candidate, vehicles, rosterIds, late, jobs, written>>
  BY DEF NoCode, CancelEnds, Chain, Returned, who, scan, list, marks, jobVars
<1>2. ~late /\ phase # "home" => phase = "wpProgramming" /\ Idle'
  BY <1>1 DEF FlowInv, ChainInv, OneChain, Idle, Active
<1>3. OrdersKept
  BY <1>1, SameJobsKept
<1> QED
  BY <1>1, <1>2, <1>3, EndFlow

(* The job that ends for the page is the last one, and the only one. *)
LEMMA LastEnds ==
    ASSUME FlowInv, JobsTyped, ~late, phase # "home",
           NEW n \in DOMAIN jobs, Resolves(n) \/ Unsuccessful(n)
    PROVE  /\ phase = "wpProgramming" /\ n = Len(jobs) /\ OrdersKept
           /\ \A c \in calls : ~Chain(c)
           /\ \A m \in DOMAIN jobs' : ~Active(m)'
<1>1. /\ OthersKept(n) /\ Active(n) /\ OrdersKept
      /\ jobs'[n].page = IF Resolves(n) THEN "succeeded" ELSE "failed"
  BY JobEndsParts, JobEndsKept
<1>2. phase = "wpProgramming" /\ OneChain
  BY <1>1 DEF FlowInv, ChainInv, Idle
<1>3. \A m \in DOMAIN jobs : m # n => ~Active(m)
  BY <1>1, <1>2 DEF OneChain
<1> QED
  BY <1>1, <1>2, <1>3 DEF OneChain, OthersKept, Active

(* A job done is what the page then shows. *)
LEMMA JobDoneFlow ==
    ASSUME FlowInv, TypeInv, JobsTyped, NEW n \in DOMAIN jobs, JobDone(n),
           UNCHANGED <<device, guest, typed, fixed>>
    PROVE  FlowInv'
<1>1. /\ Resolves(n) /\ Show(DonePage)
      /\ UNCHANGED <<user, pin, existing, candidate, vehicles, rosterIds, late, calls, pairings>>
  BY DEF JobDone, who, scan, list, marks, bigfred
<1>2. OrdersKept /\ Active(n) /\ jobs'[n].page = "succeeded"
  BY <1>1, JobEndsKept, JobEndsParts
<1>3. ~late /\ phase # "home" => /\ phase = "wpProgramming" /\ n = Len(jobs)
                                 /\ \A c \in calls : ~Chain(c)
                                 /\ \A m \in DOMAIN jobs' : ~Active(m)'
  BY <1>1, LastEnds
<1>4. ASSUME ~late, phase # "home" PROVE Idle'
  <2>1. /\ \A c \in calls : ~Chain(c)
        /\ \A m \in DOMAIN jobs' : ~Active(m)'
    BY <1>3, <1>4
  <2>2. UNCHANGED calls
    BY <1>1
  <2> QED
    BY <2>1, <2>2 DEF Idle, Chain
<1>5. ~late /\ phase # "home" => Mine(n)
  BY <1>2, <1>3 DEF FlowInv, ShownInv
<1> QED
  BY <1>1, <1>2, <1>3, <1>4, <1>5, DonePages, EndFlow

(* A failed job is followed by its cancellation, or by the end of its chain. *)
LEMMA JobFailsFlow ==
    ASSUME FlowInv, TypeInv, JobsTyped, NEW n \in DOMAIN jobs, JobFails(n),
           UNCHANGED <<device, guest, typed, fixed>>
    PROVE  FlowInv'
<1>1. /\ Unsuccessful(n)
      /\ UNCHANGED <<user, pin, existing, candidate, vehicles, rosterIds, late, pairings>>
  BY DEF JobFails, who, scan, list, marks, bigfred
<1>2. OrdersKept
  BY <1>1, JobEndsKept
<1>3. ~late /\ phase # "home" => /\ phase = "wpProgramming" /\ n = Len(jobs)
                                 /\ \A c \in calls : ~Chain(c)
                                 /\ \A m \in DOMAIN jobs' : ~Active(m)'
  BY <1>1, LastEnds
<1>4. CASE Show("wpFailed") /\ UNCHANGED calls
  <2>1. ~late /\ phase # "home" => Idle'
    BY <1>3, <1>4 DEF Idle, Chain, Active
  <2> QED
    BY <1>1, <1>2, <1>3, <1>4, <2>1, EndFlow
<1>5. ASSUME NEW u, NEW s, calls' = Made(calls, [kind |-> "cancel", user |-> u, station |-> s]),
             UNCHANGED display
      PROVE  FlowInv'
  <2> DEFINE d == [kind |-> "cancel", user |-> u, station |-> s]
  <2>1. PICK again \in BOOLEAN : calls' = calls \cup {Marked(d, again)}
    BY <1>5, MadeOne
  <2>2. PICK m : m = Marked(d, again)
    OBVIOUS
  <2>3. m.kind = "cancel"
    BY <2>2 DEF Marked
  <2> HIDE DEF d
  <2>4. calls' = calls \cup {m} /\ UNCHANGED phase
    BY <1>5, <2>1, <2>2 DEF display
  <2>5. ChainInv'
    BY <1>1, <1>3, <2>3, <2>4 DEF ChainInv, OneChain, Idle, Chain, Active
  <2>6. ShownInv'
    <3>0. DonePage' \in {"wpDone", "fredAskLoco"} /\ DonePage \in {"wpDone", "fredAskLoco"}
      BY DEF DonePage
    <3> SUFFICES ASSUME ~late PROVE ShownInv'
      BY <1>1 DEF ShownInv
    <3>1. phase = "home" => ShownInv'
      BY <2>4, <3>0 DEF ShownInv
    <3>2. phase = "wpProgramming" => ShownInv'
      BY <1>1, <1>3, <2>3, <2>4, <3>0 DEF FlowInv, ShownInv, Active
    <3> QED
      BY <1>3, <3>1, <3>2
  <2>7. UnpairInv'
    BY <1>1, <2>3, <2>4 DEF FlowInv, UnpairInv
  <2>8. OwnInv'
    BY <1>1, <1>2, <2>3, <2>4 DEF FlowInv, OwnInv, OwnOrders, OwnStarts, OwnRoster, OwnList, OwnPin,
       OrdersKept
  <2> QED
    BY <2>5, <2>6, <2>7, <2>8 DEF FlowInv
<1> QED
  BY <1>4, <1>5 DEF JobFails

-----------------------------------------------------------------------------
(* A job that goes on is still the one shown. *)
LEMMA JobGoesOnFlow ==
    ASSUME FlowInv, TypeInv, JobsTyped, NEW n \in DOMAIN jobs, JobGoesOn(n),
           UNCHANGED <<device, guest, typed, fixed>>
    PROVE  FlowInv'
<1>1. /\ UNCHANGED <<phase, user, pin, existing, candidate, vehicles, rosterIds, late, calls,
                     pairings>>
      /\ JobStep(n) \/ ProgramAnswers(n)
  BY DEF JobGoesOn, pageVars, display, who, scan, list, marks, bigfred
<1>2. /\ OthersKept(n) /\ OrdersKept
      /\ jobs'[n].page = jobs[n].page \/ (jobs[n].page = "posted" /\ jobs'[n].page = "watching")
  BY <1>1, JobGoesOnParts, JobGoesOnKept
<1>3. \A m \in DOMAIN jobs : (Active(m)' <=> Active(m))
                             /\ (jobs[m].page = "succeeded" => jobs'[m].page = "succeeded")
  BY <1>2 DEF OthersKept, Active
<1>4. DonePage' = DonePage /\ FredAddress' = FredAddress
  BY <1>1 DEF DonePage, FredAddress
<1>5. \A m \in DOMAIN jobs : Mine(m) => Mine(m)'
  BY <1>1, <1>2, <1>4 DEF Mine, StillPaired, OrdersKept
<1>6. ChainInv'
  BY <1>1, <1>2, <1>3 DEF FlowInv, ChainInv, OneChain, Idle, Chain, OthersKept
<1>7. ShownInv'
  <2>1. Len(jobs') = Len(jobs) /\ DOMAIN jobs' = DOMAIN jobs
    BY <1>2 DEF OrdersKept
  <2>2. phase' = "wpProgramming" /\ ~late' =>
          /\ \A c \in calls' : c.kind = "start" => c.user = user' /\ c.key = candidate'
          /\ \A m \in DOMAIN jobs' : Active(m)' => Mine(m)'
    BY <1>1, <1>3, <1>5, <2>1 DEF FlowInv, ShownInv
  <2>3. phase' = DonePage' /\ ~late' =>
          Len(jobs') > 0 /\ jobs'[Len(jobs')].page = "succeeded" /\ Mine(Len(jobs))'
    <3> SUFFICES ASSUME phase = DonePage, ~late
                 PROVE  Len(jobs) > 0 /\ jobs'[Len(jobs)].page = "succeeded" /\ Mine(Len(jobs))'
      BY <1>1, <1>4, <2>1
    <3>1. PICK m : m = Len(jobs)
      OBVIOUS
    <3>2. Len(jobs) > 0 /\ m \in DOMAIN jobs /\ jobs[m].page = "succeeded" /\ Mine(m)
      BY <3>1, JobNumbers DEF FlowInv, ShownInv
    <3>3. Mine(m)' /\ m = Len(jobs')
      BY <1>5, <2>1, <3>1, <3>2
    <3> QED
      BY <1>3, <3>1, <3>2, <3>3
  <2> QED
    BY <2>2, <2>3 DEF ShownInv
<1>8. UnpairInv'
  BY <1>1 DEF FlowInv, UnpairInv
<1>9. OwnInv'
  BY <1>1, <1>2 DEF FlowInv, OwnInv, OwnOrders, OwnStarts, OwnRoster, OwnList, OwnPin, OrdersKept
<1> QED
  BY <1>6, <1>7, <1>8, <1>9 DEF FlowInv

(* A pairing that is joined or expires was open, and is not closed. *)
LEMMA PairingFlow ==
    ASSUME FlowInv, TypeInv, JobsTyped,
           NEW p \in DOMAIN pairings, HandsetJoins(p) \/ PairingExpires(p),
           UNCHANGED <<device, guest, typed, fixed>>
    PROVE  FlowInv'
<1>1. UNCHANGED <<phase, user, pin, existing, candidate, vehicles, rosterIds, late, calls, jobs>>
  BY DEF HandsetJoins, PairingExpires, display, who, scan, list, marks, jobVars
<1>2. pairings' = Set(p, "joined") \/ pairings' = Set(p, "expired")
  BY DEF HandsetJoins, PairingExpires, Joins, Expires
<1>3. DOMAIN pairings = 1 .. Len(pairings) /\ Len(pairings) \in Nat
  BY LenProperties DEF TypeInv, BigFredOK, PairingsOK
<1>4. \A q \in DOMAIN pairings : pairings[q].state # "closed" => pairings'[q].state # "closed"
  BY <1>2, SetParts DEF TypeInv, BigFredOK, PairingsOK
<1>5. DonePage' = DonePage /\ FredAddress' = FredAddress
  BY <1>1 DEF DonePage, FredAddress
<1>6. \A n \in DOMAIN jobs : Mine(n) => Mine(n)'
  <2> SUFFICES ASSUME NEW n \in DOMAIN jobs, Mine(n) PROVE Mine(n)'
    OBVIOUS
  <2>1. device = "wifred" => jobs[n].order.code \in DOMAIN pairings
    BY <1>3 DEF TypeInv, CodesKnown, NoPairing
  <2> QED
    BY <1>1, <1>4, <1>5, <2>1 DEF Mine, StillPaired
<1>7. ChainInv' /\ UnpairInv'
  BY <1>1 DEF FlowInv, ChainInv, Idle, OneChain, Active, UnpairInv
<1>8. ShownInv'
  <2>1. phase' = "wpProgramming" /\ ~late' =>
          /\ \A c \in calls' : c.kind = "start" => c.user = user' /\ c.key = candidate'
          /\ \A n \in DOMAIN jobs' : Active(n)' => Mine(n)'
    BY <1>1, <1>6 DEF FlowInv, ShownInv, Active
  <2>2. phase' = DonePage' /\ ~late' =>
          Len(jobs') > 0 /\ jobs'[Len(jobs')].page = "succeeded" /\ Mine(Len(jobs))'
    <3> SUFFICES ASSUME phase = DonePage, ~late
                 PROVE  Len(jobs) > 0 /\ jobs[Len(jobs)].page = "succeeded" /\ Mine(Len(jobs))'
      BY <1>1, <1>5
    <3>1. PICK n : n = Len(jobs)
      OBVIOUS
    <3>2. Len(jobs) > 0 /\ n \in DOMAIN jobs /\ jobs[n].page = "succeeded" /\ Mine(n)
      BY <3>1, JobNumbers DEF FlowInv, ShownInv
    <3>3. Mine(n)' /\ n = Len(jobs')
      BY <1>1, <1>6, <3>1, <3>2
    <3> QED
      BY <3>1, <3>2, <3>3
  <2> QED
    BY <2>1, <2>2 DEF ShownInv
<1>9. OwnInv'
  BY <1>1 DEF FlowInv, OwnInv, OwnOrders, OwnStarts, OwnRoster, OwnList, OwnPin
<1> QED
  BY <1>7, <1>8, <1>9 DEF FlowInv

(* The induction step of the flow invariant *)
LEMMA FlowKept ==
    ASSUME FlowInv, TypeInv, JobsTyped, [Next]_vars
    PROVE  FlowInv'
<1>1. CASE UNCHANGED vars
  <2>1. /\ UNCHANGED <<device, phase, user, pin, existing, candidate, vehicles, rosterIds, calls,
                       late, guest, typed, pairings, jobs>>
    BY <1>1 DEF vars, wirelessVars, display, who, scan, list, marks, bigfred, jobVars, fredVars
  <2>2. FredAddress' = FredAddress /\ DonePage' = DonePage
    BY <2>1 DEF FredAddress, DonePage
  <2>3. ChainInv'
    BY <2>1 DEF FlowInv, ChainInv, Idle, OneChain, Active
  <2>4. ShownInv'
    BY <2>1, <2>2 DEF FlowInv, ShownInv, Mine, StillPaired, Active
  <2>5. UnpairInv'
    BY <2>1 DEF FlowInv, UnpairInv
  <2>6. OwnInv'
    BY <2>1 DEF FlowInv, OwnInv, OwnOrders, OwnStarts, OwnRoster, OwnList, OwnPin
  <2> QED
    BY <2>3, <2>4, <2>5, <2>6 DEF FlowInv
<1>2. CASE UNCHANGED <<device, usable>> /\ Walk
  BY <1>2, WalkFlow
<1>3. CASE UNCHANGED <<device, usable, guest, typed, fixed>> /\ Others
  <2>1. CASE Ask
    BY <1>3, <2>1, AskFlow
  <2>2. CASE OrderNow
    BY <1>3, <2>2, OrderNowFlow
  <2>3. CASE Leave
    BY <1>3, <2>3, LeaveFlow
  <2>4. CASE CallEnds
    <3>1. PICK c \in calls :
            \/ PinVerified(c) \/ StatusAnswers(c) \/ UnpairDone(c) \/ ListArrives(c)
            \/ ProgramCode(c) \/ NoCode(c) \/ CancelEnds(c) \/ CallFails(c)
      BY <2>4 DEF CallEnds
    <3> QED
      BY <1>3, <3>1, PageAnswerFlow, ProgramCodeFlow, CallEndsChain, CallFailsFlow
  <2>5. CASE \E n \in DOMAIN jobs : JobDone(n) \/ JobFails(n) \/ JobGoesOn(n)
    BY <1>3, <2>5, JobDoneFlow, JobFailsFlow, JobGoesOnFlow
  <2>6. CASE \E p \in DOMAIN pairings : HandsetJoins(p) \/ PairingExpires(p)
    BY <1>3, <2>6, PairingFlow
  <2> QED
    BY <1>3, <2>1, <2>2, <2>3, <2>4, <2>5, <2>6 DEF Others
<1> QED
  BY <1>1, <1>2, <1>3, StepCases

LEMMA FlowBegins == ASSUME Init PROVE FlowInv
<1>0. PICK d \in Devices : WirelessInit(d)
  BY DEF Init
<1>1. /\ phase \in {"fredAccountAsk", "user"} /\ (phase = "fredAccountAsk" \/ device # "fred")
      /\ calls = {} /\ pin = None /\ vehicles = {} /\ jobs = <<>>
  BY <1>0 DEF WirelessInit, JobsInit
<1>2. ChainInv
  BY <1>1 DEF ChainInv, Idle, OneChain
<1>3. ShownInv /\ UnpairInv
  BY <1>1, DonePages DEF ShownInv, UnpairInv
<1>4. OwnInv
  BY <1>1 DEF OwnInv, OwnOrders, OwnStarts, OwnList, OwnPin
<1> QED
  BY <1>2, <1>3, <1>4 DEF FlowInv

LEMMA FlowHolds == Spec => []FlowInv
<1>1. Init => FlowInv
  BY FlowBegins
<1>2. FlowInv /\ TypeInv /\ JobsTyped /\ [Next]_vars => FlowInv'
  BY FlowKept
<1> QED
  BY <1>1, <1>2, TypeHolds, JobsAreTyped, PTL DEF Spec

(* Every order is its participant's: own locomotives, own PIN, own code,   *)
(* however the list, the participant and the station change while it is    *)
(* put together (WirelessProgramFlow.tsx:175-225).                         *)
THEOREM EveryOrderIsOwn == Spec => []OrdersAreOwn
<1>1. TypeInv /\ FlowInv => OrdersAreOwn
  BY DEF TypeInv, CodesKnown, FlowInv, OwnInv, OwnOrders, OwnRoster, OrdersAreOwn
<1> QED
  BY <1>1, TypeHolds, FlowHolds, PTL

(* The page says "programmed" only when the handset picked holds what the  *)
(* participant ordered last: a code that is not cancelled, or the address  *)
(* that the next page offers (WirelessProgramFlow.tsx:130, 256).           *)
THEOREM DoneMeansDone == Spec => []DoneIsTrue
<1>1. TypeInv /\ FlowInv /\ JobsTyped /\ SuccessIsTrue => DoneIsTrue
  <2> SUFFICES ASSUME TypeInv, FlowInv, JobsTyped, SuccessIsTrue, phase = DonePage, ~late,
                      NEW n, n = Len(jobs)
               PROVE  /\ n > 0 /\ jobs[n].page = "succeeded" /\ written[candidate] = n
                      /\ jobs[n].order.user = user
                      /\ device = "wifred" => /\ jobs[n].order.code # NoPairing
                                              /\ pairings[jobs[n].order.code].state # "closed"
                      /\ device = "fred" => jobs[n].order.roster = FredAddress
    BY DEF DoneIsTrue
  <2>1. n > 0 /\ jobs[n].page = "succeeded" /\ Mine(n)
    BY DEF FlowInv, ShownInv
  <2>2. n \in DOMAIN jobs /\ n \in Nat
    BY <2>1, JobNumbers
  <2>3. jobs[n].key = candidate /\ candidate \in Keys
    <3> PICK O : jobs \in Seq(JobOf(O))
      BY DEF JobsTyped
    <3>1. jobs[n] \in JobOf(O)
      BY <2>2, JobIsTyped
    <3> QED
      BY <2>1, <3>1 DEF JobOf, Mine
  <2>4. written[candidate] >= n /\ written[candidate] \in 0 .. n
    BY <2>1, <2>2, <2>3 DEF SuccessIsTrue, TypeInv, WrittenKnown
  <2>5. device = "wifred" => jobs[n].order.code # NoPairing
    BY <2>2 DEF TypeInv, CodesKnown
  <2> QED
    BY <2>1, <2>2, <2>4, <2>5 DEF Mine, StillPaired
<1> QED
  BY <1>1, TypeHolds, FlowHolds, JobsAreTyped, SuccessesAreTrue, PTL
=============================================================================
