----------------------------- MODULE WirelessJob -----------------------------
(* Programming a handset over the air: the page's two calls                *)
(* (web/src/api/wireless.ts: program, watchJob), the bridge between HTTP   *)
(* and the Unix socket of the wireless programmer (src/wireless_api.rs),   *)
(* and the programmer itself, as the bridge uses it.                       *)
(*                                                                         *)
(* POST /program answers with the number of a job, or fails: the bridge    *)
(* gives up on the socket after 5 s and on an answer after 30 s, when the  *)
(* programmer may have taken the job.  The page then opens an event        *)
(* stream.  The bridge reads the job's frames from a socket of its own,    *)
(* passes them on through a short queue, and ends the stream after the     *)
(* last frame, after an error, or, without a word, when it cannot read.    *)
(*                                                                         *)
(* The programmer is assumed to take requests in the order it got them and *)
(* to run one job at a time; the bridge only shows that it may refuse one  *)
(* as "busy" (wireless_api.rs:189).  A job is known by its position in     *)
(* `jobs`, and stands for the page's call too.                             *)
(***************************************************************************)
EXTENDS Naturals, Sequences

CONSTANTS Keys,    \* what can be programmed: handsets, or stations for a FRED
          Orders,  \* what may be written into one
          MaxJobs, \* bound: jobs asked for
          Buffer   \* bound: frames between the programmer and the page (8 in the code)

ASSUME JobAssumption == MaxJobs \in Nat /\ Buffer \in Nat \ {0}

VARIABLES jobs,
          written  \* key -> the job that wrote it last, or NoJob

jobVars == <<jobs, written>>

NoJob == 0
Terminal == {"done", "failed"} \* a cancelled job is a failed one to the page
Frames == Terminal \cup {"progress", "error"}

Job == [key : Keys, order : Orders,
        state : {"asked", "refused", "running"} \cup Terminal,
        page : {"posted", "watching", "succeeded", "failed"}, \* the page's call
        feed : {"closed", "open"}, frames : Seq(Frames)]      \* the event stream

JobsTypeOK ==
    /\ jobs \in Seq(Job) /\ Len(jobs) <= MaxJobs
    /\ written \in [Keys -> 0 .. MaxJobs]

JobsInit == jobs = <<>> /\ written = [k \in Keys |-> NoJob]

-----------------------------------------------------------------------------
(* The programmer *)

Accept(n) ==
    /\ jobs[n].state = "asked"
    /\ \A m \in DOMAIN jobs : jobs[m].state # "running" /\ (m < n => jobs[m].state # "asked")
    /\ jobs' = [jobs EXCEPT ![n].state = "running"]
    /\ UNCHANGED written

(* Busy, unknown handset, bad request, or no configuration of the Wi-Fi *)
Refuse(n) ==
    /\ jobs[n].state = "asked"
    /\ jobs' = [jobs EXCEPT ![n].state = "refused"]
    /\ UNCHANGED written

(* A job that failed, or that another client cancelled, may have written.  *)
EndJob(n, s) ==
    /\ jobs[n].state = "running"
    /\ jobs' = [jobs EXCEPT ![n].state = s]
    /\ \/ written' = [written EXCEPT ![jobs[n].key] = n]
       \/ s # "done" /\ UNCHANGED written

-----------------------------------------------------------------------------
(* The bridge *)

Frame(n) == IF jobs[n].state \in Terminal THEN jobs[n].state ELSE "progress"

(* Reads a frame and queues it as an event. *)
ReadFrame(n) ==
    /\ jobs[n].feed = "open" /\ Len(jobs[n].frames) < Buffer
    /\ jobs' = [jobs EXCEPT ![n].frames = Append(@, Frame(n)),
                            ![n].feed = IF Frame(n) \in Terminal THEN "closed" ELSE "open"]
    /\ UNCHANGED written

(* The programmer does not know the job. *)
ReadError(n) ==
    /\ jobs[n].feed = "open" /\ Len(jobs[n].frames) < Buffer
    /\ jobs' = [jobs EXCEPT ![n].frames = Append(@, "error"), ![n].feed = "closed"]
    /\ UNCHANGED written

(* The socket cannot be read. *)
ReadFails(n) ==
    /\ jobs[n].feed = "open"
    /\ jobs' = [jobs EXCEPT ![n].feed = "closed"]
    /\ UNCHANGED written

-----------------------------------------------------------------------------
(* The page's calls, each to be joined with what its caller does *)

Program(key, order) ==
    /\ Len(jobs) < MaxJobs
    /\ jobs' = Append(jobs, [key |-> key, order |-> order, state |-> "asked",
                             page |-> "posted", feed |-> "closed", frames |-> <<>>])
    /\ UNCHANGED written

ProgramAnswers(n) ==
    /\ jobs[n].page = "posted" /\ jobs[n].state \notin {"asked", "refused"}
    /\ jobs' = [jobs EXCEPT ![n].page = "watching", ![n].feed = "open"]
    /\ UNCHANGED written

(* A refusal, no connection, no answer in time, or an answer that is lost: *)
(* what has been asked for may still be taken up.                          *)
ProgramFails(n) ==
    /\ jobs[n].page = "posted"
    /\ \E s \in {jobs[n].state} \cup (IF jobs[n].state = "asked" THEN {"refused"} ELSE {}) :
         jobs' = [jobs EXCEPT ![n].page = "failed", ![n].state = s]
    /\ UNCHANGED written

(* onFrame *)
ShowProgress(n) ==
    /\ jobs[n].page = "watching" /\ jobs[n].frames # <<>> /\ Head(jobs[n].frames) = "progress"
    /\ jobs' = [jobs EXCEPT ![n].frames = Tail(@)]
    /\ UNCHANGED written

(* Faulty variant: a promise that an error settles once more. *)
SettleAgain(n, outcome) ==
    /\ jobs' = [jobs EXCEPT ![n].page = outcome, ![n].feed = "closed", ![n].frames = <<>>]
    /\ UNCHANGED written

(* The EventSource is closed, and the promise settled. *)
Settle(n, outcome) ==
    /\ jobs[n].page = "watching"
    /\ jobs' = [jobs EXCEPT ![n].page = outcome, ![n].feed = "closed", ![n].frames = <<>>]
    /\ UNCHANGED written

Resolves(n) == jobs[n].frames # <<>> /\ Head(jobs[n].frames) = "done" /\ Settle(n, "succeeded")

ResolvesNotDone(n) ==
    /\ jobs[n].frames # <<>> /\ Head(jobs[n].frames) \in {"failed", "error"}
    /\ Settle(n, "failed")

(* Faulty variant: waits for a terminal frame, whatever becomes of the stream. *)
StreamEndsUnnoticed(n) == jobs[n].feed = "closed" /\ jobs[n].frames = <<>> /\ FALSE

StreamEnds(n) == jobs[n].feed = "closed" /\ jobs[n].frames = <<>> /\ Settle(n, "failed")

(* The connection breaks before the page has seen the end. *)
StreamBreaks(n) == (jobs[n].feed = "open" \/ jobs[n].frames # <<>>) /\ Settle(n, "failed")

-----------------------------------------------------------------------------
(* What becomes of a job without the page *)

ProgrammerStep(n) ==
    \/ Accept(n) \/ Refuse(n)
    \/ \E s \in Terminal : EndJob(n, s)

BridgeStep(n) == ReadFrame(n) \/ ReadError(n) \/ ReadFails(n)

JobStep(n) == ProgrammerStep(n) \/ BridgeStep(n) \/ ShowProgress(n)

(* The page's call ends without success. *)
Unsuccessful(n) == ProgramFails(n) \/ ResolvesNotDone(n) \/ StreamEnds(n) \/ StreamBreaks(n)

JobNext ==
    \/ \E k \in Keys, o \in Orders : Program(k, o)
    \/ \E n \in DOMAIN jobs :
         JobStep(n) \/ ProgramAnswers(n) \/ Resolves(n) \/ Unsuccessful(n)

JobSpec == JobsInit /\ [][JobNext]_jobVars

-----------------------------------------------------------------------------
(* Properties *)

(* Programmer, bridge and page together keep a register for whatever can   *)
(* be programmed.  A call is answered once, though its stream may break    *)
(* after the last frame; a success comes after the effect; no call takes   *)
(* effect twice, or over a later one, though a call that failed may still  *)
(* be waiting at the programmer.                                           *)
Outcome(j) ==
    [register |-> j.key,
     effect |-> CASE j.state \in {"asked", "running"} -> "open"
                  [] j.state = "done" -> "done"
                  [] OTHER -> "lapsed",
     answer |-> IF j.page \in {"succeeded", "failed"} THEN j.page ELSE "none"]
Outcomes == [n \in DOMAIN jobs |-> Outcome(jobs[n])]

Handsets == INSTANCE HandsetRegister WITH Registers <- Keys, calls <- Outcomes, holds <- written
HandsetsAreRegisters == Handsets!RegisterSpec
=============================================================================
