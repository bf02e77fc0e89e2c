# bigfred-wizard in TLA+

`bigfred-wizard` is a kiosk for model-railway meetings.  An organizer uses it to
prepare locomotives (address, function list, decoder programming), to create
participant accounts and to hand out throttles.  It is a Rust server (`src/`)
that serves a React application (`web/`) and talks to a BigFred server, to a Z21
command station and to a wireless programmer.

This directory holds TLA+ models of that code, the TLC configurations that check
them on small instances, and theorems about them that TLAPS proves for every
value of the constants.  Paths below are relative to the repository.

## 1. Inventory

| Component | State it keeps | Operations | Talks to |
|---|---|---|---|
| Direct programming backend, `src/loco_programming/z21.rs` | `inner`: a cached client behind a tokio `Mutex` | `connect`, `read_cvs`, `write_cvs`, `addr_get`, `addr_set` | the UDP client, one command at a time |
| Z21 UDP client, `src/loco_programming/z21_udp.rs` | the socket and its receive buffer, the `io` mutex | `read_cv`, `write_cv`, `read_cv_pom`, `write_cv_pom` | the command station, over UDP |
| Programming handlers and pulse locks, `src/programming_api.rs` | `PulseLocks`: a semaphore per (address, function) | `cvs_read`, `cvs_write`, `address_get`, `address_set`, `function_pulse`, `drive_connect`, `status` | one of the two backends |
| dcc-bus backend, `src/loco_programming/dcc_bus.rs` | none here (the socket is in the crate `bigfred-client`) | the same five, forwarded | BigFred |
| Configuration and reload, `src/config.rs`, `src/config_watch.rs`, `src/main.rs` | the file, two published snapshots `cfg` and `bf_cfg`, the OAuth drop-in | load, watch, debounce, publish | every handler reads a snapshot |
| OAuth, proxy, PIN, `src/bigfred/` | none | code exchange, forwarding, PIN comparison | BigFred |
| Wireless bridge, `src/wireless_api.rs`, `web/src/api/wireless.ts` | one socket and one event stream per job | hello, scan, program, job events, cancel | the wireless programmer, a daemon behind a Unix socket |
| Wireless and FRED flows, `.../flows/WirelessProgramFlow.tsx`, `FredFlow.tsx`, `RosterPicker.tsx`, `PinDialog.tsx` | phase, participant, PIN, station, candidates, chosen locomotives, the job shown | scan, verify PIN, replace a handset, pick, program, retry | the bridge; BigFred's pairings |
| Organizer session, `web/src/auth/AuthContext.tsx`, `App.tsx`, `CallbackPage.tsx`, `src/bigfred/oauth.rs` | token, `/me`, idle timer, polled configuration | sign in, adopt, logout, expire, poll | BigFred through the proxy |
| Drive and pairing, `web/src/pages/drive/` | the chosen user, vehicles, a pairing and its status poll | begin, poll, cancel, finish | BigFred; the handset endpoints |
| Locomotive page, `web/src/pages/ConfigureLocoPage.tsx` | phase, user, list, vehicle, address, template | pick, save, program, test, back | BigFred and the programming handlers |
| Account page, `web/src/pages/CreateAccountPage.tsx` | step, login, PINs, the call in flight | check, next, back, submit, reset | BigFred's accounts; mounted by the session's routes |
| QR and handset endpoints, help, texts | none that another part reads | | |

How they interact.  The page calls the handlers over HTTP; a handler picks a
backend from the `cfg` snapshot of that moment; the direct backend makes its
client from a later snapshot, once; the reloader replaces the snapshots while
handlers run.  When the browser hangs up, the handler's future is dropped at
whatever `await` it stands.

What is hard to get right, and to test:

* **Answers that do not name their question.**  A Z21 answer carries a CV
  number, nothing else.  The client never drains its buffer, gives up after ten
  seconds, and may be dropped between a command and its answer.
* **Locks per batch.**  `addr_set` takes the lock up to four times; other
  requests write to the same decoder in between.
* **Batches cut short.**  The writes of an address go to the decoder one by one
  and the order decides what a decoder answers to when one of them fails.
* **Reload in four actors.**  Kernel, watch thread, debounce, reloader: an edit
  can be made between any two, and there are two snapshots to publish.
* **Look up, then acquire.**  The semaphore of a pulse is found under one lock
  and acquired after it is released.
* **Continuations.**  Every step of the web pages is an `await` that ends in a
  page that may show something else by then.
* **Effects.**  React runs an effect again when what it depends on is a new object:
  the polled configuration re-arms the idle timer, the first hello of the wireless
  programmer starts a second scan.
* **Jobs that outlive their caller.**  A job whose answer was lost, or whose event stream
  broke, goes on at the programmer, next to the one of the retry.

What makes each part correct: the client is a register of CVs; a successful
answer of the backend says the truth about the decoder, and a failed one leaves
the decoder on an address somebody chose; the published configuration is what
the file held last; pulses of a function exclude each other; what the page says it
programmed is what BigFred stores or the handset holds; a code that nobody uses is
withdrawn; nobody active is logged out, and signing in always leads somewhere.  The complete list of hazards, with the line
where each bites and the property that watches it, is in `PROJECT.json`.

## 2. Modules

| Module | Models | Uses |
|---|---|---|
| `AddressCv` | address arithmetic of `z21.rs` and of the Z21 crate: `address_cv_writes`, `prepend_railcom_plus_off`, decoding an address from CV 1, 17, 18, 29 | |
| `Z21Udp` | `Z21Client`, the socket, the network, the station and its decoder | `AddressCv` |
| `CvRegister` | abstract specification: a register of CVs with calls that take effect at most once, between invocation and return | |
| `Z21Programming` | `Z21Programmer`: requests in stages over one lock; composes `Z21Udp` | `Z21Udp` |
| `PulseSlot` | abstract specification: one slot per function; only its holder switches the function, and busy is said only while it is taken | |
| `FunctionPulse` | `function_pulse` and `PulseLocks` | `PulseSlot` |
| `ConfigReload` | `watch_loop`, the reloader, `cfg` and `bf_cfg`, the drop-in, and the requests that read a snapshot and then connect | |
| `ConfigureLoco` | `ConfigureLocoPage.tsx`, with BigFred's vehicles and the programming track as environment | |
| `Pairings` | BigFred's pairings and handsets, as `client.ts` calls them | |
| `DrivePairing` | `useDriveSession.ts`, `DriveFlowPage.tsx` and the flows of WlanMaus, RailBOX and other WiThrottle handsets | `Pairings` |
| `HandsetRegister` | abstract specification: registers written by numbered calls, each at most once, in order, and answered once | |
| `WirelessJob` | `program` and `watchJob` of `wireless.ts`, the bridge `wireless_api.rs`, and the programmer behind its socket | `HandsetRegister` |
| `WirelessFlow` | `WirelessProgramFlow.tsx` with its steps, for wiFRED and LongFRED; composes the two | `Pairings`, `WirelessJob` |
| `FredFlow` | `FredFlow.tsx`, and with it every page that uses the programmer | `WirelessFlow` |
| `CreateAccount` | `CreateAccountPage.tsx`, with BigFred's accounts | |
| `Session` | `AuthContext.tsx`, the routes of `App.tsx`, `LoginPage.tsx`, `CallbackPage.tsx` and the token exchange; composes the account page | `CreateAccount` |
| `*Proofs` | the theorems (section 5) | the module they are named after |
| `MC*` | the small instances TLC checks | the module they are named after |

### How state and actions correspond to the code

**Z21Udp.**  `call` is the command a task awaits under the `io` mutex, `toStation`
the datagrams sent, `replies` the socket's receive buffer, `sockErr` its pending
ICMP error, `decoder` the CVs.  `Call` is everything up to and including
`sock.send`; `RecvResult`, `RecvOther`, `RecvNack`, `RecvError` and `Timeout` are
the ways one turn of the loop in `await_result` ends; `Post` is `write_cv_pom`, which
waits for nothing.  `Drop` is the end of a handler's future.  The environment's
actions are `StationExec`, `StationRefuse`, `Lose`, `Unreachable`.  A constant, `Faults`,
says which of them a run may use.  Datagrams other than CV answers are skipped by
the loop without effect and left out.  Auxiliary: `own`, `applied`, `held`.

**Z21Programming.**  `holder` is the lock of `inner`; a request's `stage` and `todo`
are the batch it is in and what is left of it.  A request is `lock`ed out, about to
`send`, or in `await`.  `Acquire` is `ensure_inner` (with `ConnectFails` for its
errors and `Warm` for `ensure_connected`), `Finish` the move of `addr_set` from one
batch to the next, with the lock released in between, `Cancel` the HTTP client
hanging up anywhere.  The settle delays are the time a request spends in `send`.
Requests that fail validation change no state and are not modelled.

**FunctionPulse.**  `registry` maps a key to its semaphore, `taken` holds the
semaphores whose permit is out.  `Lookup` is `PulseLocks::acquire` under the map's
lock, `TryAcquire` what follows it, `SwitchOn` and `SwitchOff` the two frames that
`pulse_function` of the crate sends; `SocketFails` and `HangUp` cut a pulse short.

**ConfigReload.**  `events` is the inotify queue, `pending` the debounce of
`watch_loop`, `signals` the channel to the reloader, `loader` where the reloader stands
between `Load`, the two publications and the drop-in.  A request reads `cfg` to pick
its backend (`StartProgramming`) and reads it again when the client is made
(`EnsureInner`, which may also fail, at an address that cannot be read or for want of a
socket).

**ConfigureLoco.**  The variables are the page's `useState`s; `loads`, `catalogue`,
`saving`, `setting`, `testing` and `fred` are continuations in flight with what they captured.
Each handler is one action up to its first `await`, and one for every way each `await`
ends.  The effect that loads templates runs on every change of phase, existing or saved
vehicle (`TemplateEffect`) and its cleanup drops the previous answer.

**DrivePairing.**  `device`, `phase`, `user`, `station` … `busy` are the `useState`s of
`DriveFlowPage` and `useDriveSession`; `listing` is the effect that lists the command
stations, `ticking` the interval that polls.  `calls` holds the one call a handler awaits, with
what its render captured, `polls` the answers to polls on their way.  BigFred keeps
`pairings`, one open one per participant and station, and `handset`, which pairing made
the handset of a slot.  `Before` is the order of the pages up to the pairing, `Unmount` what
leaving for the home page does.  The operator acts only while no call is in flight.
`GenericPairingFlow`, `cancel` and the effect at `useDriveSession.ts:268` serve
no device of `devices.ts` and are left out.

**WirelessJob.**  A job is a record: its `state` at the programmer, the `feed` and `frames` of its
event stream, and `page`, where the page's call stands.  `Program` is the POST as it leaves,
`ProgramAnswers` and `ProgramFails` the ways it ends; a call that fails may leave its job
asked for.  `ReadFrame`, `ReadError` and `ReadFails` are the turns of the loop in
`job_events`, the last of which closes the stream without a word.  `Resolves`,
`ResolvesNotDone`, `StreamEnds` and `StreamBreaks` settle the promise of `watchJob`.  The
programmer takes jobs in the order of their requests and one at a time; a job that
fails, or that somebody cancels, may have written.

**WirelessFlow, FredFlow.**  `phase`, `busy` … `rosterIds` are the `useState`s.  `calls` holds the
calls in flight with what their render captured, `hellos` and `scans` count those of the scan
page's effect, which runs again when the first hello is answered.  Nobody waits for
anything but a disabled button.  A chain that programs goes on when the page is left
(`Leave` keeps it) and shows its end only if the page is still there (`Show`).  `late` records
that an answer arrived on another page, or for another participant, than it was asked on;
`uncancelled` that a cancellation failed.  `fixed`, whether the configuration names the
command station, may change with each poll.

**CreateAccount, Session.**  `request` is the call of the account page in flight.  In `Session`,
`Render` is what React does after a change of state: the routes redirect
(`Landing`), and a change of path or token, or a new configuration, runs the effects that
depend on it, because `navigate` and with it `logout` is a new function on every path.
`effect` is how far the token's effect has come, `exchange` how far the callback page's.  `Load`
is a page load, after which only the token survives.  A tick is 15 s, the poll's interval;
`timer` counts down, `quiet` counts up from the last sign of life.

## 3. Runs

| Run | Question | Instance | Distinct states |
|---|---|---|---|
| `programming_calm` | What does an answer of the backend say, and what may a request cut short leave behind? Is the client under it the register of `CvRegister` (refinement)? | two requests, seven jobs (short, long and POM address, read, batches, connect), two decoders, one with a long address; losses, refusals, short circuits | 254 000 |
| `programming_faults` | Does the lock hold under every fault, is a value accepted one the CV has had, does setting an address keep the other bits of CV 29 to ones somebody chose, and does every request end? | two requests, two jobs, all faults | 65 000 |
| `programming_dropped` | *violation*, finding 1 | two requests, handlers dropped | |
| `config_reload` | Is an edit ever lost, is anything unparsed published, do the snapshots converge? | three edits, one request | 413 000 |
| `config_endpoint` | *violation*, finding 2 | two edits, two requests | |
| `function_pulse` | Do pulses of a function exclude each other and last? Does all of it amount to one slot per function (`SlotSpec`)? | four requests, three functions, limit two | 35 000 |
| `loco_patient` | Are the page, BigFred and the decoder consistent for an operator who waits? Does it stay usable? | three participants (two addresses, one of them shared, none); no vehicle yet, or one with an address or without; up to two vehicles, with or without a "Basic" template, any call failing before or after its effect | 471 000 |
| `drive_pairing` | Is the code shown the one BigFred waits for, is a success one, is nothing left open, no page blank, and does the page stay usable? | two participants, one with a handset; one station or two; two pairings, any call failing | 845 000 |
| `wireless` | Do programmer, bridge and page amount to registers written in the order of the calls (`HandsetsAreRegisters`)? Is a success shown one, is every order its participant's, is a code withdrawn whose job failed? | a wiFRED, a LongFRED or a FRED; two participants, one with a handset; one thing to program, two jobs and two pairings (one job for a FRED), two scans and two calls in flight | 626 000 |
| `wireless_ends` | Does the page ever wait forever for a job? Types of all that is modelled. | the same devices; one participant with two locomotives, one without address; two stations; one job | 579 000 |
| `session` | Is anybody logged out who is active, does signing in always lead on, is an account created as confirmed? | timeouts of one tick, two and none; a kiosk switched off; two loads, two polls in flight; one login, two PINs | 508 000 |
| `session_idle` | *violation*, finding 3 | one configuration | |

Why the bounds are enough.  The client handles one call at a time, so what can
confuse it is at most the call before: two datagrams under way and two buffered
hold a late answer and the current one, and three leave room for a POM write.
Two requests show every overlap of two batches, and there is one lock.  The jobs
span both address forms and the change between them (3 → 1234, 1000 → 7), where
the order of the writes matters.  Three edits put one before, one during and one
after a load.  Four requests over three keys fill a registry of two and leave two
requests for one key.  Two creatable vehicles are the fewest that show a repeated
creation.  Two pairings are a pairing and its successor, one answer to a poll is enough to
fall between them.  Two wireless jobs are one given up and its retry, two scans the
page's and the one its hello starts; one frame fits the stream's buffer, which holds eight in
the code, so that every frame waits for the one before.  In `wireless` nothing is explored
beyond a late answer, which its properties except, nor, once the last job has been asked for,
past the list of participants or with a second call in flight beside it (`OnTime`);
`wireless_ends` has no such bound.  Two page loads are a sign-in and a reload; timeouts of one and two ticks with a poll
per tick let the timer expire when polls are late, and be shortened while it runs.  The
bounds named in the modules are `MaxQueue`, `MaxReplies`, `MaxEdits`, `MaxLoads`, `MaxPairings`,
`MaxPolls`, `MaxJobs`, `MaxFredJobs`, `Buffer`, `MaxScans`, `MaxCalls`, `MaxSlots` and `MaxIdle`; a save or programming call of the page is not begun while another is
in flight, which takes a hurried operator in the code.

Deadlock checking is off where a system may really stop (all requests served, no
more edits, an operator who walks away, the bounds of jobs and loads reached).

Every property of a passing run has a mutant, a variant of one definition with
a plausible bug in it (the operators introduced by "Faulty variant"): TLC finds the
property violated when the definition is replaced.

### Fairness

* `Z21Programming`: weak fairness of `Send` and `Await` (the executor polls what can
  proceed, and a deadline passes), strong fairness of `Acquire` and `Warm` (tokio's
  mutex is FIFO, so a waiter is not passed over forever).  Nothing is assumed of
  the network or the station: `EveryRequestEnds` rests on the deadline alone.
* `ConfigReload`: weak fairness of the watch thread and of the reloader; none of edits.
* `ConfigureLoco`: weak fairness of the answers of each call (`fetch` resolves or
  rejects); none of the operator.
* `DrivePairing`: weak fairness of the answers of each call and of the interval, strong
  fairness of the arrival of a poll's answer (not every poll of one pairing fails); none of the
  operator, of handsets or of expiry.
* `FredFlow`: weak fairness of the answers of the calls, of the programmer (it accepts or refuses,
  and ends what it runs), of the bridge's reading, of the browser's taking of events and its
  notice of a stream that has ended; none of the operator, of an open connection
  breaking, or of the bridge's failing to read.
* `Session`: weak fairness of the answers to polls, of the callback page's effect and of the
  answers it waits for; none of the operator, of the timer, or of BigFred's pages.
* `Z21Udp` and `FunctionPulse` have safety properties only.

## 4. Findings

1. **A dropped handler's answer acknowledges the next write** (`programming_dropped`,
   `z21_udp.rs:99`).  A handler that is dropped after it sent a read of CV 28
   leaves the answer to the next request.  If that one writes CV 28, the old
   answer is taken as its acknowledgement and the write is reported before the
   decoder has executed it.
2. **A reload does not move CV traffic to another Z21** (`config_endpoint`, `z21.rs:42`).
   The client is made once and never dropped; ARCHITECTURE.md says that traffic
   goes to the configured station and that only `http`/CORS need a restart.
3. **The idle timer never expires** (`session_idle`, `AuthContext.tsx:179`).  Its effect depends
   on the configuration object, which each poll replaces, every 15 s; ARCHITECTURE.md says that
   the timeout (a day by default) logs the kiosk out.  It does so only when polls fail, or
   when it is shorter than their interval.

Consequences of the code that no document contradicts, met while modelling:

* CV 28 that cannot be read, for whatever reason, counts as "has no CV 28"
  (`z21.rs:209`, `250`): `addr_set` then succeeds with RailCom Plus still on.
  `RailcomOffFirst` is about requests that did read it.
* `addr_set` computes CV 29 from a value read two batches earlier: what another request wrote to it
  in between is overwritten (`z21.rs:201`).  The address is right all the same (`AddressIsSet`), the
  other bits may be old ones.
* An edit between `ensure_config_files` and `watcher.watch` raises no event and is
  seen with the next edit only (`missed`).
* On the locomotive page the address field can be edited while it is being saved,
  so that the number programmed is not the one stored, and Back works while F2 is
  tested; `Hurried` admits both.  With a second list of vehicles arriving late, the end
  of an old save can meet the form of a new vehicle.
* After a vehicle has been added, Back to the list and "add new" suggests the same
  address again, because the list is not reloaded (`ConfigureLocoPage.tsx:301`).
* An answer to a poll that arrives after its pairing was left marks the next one as paired
  (`useDriveSession.ts:321`); `crossed` records it.  A cancellation that fails leaves a
  pairing open (`uncancelled`), and so does the app bar's way home.
* A new pairing that fails after the old handset was unpaired leaves the question on the screen,
  which still offers to keep the current handset (`useDriveSession.ts:174-185`).
* Participants and most Back buttons stay enabled while a call is in flight: an operator who does
  not wait can run two chains of calls at once, and show one participant's code on
  the other's page.  `DrivePairing` has an operator who waits.
* A template that fails to attach is tried again only if the operator presses Next in
  the same step.
* The list of users of the locomotive page is not disabled while a list of vehicles loads: the
  list that arrives is of the user it was asked for, and is shown and edited under
  another's name if the operator has picked one meanwhile (`ConfigureLocoPage.tsx:231`;
  `Hurried` admits it).
* `pickedLoco` is never reset (`useDriveSession.ts:81`): a locomotive picked for one participant
  is still selected when the next one's list opens, and is explained to that one.
* The scan page's effect depends on the hello its own scan sets, so that the first visit scans
  twice, and the end of the first scan enables the page under the second.  A candidate can be
  picked twice then, and the second answer moves the operator off the page of a running job
  (`WirelessProgramFlow.tsx:130`, `156`, `256`); `late` records it.
* A pairing whose answer holds no code of six digits is not cancelled
  (`WirelessProgramFlow.tsx:210-214`).
* When the event stream breaks while the programmer goes on, the code is cancelled and the
  handset may still be written with it: it then holds a code that BigFred refuses.  The pages
  never call the endpoint that cancels a job.
* A locomotive without a DCC address can be put into a slot and is skipped when the roster is
  written (`RosterPicker.tsx:134`), so that later ones move up and the roster may be empty.
* A station taken from the configuration stays chosen when the configuration stops naming one.
* ARCHITECTURE.md:341 has a login and PIN written into every handset; a wiFRED gets a pairing
  code and a roster, a LongFRED login and PIN and no roster.
* On the account page the login can be edited while it is checked; the page goes on with the
  login nobody checked, which BigFred may refuse at the end.  A creation whose answer is lost
  and is tried again shows "login taken".
* The account page is unmounted when a poll says that the kiosk was switched off; a call in
  flight then creates an account that nobody is told about.
* A logout while `adoptToken` waits for `/me` leaves `me` set without a token until the next
  sign-in; no page reads it alone.

## 5. Theorems

All of these hold for every value of the constants under the named `ASSUME`s of the
modules (which TLC evaluates in each run), and tlapm checks them to the last leaf.

**Addresses** (`Z21ProgrammingProofs`).  `AddressRoundTrip`: for every valid address and every
CV table, the write batch makes the decoder answer to exactly that address.
`FormSwitchIsAtomic`: when the batch changes the form of the address, any proper prefix
leaves the decoder on its old address, because CV 29 is written last.  Both are
arithmetic on two bytes and one bit, by cases on the form.

**UDP client** (`Z21UdpProofs`).  `UdpTypeCorrect`, with no assumption on the faults.  `WireInvariant` and `ClientIsRegister` assume `Calm`: no answer is late,
no future is dropped while it waits, no ICMP error is pending.  `WireInv` is the
inductive invariant itself: a datagram under way that somebody waits for is the last one
sent, belongs to the current call and has not been executed; an answer in the buffer is
the only datagram there is and answers the current call, and the decoder holds the value it
carries.  Without it an answer could not be related to a call, since it only names a CV.
`ClientIsRegister` maps each step to a step of `CvRegister` or a stutter: the effect
of a call is the station's execution, the return is the acceptance of its answer.
`AcceptedWasHeld` needs no calm: a value in an answer has been held by the CV it names
(`AnswerWasHeld`), whoever it was meant for, because only the station writes answers.

**Backend** (`Z21ProgrammingProofs`).  `TypeCorrect` and `MutualExclusion` need each
other: a request that awaits must have a command (`Work`), which must be the one in `call`
(`SingleFlight`), or what it writes into its table would not be a byte (`Bytes`).
`BackendUsesClient` shows that every step of the backend is a step of the client or leaves
it alone; `BackendWire` and `BackendIsRegister` follow: under `Calm` the composition
implements the register, too, for any number of requests.  `BackendAcceptsHeld` takes
`AnswerWasHeld` over without `Calm`.

What an answer of the backend says is proved under `Calm` from one invariant, `Batched`.  Its
part `OnBatch` says of a request in which batch it is, that what is left of it is a suffix of what
the code put together, and what the values read so far have made of it; `AckInv` relates the
answer under way to the decoder; `DoneInForce` says that the part of the batch that is done
is in force.  Only the holder of the lock has commands under way, so nobody
else changes the decoder while a batch runs.  `SnapshotIsRead`,
`AddressIsPut`, `WriteIsAcknowledged` and `RailcomFirst` follow from it, each at the step that
ends a request or sends a command.

`NoForeign` says where a decoder may be found after requests that failed.  Its invariant adds
`Homed` to `Batched`: the decoder is proper (long form exactly for a long address) and on an address
it had or was asked for, unless a request on the programming track is between the bytes of a long
one; and `Tame`: a command nobody awaits any more moves no decoder.  The main track needs no
exception: `addr_set` with POM programs at the address it is given, so each of its writes repeats
what the decoder that hears it holds already (`PomWriteLeavesAddress`).  A short address is safe on both tracks
because its first write already decides it; `DoneInForce` shows that it has arrived when CV 29 goes out.
Three hypotheses are needed and met by the run: `Calm`; the decoders start proper (`ProperDecoders`);
and the batches of `write_cvs`, which name any CV they like, leave a proper decoder its address
(`CvsLeaveAddress`).

`NoBitInvented` needs neither calm nor any other hypothesis.  It follows CV 29 around the loop: what
the decoder has held (`HeldBits`) is what an answer carries (`AcceptsHeld`), what a request keeps
until it writes, and what its commands bring (`RequestBits`), on the wire too (`WireBits`).  Only a
request whose CV 29 was never answered would break it, and that one has ended.  It does not say that
the bits are the latest: see the lost update in section 4.

**Reload** (`ConfigReloadProofs`).  `TypeCorrect`; `EditsArrive`: `NoLostEdit` is inductive
with types, because it says where an edit may be between kernel and publication, step by
step; `PublishesWhatWasWritten`, strengthened by `Written` (what has been read has been in the file).

**Pulses** (`FunctionPulseProofs`).  `PulsesExclude`, `PulsesLast`: exclusion
per function follows from `Sems`: no two keys share a semaphore, a request's semaphore is its
key's, and whoever holds a permit has put it in `taken`.  `RegistryKeepsToLimit`
needs the cardinality of the registered keys to grow by one at most.
`HandlerIsSlot`: the handler implements `PulseSlot`.  The holders of a function are read off the
requests, not off the semaphores, so "busy" needs that a permit which is out is held (`Taken`),
by a request for the same function (`Sems`), and "full" that the limit is never passed.

**Programming over the air** (`WirelessProofs`).  `SuccessesAreTrue` rests on `JobInv`: jobs begin in
turn (`InTurn`), so that nothing done is overwritten by a job asked for earlier, and no frame on
its way says more than the programmer did (`FramesAreTrue`).  All steps of the three flows are
steps of `WirelessJob` for a known key (`KeysKnown`) or leave the jobs alone.
`JobsAreRegisters`: `WirelessJob` implements `HandsetRegister`, where a call takes effect when its job
ends and is answered when the page's promise settles; a failed call may still take effect, but not
over a later one (`InTurn`, and `WrittenEnded`: whatever wrote last has ended).  `PagesUseRegisters`
says the same of the composition with the pages, whose steps are steps of `WirelessJob`.
`FailedCodesAreClosed`: `FailedCodesAreCancelled` is inductive with the types of jobs and pairings.
Every step but three opens no pairing, fails no job and forgets no cancellation
(`CodesKept`); the three are the one that hands out a code with its job, the end of a job, and
the end of a cancellation.  Both need none of the bounds.

`FredTypeCorrect`, `EveryOrderIsOwn` and `DoneMeansDone` rest on two invariants.  `TypeInv` adds
to the types that a code names a pairing of the order's participant (`CodesKnown`), that a handset
is known by a pairing's number (`HandsetsKnown`), and which device makes which calls
(`DeviceKnown`).  `FlowInv` speaks of operators on whom no answer intrudes (`~late`): one chain at
a time programs, and only behind the page that shows it (`ChainInv`); what is ordered there is for
the participant and the handset shown, and nobody withdraws its code (`ShownInv`); a handset is
unpaired by its own number (`UnpairInv`), for a call without one would close any; and the list on
the roster pages is that of the participant shown (`OwnInv`).  `DoneMeansDone` adds
`SuccessIsTrue`, and that nothing is written by a job after the last.  Steps that leave calls,
BigFred and jobs alone (`Walk`) are kept apart from the `Others`.  `FredTypeCorrect` assumes
`HandsetOrders \subseteq Orders`: the constant of `WirelessJob` must admit the pages' orders, as in
every run.

**Session** (`SessionProofs`).  `SessionTypeCorrect`; `AccountIsAsConfirmed`, from what the call in
flight has in common with the page that made it (`CallMatchesPage`), because the login may be
edited during a check, but nothing during a creation; `NobodyIsLoggedOutEarly`, from the sum
of `timer` and `quiet`, which never is less than the timeout configured.

**Pairing pages** (`DrivePairingProofs`).  `DriveTypeCorrect`, `PagesNeverBlank`, `CodeIsOpen`,
`PairedWasJoined` and `OnlyShownIsOpen` are read off one invariant, with no hypothesis.  `VisitInv`
says which pages a device has, what each of them needs, and that the one call in flight was made for
what is shown; `HandsetInv` that BigFred knows the pairing of every handset that paired
during the visit; `Screen` what the page may conclude from both.  `VisitInv` is needed
because a code that arrives is only right if nobody changed participant or station meanwhile.

**Locomotive page** (`ConfigureLocoProofs`).  `LocoTypeCorrect` holds for any operator: the types, and
that whatever the page refers to exists.  `OffersOwnVehicles`, `ProgrammedWasSaved`, `AddMakesOne`,
`PulseIsForTheTrack` and the action property `FunctionsStay` assume `~Hurried` and come from `Patient`,
whose core is `CallsInv`: a call in flight was made for what is still shown.  The rest says what
"programmed" stands for, whose the listed vehicles are, how many an Add made, and that "Basic" is
suggested only to a vehicle without a list.  `SuggestedIsFree` is about
`suggestFreeAddress` alone: the first free address of the pool, for every pool and list.

**Only model-checked**: the liveness properties (`EveryRequestEnds`, `Converges`, `BusyEnds`,
`PairedIsNoticed`, `ProgrammingEnds`, `SignInEnds`), because fairness and ENABLED are beyond the
prover.  Every invariant and every action property of the passing runs is stated by a theorem.

## 6. Not modelled

* The dcc-bus backend and the frames of a pulse: their state is in the crate
  `bigfred-client`, which is not in the repository.
* Proxy, PIN check, QR codes, handset endpoints: functions of a request and of the
  configuration.
* Seeding of default files, CLI, routing, static assets, texts, help.
* `link_status` and `probe` of the bridge and its endpoint that cancels a job: no page of a flow
  calls them, and they keep no state.  Another client's cancellation is one of the ways a
  job fails.
* A second visit to the wireless pages: leaving them is for good.  In the code the chain that an
  earlier visit left running may still call `cancelPairing`, which names only the participant and the
  station (`WirelessProgramFlow.tsx:233`, `240`), and could close the code of the later visit.
* A pairing whose start took effect and whose answer was lost: nobody has seen its code, and the
  next start in its slot closes it.
* The poll that `setPairing` starts on the wireless pages (`useDriveSession.ts:307`): it sets only
  what no page of that flow reads.
* The order in which the wireless programmer works.  That it runs one job at a time, in the order of
  the requests, is an assumption; the code shows only that it may refuse one as "busy"
  (`wireless_api.rs:189`).  An older job that writes after a newer one is excluded by it.
* A datagram delivered twice, on the way to the Z21 or back.
* The layouts of the login page (there is one or there is none), the diagnostic page, the home
  page's other tiles ("home" stands for the pages behind them, which have modules of
  their own).

Abstractions: five CVs (1, 17, 18, 28, 29) stand for 1024; values are real bytes,
so that the wrap of the low byte of a long address shows.  The bearer of a request and
its validation are left out.  Metadata of vehicles is left out, a function list is only
known to be, or not to be, one that somebody chose or made.  A locomotive of the pairing pages
is known by its owner, and page and BigFred agree on when a code expires.  A wireless order is
known by its participant, the owner of its PIN, the number of its pairing and its vehicles;
the Wi-Fi is configured, and a guest's DCC address is one that the page accepts or none.  Logins and
PINs are members of small sets, or None for a text the page does not accept.

## 7. Plan

What is left, in this order:

1. An operator who does not wait, as a constant of `DrivePairing` as it is of `ConfigureLoco`
   (`Hurried`), with the properties that survive it.
