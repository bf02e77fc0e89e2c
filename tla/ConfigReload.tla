---------------------------- MODULE ConfigReload ----------------------------
(***************************************************************************)
(* The hot reload of `bigfred-wizard.json` and the programming backend     *)
(* that lives on it: the inotify thread of src/src/config_watch.rs, the    *)
(* reloader task of src/src/main.rs, the two published snapshots `cfg` and *)
(* `bf_cfg`, and the requests that pick a backend from one snapshot and    *)
(* connect the cached Z21 client from a later one.                         *)
(*                                                                         *)
(* An edit of the file reaches the snapshots in steps of four actors: the  *)
(* kernel queues an event, the watch thread debounces it and signals, the  *)
(* reloader reads the file, then publishes the two snapshots one after the *)
(* other and syncs the OAuth drop-in.  The file may change between any two *)
(* of these.                                                               *)
(*                                                                         *)
(* `missed`, `had` and `wanted` are auxiliary: an edit was made before the *)
(* watch was active, what the file has held, and the endpoint configured   *)
(* when a request started.                                                 *)
(***************************************************************************)
EXTENDS Naturals

CONSTANTS Configs,        \* the configurations the file may hold
          DefaultConfig,  \* Config::default(), for a missing file
          Endpoints,      \* addresses of Z21 stations
          NoEndpoint,     \* locoProgramming.z21 is not set
          Requests,       \* programming requests
          NoRequest,
          MaxEdits        \* bound: how often the file is written

(* What of a configuration these parts look at; `id` stands for the rest. *)
Config == [id : Nat, enabled : BOOLEAN, direct : BOOLEAN, z21 : Endpoints \cup {NoEndpoint}]

ASSUME ReloadAssumption ==
    /\ Configs \subseteq Config
    /\ DefaultConfig \in Configs
    /\ NoEndpoint \notin Endpoints
    /\ NoRequest \notin Requests
    /\ MaxEdits \in Nat

VARIABLES file,     \* what the path holds
          edits,    \* how often it has been written
          watching, \* the inotify watch is active
          events,   \* relevant events the watch loop has not read
          pending,  \* the debounce: none, started, or 300 ms old
          signals,  \* reload signals the reloader has not taken
          loader,   \* where the reloader task stands
          loaded,   \* the configuration it has parsed
          cfg,      \* AppState.cfg
          bf,       \* AppState.bf_cfg, as the configuration it is a view of
          dropin,   \* the configuration the OAuth drop-in file was last synced with
          missed, had,
          client,   \* the endpoint of the cached Z21Client
          holder,   \* the request that holds `inner`
          pc, wanted, resp

watchVars == <<watching, events, pending>>
loadVars == <<loader, loaded, cfg, bf, dropin>>
fileVars == <<file, edits, had>>
requestVars == <<client, holder, pc, wanted, resp>>
vars == <<fileVars, watchVars, signals, loadVars, missed, requestVars>>

Valid(c) == [kind |-> "valid", config |-> c]
Invalid == [kind |-> "invalid", config |-> DefaultConfig]
Missing == [kind |-> "missing", config |-> DefaultConfig]

Contents == { Valid(c) : c \in Configs } \cup {Invalid, Missing}

(* Config::load: a missing file is not an error, an unparsable one is. *)
Loadable(f) == f.kind # "invalid"

TypeOK ==
    /\ file \in Contents
    /\ edits \in 0..MaxEdits
    /\ watching \in BOOLEAN /\ missed \in BOOLEAN
    /\ events \in Nat /\ signals \in Nat
    /\ pending \in {"none", "young", "ripe"}
    /\ loader \in {"idle", "loaded", "half", "sync"}
    /\ loaded \in Configs /\ cfg \in Configs /\ bf \in Configs /\ dropin \in Configs
    /\ had \subseteq Configs
    /\ client \in Endpoints \cup {NoEndpoint}
    /\ holder \in Requests \cup {NoRequest}
    /\ pc \in [Requests -> {"idle", "selected", "using", "done"}]
    /\ wanted \in [Requests -> Endpoints \cup {NoEndpoint}]
    /\ resp \in [Requests -> {"none", "ok", "disabled", "unavailable", "invalid", "dccbus"}]

(* main: ensure_config_files has read the file and ensure_dropin synced the *)
(* drop-in, or failed and left an old one; the watch is not yet active.    *)
Init ==
    /\ \E c \in Configs :
         /\ file = Valid(c)
         /\ loaded = c /\ cfg = c /\ bf = c
         /\ had = {c}
    /\ dropin \in Configs
    /\ edits = 0
    /\ watching = FALSE /\ missed = FALSE
    /\ events = 0 /\ signals = 0
    /\ pending = "none"
    /\ loader = "idle"
    /\ client = NoEndpoint
    /\ holder = NoRequest
    /\ pc = [r \in Requests |-> "idle"]
    /\ wanted = [r \in Requests |-> NoEndpoint]
    /\ resp = [r \in Requests |-> "none"]

-----------------------------------------------------------------------------
(* The file and its watcher *)

(* Somebody writes, breaks or removes the file. *)
Edit ==
    /\ edits < MaxEdits
    /\ edits' = edits + 1
    /\ \E f \in Contents :
         /\ f # file
         /\ file' = f
         /\ had' = IF Loadable(f) THEN had \cup {f.config} ELSE had
    /\ events' = IF watching THEN events + 1 ELSE events
    /\ missed' = (missed \/ ~watching)
    /\ UNCHANGED <<watching, pending, signals, loadVars, requestVars>>

(* watch_loop up to `watcher.watch` *)
StartWatch ==
    /\ ~watching
    /\ watching' = TRUE
    /\ UNCHANGED <<fileVars, events, pending, signals, loadVars, missed, requestVars>>

(* Faulty variant: a timeout of the queue is taken for an event. *)
ReadEventOrNone ==
    /\ events' = events - 1
    /\ pending' = "young"
    /\ UNCHANGED <<fileVars, watching, signals, loadVars, missed, requestVars>>

(* An event (re)starts the debounce. *)
ReadEvent ==
    /\ events > 0
    /\ events' = events - 1
    /\ pending' = "young"
    /\ UNCHANGED <<fileVars, watching, signals, loadVars, missed, requestVars>>

(* 300 ms pass. *)
Ripen ==
    /\ pending = "young"
    /\ pending' = "ripe"
    /\ UNCHANGED <<fileVars, watching, events, signals, loadVars, missed, requestVars>>

(* recv_timeout finds no event: the reload is signalled. *)
Signal ==
    /\ pending = "ripe"
    /\ events = 0
    /\ pending' = "none"
    /\ signals' = signals + 1
    /\ UNCHANGED <<fileVars, watching, events, loadVars, missed, requestVars>>

-----------------------------------------------------------------------------
(* The reloader task *)

(* Faulty variant: an unparsable file is replaced by the defaults. *)
LoadOrDefault ==
    /\ loader = "idle"
    /\ signals > 0
    /\ signals' = signals - 1
    /\ loaded' = file.config
    /\ loader' = "loaded"
    /\ missed' = FALSE
    /\ UNCHANGED <<fileVars, watchVars, cfg, bf, dropin, requestVars>>

(* rx.recv and Config::load; "keeping previous config" when it fails *)
Load ==
    /\ loader = "idle"
    /\ signals > 0
    /\ signals' = signals - 1
    /\ IF Loadable(file)
       THEN loaded' = file.config /\ loader' = "loaded"
       ELSE UNCHANGED <<loaded, loader>>
    /\ missed' = FALSE
    /\ UNCHANGED <<fileVars, watchVars, cfg, bf, dropin, requestVars>>

(* Faulty variant: bf_cfg is forgotten. *)
PublishCfgOnly ==
    /\ loader = "loaded"
    /\ cfg' = loaded
    /\ loader' = "idle"
    /\ UNCHANGED <<fileVars, watchVars, signals, loaded, bf, dropin, missed, requestVars>>

(* `*guard = new_cfg.clone(); drop(guard)` *)
PublishCfg ==
    /\ loader = "loaded"
    /\ cfg' = loaded
    /\ loader' = "half"
    /\ UNCHANGED <<fileVars, watchVars, signals, loaded, bf, dropin, missed, requestVars>>

(* Faulty variant: the signals that came in meanwhile are taken for done. *)
PublishBfDrained ==
    /\ loader = "half"
    /\ bf' = loaded
    /\ loader' = "sync"
    /\ signals' = 0
    /\ UNCHANGED <<fileVars, watchVars, loaded, cfg, dropin, missed, requestVars>>

(* `*bf_cfg.write().await = view` *)
PublishBf ==
    /\ loader = "half"
    /\ bf' = loaded
    /\ loader' = "sync"
    /\ UNCHANGED <<fileVars, watchVars, signals, loaded, cfg, dropin, missed, requestVars>>

(* ensure_dropin, which may fail: that is logged, and nothing is retried. *)
SyncDropin ==
    /\ loader = "sync"
    /\ dropin' \in {loaded, dropin}
    /\ loader' = "idle"
    /\ UNCHANGED <<fileVars, watchVars, signals, loaded, cfg, bf, missed, requestVars>>

-----------------------------------------------------------------------------
(* Programming requests *)

Answer(r, answer) ==
    /\ pc' = [pc EXCEPT ![r] = "done"]
    /\ resp' = [resp EXCEPT ![r] = answer]

(* start_programming on one snapshot: `enabled`, then Hub::select *)
StartProgramming(r) ==
    /\ pc[r] = "idle"
    /\ wanted' = [wanted EXCEPT ![r] = cfg.z21]
    /\ \/ ~cfg.enabled /\ Answer(r, "disabled")
       \/ cfg.enabled /\ ~cfg.direct /\ Answer(r, "dccbus")
       \/ cfg.enabled /\ cfg.direct /\ pc' = [pc EXCEPT ![r] = "selected"] /\ UNCHANGED resp
    /\ UNCHANGED <<fileVars, watchVars, signals, loadVars, missed, client, holder>>

(* ensure_inner: the client is made once, from the snapshot published now. *)
(* Until there is one, no endpoint may be configured, its address may not  *)
(* parse, or no socket be had: the request ends and nothing is cached.     *)
EnsureInner(r) ==
    /\ pc[r] = "selected"
    /\ holder = NoRequest
    /\ \/ /\ client' = IF client = NoEndpoint THEN cfg.z21 ELSE client
          /\ client' # NoEndpoint
          /\ holder' = r
          /\ pc' = [pc EXCEPT ![r] = "using"]
          /\ UNCHANGED resp
       \/ /\ client = NoEndpoint
          /\ \/ Answer(r, "unavailable")
             \/ cfg.z21 # NoEndpoint /\ Answer(r, "invalid")
          /\ UNCHANGED <<client, holder>>
    /\ UNCHANGED <<fileVars, watchVars, signals, loadVars, missed, wanted>>

(* The CV traffic of the request, and the guard dropped. *)
Program(r) ==
    /\ pc[r] = "using"
    /\ Answer(r, "ok")
    /\ holder' = NoRequest
    /\ UNCHANGED <<fileVars, watchVars, signals, loadVars, missed, client, wanted>>

Watcher == StartWatch \/ ReadEvent \/ Ripen \/ Signal
Reloader == Load \/ PublishCfg \/ PublishBf \/ SyncDropin

Next ==
    \/ Edit
    \/ StartWatch \/ ReadEvent \/ Ripen \/ Signal
    \/ Load \/ PublishCfg \/ PublishBf \/ SyncDropin
    \/ \E r \in Requests : StartProgramming(r) \/ EnsureInner(r) \/ Program(r)

Spec == Init /\ [][Next]_vars

(* The watch thread and the reloader task run when they can. *)
FairSpec == Spec /\ WF_vars(Watcher) /\ WF_vars(Reloader)

-----------------------------------------------------------------------------
(* Properties *)

(* Somewhere between the kernel and the reloader an edit is under way. *)
UnderWay == events > 0 \/ pending # "none" \/ signals > 0

(* No edit is lost between the four actors: when nothing is under way, the *)
(* reloader has published what the file holds, or is about to (main.rs's   *)
(* reload loop; the debounce of watch_loop only delays).  The start-up     *)
(* window, in which an edit raises no event, is what `missed` excludes.    *)
NoLostEdit ==
    Loadable(file) /\ ~UnderWay /\ ~missed =>
      \/ loader \in {"idle", "sync"} /\ cfg = file.config /\ bf = file.config
      \/ loader = "loaded" /\ loaded = file.config
      \/ loader = "half" /\ loaded = file.config /\ cfg = file.config

(* What is published is something the file has held: an unparsable file    *)
(* keeps the previous configuration, and defaults appear only for a        *)
(* missing file ("Invalid JSON keeps the previous config").                *)
OnlyWhatWasWritten == cfg \in had /\ bf \in had

(* Liveness: when the file stays as it is, both snapshots come to hold it. *)
Converges ==
    \A c \in Configs :
      <>[](file = Valid(c) /\ ~missed) => <>[](cfg = c /\ bf = c)

(* The CV traffic of a request goes to the Z21 that was configured when    *)
(* the request started, or when it ended (ARCHITECTURE.md: "in `direct`    *)
(* mode CV traffic goes to the configured Z21").                           *)
TrafficFollowsConfig ==
    [][\A r \in Requests : pc[r] = "using" /\ pc'[r] = "done"
         => client \in {wanted[r], cfg.z21}]_vars
=============================================================================
