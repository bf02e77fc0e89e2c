------------------------- MODULE ConfigReloadProofs -------------------------
(***************************************************************************)
(* Proofs about ConfigReload for every set of configurations, endpoints    *)
(* and requests and any number of edits.                                   *)
(***************************************************************************)
EXTENDS ConfigReload, TLAPS

(* What Load may pick up has been in the file, and what it picked up too. *)
Written ==
    /\ OnlyWhatWasWritten
    /\ loaded \in had
    /\ Loadable(file) => file.config \in had

LEMMA ContentsType ==
    ASSUME NEW f \in Contents
    PROVE  /\ f.config \in Configs
           /\ f.kind \in {"valid", "invalid", "missing"}
  BY ReloadAssumption DEF Contents, Valid, Invalid, Missing

LEMMA InitType == Init => TypeOK
<1> SUFFICES ASSUME Init PROVE TypeOK
  OBVIOUS
<1>1. PICK c \in Configs : /\ file = Valid(c)
                           /\ loaded = c /\ cfg = c /\ bf = c
                           /\ had = {c}
  BY DEF Init
<1>2. file \in Contents /\ had \subseteq Configs
  BY <1>1 DEF Contents
<1>3. 0 \in 0..MaxEdits
  BY ReloadAssumption
<1>4. QED
  BY <1>1, <1>2, <1>3 DEF Init, TypeOK

LEMMA EditType ==
    ASSUME TypeOK, Edit
    PROVE  TypeOK'
<1>1. PICK f \in Contents : /\ file' = f
                            /\ had' = IF Loadable(f) THEN had \cup {f.config} ELSE had
  BY DEF Edit
<1>2. had' \subseteq Configs
  BY <1>1, ContentsType DEF TypeOK
<1>3. edits' \in 0..MaxEdits
  BY ReloadAssumption DEF TypeOK, Edit
<1>4. events' \in Nat /\ missed' \in BOOLEAN
  BY DEF TypeOK, Edit
<1>5. QED
  BY <1>1, <1>2, <1>3, <1>4 DEF TypeOK, Edit, loadVars, requestVars

LEMMA ReloadType ==
    ASSUME TypeOK, Watcher \/ Reloader
    PROVE  TypeOK'
<1>1. CASE Watcher
  <2>1. events' \in Nat /\ signals' \in Nat
    BY <1>1 DEF Watcher, StartWatch, ReadEvent, Ripen, Signal, TypeOK
  <2>2. watching' \in BOOLEAN /\ pending' \in {"none", "young", "ripe"}
    BY <1>1 DEF Watcher, StartWatch, ReadEvent, Ripen, Signal, TypeOK
  <2>3. UNCHANGED <<fileVars, loadVars, missed, requestVars>>
    BY <1>1 DEF Watcher, StartWatch, ReadEvent, Ripen, Signal
  <2>4. QED
    BY <2>1, <2>2, <2>3 DEF TypeOK, fileVars, loadVars, requestVars
<1>2. CASE Load
  <2>1. loaded' \in Configs /\ loader' \in {"idle", "loaded", "half", "sync"}
    BY <1>2, ContentsType DEF Load, TypeOK
  <2>2. signals' \in Nat
    BY <1>2 DEF Load, TypeOK
  <2>3. QED
    BY <1>2, <2>1, <2>2 DEF Load, TypeOK, fileVars, watchVars, requestVars
<1>3. CASE PublishCfg \/ PublishBf \/ SyncDropin
  BY <1>3 DEF PublishCfg, PublishBf, SyncDropin, TypeOK, fileVars, watchVars, requestVars
<1>4. QED
  BY <1>1, <1>2, <1>3 DEF Reloader

LEMMA RequestType ==
    ASSUME TypeOK, NEW r \in Requests, StartProgramming(r) \/ EnsureInner(r) \/ Program(r)
    PROVE  TypeOK'
<1>1. cfg.z21 \in Endpoints \cup {NoEndpoint}
  <2>1. cfg \in Config
    BY ReloadAssumption DEF TypeOK
  <2>2. QED
    BY <2>1 DEF Config
<1>2. CASE StartProgramming(r)
  BY <1>1, <1>2 DEF StartProgramming, Answer, TypeOK, fileVars, watchVars, loadVars
<1>3. CASE EnsureInner(r)
  BY <1>1, <1>3 DEF EnsureInner, Answer, TypeOK, fileVars, watchVars, loadVars
<1>4. CASE Program(r)
  BY <1>4 DEF Program, Answer, TypeOK, fileVars, watchVars, loadVars
<1>5. QED
  BY <1>2, <1>3, <1>4

(* Every reachable state is well formed; the endpoint in use is one that   *)
(* can be configured.                                                      *)
THEOREM TypeCorrect == Spec => []TypeOK
<1>1. Init => TypeOK
  BY InitType
<1>2. TypeOK /\ [Next]_vars => TypeOK'
  <2> SUFFICES ASSUME TypeOK, [Next]_vars PROVE TypeOK'
    OBVIOUS
  <2>1. CASE Edit
    BY <2>1, EditType
  <2>2. CASE Watcher \/ Reloader
    BY <2>2, ReloadType
  <2>3. ASSUME NEW r \in Requests, StartProgramming(r) \/ EnsureInner(r) \/ Program(r)
        PROVE  TypeOK'
    BY <2>3, RequestType
  <2>4. CASE UNCHANGED vars
    BY <2>4 DEF TypeOK, vars, fileVars, watchVars, loadVars, requestVars
  <2>5. QED
    BY <2>1, <2>2, <2>3, <2>4 DEF Next, Watcher, Reloader
<1>3. QED
  BY <1>1, <1>2, PTL DEF Spec

(* No edit is lost on its way through the four actors, however edits,      *)
(* events, debounce, signals and the two publications interleave.          *)
THEOREM EditsArrive == Spec => []NoLostEdit
<1>1. Init => NoLostEdit
  BY DEF Init, NoLostEdit, Valid
<1>2. TypeOK /\ NoLostEdit /\ [Next]_vars => NoLostEdit'
  <2> SUFFICES ASSUME TypeOK, NoLostEdit, [Next]_vars PROVE NoLostEdit'
    OBVIOUS
  <2>1. CASE Edit
    <3>1. UnderWay' \/ missed'
      <4>1. CASE watching
        <5>1. events' = events + 1 /\ events \in Nat
          BY <2>1, <4>1 DEF Edit, TypeOK
        <5>2. events' > 0
          BY <5>1
        <5>3. QED
          BY <5>2 DEF UnderWay
      <4>2. CASE ~watching
        BY <2>1, <4>2 DEF Edit
      <4>3. QED
        BY <4>1, <4>2
    <3>2. QED
      BY <3>1 DEF NoLostEdit
  <2>2. CASE StartWatch
    BY <2>2 DEF StartWatch, NoLostEdit, UnderWay, Loadable, fileVars, loadVars
  <2>3. CASE ReadEvent \/ Ripen
    BY <2>3 DEF ReadEvent, Ripen, NoLostEdit, UnderWay
  <2>4. CASE Signal
    <3>1. UnderWay'
      BY <2>4 DEF Signal, TypeOK, UnderWay
    <3>2. QED
      BY <3>1 DEF NoLostEdit
  <2>5. CASE Load
    BY <2>5 DEF Load, NoLostEdit, Loadable, fileVars
  <2>6. CASE PublishCfg \/ PublishBf \/ SyncDropin
    <3>1. UNCHANGED <<file, events, pending, signals, missed, loaded>>
      BY <2>6 DEF PublishCfg, PublishBf, SyncDropin, fileVars, watchVars
    <3>2. CASE PublishCfg
      BY <3>1, <3>2 DEF PublishCfg, NoLostEdit, UnderWay, Loadable
    <3>3. CASE PublishBf
      BY <3>1, <3>3 DEF PublishBf, NoLostEdit, UnderWay, Loadable
    <3>4. CASE SyncDropin
      BY <3>1, <3>4 DEF SyncDropin, NoLostEdit, UnderWay, Loadable
    <3>5. QED
      BY <2>6, <3>2, <3>3, <3>4
  <2>7. ASSUME NEW r \in Requests, StartProgramming(r) \/ EnsureInner(r) \/ Program(r)
        PROVE  NoLostEdit'
    BY <2>7 DEF StartProgramming, EnsureInner, Program, NoLostEdit, UnderWay, Loadable,
                fileVars, watchVars, loadVars
  <2>8. CASE UNCHANGED vars
    BY <2>8 DEF NoLostEdit, UnderWay, Loadable, vars, fileVars, watchVars, loadVars
  <2>9. QED
    BY <2>1, <2>2, <2>3, <2>4, <2>5, <2>6, <2>7, <2>8 DEF Next
<1>3. QED
  BY <1>1, <1>2, TypeCorrect, PTL DEF Spec

(* An unparsable file never reaches the snapshots.                         *)
THEOREM PublishesWhatWasWritten == Spec => []OnlyWhatWasWritten
<1>1. Init => Written
  BY DEF Init, Written, OnlyWhatWasWritten, Valid
<1>2. Written /\ [Next]_vars => Written'
  <2> SUFFICES ASSUME Written, [Next]_vars PROVE Written'
    OBVIOUS
  <2>1. CASE Edit
    BY <2>1 DEF Edit, Written, OnlyWhatWasWritten, Loadable, loadVars
  <2>2. CASE StartWatch \/ ReadEvent \/ Ripen \/ Signal
    BY <2>2 DEF StartWatch, ReadEvent, Ripen, Signal, Written, OnlyWhatWasWritten, Loadable,
                fileVars, loadVars
  <2>3. CASE Load \/ PublishCfg \/ PublishBf \/ SyncDropin
    BY <2>3 DEF Load, PublishCfg, PublishBf, SyncDropin, Written, OnlyWhatWasWritten, Loadable, fileVars
  <2>4. ASSUME NEW r \in Requests, StartProgramming(r) \/ EnsureInner(r) \/ Program(r)
        PROVE  Written'
    BY <2>4 DEF StartProgramming, EnsureInner, Program, Written, OnlyWhatWasWritten, Loadable,
                fileVars, loadVars
  <2>5. CASE UNCHANGED vars
    BY <2>5 DEF Written, OnlyWhatWasWritten, Loadable, vars, fileVars, loadVars
  <2>6. QED
    BY <2>1, <2>2, <2>3, <2>4, <2>5 DEF Next
<1>3. Written => OnlyWhatWasWritten
  BY DEF Written
<1>4. QED
  BY <1>1, <1>2, <1>3, PTL DEF Spec
=============================================================================
