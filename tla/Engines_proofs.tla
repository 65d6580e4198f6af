--------------------------- MODULE Engines_proofs ---------------------------
(***************************************************************************)
(* What holds of the model's setup and of the engines for every number of  *)
(* windows, threads, providers, edits and launches.                        *)
(***************************************************************************)
EXTENDS Engines, TLAPS

Cloud == [provider : Provider \union {NoProvider}, key : Key \union {"key"}]
Gen(n) == [pc : {"idle", "lock", "load", "run", "failed"}, local : 0 .. n, cloud : Cloud]
ViewState == [open : BOOLEAN, ready : BOOLEAN, checking : BOOLEAN, error : BOOLEAN]
CallState == [pc : {"none", "look", "request", "stream", "link", "ok", "error"},
              at : 0 .. Chunks]

\* The part of Next that the setup takes, without the engines.
SetupStep ==
    \E v \in View :
        \/ OpenWindow(v) \/ CheckAndPrepare(v) \/ EnsureLocalModel(v)
        \/ CreateFile(v) \/ WriteChunk(v) \/ FinishStream(v)
        \/ LinkModel(v) \/ LinkFails(v) \/ DownloadFails(v) \/ Prepared(v)

\* What the latch of a process and the calls that succeeded say of the model's root.
RootedInv ==
    /\ attempted => rooted
    /\ \A v \in View : view[v].ready => rooted
    /\ \A v \in View : call[v].pc = "ok" => rooted

\* The engine is built under the lock, when there is none.
LockInv ==
    /\ engine = loads /\ loads <= 1
    /\ \A c \in Caller : gen[c].local \in {0, engine}
    /\ \A c \in Caller : gen[c].pc = "load" => lock = c /\ engine = 0

-----------------------------------------------------------------------------
(* The setup *)

\* What a finished check leaves of a window is a window's state.
LEMMA PreparedView ==
    ASSUME NEW w \in ViewState, NEW r \in BOOLEAN, NEW e \in BOOLEAN
    PROVE  [w EXCEPT !.ready = r, !.error = e, !.checking = FALSE] \in ViewState
BY ZenonT(90) DEF ViewState

LEMMA SetupTypeStep ==
    ASSUME SetupTypeOK, SetupStep
    PROVE  SetupTypeOK'
<1> USE ChunksAssumption, DownloadsAssumption DEF SetupTypeOK
<1>1. SUFFICES ASSUME NEW v \in View,
                      \/ OpenWindow(v) \/ CheckAndPrepare(v) \/ EnsureLocalModel(v)
                      \/ CreateFile(v) \/ WriteChunk(v) \/ FinishStream(v)
                      \/ LinkModel(v) \/ LinkFails(v) \/ DownloadFails(v) \/ Prepared(v)
               PROVE  SetupTypeOK'
  BY DEF SetupStep
<1>2. CASE OpenWindow(v)
  BY <1>2 DEF OpenWindow, Closed, disk
<1>3. CASE CheckAndPrepare(v)
  <2>1. CASE attempted
    <3>1. view' = [view EXCEPT ![v].ready = TRUE] /\ UNCHANGED call
      BY <1>3, <2>1, Zenon DEF CheckAndPrepare
    <3>2. view' \in [View -> ViewState]
      BY <3>1 DEF ViewState
    <3>3. UNCHANGED <<file, linked, rooted, attempted, downloads>>
      BY <1>3 DEF CheckAndPrepare, disk
    <3>4. QED
      BY <3>1, <3>2, <3>3 DEF ViewState
  <2>2. CASE ~attempted
    <3> DEFINE begun == [view[v] EXCEPT !.checking = TRUE, !.error = FALSE]
               refused == [view[v] EXCEPT !.error = TRUE]
    <3>1. view' = [view EXCEPT ![v] = begun] \/ view' = [view EXCEPT ![v] = refused]
      BY <1>3, <2>2, Zenon DEF CheckAndPrepare
    <3>2. begun \in ViewState /\ refused \in ViewState
      BY DEF ViewState
    <3> HIDE DEF begun, refused
    <3>3. view' \in [View -> ViewState]
      BY <3>1, <3>2 DEF ViewState
    <3>4. call' \in [View -> CallState]
      BY <1>3, <2>2 DEF CheckAndPrepare, CallState
    <3>5. UNCHANGED <<file, linked, rooted, attempted, downloads>>
      BY <1>3 DEF CheckAndPrepare, disk
    <3>6. QED
      BY <3>3, <3>4, <3>5 DEF ViewState, CallState
  <2>3. QED
    BY <2>1, <2>2
<1>4. CASE EnsureLocalModel(v)
  BY <1>4 DEF EnsureLocalModel, FileExists, disk
<1>5. CASE CreateFile(v)
  BY <1>5 DEF CreateFile
<1>6. CASE WriteChunk(v)
  <2>1. call[v].at \in 0 .. Chunks /\ call[v].at + 1 \in 1 .. Chunks
    BY <1>6 DEF WriteChunk
  <2>2. call' \in [View -> CallState] /\ call'[v].at = call[v].at + 1
    BY <1>6, <2>1 DEF WriteChunk, CallState
  <2>3. file' \subseteq 1 .. Chunks
    BY <1>6, <2>1, <2>2 DEF WriteChunk
  <2>4. QED
    BY <1>6, <2>2, <2>3 DEF WriteChunk, CallState
<1>7. CASE FinishStream(v)
  BY <1>7 DEF FinishStream, FileExists, disk
<1>8. CASE LinkModel(v)
  BY <1>8 DEF LinkModel
<1>9. CASE LinkFails(v)
  BY <1>9 DEF LinkFails
<1>10. CASE DownloadFails(v)
  BY <1>10 DEF DownloadFails, disk
<1>11. CASE Prepared(v)
  <2>1. call' \in [View -> CallState]
    BY <1>11 DEF Prepared, NoCall, CallState
  <2>2. view' \in [View -> ViewState]
    <3> DEFINE ready == view[v].ready \/ call[v].pc = "ok"
               error == view[v].error \/ call[v].pc = "error"
               after == [view[v] EXCEPT !.ready = ready, !.error = error, !.checking = FALSE]
    <3>1. view' = [view EXCEPT ![v] = after]
      BY <1>11, ZenonT(40) DEF Prepared
    <3>2. view[v] \in ViewState
      BY SMTT(30) DEF ViewState
    <3>3. ready \in BOOLEAN /\ error \in BOOLEAN
      BY ZenonT(40)
    <3> HIDE DEF ready, error
    <3>4. after \in ViewState
      BY <3>2, <3>3, PreparedView, ZenonT(40)
    <3> HIDE DEF after
    <3>5. QED
      BY <3>1, <3>4, SMTT(30) DEF ViewState
  <2>3. UNCHANGED <<file, linked, rooted, downloads>> /\ attempted' \in BOOLEAN
    BY <1>11 DEF Prepared, disk
  <2>4. QED
    BY <2>1, <2>2, <2>3 DEF ViewState, CallState
<1>12. QED
  BY <1>1, <1>2, <1>3, <1>4, <1>5, <1>6, <1>7, <1>8, <1>9, <1>10, <1>11

LEMMA RootedStep ==
    ASSUME SetupTypeOK, RootedInv, SetupStep
    PROVE  RootedInv'
<1> USE DEF SetupTypeOK, RootedInv
<1>1. SUFFICES ASSUME NEW v \in View,
                      \/ OpenWindow(v) \/ CheckAndPrepare(v) \/ EnsureLocalModel(v)
                      \/ CreateFile(v) \/ WriteChunk(v) \/ FinishStream(v)
                      \/ LinkModel(v) \/ LinkFails(v) \/ DownloadFails(v) \/ Prepared(v)
               PROVE  RootedInv'
  BY DEF SetupStep
<1>2. CASE OpenWindow(v)
  BY <1>2 DEF OpenWindow, Closed
<1>3. CASE CheckAndPrepare(v)
  <2>1. CASE attempted
    BY <1>3, <2>1 DEF CheckAndPrepare
  <2>2. CASE ~attempted
    <3> DEFINE begun   == [view[v] EXCEPT !.checking = TRUE, !.error = FALSE]
               refused == [view[v] EXCEPT !.error = TRUE]
    <3>0. view' = [view EXCEPT ![v] = begun] \/ view' = [view EXCEPT ![v] = refused]
      BY <1>3, <2>2, Zenon DEF CheckAndPrepare
    <3>1. \A w \in View : view'[w].ready = view[w].ready
      <4>1. begun.ready = view[v].ready /\ refused.ready = view[v].ready
        BY DEF ViewState
      <4> HIDE DEF begun, refused
      <4>2. QED
        BY <3>0, <4>1
    <3>2. \A w \in View : call'[w].pc = "ok" => call[w].pc = "ok"
      BY <1>3, <2>2 DEF CheckAndPrepare
    <3>3. UNCHANGED <<attempted, rooted>>
      BY <1>3 DEF CheckAndPrepare
    <3>4. QED
      BY <3>1, <3>2, <3>3
  <2>3. QED
    BY <2>1, <2>2
<1>4. CASE EnsureLocalModel(v)
  BY <1>4 DEF EnsureLocalModel
<1>5. CASE CreateFile(v) \/ WriteChunk(v) \/ FinishStream(v)
  BY <1>5 DEF CreateFile, WriteChunk, FinishStream
<1>6. CASE LinkModel(v)
  BY <1>6 DEF LinkModel
<1>7. CASE LinkFails(v) \/ DownloadFails(v)
  BY <1>7 DEF LinkFails, DownloadFails
<1>8. CASE Prepared(v)
  BY <1>8 DEF Prepared, NoCall
<1>9. QED
  BY <1>1, <1>2, <1>3, <1>4, <1>5, <1>6, <1>7, <1>8

-----------------------------------------------------------------------------
(* The cases of Next *)

LEMMA NextCases ==
    ASSUME Next
    PROVE  \/ SetupStep /\ \E v \in View : Open(v)
           \/ SetupStep /\ UNCHANGED engineVars
           \/ OpenSettings \/ ToggleCloud \/ SelectProvider \/ TypeKey
           \/ \E c \in Caller : Generate(c)
           \/ Relaunch
<1>1. CASE \E v \in View : Open(v)
  BY <1>1 DEF Open, SetupStep
<1>2. CASE Setup
  BY <1>2 DEF Setup, Download, SetupStep
<1>3. QED
  BY <1>1, <1>2 DEF Next

\* The setup's own variables change in a step of the setup, when a process ends, or not at all.
LEMMA SetupCases ==
    ASSUME [Next]_vars
    PROVE  SetupStep \/ QuitSetup \/ UNCHANGED setupVars
<1>1. CASE Next
  <2>1. OpenSettings \/ ToggleCloud \/ SelectProvider \/ TypeKey => UNCHANGED setupVars
    BY DEF OpenSettings, ToggleCloud, SelectProvider, TypeKey, Edit
  <2>2. (\E c \in Caller : Generate(c)) => UNCHANGED setupVars
    BY DEF Generate, GenerateText, TakeLock, LoadEngine, LoadFails, Answer, GenUnchanged
  <2>3. Relaunch => QuitSetup
    BY DEF Relaunch
  <2>4. QED
    BY <1>1, <2>1, <2>2, <2>3, NextCases
<1>2. CASE UNCHANGED vars
  BY <1>2 DEF vars
<1>3. QED
  BY <1>1, <1>2

LEMMA RestingTypes == Closed \in ViewState /\ NoCall \in CallState
<1>1. Closed \in ViewState
  BY DEF Closed, ViewState
<1>2. NoCall \in CallState
  BY ChunksAssumption DEF NoCall, CallState
<1>3. QED
  BY <1>1, <1>2

LEMMA SetupTypeNext ==
    ASSUME SetupTypeOK, [Next]_vars
    PROVE  SetupTypeOK'
<1>1. CASE SetupStep
  BY <1>1, SetupTypeStep
<1>2. CASE QuitSetup
  <2>1. view' \in [View -> ViewState] /\ call' \in [View -> CallState]
    BY <1>2, RestingTypes DEF QuitSetup
  <2>2. QED
    BY <1>2, <2>1 DEF QuitSetup, SetupTypeOK, disk, ViewState, CallState
<1>3. CASE UNCHANGED setupVars
  BY <1>3 DEF setupVars, disk, SetupTypeOK
<1>4. QED
  BY <1>1, <1>2, <1>3, SetupCases

LEMMA RootedNext ==
    ASSUME SetupTypeOK, RootedInv, [Next]_vars
    PROVE  RootedInv'
<1>1. CASE SetupStep
  BY <1>1, RootedStep
<1>2. CASE QuitSetup
  BY <1>2 DEF QuitSetup, RootedInv, Closed, NoCall
<1>3. CASE UNCHANGED setupVars
  BY <1>3 DEF setupVars, RootedInv
<1>4. QED
  BY <1>1, <1>2, <1>3, SetupCases

LEMMA SetupTypeInit == Init => SetupTypeOK /\ RootedInv
<1>1. SUFFICES ASSUME SetupInit PROVE SetupTypeOK /\ RootedInv
  BY DEF Init
<1>2. view \in [View -> ViewState] /\ call \in [View -> CallState]
  BY <1>1, RestingTypes DEF SetupInit
<1>3. SetupTypeOK
  <2>1. file \subseteq 1 .. Chunks /\ downloads \in 0 .. MaxDownloads
    BY <1>1, DownloadsAssumption DEF SetupInit
  <2>2. linked \in BOOLEAN /\ rooted \in BOOLEAN /\ attempted \in BOOLEAN
    BY <1>1 DEF SetupInit
  <2>3. QED
    BY <1>2, <2>1, <2>2 DEF SetupTypeOK, ViewState, CallState
<1>4. RootedInv
  BY <1>1 DEF SetupInit, RootedInv, Closed, NoCall
<1>5. QED
  BY <1>3, <1>4

\* ReadyIsEnsured: no window is ready before its process has found the model's files.
THEOREM ReadinessIsEarned == Spec => []ReadyIsEnsured
<1>1. Init => SetupTypeOK /\ RootedInv
  BY SetupTypeInit
<1>2. SetupTypeOK /\ RootedInv /\ [Next]_vars => (SetupTypeOK /\ RootedInv)'
  BY SetupTypeNext, RootedNext
<1>3. RootedInv => ReadyIsEnsured
  BY DEF RootedInv, ReadyIsEnsured
<1>4. QED
  BY <1>1, <1>2, <1>3, PTL DEF Spec

-----------------------------------------------------------------------------
(* Types of the engines *)

EngineTypeOK ==
    /\ loads \in Nat
    /\ engine \in 0 .. loads
    /\ lock \in Caller \union {"free"}
    /\ gen \in [Caller -> Gen(loads)]
    /\ slot \in Cloud

PrefsTypeOK ==
    /\ useCloud \in BOOLEAN
    /\ chosen \in Provider \union {NoProvider}
    /\ keychain \in [Provider -> Key]
    /\ opened \in BOOLEAN
    /\ apiKey \in Key
    /\ edits \in 0 .. MaxEdits
    /\ launches \in 1 .. MaxLaunches

LEMMA TypeParts == TypeOK <=> SetupTypeOK /\ EngineTypeOK /\ PrefsTypeOK
  BY DEF TypeOK, EngineTypeOK, PrefsTypeOK, Cloud, Gen

LEMMA NoEngineType ==
    /\ NoEngine \in Cloud
    /\ \A n \in Nat : Idle \in Gen(n)
<1>1. NoEngine \in Cloud
  BY KeyAssumption DEF NoEngine, Cloud
<1>2. \A n \in Nat : 0 \in 0 .. n
  OBVIOUS
<1>3. \A n \in Nat : Idle \in Gen(n)
  BY <1>1, <1>2 DEF Idle, Gen
<1>4. QED
  BY <1>1, <1>3

LEMMA TrimType ==
    ASSUME NEW k \in Key
    PROVE  Trim(k) \in Key \union {"key"}
<1>1. k \in {NoKey, "blank", "padded", "key"}
  BY KeyAssumption, Zenon DEF AllKeys, NoKey
<1>2. QED
  BY <1>1, KeyAssumption DEF Trim

LEMMA SyncedType ==
    ASSUME NEW use, NEW p \in Provider, NEW k \in Key
    PROVE  Synced(use, p, k) \in Cloud
  BY TrimType, NoEngineType DEF Synced, Cloud

LEMMA SelectedType ==
    ASSUME chosen \in Provider \union {NoProvider}
    PROVE  Selected \in Provider
<1>1. DefaultProvider \in Provider
  BY ProviderAssumption DEF DefaultProvider
<1>2. QED
  BY <1>1 DEF Selected

\* An engine at rest keeps its types while the number of engines does not fall.
LEMMA GenGrows ==
    ASSUME NEW m \in Nat, NEW n \in Nat, m <= n
    PROVE  Gen(m) \subseteq Gen(n)
<1>1. 0 .. m \subseteq 0 .. n
  OBVIOUS
<1>2. QED
  BY <1>1 DEF Gen

\* What the Keychain can come to.
LEMMA KeychainTypes ==
    ASSUME NEW keys \in [Provider -> Key], NEW p \in Provider, NEW k \in Key
    PROVE  /\ LoadKey(keys, p) \subseteq Key
           /\ SaveKey(keys, p, k) \subseteq [Provider -> Key]
  BY KeyAssumption DEF LoadKey, SaveKey

\* A change of the provider, one Keychain call after the other.
LEMMA SelectFacts ==
    ASSUME PrefsTypeOK, SelectProvider
    PROVE  /\ chosen' \in Provider /\ apiKey' \in Key /\ keychain' \in [Provider -> Key]
           /\ slot' = Synced(useCloud, chosen', apiKey')
           /\ UNCHANGED <<useCloud, opened, launches>>
           /\ edits' = edits + 1 /\ edits < MaxEdits
<1>1. keychain \in [Provider -> Key] /\ apiKey \in Key /\ Selected \in Provider
  BY SelectedType DEF PrefsTypeOK
<1>2. PICK p \in Provider, saved \in SaveKey(keychain, Selected, apiKey) :
         /\ chosen' = p
         /\ apiKey' \in LoadKey(saved, p)
         /\ keychain' \in SaveKey(saved, p, apiKey')
         /\ slot' = Synced(useCloud, p, apiKey')
  BY DEF SelectProvider
<1>3. saved \in [Provider -> Key]
  BY <1>1, <1>2, KeychainTypes
<1>4. apiKey' \in Key
  BY <1>2, <1>3, KeychainTypes
<1>5. keychain' \in [Provider -> Key]
  BY <1>2, <1>3, <1>4, KeychainTypes
<1>6. QED
  BY <1>2, <1>4, <1>5 DEF SelectProvider, Edit

LEMMA PrefsTypeNext ==
    ASSUME PrefsTypeOK, [Next]_vars
    PROVE  PrefsTypeOK'
<1> USE BoundsAssumption DEF PrefsTypeOK
<1>0. keychain \in [Provider -> Key] /\ apiKey \in Key /\ Selected \in Provider
  BY SelectedType
<1>1. CASE UNCHANGED <<prefs, screen, edits, launches>>
  BY <1>1 DEF prefs, screen
<1>2. CASE OpenSettings
  <2>1. apiKey' \in Key
    BY <1>0, <1>2, KeychainTypes, KeyAssumption DEF OpenSettings
  <2>2. QED
    BY <1>2, <2>1 DEF OpenSettings, prefs
<1>3. CASE ToggleCloud
  BY <1>3 DEF ToggleCloud, Edit
<1>4. CASE SelectProvider
  BY <1>4, SelectFacts
<1>5. CASE TypeKey
  <2>1. apiKey' \in Key
    BY <1>5 DEF TypeKey
  <2>2. keychain' \in [Provider -> Key]
    BY <1>0, <1>5, <2>1, KeychainTypes DEF TypeKey
  <2>3. QED
    BY <1>5, <2>1, <2>2 DEF TypeKey, Edit
<1>6. CASE Relaunch
  <2>1. launches' \in 1 .. MaxLaunches
    BY <1>6 DEF Relaunch
  <2>2. opened' \in BOOLEAN /\ apiKey' \in Key /\ UNCHANGED <<useCloud, chosen, keychain, edits>>
    BY <1>6, KeyAssumption DEF Relaunch, prefs
  <2>3. QED
    BY <2>1, <2>2
<1>7. (\E v \in View : Open(v)) => UNCHANGED <<prefs, screen, edits, launches>>
  BY DEF Open
<1>8. (\E c \in Caller : Generate(c)) => UNCHANGED <<prefs, screen, edits, launches>>
  BY DEF Generate, GenerateText, TakeLock, LoadEngine, LoadFails, Answer, GenUnchanged
<1>9. UNCHANGED engineVars \/ UNCHANGED vars => UNCHANGED <<prefs, screen, edits, launches>>
  BY DEF vars, engineVars
<1>10. QED
  BY <1>1, <1>2, <1>3, <1>4, <1>5, <1>6, <1>7, <1>8, <1>9, NextCases

LEMMA EngineTypeNext ==
    ASSUME EngineTypeOK, PrefsTypeOK, [Next]_vars
    PROVE  EngineTypeOK'
<1> DEFINE Rest == <<loads, engine, lock, gen>>
<1>1. UNCHANGED Rest /\ slot' \in Cloud => EngineTypeOK'
  BY DEF EngineTypeOK
<1>2. CASE \E v \in View : Open(v)
  <2>1. UNCHANGED Rest
    BY <1>2 DEF Open
  <2>2. CASE slot' = slot
    BY <1>1, <2>1, <2>2 DEF EngineTypeOK
  <2>3. CASE /\ chosen # NoProvider
             /\ \E key \in LoadKey(keychain, chosen) : slot' = [provider |-> chosen, key |-> key]
    <3>1. chosen \in Provider /\ LoadKey(keychain, chosen) \subseteq Key
      BY <2>3, KeychainTypes, KeyAssumption DEF PrefsTypeOK
    <3>2. slot' \in Cloud
      BY <2>3, <3>1 DEF Cloud
    <3>3. QED
      BY <1>1, <2>1, <3>2
  <2>4. QED
    BY <1>2, <2>2, <2>3 DEF Open
<1>3. CASE UNCHANGED engineVars \/ UNCHANGED vars
  BY <1>3 DEF engineVars, vars, EngineTypeOK
<1>4. Selected \in Provider /\ keychain \in [Provider -> Key] /\ apiKey \in Key
  BY SelectedType DEF PrefsTypeOK
<1>5. CASE OpenSettings
  <2>1. apiKey' \in Key
    BY <1>4, <1>5, KeychainTypes, KeyAssumption DEF OpenSettings
  <2>2. QED
    BY <1>1, <1>4, <1>5, <2>1, SyncedType DEF OpenSettings
<1>6. CASE ToggleCloud
  BY <1>1, <1>4, <1>6, SyncedType DEF ToggleCloud, Edit
<1>7. CASE SelectProvider
  <2>1. slot' \in Cloud
    BY <1>7, SelectFacts, SyncedType
  <2>2. QED
    BY <1>1, <1>7, <2>1 DEF SelectProvider, Edit
<1>8. CASE TypeKey
  BY <1>1, <1>4, <1>8, SyncedType DEF TypeKey, Edit
<1>9. ASSUME NEW c \in Caller, Generate(c)
      PROVE  EngineTypeOK'
  <2> USE DEF EngineTypeOK
  <2>1. CASE GenerateText(c)
    <3>1. \A pc \in {"lock", "failed"} : [Idle EXCEPT !.pc = pc] \in Gen(loads)
      BY NoEngineType DEF Gen
    <3>2. /\ [Idle EXCEPT !.pc = "run", !.cloud = slot] \in Gen(loads)
          /\ [Idle EXCEPT !.pc = "run", !.local = engine] \in Gen(loads)
      BY NoEngineType DEF Gen
    <3>3. gen' \in [Caller -> Gen(loads)]
      BY <2>1, <3>1, <3>2 DEF GenerateText
    <3>4. QED
      BY <2>1, <3>3 DEF GenerateText, GenUnchanged
  <2>2. CASE TakeLock(c)
    <3>1. gen[c] \in Gen(loads)
      OBVIOUS
    <3>2. /\ [gen[c] EXCEPT !.pc = "run", !.local = engine] \in Gen(loads)
          /\ [gen[c] EXCEPT !.pc = "load"] \in Gen(loads)
      BY <3>1 DEF Gen
    <3>3. \/ gen' = [gen EXCEPT ![c] = [gen[c] EXCEPT !.pc = "run", !.local = engine]]
          \/ gen' = [gen EXCEPT ![c] = [gen[c] EXCEPT !.pc = "load"]]
      BY <2>2, Zenon DEF TakeLock
    <3>4. gen' \in [Caller -> Gen(loads)]
      BY <3>2, <3>3
    <3>5. QED
      BY <2>2, <3>4 DEF TakeLock, GenUnchanged
  <2>3. CASE LoadEngine(c)
    <3>1. loads' = loads + 1 /\ loads' \in Nat /\ loads <= loads' /\ loads' \in 0 .. loads'
      BY <2>3 DEF LoadEngine
    <3>2. gen[c] \in Gen(loads') /\ gen \in [Caller -> Gen(loads')]
      BY <3>1, GenGrows
    <3>3. [gen[c] EXCEPT !.pc = "run", !.local = loads'] \in Gen(loads')
      BY <3>1, <3>2 DEF Gen
    <3>4. gen' = [gen EXCEPT ![c] = [gen[c] EXCEPT !.pc = "run", !.local = loads']]
      BY <2>3, Zenon DEF LoadEngine
    <3>5. gen' \in [Caller -> Gen(loads')]
      BY <3>2, <3>3, <3>4
    <3>6. engine' \in 0 .. loads'
      BY <2>3, <3>1 DEF LoadEngine
    <3>7. lock' \in Caller \union {"free"} /\ slot' = slot
      BY <2>3 DEF LoadEngine, GenUnchanged
    <3>8. QED
      BY <3>1, <3>5, <3>6, <3>7
  <2>4. CASE LoadFails(c)
    <3>1. [gen[c] EXCEPT !.pc = "failed"] \in Gen(loads)
      BY DEF Gen
    <3>2. gen' \in [Caller -> Gen(loads)]
      BY <2>4, <3>1 DEF LoadFails
    <3>3. QED
      BY <2>4, <3>2 DEF LoadFails, GenUnchanged
  <2>5. CASE Answer(c)
    <3>1. gen' \in [Caller -> Gen(loads)]
      BY <2>5, NoEngineType DEF Answer
    <3>2. QED
      BY <2>5, <3>1 DEF Answer, GenUnchanged
  <2>6. QED
    BY <1>9, <2>1, <2>2, <2>3, <2>4, <2>5 DEF Generate
<1>10. CASE Relaunch
  BY <1>10, NoEngineType DEF Relaunch, EngineTypeOK
<1>11. QED
  BY <1>2, <1>3, <1>5, <1>6, <1>7, <1>8, <1>9, <1>10, NextCases

LEMMA InitParts == Init => EngineTypeOK /\ PrefsTypeOK /\ LockInv /\ SlotIsChosen
<1>1. SUFFICES ASSUME Init PROVE EngineTypeOK /\ PrefsTypeOK /\ LockInv /\ SlotIsChosen
  OBVIOUS
<1>2. EngineTypeOK
  <2>1. gen \in [Caller -> Gen(0)] /\ slot \in Cloud
    BY <1>1, NoEngineType DEF Init
  <2>2. loads = 0 /\ engine = 0 /\ lock = "free"
    BY <1>1 DEF Init
  <2>3. QED
    BY <2>1, <2>2 DEF EngineTypeOK
<1>3. PrefsTypeOK
  <2>1. keychain \in [Provider -> Key] /\ chosen = NoProvider /\ apiKey \in Key
    BY <1>1, KeyAssumption DEF Init
  <2>2. useCloud \in BOOLEAN /\ opened \in BOOLEAN
    <3>1. useCloud = FALSE /\ opened = FALSE
      BY <1>1 DEF Init
    <3>2. QED
      BY <3>1
  <2>3. edits \in 0 .. MaxEdits /\ launches \in 1 .. MaxLaunches
    <3>1. edits = 0 /\ launches = 1
      BY <1>1 DEF Init
    <3>2. QED
      BY <3>1, BoundsAssumption
  <2>4. QED
    BY <2>1, <2>2, <2>3 DEF PrefsTypeOK
<1>4. LockInv
  <2>1. \A c \in Caller : gen[c].local = 0 /\ gen[c].pc = "idle"
    BY <1>1 DEF Init, Idle
  <2>2. engine = 0 /\ loads = 0
    BY <1>1 DEF Init
  <2>3. QED
    BY <2>1, <2>2 DEF LockInv
<1>5. SlotIsChosen
  BY <1>1 DEF Init, SlotIsChosen
<1>6. QED
  BY <1>2, <1>3, <1>4, <1>5

\* TypeOK: the statics, the settings and the calls keep their shape.
THEOREM TypeCorrect == Spec => []TypeOK
<1>1. Init => TypeOK
  BY InitParts, SetupTypeInit, TypeParts
<1>2. TypeOK /\ [Next]_vars => TypeOK'
  <2>1. TypeOK' <=> SetupTypeOK' /\ EngineTypeOK' /\ PrefsTypeOK'
    BY DEF TypeOK, EngineTypeOK, PrefsTypeOK, Cloud, Gen
  <2>2. QED
    BY <2>1, TypeParts, SetupTypeNext, EngineTypeNext, PrefsTypeNext
<1>3. QED
  BY <1>1, <1>2, PTL DEF Spec

-----------------------------------------------------------------------------
(* The local engine *)

LEMMA LockNext ==
    ASSUME EngineTypeOK, LockInv, [Next]_vars
    PROVE  LockInv'
<1> USE DEF LockInv
<1>1. CASE UNCHANGED <<loads, engine, lock, gen>>
  BY <1>1
<1>2. ASSUME NEW c \in Caller, Generate(c)
      PROVE  LockInv'
  <2>1. gen[c] \in Gen(loads) /\ gen \in [Caller -> Gen(loads)] /\ c # "free"
    BY CallerAssumption DEF EngineTypeOK
  <2>2. CASE GenerateText(c)
    BY <2>1, <2>2 DEF GenerateText, Idle
  <2>3. CASE TakeLock(c)
    <3>1. \A d \in Caller : gen[d].pc # "load"
      BY <2>3, CallerAssumption DEF TakeLock
    <3>2. CASE engine # 0
      BY <2>1, <2>3, <3>1, <3>2 DEF TakeLock, Gen
    <3>3. CASE engine = 0
      BY <2>1, <2>3, <3>1, <3>3 DEF TakeLock, Gen
    <3>4. QED
      BY <3>2, <3>3
  <2>4. CASE LoadEngine(c)
    <3>1. engine = 0 /\ loads = 0 /\ lock = c
      BY <2>4 DEF LoadEngine
    <3>2. loads' = 1 /\ engine' = 1
      BY <2>4, <3>1 DEF LoadEngine
    <3>3. \A d \in Caller : gen'[d].local \in {0, 1} /\ gen'[d].pc # "load"
      BY <2>1, <2>4, <3>1, <3>2 DEF LoadEngine, Gen
    <3>4. QED
      BY <3>2, <3>3
  <2>5. CASE LoadFails(c)
    BY <2>1, <2>5 DEF LoadFails, Gen
  <2>6. CASE Answer(c)
    BY <2>1, <2>6 DEF Answer, Idle
  <2>7. QED
    BY <1>2, <2>2, <2>3, <2>4, <2>5, <2>6 DEF Generate
<1>3. CASE Relaunch
  BY <1>3 DEF Relaunch, Idle
<1>4. (\E v \in View : Open(v)) \/ OpenSettings \/ ToggleCloud \/ SelectProvider \/ TypeKey
        => UNCHANGED <<loads, engine, lock, gen>>
  BY DEF Open, OpenSettings, ToggleCloud, SelectProvider, TypeKey, Edit
<1>5. UNCHANGED engineVars \/ UNCHANGED vars => UNCHANGED <<loads, engine, lock, gen>>
  BY DEF engineVars, vars
<1>6. QED
  BY <1>1, <1>2, <1>3, <1>4, <1>5, NextCases

\* OneLocalEngine: however many threads race for the first inference, one engine is built.
THEOREM EngineIsUnique == Spec => []OneLocalEngine
<1>1. Init => EngineTypeOK /\ PrefsTypeOK /\ LockInv
  BY InitParts
<1>2. EngineTypeOK /\ PrefsTypeOK /\ LockInv /\ [Next]_vars
        => (EngineTypeOK /\ PrefsTypeOK /\ LockInv)'
  BY EngineTypeNext, PrefsTypeNext, LockNext
<1>3. LockInv => OneLocalEngine
  BY DEF LockInv, OneLocalEngine
<1>4. QED
  BY <1>1, <1>2, <1>3, PTL DEF Spec

-----------------------------------------------------------------------------
(* The cloud engine *)

LEMMA SyncedIsChosen ==
    ASSUME NEW use \in BOOLEAN, NEW p, NEW k, Synced(use, p, k) # NoEngine
    PROVE  /\ use
           /\ Synced(use, p, k).provider = p
           /\ Synced(use, p, k).key = Trim(k)
  BY DEF Synced

LEMMA SlotNext ==
    ASSUME PrefsTypeOK, SlotIsChosen, [Next]_vars
    PROVE  SlotIsChosen'
<1> USE DEF SlotIsChosen
<1>1. CASE UNCHANGED <<slot, prefs, screen>>
  BY <1>1 DEF prefs, screen, Selected
<1>2. CASE \E v \in View : Open(v)
  <2>1. UNCHANGED <<prefs, screen>> /\ Selected' = Selected /\ apiKey' = apiKey
    BY <1>2 DEF Open, prefs, screen, Selected
  <2>2. CASE slot' = slot
    BY <1>1, <2>1, <2>2
  <2>3. CASE /\ useCloud /\ chosen # NoProvider
             /\ \E key \in LoadKey(keychain, chosen) \ {NoKey} :
                  slot' = [provider |-> chosen, key |-> key]
    <3>1. slot' = [provider |-> chosen, key |-> keychain[chosen]] /\ Selected = chosen
      BY <2>3 DEF LoadKey, Selected
    <3>2. slot'.provider = Selected /\ slot'.key = keychain[Selected]
      BY <3>1
    <3>3. useCloud' /\ keychain' = keychain
      BY <2>1, <2>3 DEF prefs
    <3>4. QED
      BY <2>1, <3>2, <3>3
  <2>4. QED
    BY <1>2, <2>2, <2>3 DEF Open
<1>3. SlotIsChosen' <=> (slot' # NoEngine => /\ useCloud'
                                             /\ slot'.provider = Selected'
                                             /\ slot'.key \in {keychain'[Selected'], Trim(apiKey')})
  BY DEF NoEngine, Trim
<1>4. CASE OpenSettings
  <2>1. /\ slot' = Synced(useCloud, Selected, apiKey')
        /\ useCloud' = useCloud /\ Selected' = Selected
    BY <1>4 DEF OpenSettings, prefs, Selected
  <2>2. QED
    BY <1>3, <2>1, SyncedIsChosen DEF PrefsTypeOK
<1>5. CASE ToggleCloud
  <2>1. /\ slot' = Synced(useCloud', Selected, apiKey) /\ apiKey' = apiKey
        /\ useCloud' \in BOOLEAN /\ Selected' = Selected
    BY <1>5 DEF ToggleCloud, Selected
  <2>2. QED
    BY <1>3, <2>1, SyncedIsChosen
<1>6. CASE SelectProvider
  <2>1. /\ slot' = Synced(useCloud, chosen', apiKey') /\ useCloud' = useCloud
        /\ chosen' \in Provider
    BY <1>6, SelectFacts
  <2>2. Selected' = chosen'
    BY <2>1, ProviderAssumption DEF Selected
  <2>3. QED
    BY <1>3, <2>1, <2>2, SyncedIsChosen DEF PrefsTypeOK
<1>7. CASE TypeKey
  <2>1. slot' = Synced(useCloud, Selected, apiKey') /\ Selected' = Selected /\ useCloud' = useCloud
    BY <1>7 DEF TypeKey, Selected
  <2>2. QED
    BY <1>3, <2>1, SyncedIsChosen DEF PrefsTypeOK
<1>8. CASE Relaunch
  BY <1>8 DEF Relaunch, NoEngine
<1>9. (\E c \in Caller : Generate(c)) => UNCHANGED <<slot, prefs, screen>>
  BY DEF Generate, GenerateText, TakeLock, LoadEngine, LoadFails, Answer, GenUnchanged
<1>10. UNCHANGED engineVars \/ UNCHANGED vars => UNCHANGED <<slot, prefs, screen>>
  BY DEF vars, engineVars
<1>11. QED
  BY <1>1, <1>2, <1>4, <1>5, <1>6, <1>7, <1>8, <1>9, <1>10, NextCases

\* SlotIsChosen: the cloud engine in use is the one the saved settings name, with
\* a key that is saved or shown, whatever the Keychain refuses.
THEOREM CloudIsChosen == Spec => []SlotIsChosen
<1>1. Init => PrefsTypeOK /\ SlotIsChosen
  BY InitParts
<1>2. PrefsTypeOK /\ SlotIsChosen /\ [Next]_vars => (PrefsTypeOK /\ SlotIsChosen)'
  BY PrefsTypeNext, SlotNext
<1>3. QED
  BY <1>1, <1>2, PTL DEF Spec
=============================================================================
