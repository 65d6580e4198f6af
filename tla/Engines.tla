------------------------------ MODULE Engines ------------------------------
(***************************************************************************)
(* Which language model answers: the local engine, loaded by the first     *)
(* generation that needs it, and the cloud engine, whose slot the settings *)
(* screen and every new window write.  generate_text calls run on several  *)
(* threads; settings and windows share the main actor.                     *)
(*                                                                         *)
(* An API key is as the user typed it: "padded" differs from "key" in its  *)
(* white space, "blank" is nothing else.  The Keychain may refuse to load, *)
(* to save or to delete one, and KeychainHelper says so to nobody.         *)
(***************************************************************************)
EXTENDS ModelSetup

CONSTANTS
    Caller,     \* concurrent calls of generate_text
    Provider,   \* cloud providers
    Key,        \* a subset of AllKeys
    NoProvider, \* "selectedProvider" was never saved
    MaxEdits,   \* bound: changes of the settings
    MaxLaunches \* bound: processes started

NoKey == ""
AllKeys == {NoKey, "blank", "padded", "key"}

ASSUME KeyAssumption == NoKey \in Key /\ Key \subseteq AllKeys
ASSUME ProviderAssumption == Provider # {} /\ NoProvider \notin Provider
ASSUME CallerAssumption == "free" \notin Caller
ASSUME BoundsAssumption == MaxEdits \in Nat /\ MaxLaunches \in Nat \ {0}

VARIABLES
    loads,    \* engines built in this process (LocalPhi3Engine::new)
    engine,   \* GLOBAL_ENGINE: the number of the engine published, 0 for none
    lock,     \* the caller that holds INIT_LOCK, or "free"
    gen,      \* each call of generate_text: where it is and the engine it holds
    slot,     \* CLOUD_ENGINE_SLOT
    useCloud, \* UserDefaults "useCloudModel"
    chosen,   \* UserDefaults "selectedProvider"
    keychain, \* the API key saved for each provider
    opened,   \* the settings screen was opened in this process
    apiKey,   \* the key it shows
    edits,
    launches

prefs == <<useCloud, chosen, keychain>>
screen == <<opened, apiKey>>
engineVars == <<loads, engine, lock, gen, slot, prefs, screen, edits, launches>>
vars == <<setupVars, engineVars>>

NoEngine == [provider |-> NoProvider, key |-> NoKey]
Idle == [pc |-> "idle", local |-> 0, cloud |-> NoEngine]

Trim(key) == CASE key = "blank" -> NoKey [] key = "padded" -> "key" [] OTHER -> key

\* The settings screen shows the first provider when none was saved.
DefaultProvider == CHOOSE p \in Provider : TRUE
Selected == IF chosen = NoProvider THEN DefaultProvider ELSE chosen

\* Fault: the slot is written when the cloud model is on, and never cleared.
SyncedNeverCleared(use, provider, key) ==
    IF use /\ Trim(key) # NoKey THEN [provider |-> provider, key |-> Trim(key)] ELSE slot

\* syncEngineState: what the slot becomes.
Synced(use, provider, key) ==
    IF use /\ Trim(key) # NoKey THEN [provider |-> provider, key |-> Trim(key)] ELSE NoEngine

-----------------------------------------------------------------------------
Init ==
    /\ SetupInit
    /\ loads = 0
    /\ engine = 0
    /\ lock = "free"
    /\ gen = [c \in Caller |-> Idle]
    /\ slot = NoEngine
    /\ useCloud = FALSE
    /\ chosen = NoProvider
    /\ keychain = [p \in Provider |-> NoKey]
    /\ opened = FALSE
    /\ apiKey = NoKey
    /\ edits = 0
    /\ launches = 1

\* KeychainHelper.load, where nil reads as no key; and save, which with no key
\* deletes: what they can come to.
LoadKey(keys, p) == {keys[p], NoKey}
SaveKey(keys, p, key) == {[keys EXCEPT ![p] = key], keys}

\* A window opens, and its task restores the cloud engine from what was saved,
\* unless no key is saved or loaded.
Open(v) ==
    /\ OpenWindow(v)
    /\ \/ UNCHANGED slot
       \/ /\ useCloud /\ chosen # NoProvider
          /\ \E key \in LoadKey(keychain, chosen) \ {NoKey} :
               slot' = [provider |-> chosen, key |-> key]
    /\ UNCHANGED <<loads, engine, lock, gen, prefs, screen, edits, launches>>

Setup ==
    /\ \E v \in View : CheckAndPrepare(v) \/ EnsureLocalModel(v) \/ Download(v) \/ Prepared(v)
    /\ UNCHANGED engineVars

-----------------------------------------------------------------------------
(* The settings screen. *)

OpenSettings ==
    /\ ~opened
    /\ opened' = TRUE
    /\ apiKey' \in LoadKey(keychain, Selected)
    /\ slot' = Synced(useCloud, Selected, apiKey')
    /\ UNCHANGED <<setupVars, loads, engine, lock, gen, prefs, edits, launches>>

Edit ==
    /\ opened
    /\ edits < MaxEdits
    /\ edits' = edits + 1
    /\ UNCHANGED <<setupVars, loads, engine, lock, gen, opened, launches>>

ToggleCloud ==
    /\ Edit
    /\ useCloud' = ~useCloud
    /\ slot' = Synced(useCloud', Selected, apiKey)
    /\ UNCHANGED <<chosen, keychain, apiKey>>

\* The departing provider's key is saved, the new one's loaded and, as every
\* change of apiKey is, saved again and synced.
SelectProvider ==
    /\ Edit
    /\ \E p \in Provider \ {Selected}, saved \in SaveKey(keychain, Selected, apiKey) :
         /\ chosen' = p
         /\ apiKey' \in LoadKey(saved, p)
         /\ keychain' \in SaveKey(saved, p, apiKey')
         /\ slot' = Synced(useCloud, p, apiKey')
    /\ UNCHANGED useCloud

TypeKey ==
    /\ Edit
    /\ apiKey' \in Key \ {apiKey}
    /\ keychain' \in SaveKey(keychain, Selected, apiKey')
    /\ slot' = Synced(useCloud, Selected, apiKey')
    /\ UNCHANGED <<useCloud, chosen>>

-----------------------------------------------------------------------------
(* generate_text. *)

GenUnchanged == UNCHANGED <<setupVars, slot, prefs, screen, edits, launches>>

\* A window that is ready sends a message: the cloud slot first, then the
\* engine already loaded, then the load, which needs the model's root.
GenerateText(c) ==
    /\ gen[c].pc = "idle"
    /\ \E v \in View : view[v].ready
    /\ gen' = [gen EXCEPT ![c] =
         IF slot # NoEngine THEN [Idle EXCEPT !.pc = "run", !.cloud = slot]
         ELSE IF engine # 0 THEN [Idle EXCEPT !.pc = "run", !.local = engine]
         ELSE IF rooted THEN [Idle EXCEPT !.pc = "lock"]
         ELSE [Idle EXCEPT !.pc = "failed"]]
    /\ GenUnchanged /\ UNCHANGED <<loads, engine, lock>>

\* Fault: the engine is not looked for again under the lock.
TakeLockAndLoad(c) ==
    /\ gen[c].pc = "lock"
    /\ lock = "free"
    /\ lock' = c
    /\ gen' = [gen EXCEPT ![c].pc = "load"]
    /\ GenUnchanged /\ UNCHANGED <<loads, engine>>

\* INIT_LOCK, and the second look at GLOBAL_ENGINE under it.
TakeLock(c) ==
    /\ gen[c].pc = "lock"
    /\ lock = "free"
    /\ IF engine # 0
       THEN /\ gen' = [gen EXCEPT ![c].pc = "run", ![c].local = engine]
            /\ UNCHANGED lock
       ELSE /\ lock' = c
            /\ gen' = [gen EXCEPT ![c].pc = "load"]
    /\ GenUnchanged /\ UNCHANGED <<loads, engine>>

\* LocalPhi3Engine::new, published unless another is there; the caller keeps its own.
LoadEngine(c) ==
    /\ gen[c].pc = "load"
    /\ Loadable
    /\ loads' = loads + 1
    /\ engine' = IF engine = 0 THEN loads' ELSE engine
    /\ gen' = [gen EXCEPT ![c].pc = "run", ![c].local = loads']
    /\ lock' = "free"
    /\ GenUnchanged

\* The file is not there or is not a whole model: the next call tries again.
LoadFails(c) ==
    /\ gen[c].pc = "load"
    /\ gen' = [gen EXCEPT ![c].pc = "failed"]
    /\ lock' = "free"
    /\ GenUnchanged /\ UNCHANGED <<loads, engine>>

Answer(c) ==
    /\ gen[c].pc \in {"run", "failed"}
    /\ gen' = [gen EXCEPT ![c] = Idle]
    /\ GenUnchanged /\ UNCHANGED <<loads, engine, lock>>

Generate(c) ==
    GenerateText(c) \/ TakeLock(c) \/ LoadEngine(c) \/ LoadFails(c) \/ Answer(c)

\* The process ends and the next one starts.
Relaunch ==
    /\ launches < MaxLaunches
    /\ launches' = launches + 1
    /\ QuitSetup
    /\ loads' = 0
    /\ engine' = 0
    /\ lock' = "free"
    /\ gen' = [c \in Caller |-> Idle]
    /\ slot' = NoEngine
    /\ opened' = FALSE
    /\ apiKey' = NoKey
    /\ UNCHANGED <<prefs, edits>>

Next ==
    \/ \E v \in View : Open(v)
    \/ Setup
    \/ OpenSettings \/ ToggleCloud \/ SelectProvider \/ TypeKey
    \/ \E c \in Caller : Generate(c)
    \/ Relaunch

Spec == Init /\ [][Next]_vars /\ SetupFairness

-----------------------------------------------------------------------------
\* The shape of the statics, the settings and the calls.
TypeOK ==
    /\ SetupTypeOK
    /\ loads \in Nat
    /\ engine \in 0 .. loads
    /\ lock \in Caller \union {"free"}
    /\ slot \in [provider : Provider \union {NoProvider}, key : Key \union {"key"}]
    /\ gen \in [Caller -> [pc : {"idle", "lock", "load", "run", "failed"}, local : 0 .. loads,
                           cloud : [provider : Provider \union {NoProvider}, key : Key \union {"key"}]]]
    /\ useCloud \in BOOLEAN
    /\ chosen \in Provider \union {NoProvider}
    /\ keychain \in [Provider -> Key]
    /\ opened \in BOOLEAN
    /\ apiKey \in Key
    /\ edits \in 0 .. MaxEdits
    /\ launches \in 1 .. MaxLaunches

\* The model of several gigabytes is in memory at most once: whatever threads
\* race for the first inference, all of them run on the engine published.
OneLocalEngine ==
    /\ loads <= 1
    /\ \A c \in Caller : gen[c].local \in {0, engine}

\* Nothing is sent to a cloud provider unless the saved settings turn the cloud
\* on and name that provider, with the key saved for it or the one on the screen,
\* whatever the Keychain refuses.
SlotIsChosen ==
    slot # NoEngine =>
        /\ useCloud
        /\ slot.provider = Selected
        /\ slot.key \in {keychain[Selected], Trim(apiKey)}

\* "Switching providers does not lose in-progress input": no key that is saved is
\* gone after a change of the provider.
SwitchKeepsKeys ==
    [][chosen' # chosen => \A p \in Provider : keychain[p] # NoKey => keychain'[p] # NoKey]_vars
=============================================================================
