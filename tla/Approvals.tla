------------------------------ MODULE Approvals ------------------------------
(***************************************************************************)
(* The command router of the Tauri desktop app with its human-in-the-loop  *)
(* approvals: fs and shell commands that change something, the store of    *)
(* pending approvals with its timeout, workspaces and settings in memory   *)
(* and on disk, and a restart, which loads the settings and the plugins.   *)
(* The commands are synchronous and run on the app's main thread, so each  *)
(* is one step; what interleaves is the order in which the webview sends   *)
(* them, and time.                                                         *)
(*                                                                         *)
(* A path is a directory together with the way it is spelled: "registered" *)
(* is the canonical form settings store, "alias" any other spelling of the *)
(* same directory (a symlink, a trailing component).  Reads change nothing *)
(* and are left out.                                                       *)
(***************************************************************************)
EXTENDS Plugins

CONSTANTS
    Request,        \* approval request ids (fresh UUIDs; each is issued once)
    Root,           \* directories that can become workspaces
    Command,        \* what the webview sends: fs commands and ids of shell commands
    Contained,      \* the patterns in the id of a shell command: command lists, ids
    Installation,   \* what a start can find in the plugin directory, once loaded
    LegacyFile,     \* what settings.json of an older version can say
    Ttl,            \* lifetime of a pending approval, in ticks
    MaxTime,        \* bound: the clock stops here
    MaxWorkspaceId  \* bound: workspace ids handed out

FsCommand == {"write", "delete", "rename", "move"}
ShellCommand == Command \ FsCommand

\* The pattern lists of the policy are named by one name each.
PatternList == {"credentials", "blacklist", "high_risk", NoPattern}

Workspaces == SUBSET [id : Nat, root : Root]
Settings == [workspaces : Workspaces, destructive : BOOLEAN]

ASSUME TtlAssumption == Ttl \in Nat \ {0}
ASSUME RequestAssumption == "direct" \notin Request
\* An id contains itself, and no path.
ASSUME ContainedAssumption ==
    \A c \in ShellCommand : c \in Contained[c] /\ "credentials" \notin Contained[c]
\* An installation lists loaded plugins, whose ids are not the names used here for lists.
ASSUME InstallationAssumption ==
    \A ds \in Installation :
        /\ ds \in Seq({ds[i] : i \in DOMAIN ds})
        /\ \A i \in DOMAIN ds : ds[i].id \notin PatternList
\* What an older version wrote has no directory twice.
ASSUME LegacyAssumption ==
    \A old \in LegacyFile :
        /\ old \in Settings
        /\ \A v, w \in old.workspaces : v.root = w.root => v = w

VARIABLES
    settings,    \* AppSettings in memory: workspaces and the destructive gate
    saved,       \* config.json
    legacy,      \* settings.json of an older version, while it is there
    form,        \* the workspaces the webview got last with cmd_settings_get
    nextId,      \* workspace ids handed out so far
    plugins,     \* the plugins loaded at the last start
    clock,
    pending,     \* ids in PendingApprovalsStore
    issued,      \* history: the record created for each id
    refused,     \* history: ids the user denied or a workspace removal cancelled
    executions,  \* history: how often each id was executed
    effect       \* what the last step did to the file system, or NoEffect

desk == <<settings, saved, legacy, form, nextId>>
store == <<pending, issued, refused, executions>>
vars == <<desk, plugins, clock, store, effect>>

Destructive == {"delete", "rename", "move"}
Path == [root : Root, spelling : {"registered", "alias"}]
NoRequest == [caller |-> "nobody"]
NoEffect == [command |-> "nothing"]

Defaults == [workspaces |-> {}, destructive |-> FALSE]

-----------------------------------------------------------------------------
(* config.json.  The gate is kept under two keys, the new and the legacy    *)
(* one.                                                                     *)

Missing == [readable |-> FALSE, there |-> FALSE]
Broken == [readable |-> FALSE, there |-> TRUE]
NoConfig == {Missing, Broken}
Config == [workspaces : Workspaces, security : BOOLEAN, fs : BOOLEAN]
NoLegacy == [workspaces |-> "none"]

\* settings::save of s, when it completes.
OnDisk(s) == [workspaces |-> s.workspaces, security |-> s.destructive, fs |-> s.destructive]

\* fs::write truncates the file before it fills it: a save that fails or is cut
\* off leaves the file as it was, or one that does not parse.
Written(s, file, saves) == IF saves THEN {OnDisk(s)} ELSE {file, Broken}

\* What config.json says: either key opens the gate.
Read(file) ==
    IF file \in NoConfig THEN Defaults
    ELSE [workspaces |-> file.workspaces, destructive |-> file.security \/ file.fs]

\* settings::load at a start that finds these two files: without a config.json that parses,
\* an old settings.json is migrated.  Saving it can fail, and so can removing it.
Load(file, old) ==
    IF file \in NoConfig /\ old # NoLegacy
    THEN [settings : {old},
          saved : Written(old, file, TRUE) \union Written(old, file, FALSE),
          legacy : {old, NoLegacy}]
    ELSE [settings : {Read(file)}, saved : {file}, legacy : {old}]

-----------------------------------------------------------------------------
(* What the commands look up. *)

Roots(s) == {w.root : w \in s.workspaces}

\* Fault: looked up in the saved configuration, not in the one in force.
RegisteredOnDisk(path) == path.root \in Roots(Read(saved))

\* ctx_and_workspace_id: spelled exactly, or canonicalising to the same directory.
Registered(path) == path.root \in Roots(settings)

\* The policy main() installs for these plugins; the file compiled in parses.
Installed(ds) == ActiveRules(DefaultFile, ds)

\* Fault: patterns are compared with the whole id.
AsRequestExactly(caller, command) ==
    IF command \in FsCommand THEN PolicyRequest(caller, "fs", command, {})
    ELSE PolicyRequest(caller, "shell", "exec", {command})

\* The operations of the webview as the policy sees them.  No path below a workspace is on
\* the path block list.
AsRequest(caller, command) ==
    IF command \in FsCommand THEN PolicyRequest(caller, "fs", command, {})
    ELSE PolicyRequest(caller, "shell", "exec", Contained[command])

PolicyDecision ==
    [ds \in Installation |-> [caller \in Caller |-> [command \in Command |->
        Evaluate(Installed(ds), AsRequest(caller, command))]]]

Decided(caller, command) == PolicyDecision[plugins][caller][command]

\* default_catalog with the commands of the plugins: what shell_run knows.
BuiltinCommand == {"list_git_status", "run_tests", "format_code"}
Known(command) ==
    command \in FsCommand \union BuiltinCommand \union {d.id : d \in PluginCommands(plugins)}

\* The config gate, and the workspace lookups done before the request is made.
GateOpen(command, path, dest) ==
    command \in Destructive =>
        /\ settings.destructive
        /\ Registered(path)
        /\ Registered(dest)

\* The agent's destructive commands are not even put to the policy.
NeedsApproval(caller, command) ==
    \/ caller = "agent" /\ command \in Destructive
    \/ Decided(caller, command) = "require_approval"

Expired(r) == clock >= issued[r].at + Ttl
\* Fault: the store is not swept before a lookup.
UnexpiredUnswept == pending

\* What the sweep at the start of every insert and take leaves in the store.
Unexpired == {r \in pending : ~Expired(r)}

Effect(command, path, dest, caller, via) ==
    [command |-> command, path |-> path, dest |-> dest, caller |-> caller, via |-> via]

-----------------------------------------------------------------------------
\* The first start, of a new installation or after an older version.
Init ==
    /\ \E old \in LegacyFile \union {NoLegacy} : \E loaded \in Load(Missing, old) :
         /\ settings = loaded.settings
         /\ saved = loaded.saved
         /\ legacy = loaded.legacy
    /\ form = settings.workspaces
    /\ nextId = 0
    /\ plugins \in Installation
    /\ clock = 0
    /\ pending = {}
    /\ issued = [r \in Request |-> NoRequest]
    /\ refused = {}
    /\ executions = [r \in Request |-> 0]
    /\ effect = NoEffect

\* create_record: what the user is asked, and from when on the timeout counts.
NewRecord(caller, command, path, dest) ==
    [caller |-> caller, command |-> command, path |-> path, dest |-> dest, at |-> clock]

\* A command that needs approval: a record is stored and an error returned.
RequestApproval(caller, command, path, dest) ==
    /\ GateOpen(command, path, dest)
    /\ NeedsApproval(caller, command)
    /\ \E r \in Request :
         /\ issued[r] = NoRequest
         /\ issued' = [issued EXCEPT ![r] = NewRecord(caller, command, path, dest)]
         /\ pending' = Unexpired \union {r}
    /\ effect' = NoEffect
    /\ UNCHANGED <<desk, plugins, clock, refused, executions>>

\* A command the policy allows: it is executed in a registered workspace.
ExecuteDirectly(caller, command, path, dest) ==
    /\ GateOpen(command, path, dest)
    /\ ~NeedsApproval(caller, command)
    /\ Decided(caller, command) = "allow"
    /\ Registered(path)
    /\ Known(command)
    /\ effect' = Effect(command, path, dest, caller, "direct")
    /\ UNCHANGED <<desk, plugins, clock, store>>

\* The operation of an approved record, looked up in the settings of now.
CarriedOut(r) ==
    /\ Known(issued[r].command)
    /\ Registered(issued[r].path)
    /\ Registered(issued[r].dest)
    /\ effect' = Effect(issued[r].command, issued[r].path, issued[r].dest, issued[r].caller, r)
    /\ executions' = [executions EXCEPT ![r] = @ + 1]

\* Fault: the record is read (get) and not taken.
ApproveWithoutTake(r) ==
    /\ r \in Unexpired
    /\ pending' = Unexpired
    /\ CarriedOut(r)
    /\ UNCHANGED <<desk, plugins, clock, issued, refused>>

\* cmd_approve_and_execute with approved = true: the record is taken, then the
\* operation is tried; it may fail, or find its workspace gone.
ApproveAndExecute(r) ==
    /\ r \in Unexpired
    /\ pending' = Unexpired \ {r}
    /\ \/ CarriedOut(r)
       \/ effect' = NoEffect /\ UNCHANGED executions
    /\ UNCHANGED <<desk, plugins, clock, issued, refused>>

\* Fault: a denial leaves the record in the store.
DenyWithoutTake(r) ==
    /\ r \in Unexpired
    /\ pending' = Unexpired
    /\ refused' = refused \union {r}
    /\ effect' = NoEffect
    /\ UNCHANGED <<desk, plugins, clock, issued, executions>>

\* Fault: a denial does not look the id up.
DenyUnchecked(r) ==
    /\ pending' = Unexpired \ {r}
    /\ refused' = refused \union {r}
    /\ effect' = NoEffect
    /\ UNCHANGED <<desk, plugins, clock, issued, executions>>

\* cmd_approve_and_execute with approved = false.
DenyRequest(r) ==
    /\ r \in Unexpired
    /\ pending' = Unexpired \ {r}
    /\ refused' = refused \union {r}
    /\ effect' = NoEffect
    /\ UNCHANGED <<desk, plugins, clock, issued, executions>>

\* An unknown or expired id: the take only sweeps the store.
TakeUnknown(r) ==
    /\ r \notin Unexpired
    /\ pending' = Unexpired
    /\ effect' = NoEffect
    /\ UNCHANGED <<desk, plugins, clock, issued, refused, executions>>

-----------------------------------------------------------------------------
(* Settings and workspaces. *)

SettingsGet ==
    /\ form' = settings.workspaces
    /\ effect' = NoEffect
    /\ UNCHANGED <<settings, saved, legacy, nextId, plugins, clock, store>>

\* Fault: memory changes also when the save fails.
SettingsSaveMemoryFirst(destructive, saves) ==
    LET copy == [workspaces |-> form, destructive |-> destructive]
    IN /\ saved' \in Written(copy, saved, saves)
       /\ settings' = copy
       /\ effect' = NoEffect
       /\ UNCHANGED <<legacy, form, nextId, plugins, clock, store>>

\* cmd_settings_save writes the webview's whole copy: disk first, then memory,
\* which a save that fails leaves alone.
SettingsSave(destructive, saves) ==
    LET copy == [workspaces |-> form, destructive |-> destructive]
    IN /\ saved' \in Written(copy, saved, saves)
       /\ settings' = IF saves THEN copy ELSE settings
       /\ effect' = NoEffect
       /\ UNCHANGED <<legacy, form, nextId, plugins, clock, store>>

\* complete_setup: the profile is set in memory, and the settings are saved.
CompleteSetup(saves) ==
    /\ saved' \in Written(settings, saved, saves)
    /\ effect' = NoEffect
    /\ UNCHANGED <<settings, legacy, form, nextId, plugins, clock, store>>

\* cmd_workspace_add changes memory before the save, which can fail.
WorkspaceAdd(root, saves) ==
    /\ nextId < MaxWorkspaceId
    /\ root \notin Roots(settings)
    /\ nextId' = nextId + 1
    /\ settings' = [settings EXCEPT !.workspaces = @ \union {[id |-> nextId', root |-> root]}]
    /\ saved' \in Written(settings', saved, saves)
    /\ effect' = NoEffect
    /\ UNCHANGED <<legacy, form, plugins, clock, store>>

\* cancel_pending_for_workspace_root compares strings: only the approvals that
\* name the root the way settings spell it.
CancelledBy(root) ==
    {r \in pending : [root |-> root, spelling |-> "registered"] \in {issued[r].path, issued[r].dest}}

\* workspace_cleanup_impl: cancel approvals, drop from memory, then save.
WorkspaceRemove(w, saves) ==
    /\ w \in settings.workspaces
    /\ pending' = pending \ CancelledBy(w.root)
    /\ refused' = refused \union CancelledBy(w.root)
    /\ settings' = [settings EXCEPT !.workspaces = {v \in @ : v.id # w.id}]
    /\ saved' \in Written(settings', saved, saves)
    /\ effect' = NoEffect
    /\ UNCHANGED <<legacy, form, nextId, plugins, clock, issued, executions>>

\* The app is quit or dies, perhaps within a save, and starts again: approvals
\* live in memory only, and plugins may have been put in or taken out.
Restart ==
    /\ \E file \in {saved, Broken} : \E loaded \in Load(file, legacy) :
         /\ settings' = loaded.settings
         /\ saved' = loaded.saved
         /\ legacy' = loaded.legacy
    /\ form' = settings'.workspaces
    /\ plugins' \in Installation
    /\ pending' = {}
    /\ effect' = NoEffect
    /\ UNCHANGED <<nextId, clock, issued, refused, executions>>

Tick ==
    /\ clock < MaxTime
    /\ clock' = clock + 1
    /\ effect' = NoEffect
    /\ UNCHANGED <<desk, plugins, store>>

-----------------------------------------------------------------------------
(* The commands of the webview.  Only a move has a destination of its own.  *)

Put(caller, command, path, dest) ==
    /\ command \in Command
    /\ RequestApproval(caller, command, path, dest) \/ ExecuteDirectly(caller, command, path, dest)

FsWriteFile(caller, path) == Put(caller, "write", path, path)
FsDelete(caller, path) == Put(caller, "delete", path, path)
FsRename(caller, path) == Put(caller, "rename", path, path)
FsMove(caller, path, dest) == Put(caller, "move", path, dest)
ShellRun(caller, path) == \E command \in ShellCommand : Put(caller, command, path, path)

Next ==
    \/ \E c \in Caller, p \in Path :
         \/ FsWriteFile(c, p) \/ FsDelete(c, p) \/ FsRename(c, p) \/ ShellRun(c, p)
         \/ \E d \in Path : FsMove(c, p, d)
    \/ \E r \in Request : ApproveAndExecute(r) \/ DenyRequest(r) \/ TakeUnknown(r)
    \/ SettingsGet
    \/ \E b, saves \in BOOLEAN : SettingsSave(b, saves)
    \/ \E saves \in BOOLEAN : CompleteSetup(saves)
    \/ \E root \in Root, saves \in BOOLEAN : WorkspaceAdd(root, saves)
    \/ \E w \in settings.workspaces, saves \in BOOLEAN : WorkspaceRemove(w, saves)
    \/ Restart
    \/ Tick

Spec == Init /\ [][Next]_vars

-----------------------------------------------------------------------------
Record ==
    [caller : Caller, command : Command, path : Path, dest : Path, at : Nat]
Effects ==
    [command : Command, path : Path, dest : Path, caller : Caller,
     via : Request \union {"direct"}]

\* The shape of the stores; an id is only ever stored, refused or
\* executed once a record was created for it.
TypeOK ==
    /\ settings \in Settings
    /\ saved \in Config \union NoConfig
    /\ legacy \in LegacyFile \union {NoLegacy}
    /\ form \in Workspaces
    /\ plugins \in Installation
    /\ nextId \in Nat
    /\ clock \in Nat
    /\ issued \in [Request -> Record \union {NoRequest}]
    /\ pending \union refused \subseteq {r \in Request : issued[r] # NoRequest}
    /\ executions \in [Request -> Nat]
    /\ effect \in Effects \union {NoEffect}

\* "At most one caller can ever retrieve a given approval": however often the
\* webview confirms, and whatever happens between, one request runs once.
SingleExecution == \A r \in Request : executions[r] <= 1

\* What the user denied, and what the removal of its workspace cancelled, is
\* never executed, also when the directory becomes a workspace again.
RefusedNeverExecuted == \A r \in refused : executions[r] = 0

\* A plugin whose id the command contains, and what it asks of the user: its rule is before
\* all of the default policy's.
NamedBy(d, command) == command \in ShellCommand /\ d.id \in Contained[command]
Trusted(command) ==
    \E i \in DOMAIN plugins : NamedBy(plugins[i], command) /\ ~RequiresApproval(plugins[i])

\* Whatever the agent changes, and whatever anyone deletes, renames or moves, was confirmed:
\* it carries out the very record the approval was asked for.  The exception is a command
\* whose id contains the id of an installed plugin that asks for no approval.
ChangesAreApproved ==
    (effect # NoEffect /\ (effect.caller = "agent" \/ effect.command \in Destructive)) =>
        \/ Trusted(effect.command)
        \/ /\ effect.via \in Request
           /\ issued[effect.via] = [caller |-> effect.caller, command |-> effect.command,
                                    path |-> effect.path, dest |-> effect.dest,
                                    at |-> issued[effect.via].at]

\* The timeout fails closed: nothing is executed at or after its request's expiry.
NoLateExecution ==
    (effect # NoEffect /\ effect.via \in Request) => clock < issued[effect.via].at + Ttl

\* Nothing is touched outside the workspaces registered at that moment, also
\* when they changed between the request and its execution.
OnlyInWorkspaces ==
    effect # NoEffect => {effect.path.root, effect.dest.root} \subseteq Roots(settings)

\* A blacklisted command neither runs nor is put to the user, unless the command contains the
\* id of an installed plugin.
Blacklisted(command) == command \in ShellCommand /\ "blacklist" \in Contained[command]
Vouched(command) == \E i \in DOMAIN plugins : NamedBy(plugins[i], command)
BlacklistHolds ==
    /\ effect # NoEffect /\ Blacklisted(effect.command) => Vouched(effect.command)
    /\ \A r \in pending : Blacklisted(issued[r].command) => Vouched(issued[r].command)

\* Nothing but the user's own save opens the destructive gate: no restart, whichever saves
\* failed or were cut off and whatever stale copy was saved, unless an older version left the
\* gate open in a settings.json that is still there.
GateOpensByUserOnly ==
    [][(settings'.destructive /\ ~settings.destructive) =>
         \/ \E saves \in BOOLEAN : SettingsSave(TRUE, saves)
         \/ legacy # NoLegacy /\ legacy.destructive]_vars

\* One directory is never two workspaces, in memory or on disk.
OneWorkspacePerDirectory ==
    \A s \in {settings, Read(saved)} : \A v, w \in s.workspaces : v.root = w.root => v = w

-----------------------------------------------------------------------------
(* What the documentation says, and the program does not do. *)

\* "Migrates from settings.json if config.json doesn't exist": a migration that finds a
\* config.json would open a gate the user has closed since.
MigratesOnlyOnce ==
    [][(legacy' # legacy /\ saved # Missing) =>
         (settings'.destructive => settings.destructive)]_vars

\* "Static deny - command blacklist", which is put before everything but the path block list.
BlacklistIsStatic ==
    /\ effect # NoEffect => ~Blacklisted(effect.command)
    /\ \A r \in pending : ~Blacklisted(issued[r].command)

\* "As agent: a plugin with `dangerous: true` would require approval before execution."
DangerousPluginsAsk ==
    (effect # NoEffect /\ effect.caller = "agent" /\ effect.via = "direct") =>
        \A i \in DOMAIN plugins : plugins[i].id = effect.command => ~RequiresApproval(plugins[i])

\* "UI FS read / write, shell exec | Allow": the ui may run what the built-in catalog has.
CatalogIsAllowed ==
    \A c \in Command \intersect BuiltinCommand : Decided("ui", c) # "deny"

\* What the toast says of a destructive operation that was carried out:
\* "(Destructive operations enabled in Settings.)".
DestructiveOnlyWhenEnabled ==
    (effect # NoEffect /\ effect.command \in Destructive) => settings.destructive
=============================================================================
