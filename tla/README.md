# TLA+ models of oxcer-agent

This directory holds TLA+ specifications of the Oxcer agent, the TLC instances that
check them, and TLAPS proofs about them. Every module is translated from the code;
`PROJECT.json` maps each definition to the file and the lines it stands for. Paths below
are relative to the root of the repository.

- [The system](#the-system): components, state, operations, interactions
- [What is hard in it](#what-is-hard-in-it)
- [Modules](#modules): what models what, and how
- [Runs](#runs): what TLC checks, with which bounds, and what it shows
- [Findings](#findings): where the code and its documentation part
- [Proofs](#proofs): what TLAPS proves, and along which argument
- [Not modelled](#not-modelled), and [the plan](#plan)

To check a module: `tlc -workers 2 -config MCLauncher.cfg MCLauncher`; to prove one:
`tlapm Launcher_proofs.tla`.

## The system

Oxcer is a desktop agent: a user types a task, the agent plans a few tool calls (list a
directory, read a file, delete a file, ask a language model), performs them on the user's
machine, and answers. Two hosts share one Rust core:

- **OxcerLauncher** (`apps/OxcerLauncher`, Swift): chat sessions in a sidebar. Its step loop
  calls the core through `oxcer_ffi`, performs the tools in Swift, and asks the user before a
  delete.
- **desktop-tauri** (`apps/desktop-tauri/src-tauri`, Rust with a webview): a command router
  with workspaces, settings, a policy check on every command, a store of pending approvals,
  and durable logs.

| Component | State | Operations | What makes it correct |
|---|---|---|---|
| Orchestrator session (`oxcer-core/src/orchestrator`) | plan, step index, accumulated text, last listing, traces, approvals | `start_session`, `next_action` | the model is asked only about evidence it was given; a failed step ends the session; the traces are what ran |
| Swift step loop (`AgentRunner.swift`, `SwiftAgentExecutor.swift`) | iteration, last result, cancellation | step, request approval, execute, stop | nothing destructive without consent to that step; stop is prompt; the loop ends |
| Launcher sessions (`ContentView.swift`, `SessionModels.swift`, `ChatInputBar.swift`) | sidebar, selection, and per session the task, the generating flag and the published continuation | create, select, send, stop, delete, answer an approval; the run's hops to the main actor | a continuation is resumed exactly once; every run can be stopped; a stopped one settles |
| Policy engine (`oxcer-core/src/security`, `policies/default.yaml`) | the rules | `evaluate` | first match decides; deny by default; the agent is never allowed more than the ui |
| Command router and approvals (`main.rs`, `router.rs`, `commands.rs`) | settings, pending approvals, windows | the fs and shell commands, `cmd_approve_and_execute`, workspace add and remove, settings get and save | one consent, one execution, in time, in a workspace of now |
| Settings persistence (`settings.rs`) | `config.json`, an older version's `settings.json` | load with its migration, save | a directory is one workspace; nobody but the user opens the destructive gate |
| Durable logs (`event_log.rs`, `telemetry.rs`, `agent_sessions.rs`) | JSONL files | `append`, `rotate_retention` | what was logged can be read, in order, within the limits |
| First-run setup and engines (`oxcer_ffi/src/lib.rs`, `llm/`, `ContentView.swift`, `CloudSettingsViewModel.swift`) | engine singletons, cloud engine slot, model file, readiness of each window | `ensure_local_model`, `generate_text`, `activate_cloud_provider`, the settings screen | a window is ready when there is a model; one engine is loaded; the cloud answers only when the settings say so |
| Semantic router and planner (`semantic_router.rs`, `planning.rs`) | none | `route_task`, `start_session` | the plan fits the task: runnable, flagged, grounded in files |
| ReAct machine (`fsm.rs`, `executor.rs`, `guardrail.rs`, `db.rs`) | state, steps, last document, recent files | `run` | a query ends; "this file" is the latest |
| Memory and subagents (`memory.rs`, `subagent.rs`) | `memory.md` and each call's copy of it | `orchestrate`, `append_fact` | facts recorded are there for the later phases of the call |
| Desktop agent step (`main.rs`, `cmd_agent_step`) | the stored session | first step, step with a result | the session follows what happened |
| Language-model calls and cost (`main.rs`, `llm_metrics.rs`) | cost per session, alerted flag | `cmd_llm_invoke`, the summary of a completed session | overspending is noticed, no cost is lost |
| Shell tool (`shell.rs`) | child process, pipes, timeout | `shell_run` | the main thread gets free again |
| File system tool (`fs.rs`) | the disk | path resolution, read, write, delete, rename, move | nothing outside a workspace changes; a move loses nothing |
| Prompt sanitizer and data sensitivity (`prompt_sanitizer.rs`, `data_sensitivity.rs`) | none | merge, mask, decide | what was found is masked, and nothing else |
| Plugins (`plugins/`) | loaded descriptors | load at start-up, merge with policy and catalog | a plugin changes no decision about files; what its rule allows is what the user installed it for |
| MCP client, log viewer | | | pure I/O or presentation |

**How they interact.** The launcher's main actor starts one Swift task per message; the task
runs the step loop off the main actor and comes back to it by hops (`MainActor.run`): to
publish an approval, to set a phase label, to finish. The loop calls the orchestrator through
FFI, one synchronous call per tool result, and hands it the result of the tool it performed.
An approval is a `CheckedContinuation` which the run creates and the main actor resumes.

In the desktop app the webview sends commands. All but the language-model and setup commands
are synchronous and run one at a time on the main thread. A command is looked up in the
policy; it is denied, executed, or turned into a record in `PendingApprovalsStore` and an
error that carries the record's id. The webview then sends `cmd_approve_and_execute` with
the id and the user's decision. Settings and workspaces live in memory behind a mutex and
are saved as one file. Whatever happens is appended to log files, each rewritten in place
when it is rotated. The webview also hosts the agent: it performs the tool of each
`cmd_agent_step` with a command of its own and hands the result to the next one, and it may
call `cmd_llm_invoke` meanwhile, which runs on worker threads and shares the cost stores.

The launcher's core also exports two agents beside the step API, `orchestrate_query` (the
ReAct machine) and `ffi_orchestrate` (the subagents). They share the loaded engine and no
other state.

## What is hard in it

`PROJECT.json` lists each hazard at its line with the properties that would catch it. In
groups:

- **Suspension points of the step loop.** Between the request for approval, the user's
  answer, the execution and the next call of the orchestrator, a stop can arrive anywhere.
  Consent given to one step must not serve another, and a denial must not fall through.
- **State read early and used late.** The orchestrator substitutes text and file names
  captured in earlier steps; an approval executes a request that was checked minutes
  earlier against settings that have changed since; the webview saves settings from a copy
  it fetched long before.
- **Continuations.** Stop, Delete, an answer and the end of a run all resume or drop the
  same continuation, which exists before it is published. Twice is a crash, never is a hang.
- **Timeouts.** An approval expires without anything removing it; a generation that is no
  longer awaited goes on running; a child's pipes are read only when it has ended, and then
  without a limit; the ReAct machine's commands have no limit at all.
- **Crashes and failed writes.** Logs, settings and facts are rewritten in place; memory is
  changed before the save that can fail; a settings file that does not parse is replaced by
  an older one; a model is downloaded in place; a move is a copy and a removal; the Keychain
  may refuse any call.
- **Threads on shared stores.** First inferences race for the engine; generations add to a
  session's cost while a completed step takes it away. Each call is locked, no sequence is.
- **Copies that must follow their original.** The cloud engine's slot follows three settings;
  a window's readiness follows a static; a fact store's copy follows the file.
- **Limits.** The step budgets, the size limit of a log, the pipe's capacity, compaction.
- **Orders and overlaps.** The policy is first match, the rules of plugins come first, and a
  rule matches every id that contains its pattern: one rule in the wrong place opens it
  silently. Findings that overlap are merged and masked from the last to the first.
- **Two lists of words.** Router and planner read the same task with lists of their own.

## Modules

| Module | Models | Composition |
|---|---|---|
| `Planning` | the semantic router and the planner, as operators on the marks of a task | |
| `AgentSession` | the orchestrator's session: `start_session` and `next_action` | EXTENDS `Planning`; the state and actions that a host's module EXTENDS |
| `AgentRunner` | the Swift step loop hosting a session, and the executor's results | EXTENDS `AgentSession`, implements `AgentTask` |
| `AgentTask` | abstract: what one run promises the user | the refinement target of `AgentRunner` |
| `Launcher` | chat sessions, their runs, stop, delete and approvals | a run is the loop of `AgentRunner` reduced to where it suspends |
| `ModelSetup` | the first-run setup: windows, `ensure_local_model`, the download | |
| `Engines` | engine singletons, cloud slot, settings screen, `generate_text`, restarts | EXTENDS `ModelSetup` |
| `Policy` | rule matching, the shipped and the built-in rules, loading and merging, as operators | used by `Plugins`, `FileTool` |
| `Approvals` | the command router under the policy that `main()` installs, pending approvals, settings and workspaces, restart | EXTENDS `Plugins` |
| `FileTool` | path resolution, the read commands, write, delete, rename, move | EXTENDS `Policy` |
| `Plugins` | loading, rules and commands of plugins, as operators | EXTENDS `Policy`; `Approvals` installs its rules, `MCDesktop` merges its commands into the catalog of `ShellTool` |
| `ShellTool` | a shell command from request to result, with its child | |
| `DesktopAgent` | `cmd_agent_step` and concurrent `cmd_llm_invoke` over the cost stores | EXTENDS `AgentSession` and `ShellTool`, which share the main thread |
| `Ordering` | sorting, as what a sort promises | EXTENDed by `Scrubber` and `EventLog` |
| `Scrubber` | merging, masking and the decision about a payload | EXTENDS `Ordering` |
| `Fsm` | the ReAct machine with its executor and guardrail | |
| `Subagents` | the explore, plan, execute pipeline over `memory.md` | |
| `EventLog` | append and retention of a log file, with crashes | EXTENDS `Ordering` |
| `AgentRunner_proofs`, `Launcher_proofs`, `Engines_proofs`, `EventLog_proofs`, `Ordering_proofs` | theorems about that module | EXTEND it |
| `Approvals_proofs` | theorems about `Policy`, `Plugins` and `Approvals` | EXTENDS `Approvals` |
| `Desktop_proofs` | theorems about `Planning`, `DesktopAgent`, `ShellTool`, `FileTool`, `Scrubber`, alone and composed | EXTENDS `MCDesktop` |
| `Assistants_proofs` | theorems about `Fsm` and `Subagents` | EXTENDS `MCAssistants` |
| `MC...` | the TLC instances | |

An operator introduced by a comment that begins with `Fault:` is a plausible slip in the code it
stands beside: a dropped guard, a missing reset, an off-by-one. No specification uses one.
Substituted for the operator it imitates, each makes TLC find one property violated
(`PROJECT.json`, "mutants"), which shows that the property depends on the code.

### Planning, AgentSession and AgentRunner

`Planning` abstracts a task to which keyword lists its text hits (`Mark`), its length, and
what the host knows of it (selected paths, a workspace, a home directory). `Strategy` is
`route_task`, first rule that matches; `PlanOf` is `start_session` with the five builders of
`planning.rs`. `Written` says how the lists contain one another: a deletion's verb is a tool
verb, a well-known directory is a directory hint.

One call of `agent_step` is one action, because the handler is synchronous. `StartSession`
picks any plan that `start_session` can build in this release (`Plans`, which is what
`PlanOf` ranges over: theorem `PlansAreRunnable`); `FailStep`, `RejectNarration` and
`FinishStep` are the branches of `next_action`. The branches of the two workflows that this release does not
build (plan expansion after a listing, and several files at once) are left out.

Texts are abstracted to what the handler can tell apart: ordinary prose, blank, starting
with a brace (which the evidence guard takes for a serialised payload), and a narration of
tool calls (which the sanitizer refuses in a Task session). A payload without a text field
is accumulated as its JSON, hence as a brace. A response carries the number of the step it
came from, which the code does not store and which the properties need.

`AgentRunner.pc` is where the Swift loop is: `step` (top of an iteration), `approval`
(suspended in `onApprovalNeeded`), `executing` (awaiting the executor). `Iterate` is
everything between two of these: the cancellation check, the FFI call, and the decision on
its outcome. `Execute` picks any result the tool's handler can report, failure included:
the executor captures errors and never throws. `agentStep` does throw, when the core cannot
be called or its answer not be decoded: `AgentStepThrows` ends the run there. `RequestStop`
can come at any time. History
variables (`executed`, `consents`, `stoppedAt`) record what the properties compare.
The FFI result type has only `ok` and `error`, so `AwaitApproval` of the session is not
reachable from this host; `DesktopAgent` reaches it.

`AgentTask` says it without any of that: the tools of the plan are performed in order and at
most once each, a gated one only when granted, and the answer comes after all of them.
`AgentRunner` maps its `executed` tools to `performed`, consents to grants, and an answer
in the handler's own words (a failure notice) to giving up.

### Launcher

A run of session `s` has the program counter `pc[s]`: `starting` (task created, not yet on
the main actor), `step`, `asking` (the continuation exists, the hop that publishes it is
queued), `waiting` (published), `executing`, `revealing`, `ending`. User actions are one
step each: they run on the main actor without suspending. `StopGeneration` is the helper
that `PressStop` and `DeleteSession` share, as in the code. The Swift objects outlive the
sidebar, so a deleted session's run goes on in the model until it ends. Session names are
reused once a deleted session's run has ended; the code makes a fresh object. `SendMessage`
tests the `generating` flag, as the input bar does, and assumes of the user that nobody sends
a second message before the main actor has started the task of the first, which sets it.

### ModelSetup and Engines

A window's view model calls `ensure_local_model`, whose call in flight is `call[v]`: `look`
(is a file there?), `request`, `stream`, `link`. The model file is the set of its chunks that
hold data, because two windows may download at once, each at an offset of its own, into one
file which `File::create` empties for both. `linked` is the name the loader opens. `rooted`
and `attempted` are the statics that live as long as the process, `QuitSetup` its end. A check
that finds no configuration directory ends with an error (`CheckAndPrepare`), and so does one
that fails, which leaves `ready` as it was (`Prepared`). The load of the workspaces that follows
a success is taken to return at once.

`Engines` adds who answers. A generation (`gen[c]`) takes the cloud slot if it is set, else
the published engine, else the lock; under the lock it looks again and loads. The settings
screen writes `useCloud`, `chosen` and the `keychain` and synchronises the slot after each
change (`Synced`); a window that opens restores the slot from what was saved (`Open`), with
other conditions than `Synced` has. Keys are as typed, white space included, and `apiKey` is
the one on the screen. The Keychain may refuse any call: a load that is refused reads as no
key (`LoadKey`), a save or a deletion leaves what is there (`SaveKey`). `SelectProvider` is the
three calls that the change of a provider makes, in their order.

### Policy and Approvals

`Policy.DefaultRules` is `default.yaml` rule by rule, and `BuiltinRules` what the program
uses when the file does not load (`LoadPolicy`). A request carries the patterns found in its
target instead of the target itself: the name of a list of the policy, or the id of a plugin.
`Plugins` brings rules that come before the others (`MergeRules`) and commands that replace
those of the same id (`MergedCatalog`).

`Approvals` decides by the policy that `main()` installs, `Installed(plugins)`: the rules of the
plugins that the last start found, then the default ones. `Contained` says which patterns an id
contains; a pattern matches wherever it is found in an id, so a rule written for one plugin, or
for one blacklisted word, decides for every command whose id contains it. `AsRequest` is the
request that a command becomes, `PolicyDecision` the table of all decisions. A start picks any
of the `Installation`s, because files can be put into the directory and taken out of it
between two starts.

In `Approvals` each synchronous command is one step. `FsWriteFile`, `FsDelete`, `FsRename`,
`FsMove` and `ShellRun` share `Put`: `RequestApproval` and `ExecuteDirectly` are the two ways
they end, for each caller; `ApproveAndExecute`, `DenyRequest` and `TakeUnknown` are the branches of
`cmd_approve_and_execute`. The store sweeps expired records at the start of every insert and
take: that is `Unexpired`. The order in which memory and disk change is the code's:
`cmd_settings_save` writes disk and then memory, and returns early when the write fails;
adding and removing a workspace and completing the setup change memory and then try to save.
`saves` is whether that succeeds: a save that fails leaves the file as it was or cut off
(`Written`), and so does the end of the process within one (`Restart`). A file that is missing
or does not parse is `NoConfig`. `config.json` holds the destructive gate under two keys, an old
and a new one, and either of them opens it (`Read`). `Load` is a start: without a `config.json`
that parses, a `settings.json` of an older version (`legacy`) is taken over, saved and removed,
and neither the save nor the removal is checked; without that, the defaults. `form` is the webview's copy of
the settings, which it writes back whole. A path has a directory and a spelling, because
the router compares paths in two ways: canonically when it executes, and as strings when it
cancels the approvals of a removed workspace. `effect` is what the last step did to the file
system. `issued`, `refused` and `executions` are history.

### DesktopAgent, ShellTool, FileTool and Scrubber

`DesktopAgent` is one session id of the desktop app. `RunFirstStep` plans a task and stores
the session, `ResumeStep` takes any result the frontend hands back, the pending approval
included; both are whole commands of the main thread, but for the cost check at their end.
A `cmd_llm_invoke` is a thread whose locked calls are the steps `AddCost`, `GetTotals`,
`HasAlerted`, `MarkAlerted`; a completed agent step takes the totals for its summary and
makes the same check, so the main thread is one of the threads. The threshold is a setting,
read when a cost is compared with it (`CompareThreshold`) and changed by the user at any time
(`SaveThreshold`). Cost is counted in generations.

`ShellTool` is `shell_run`. `Refusals` is what stops a request before anything is spawned:
an unknown command, a parameter that is missing, of the wrong type, or refused by the
resolution of its path (`ValueRefusal`: the file service's "forbidden" and "io" stay what they
are), a workspace that is not named, a word of the deny list in the binary's name or in an
argument as it will be passed (`Denied`). Which of several bad parameters is reported depends
on their order, which is left open, and parameters are taken to be a JSON object. Then come the
polling loop with its time limit and the reading of the two pipes up to their caps, standard
output to its end before standard error. The child is external: it writes into either pipe
until that is full, exits or hangs, and may leave a descendant that keeps the pipes open and
goes on writing.

`FileTool` has a disk of entries, which are files, directories or links, each in a workspace,
in the application's configuration, or outside; a path can lie below two workspaces, one of
them inside the other (`BasesOf`). `Canonical` follows the link, `ResolveRefusal`
compares where it leads with where the request said it would be, and the system calls use
the canonical path, as in the code. Because a path that does not exist cannot be
canonicalised, no request can name one: nothing is ever created. The read commands ask the
policy by `DefaultRules`, since no plugin changes a decision about a file (theorem
`PluginsLeaveFilesAlone`). `MoveCopy` and `MoveRemove`
are two steps, and the application may end between them.

`Scrubber` has a payload of positions and any findings the rules can make. `Sorted` is the
code's order of the findings, `MergedSpans` and `Deduped` are its two passes over them, and
`Replaced` masks from the last to the first; each pass is a function of the number of items
it has seen, which the proofs can take apart. Shortened paths only change how much is left:
`NormalisedLengths`. `ScrubDecisions` are the verdicts a payload can get: refused for what must
never be sent, unless the preview of 200 bytes in the log is cut inside a character and
panics; else blocked when at most half is left; else sent.

### Fsm and Subagents

`Fsm` is `AgentFsm::run` state by state. The model's text is free, so that `SelectAction`
picks any tool call the guardrail lets through, or one of the endings; `Execute` fails or
succeeds as the executor's guard and the disk permit. A query asks for a summary or does not.
Outputs matter only in whether they can be cut at a fixed byte: the prompt for the next
action quotes up to byte 1000 (`fsm.rs:303`), the prompt for the answer up to byte 2000
(`fsm.rs:324`), and a cut inside a character ("wide", "wider") panics, which the FFI reports
as an error. A long document is cut in the same way when it is read (`ReadPanics`). A shell
command of the model's is waited for without a limit (`WaitsForShell`). `Without` and `PushRecent` keep the list of recent files. `used` is history.

In `Subagents` each call loads `memory.md` once, appends to its copy, and writes the copy
back after every fact. A fact is its kind and the set of files it names: a listing names
several, and what the facts name (`Recalled`) is where the targets of a query that names no
file come from. The write says nothing when it fails: the file is as it was, or was truncated
and holds a part of the facts, of which the last may name less (`Torn`), whether the process
goes on (`AppendFact`) or dies (`Die`). A call that starts while another one saves may load such
a part (`Loaded`). `recorded` is history.

### EventLog

A line is the sequence of entries in it, so that a line glued to the one before it is a
sequence of two, which does not parse. `terminated` is whether the file ends in a newline.
`append` is cut into its system calls: the two writes of `writeln!`, the read, the
truncation and the write of `std::fs::write`. A crash can come between any two. All
entries have one size, so the limit in bytes is a number of entries. `Readable` and `Recent`
select lines and entries (`Selected`), `ByTime` is the stable sort by time stamp (`Arranged`
by `Sooner`). The scan of `rotate_retention` compares sizes before it adds an entry; with
entries of one size that is keeping the newest `MaxEntries`.

## Runs

| Run | Question | Bounds, and why they are enough |
|---|---|---|
| `agent_runner` | Does the loop keep consent, evidence, traces, answers and termination right, and does it implement `AgentTask`? | All seven plans, whose longest has 3 steps. Budgets 2, 3 and 4: too small for the longest plan, exactly one iteration short of it, and enough. Two files give listings whose order matters; a third adds none. One approval id, not used by this host. |
| `approvals` | One consent, one execution, in time, in a registered workspace? Is what the agent changes confirmed, and what is blacklisted out of reach, but for what a plugin's rule names? Can anything but the user open the gate? | One request id: the properties are about one request, and records do not interact except through the sweep. `Ttl` 1 and `MaxTime` 1 reach expiry at its exact tick. Three scenarios, which `MCApprovals` keeps apart. *Default policy*: write, and move from one of two directories to the other, so that a move has two workspaces and one of them can go; two workspace ids, so that a directory can return. *Plugins*: shell commands, delete and rename in one directory, with no plugins, a harmless formatter with a dangerous pusher behind it whose id contains the first one's, or the pusher alone. Both ids contain the blacklisted "rm", as the built-in `format_code` does; `run_tests` contains nothing. So each default rule and each plugin's rule decides somewhere, and a rule decides for another plugin's command. *Older version*: no commands; saves that fail or are cut off, restarts, and an old settings file with the gate open and a workspace or none. |
| `approvals_gate` | Is a destructive operation carried out only while the gate is on? | the same instance; violated, see below |
| `event_log` | What do append and retention keep, through crashes? | Five appends against a limit of two entries, four days against an age of two, two crashes: both limits bite, alone and together, and a crash can follow a recovery. |
| `event_log_retention` | Is a logged entry readable until a limit is reached? | no crash; violated, see below |
| `launcher` | Are continuations resumed once, can runs be stopped, do stopped ones settle? | Two sessions, so that selection, deletion and runs of different sessions interleave; two iterations per run, so that a run can ask twice. |
| `launcher_delete` | Does the run of a deleted session end? | one session; violated, see below |
| `engines` | Is a window ready only with a model, is one engine loaded, is the slot what the settings say, does every setup end? | Two windows and two generations, so that setups, downloads and loads race in pairs; the file has a first and a last chunk, which is what the loader looks at; two downloads, so that one breaks off and one is retried or both run at once; two providers; two processes. With all of that two changes of the settings, which turn the cloud on with a key that is trimmed; and while no setup or generation goes on four changes with every kind of key, so that the cloud is turned on with a provider and a key and that state is left again. The Keychain may refuse any call. |
| `engines_ready` | Is a ready window one with a whole model? | one window; violated, see below |
| `assistants` | Are the recent files the latest, and does a query end? Does a call keep what it loaded and recorded? | Two inside paths and one outside, four steps against a list of two, so that a file is used again, and one is evicted. Two calls of the subagents, one after the other or overlapping, a store of three facts that compacts to two, one file: a compaction after a compaction, and a load of every torn file. The second of two overlapping calls is of a query that names no file (`SecondJoins`). |
| `desktop` | Is overspending noticed, are plans grounded, is masking exact, does the main thread get free, are changes confined and moves safe? | Tasks that reach each builder; two runs, so that a new session replaces a stored one; two concurrent generations, three that succeed against a threshold of none or one: the threshold is passed, and changed, with the totals taken before, between and after. Shell: a child, and a descendant after it, that writes three times what a pipe holds and more than is kept, a catalog with plugins merged in, every refusal. Scrubbing: three findings of three rules in five positions: overlap, contact, containment, ties. Files: two workspaces, one inside the other, a link that leads to its neighbour, outside, or to a blocked file; three requests. |
| `desktop_move` | Is a file that was moved at its destination? | violated, see below |

`agent_runner` and the runs of `approvals` check for deadlock: a run that has ended stutters,
and the router always has a command to take. The others do not: sessions, windows and queries
may rest, and logs, downloads and calls stop at their bounds. `MCDesktop` explores apart what
shares no state, or only the main thread, which one command has at a time: scrubbing and the
file service, each while all else rests; the shell while no session is there; the session with
concurrent generations and a changing threshold for the task that is a question, and without
generations for every task. `MCAssistants` explores each agent while the other has not begun, and
`MCEngines` long sequences of settings apart from setups and generations. The scenarios of
`MCApprovals` differ in what a start finds and in what the webview sends. The products would only
multiply the same states; the theorems below hold without any of these restrictions but the ones
between components that share nothing.

### Fairness

`AgentRunner`: weak fairness of `Iterate`, `CheckCancellation`, `StepLimitExceeded` and
`Execute`. The Swift runtime schedules a task that can run, and a tool call returns. It
assumes that a tool's handler returns, which the generation's timeout does not guarantee (see
the hazard at `SwiftAgentExecutor.swift:122`). The user is under no obligation:
`RunSettles` allows a run to wait for an answer for ever.

`Launcher`: weak fairness of each session's run, `Start` and `Publish` included, because the
main actor is a serial queue that is drained. Users owe nothing. `StoppedRunSettles` has two
parts: a run that is stopped anywhere but at its approval gate ends, and one that is stopped
there, in a session of the sidebar, leaves the gate or has its question published where the
user can answer it, until that session is deleted. What becomes of it then is finding 3.

`Engines`: weak fairness of each `ensure_local_model` call. Tokio runs it to its end and the
main actor takes its result; a server that never answers is a failure of the request, which
the HTTP client reports. `SetupSettles` says that every check of the model ends with the
window ready or the error shown.

`MCDesktop`: weak fairness of `ShellWorks`, the steps of the loop that runs the command. The
child and its descendants are owed nothing: they may hang. `CommandsSettle` therefore holds by
the time limit, and says so only of executions in which no descendant keeps the pipes open for
ever; without that condition it fails (`CommandsTimeOut`, below).

`Fsm`: weak fairness of the loop, which runs on a blocking thread that nobody abandons, but
not while it waits for a shell command, which nothing makes end. `QueryEnds` says that a query
ends unless it waits for ever for one such command, and rests on the step limit; without the
exception it fails (`QueryAlwaysEnds`, below).

`Approvals`, `EventLog`, `Subagents`, `Scrubber` and `FileTool` have safety properties only.

## Findings

1. **The destructive gate is not read at execution** (`approvals_gate`,
   `DestructiveOnlyWhenEnabled`). Switch destructive operations on, ask for a delete, switch them
   off, approve: the file is deleted, and the toast says "(Destructive operations enabled in
   Settings.)" (`main.rs:1332`).
2. **Retention leaves the log unterminated** (`event_log_retention`, `LoggedEntriesKept`).
   `rotate_retention` writes `kept.join("\n")`; the next append continues the last line, the
   glued line does not parse, and the rotation of that append drops both entries. Without
   a crash, and from the second entry on, although "durable history is always read from this
   file" (`event_log.rs:4`). `CleanAppendRetains`, in the passing run, says what does hold: an
   append to a terminated file keeps everything it should.
3. **Deleting a session between asking and publishing** (`launcher_delete`, `DeletedRunEnds`).
   The continuation exists before the hop that publishes it. Delete stops a run that has
   published nothing; the hop then publishes the approval in a session that has no overlay
   any more, and the run waits for ever. Pressing Stop in the same window is harmless, because
   the overlay then appears: that is `StoppedRunSettles` of the passing run.
4. **A part of a model is taken for the model** (`engines_ready`, `ReadyMeansIntact`). Any
   file that exists and is not empty is reported as "Ready" (`oxcer_ffi/src/lib.rs:303`), and
   the download writes in place. After one that broke off, Retry succeeds at once, the window
   is ready, and the loader finds no model under the name it opens.
   "isModelReady flips to true only after ensureLocalModel confirms file
   integrity" (`ContentView.swift:361`) is what the code does not do.
5. **A file moved onto itself is lost** (`desktop_move`, `MovedIsThere`). `fs_move` copies and
   removes without comparing the two canonical paths: the copy empties the file, the removal
   takes it away, and the toast says that it was moved. It takes one approved move to the
   file's own path, or through a link to it.

Nine more statements of the documentation fail in the models. They have no run of their own. Each
is a definition at the end of its module, under "What the documentation says, and the program
does not do" or beside the property that does hold; with its name as the only INVARIANT
or PROPERTY of the instance's cfg, TLC shows the execution.

- **A pattern matches inside an id** (`CatalogIsAllowed`, `MCApprovals`). The blacklist's
  "rm" is found in `format_code`, a command of the built-in catalog, which is therefore denied
  to everyone (`policy_config.rs:579`), although the ui may execute shell commands
  (`docs/security.md:41`).
- **A harmless plugin decides for a dangerous one** (`DangerousPluginsAsk`, `MCApprovals`). If
  the id of the first is contained in that of the second and its file comes first, the agent runs
  the second without a question, although "a plugin with `dangerous: true` would require approval
  before execution" (`docs/internal/PLUGIN_SYSTEM.md:177`).
- **The blacklist does not come first** (`BlacklistIsStatic`, `MCApprovals`). The rules
  of plugins are put before the default policy (`main.rs:2148`), so that a blacklisted command
  of a plugin runs; `docs/security.md:36` gives the blacklist priority 1.
- **Old settings come back** (`MigratesOnlyOnce`, `MCApprovals`). "Migrates from
  settings.json if config.json doesn't exist" (`settings.rs:260`), and also when it does not
  parse: after a migration that could not remove the old file, a save that is cut off brings
  the old settings back at the next start, the destructive gate included. A migration whose save
  fails and whose removal does not loses the list of workspaces (`settings.rs:297`).
- **A change of the provider can delete a key** (`SwitchKeepsKeys`, `MCEngines`). A load
  that the Keychain refuses reads as an empty key, which `apiKey`'s observer saves, and saving
  an empty key is deleting (`CloudSettingsViewModel.swift:87`, `KeychainHelper.swift:40`).
- **A query need not end** (`QueryAlwaysEnds`, `MCAssistants`). `exec_shell` has no time
  limit, and `tail` may be run with any arguments (`executor.rs:139`): `tail -f file` never returns.
- **Overlapping calls lose facts** (`SavesKeepFacts`, `MCAssistants`). Each call writes
  its own copy of the fact store whole (`memory.rs:220`), although "facts survive crashes"
  (`memory.rs:90`). `FactsAreKept`, in the passing run, is what does hold: the call's own copy.
- **A command may outlive its time limit** (`CommandsTimeOut`, `MCDesktop`). The pipes are
  read after the child's exit without a limit (`shell.rs:718`); a descendant that has inherited
  them holds the command, and the main thread.
- **A refusal may panic** (`NeverSendIsRefused`, `MCDesktop`). The log's preview is cut
  at byte 200 (`prompt_sanitizer.rs:219`), which may be inside a character; the payload is not
  sent, but the call panics and leaves no entry in the audit log.

Three more were seen and are stated by no definition. At launch the cloud engine is restored
only when a provider was saved, and the settings screen saves it only when it is changed
(`OxcerLauncherApp.swift:62`). The ReAct loop writes an answer beside the document of a failed
read, as its summary (`fsm.rs:179`). The built-in rules of the policy are said to be the same as
`default.yaml` (`policy_config.rs:293`), and differ in the blacklist and in what the path block
list is for; `FallbackDecidesAlike` says that they differ in nothing else.

## Proofs

`tlapm` checks every theorem for all values of the constants. The assumptions are the named
ASSUMEs of the modules, which TLC evaluates on the instances:

| Assumption | In |
|---|---|
| budgets are positive, the listing bound is a natural number | `AgentRunner` |
| the budget is positive; no session is called `None` | `Launcher` |
| the time to live is positive; no request id is `"direct"`; a shell command's id contains itself and no path; plugins are named unlike the lists of the policy; an old settings file has no directory twice | `Approvals` |
| age and bounds are natural numbers, the size limit is positive | `EventLog` |
| a file has a chunk; bounds are natural numbers | `ModelSetup`, `Engines` |
| keys are the four kinds, the empty one among them; there is a provider, and none is called `NoProvider`; no caller is called `"free"` | `Engines` |
| thresholds and bounds are natural numbers, and one threshold is the highest; tasks are written as `Written` says; the frontend hands back only results a step can have | `DesktopAgent` |
| sizes and limits are natural numbers; parameters have one of the five types, their values one of the refusals | `ShellTool` |
| no link leads to a link; a path lies below some of the bases; the bound is a natural number | `FileTool` |
| rules are numbers, each with a level; lengths are natural numbers | `Scrubber` |
| paths inside and outside differ, documents are inside; limits are positive | `Fsm` |
| compaction keeps at least one fact and fewer than the limit; what a search shows is not a file | `Subagents` |

**AgentRunner_proofs.** The inductive invariant says that loop and session advance together.
While an intent is out (`IntentOut`), the iteration is the number of the plan's step
(`Progress`); what was executed is what was traced, plus at most the step whose result is
on its way back (`Ledger`). Neither half is inductive alone: that consent given in iteration
`i` is consent to step `i` needs the alignment, and the alignment at the next iteration
needs that a denial, which executes nothing, ends the session. `Consent`, `Stopping`,
`Substituted` and `Answered` are the parts on which single properties rest. Proved: all nine
invariants the module states, the action property `NothingAfterFailure`, and `Implementation`: every
step of the loop is a step of `AgentTask` or a stutter, by the invariant before and after it.

**Launcher_proofs.** `IInv` is the conjunction of the module's five invariants, and it is
inductive as a whole only: Stop cancels a run because the session still holds its task
(`RunsCanBeStopped`), and resumes a continuation because what is published belongs to a
suspended run (`ContinuationResumedOnce`). All steps but the user's selection change one
session; `LocalStep` reduces each of them to the consistency of that session.

**Engines_proofs.** `ReadyIsEnsured` needs `RootedInv`: besides the windows, the latch of the
process and every call about to report success imply that the model's root is set.
`OneLocalEngine` needs `LockInv`: a caller that loads holds the lock and nothing is published
yet, which is what the second look under the lock gives, and the number of engines loaded is
the one published. `SlotIsChosen` is inductive with the types: every change of a setting
writes the slot from the new settings and the key on the screen, and opening a window writes
only what the Keychain returned, whatever it refuses.

**Approvals_proofs.** First the policy. `FirstMatchDecides` for every rule list and request, by
the well-ordering of the naturals (the least matching index exists), then facts about the
default rules: blacklisted commands are denied to all, the agent is allowed nothing but reads
without consent, and nobody is allowed a destructive file operation without consent.
`FallbackDecidesAlike` compares the built-in rules with the shipped ones. For every list of
plugins, `PluginsLeaveFilesAlone` says that their rules change no decision about files, and
`AgentNeverLessRestricted` that the agent is never allowed, and never spared a question, where
the ui is not: the plugins' rules do not ask who calls, and the default ones do.

Then the router, by three arguments. `StoreInv` places every request (not issued, pending
and untouched, or decided), which gives single execution and the finality of a refusal.
`EffectiveSteps` says which two steps can change the file system, from which expiry,
confinement to workspaces and consent follow. Consent (`ConsentPrecedesChange`) and the
blacklist (`BlacklistYieldsToPluginsOnly`) are about the policy that is installed: a decision
other than the default policy's comes from the rule of a plugin whose id the command contains,
and then the exception in the property holds; otherwise the facts about the default rules do.
`DeskInv` relates settings in memory, on disk and in the webview's copy, through saves that fail
or are cut off and a migration that is. It gives `GateSurvivesRestart` (only the user's save
opens the gate, or an old settings file that left it open) and `DirectoriesAreDistinct`. The
theorems hold for every set of directories, commands, patterns, installations and old files,
every time to live and every clock.

**Desktop_proofs.** *The planner's* theorems are by cases on the strategy and the arms of
the cheap model, for every task whatever its length; `DeletionsAreFlagged` needs `Written`,
which is where the two keyword lists meet.

*Cost.* `OverspendingIsNoticed`: the sum of what is in the store and what was summarised is
what was spent, and whenever the store holds more than the threshold and nothing was alerted,
some thread holds a cost above it or has still to read the totals. Inductive as it is, because
whoever adds is afterwards such a thread, whoever takes compares what it took, and a thread
drops out only below the threshold or once alerted.

*Files.* `MovesLoseNothing` needs that between copy and removal the two ends are files and
that the destination holds what was copied; `ChangesAreConfined` is an action property: each
system call goes to the canonical path, and the refusals say where that is.

*Masking.* `MaskingIsExact`, for any rules, findings and payload. The findings in their order
merge into spans that start and end in order and do not touch, and that cover exactly the
positions found (`MergedSpan`, `MergeStep`, `MergingIsExact`: one step, then the whole pass).
Deduplication takes nothing out of such a list (`DedupKeepsAll`). Masking from the last
span to the first leaves everything before the current span where it was: that is
`MaskedAfter`, the invariant of the replacing pass, and the reason its direction matters.

*Types of the composition.* `TypeCorrect` is about the `Spec` that the run checks. Its
strengthening `SessionInv` says that a stored session waits for the result of a step of its
plan, with one trace for each step before it: without it `stepIndex` could leave the plan.

**Assistants_proofs.** `FsmInv` adds to the types that a step is left while a tool executes.
`RecentAreLatest` is inductive with it. The list is in the order of last use, and a new use
makes one path the latest and changes the order of no others, so that taking the path out,
appending it and dropping the first keeps the order, and what was dropped or was missing
before comes before all that are left (`PushKeepsOrder`).
For the subagents, `StoreInv` says that every list, the file included, is `WellKept` (within
`MaxFacts`, a marker at most in front), and that what a call holds is `Kept`: the newest of
what it loaded and recorded, and all of it or at least `CompactKeep` facts. `AppendKeeps` is
the step with a compaction or without, `TornIsKept` is why a torn file can be loaded.

**Ordering_proofs.** `ArrangedIsSorted`: a finite set that a relation orders totally has
an arrangement, so that the CHOOSE of `Arranged` means something; by the existence of a
first member and induction on the size. `FoldExists` says that a function defined from one
index to the next exists, for the passes of `Scrubber`. The inductions go by the least
counterexample (`Least`), since the library's induction theorems take an operator as a
parameter, which no prover here can instantiate.

**EventLog_proofs.** `LogInv` is inductive. `FileInv` says that the entries that can be read
are in the order of their numbers and their times, `EntryInv` that the entry to be written comes
after all of them, `KeptInv` that what will be written back is within the limits, and `CleanInv`
follows an append that found a terminated file from call to call: its line is there, nothing
readable is lost before the rotation, and the rotation keeps what it must. `GluedLine` is the
append that did not find one; the limits hold after it too, as after every append that returned
(`Completed`), because what is written back is within them whatever was read. From `RetainedShape` (what selection, stable sort and cut
leave of a file) follow `ReadsInOrder`, `RotationLimits` and `CleanAppends`.

**Only model-checked.** Every invariant and every action property of a passing run is proved.
What is left to TLC is liveness (`RunSettles`, `StoppedRunSettles`, `SetupSettles`,
`CommandsSettle`, `QueryEnds`), since fairness and ENABLED are beyond the prover, and the
five violations, which are counterexamples and not theorems. The safety facts that `QueryEnds` rests
on, that a step counts up to `MaxSteps` and no further, are part of `Assistants_proofs`.

## Not modelled

- The file format of settings, and of the old keys all but the gate's. Settings other than
  workspaces, the gate and the cost threshold.
- Listings of sessions, the log viewers and all presentation: they change nothing that is
  modelled.
- The words of the keyword lists, the assembly of prompts, the regular expressions of the
  sensitivity rules: their outcome is a free choice, which covers every one.
- The workflows disabled in this release: multi-file contents and moves into a directory.
- Inference, HTTP, and the MCP child process: pure I/O. A generation is any text or an error.
- Content sensitivity in policy requests: no caller of the release sets it.
- A second writer of a log: nothing locks the file, so the one statement to make about it is
  that entries can be lost.
- The task group of `withTimeout`, which is a matter of the Swift runtime, and the shell handler
  of `SwiftAgentExecutor`, which no plan of this release reaches.

## Plan

What is left, in this order:

1. The shell tool's safety as theorems: the time limit is the only way to a "timeout", what is
   captured is within its cap, and a command's result is set once. Likewise the
   variants behind the other liveness properties (the iteration that grows with each turn).
2. `DesktopAgent` against `AgentTask`: the desktop host performs the tools in the webview, so
   the refinement needs a model of the frontend's obligations.
3. The handlers of the Swift executor as a module that discharges, or refutes, the fairness of
   `Execute`.
4. A second writer of a log, with the one statement that can be made about it.
