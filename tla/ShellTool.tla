------------------------------ MODULE ShellTool ------------------------------
(***************************************************************************)
(* The shell service of oxcer-core (shell.rs): a request names a command   *)
(* of the catalog, its parameters are bound, the command is spawned with   *)
(* its output piped, polled until it exits or its time is up, and only     *)
(* then are the two pipes read to their ends, stdout first.  The caller is *)
(* a synchronous command: the main thread does nothing else meanwhile.     *)
(*                                                                         *)
(* Output is counted in chunks.  The child is external: it writes, blocks  *)
(* on a full pipe, exits or does not, and may leave a descendant that      *)
(* keeps both pipes open and goes on writing.                              *)
(***************************************************************************)
EXTENDS Integers, FiniteSets

CONSTANTS
    Command,      \* the ids a request can name
    Catalog,      \* CommandCatalog: the specs of some of them
    Binding,      \* the parameter objects a request can carry
    PipeSize,     \* chunks a pipe holds
    MaxOutput,    \* bound: chunks a child writes
    MaxCapture,   \* MAX_OUTPUT_BYTES
    TimeLimit,    \* DEFAULT_TIMEOUT, in polls
    MaxCommands   \* bound: commands run

VARIABLES
    shell,     \* what shell_run is doing
    child,     \* the process
    toWrite,   \* chunks the child and its descendants have still to write
    pipe,      \* chunks in each pipe
    captured,  \* chunks read and kept of each stream
    leak,      \* a descendant of the child holds the pipes open
    elapsed,   \* polls since the start
    result,    \* the last ShellResult or ShellErrorKind
    commands   \* requests made

ASSUME ShellAssumption == {PipeSize, MaxOutput, MaxCapture, TimeLimit, MaxCommands} \subseteq Nat

\* The types a parameter can have, and what one of its values can be refused with.
ASSUME CatalogAssumption ==
    \A c \in DOMAIN Catalog : \A p \in DOMAIN Catalog[c].params :
        Catalog[c].params[p].type \in {"string", "enum", "path", "bool", "integer"}
ASSUME BindingAssumption ==
    \A params \in Binding : \A p \in DOMAIN params :
        params[p].refusal \in {"none", "invalid_params", "forbidden", "io"}

shellVars == <<shell, child, toWrite, pipe, captured, leak, elapsed, result, commands>>

Results == {"none", "ok", "unknown_command", "invalid_params", "forbidden", "io", "timeout"}

Stream == {"stdout", "stderr"}
Nothing == [s \in Stream |-> 0]

\* What a value is refused with: the wrong kind; or what the enum, the range, the resolution
\* of the path (shell_error_from_fs) or the lookup of the workspace says of it.
ValueRefusal(type, value) ==
    CASE type = "string" -> IF value.kind = "string" THEN "none" ELSE "invalid_params"
      [] type \in {"enum", "path"} -> IF value.kind = "string" THEN value.refusal ELSE "invalid_params"
      [] type = "bool" -> IF value.kind = "bool" THEN "none" ELSE "invalid_params"
      [] type = "integer" -> IF value.kind = "integer" THEN value.refusal ELSE "invalid_params"

ParamRefusal(spec, params, p) ==
    IF p \in DOMAIN params THEN ValueRefusal(spec.params[p].type, params[p])
    ELSE IF spec.params[p].required THEN "invalid_params" ELSE "none"

\* The parameters that are bound.
Bound(spec, params) == DOMAIN spec.params \intersect DOMAIN params

\* validate_and_bind_params: the first parameter refused, in an order left open here, decides;
\* then {{workspace}} is filled in.
BindRefusals(spec, params) ==
    LET refused == {ParamRefusal(spec, params, p) : p \in DOMAIN spec.params} \ {"none"}
        placed == "workspace_id" \in Bound(spec, params) /\ params["workspace_id"].refusal = "none"
    IN IF refused = {} /\ spec.workspace /\ ~placed THEN {"invalid_params"} ELSE refused

\* evaluate_command_policy: the stem of the binary or an argument, as it is in the template
\* or put in for a placeholder, is on the deny list.  A path is absolute by then.
Denied(spec, params) ==
    \/ spec.denied
    \/ \E p \in spec.uses \intersect Bound(spec, params) :
          spec.params[p].type \in {"string", "enum"} /\ params[p].denied

\* What a request is refused with before a process is spawned.
Refusals(command, params) ==
    IF command \notin DOMAIN Catalog THEN {"unknown_command"}
    ELSE LET spec == Catalog[command] IN
         IF BindRefusals(spec, params) # {} THEN BindRefusals(spec, params)
         ELSE IF Denied(spec, params) THEN {"forbidden"} ELSE {}

\* default_catalog: only the git command is bound to the workspace it names.
DefaultCatalog ==
    [c \in {"list_git_status", "run_tests", "format_code"} |->
        [params |-> [p \in {"workspace_id"} |-> [type |-> "string", required |-> TRUE]],
         uses |-> {},
         workspace |-> c = "list_git_status",
         denied |-> FALSE]]

ShellInit ==
    /\ shell = "idle"
    /\ child = "none"
    /\ toWrite = 0
    /\ pipe = Nothing
    /\ captured = Nothing
    /\ leak = FALSE
    /\ elapsed = 0
    /\ result = "none"
    /\ commands = 0

\* What shell_run returns; its locals are gone, and the child was reaped or killed.
Finish(outcome) ==
    /\ shell' = "idle"
    /\ result' = outcome
    /\ child' = "none"
    /\ toWrite' = 0
    /\ pipe' = Nothing
    /\ captured' = Nothing
    /\ elapsed' = 0

\* A request that is refused, or whose command cannot be spawned.
Refuse(command, params) ==
    /\ shell = "idle"
    /\ commands < MaxCommands
    /\ commands' = commands + 1
    /\ \E kind \in IF Refusals(command, params) = {} THEN {"io"} ELSE Refusals(command, params) :
          Finish(kind)
    /\ UNCHANGED leak

Spawn(command, params) ==
    /\ shell = "idle"
    /\ commands < MaxCommands
    /\ commands' = commands + 1
    /\ Refusals(command, params) = {}
    /\ shell' = "polling"
    /\ child' = "running"
    /\ toWrite' \in 0..MaxOutput
    /\ leak' \in BOOLEAN
    /\ pipe' = Nothing
    /\ captured' = Nothing
    /\ elapsed' = 0
    /\ result' = "none"

-----------------------------------------------------------------------------
(* The child and its descendants *)

\* The child, or after its end a descendant, writes into a pipe while there is room.
ChildWrites(s) ==
    /\ child = "running" \/ (child = "exited" /\ leak)
    /\ toWrite > 0
    /\ pipe[s] < PipeSize
    /\ toWrite' = toWrite - 1
    /\ pipe' = [pipe EXCEPT ![s] = @ + 1]
    /\ UNCHANGED <<shell, child, captured, leak, elapsed, result, commands>>

\* What the child has not written when it ends, a descendant may still write.
ChildExits ==
    /\ child = "running"
    /\ toWrite = 0 \/ leak
    /\ child' = "exited"
    /\ UNCHANGED <<shell, toWrite, pipe, captured, leak, elapsed, result, commands>>

DescendantEnds ==
    /\ leak
    /\ leak' = FALSE
    /\ toWrite' = IF child = "exited" THEN 0 ELSE toWrite
    /\ UNCHANGED <<shell, child, pipe, captured, elapsed, result, commands>>

-----------------------------------------------------------------------------
(* The polling loop: try_wait, then the time limit, then a sleep. *)

PollExited ==
    /\ shell = "polling"
    /\ child = "exited"
    /\ shell' = "stdout"
    /\ UNCHANGED <<child, toWrite, pipe, captured, leak, elapsed, result, commands>>

\* The child is killed and waited for; its pipes are dropped unread.
PollTimesOut ==
    /\ shell = "polling"
    /\ child = "running"
    /\ elapsed >= TimeLimit
    /\ Finish("timeout")
    /\ UNCHANGED <<leak, commands>>

\* try_wait, or the read of a pipe, failed; in the first case the child is killed.
WaitFails ==
    /\ shell # "idle"
    /\ Finish("io")
    /\ UNCHANGED <<leak, commands>>

\* Fault: the time is taken anew at each poll.
SleepRestarted ==
    /\ shell = "polling"
    /\ child = "running"
    /\ elapsed < TimeLimit
    /\ elapsed' = 0
    /\ UNCHANGED <<shell, child, toWrite, pipe, captured, leak, result, commands>>

Sleep ==
    /\ shell = "polling"
    /\ child = "running"
    /\ elapsed < TimeLimit
    /\ elapsed' = elapsed + 1
    /\ UNCHANGED <<shell, child, toWrite, pipe, captured, leak, result, commands>>

-----------------------------------------------------------------------------
(* Reading the pipes, one after the other and without a time limit: chunks *)
(* over a stream's cap are read and dropped.                                *)

\* Fault: a chunk that does not fit any more is kept.
ReadChunkUncapped ==
    /\ shell \in Stream
    /\ \E n \in 1..pipe[shell] :
          /\ pipe' = [pipe EXCEPT ![shell] = @ - n]
          /\ captured' = IF captured[shell] <= MaxCapture
                         THEN [captured EXCEPT ![shell] = @ + n] ELSE captured
    /\ UNCHANGED <<shell, child, toWrite, leak, elapsed, result, commands>>

ReadChunk ==
    /\ shell \in Stream
    /\ \E n \in 1..pipe[shell] :
          /\ pipe' = [pipe EXCEPT ![shell] = @ - n]
          /\ captured' = IF captured[shell] + n <= MaxCapture
                         THEN [captured EXCEPT ![shell] = @ + n] ELSE captured
    /\ UNCHANGED <<shell, child, toWrite, leak, elapsed, result, commands>>

\* The end of a pipe: everything is read and nobody can write to it any more.
AtEnd == shell \in Stream /\ pipe[shell] = 0 /\ ~leak

StdoutEnds ==
    /\ AtEnd
    /\ shell = "stdout"
    /\ shell' = "stderr"
    /\ UNCHANGED <<child, toWrite, pipe, captured, leak, elapsed, result, commands>>

StderrEnds ==
    /\ AtEnd
    /\ shell = "stderr"
    /\ Finish("ok")
    /\ UNCHANGED <<leak, commands>>

ShellWorks == PollExited \/ PollTimesOut \/ Sleep \/ ReadChunk \/ StdoutEnds \/ StderrEnds

ShellNext ==
    \/ \E command \in Command, params \in Binding :
          Refuse(command, params) \/ Spawn(command, params)
    \/ \E s \in Stream : ChildWrites(s)
    \/ ChildExits \/ DescendantEnds
    \/ ShellWorks \/ WaitFails

-----------------------------------------------------------------------------
ShellTypeOK ==
    /\ shell \in {"idle", "polling"} \union Stream
    /\ child \in {"none", "running", "exited"}
    /\ toWrite \in 0..MaxOutput
    /\ pipe \in [Stream -> 0..PipeSize]
    /\ captured \in [Stream -> 0..MaxCapture]
    /\ leak \in BOOLEAN
    /\ elapsed \in 0..TimeLimit
    /\ result \in Results
    /\ commands \in 0..MaxCommands

\* Unless a descendant keeps the pipes open for ever, the main thread is free again after
\* every command: a child that hangs, or that blocks on a full pipe, is timed out.
CommandsSettle == <>[]~leak => []<>(shell = "idle")

\* shell_run "constrains cwd / env / timeouts": every command is over in the end, answered
\* or timed out, and the main thread free again.
CommandsTimeOut == []<>(shell = "idle")
=============================================================================
