-------------------------------- MODULE Fsm --------------------------------
(***************************************************************************)
(* The experimental agent loop of orchestrate_query: a state machine that  *)
(* asks the model for one tool call at a time, runs it, and asks for an    *)
(* answer when the model names no tool.  The model's text is free; what    *)
(* the guardrail makes of it is not.                                       *)
(*                                                                         *)
(* A tool call is a tool and a path.  Paths in Inside pass the executor's  *)
(* guard, those in Outside do not; Document are the ones with a supported  *)
(* extension.  Queries run one after another over one episodic store.      *)
(* A shell command has no time limit: it may never end (tail -f).          *)
(***************************************************************************)
EXTENDS Integers, Sequences, SequencesExt

CONSTANTS
    Inside,     \* paths of the workspace
    Outside,    \* paths guard_path refuses
    Document,   \* the paths of Inside read_document can parse
    MaxSteps,   \* AgentFsm.max_steps
    RecentMax,  \* RECENT_FILES_MAX
    MaxQueries, \* bound: queries asked
    NoPath

Path == Inside \union Outside

ASSUME PathAssumption == Inside \intersect Outside = {} /\ Document \subseteq Inside /\ NoPath \notin Path
ASSUME FsmAssumption == {MaxSteps, RecentMax} \subseteq Nat \ {0} /\ MaxQueries \in Nat

VARIABLES
    present, \* the paths of Inside that exist
    queries,
    state,   \* AgentState, or how the last query ended
    query,   \* what is_summarization_query says of the query
    pending, \* pending_tool
    output,  \* tool_output
    step,
    lastDoc, \* last_doc_path
    recent,  \* recent_files
    summary, \* the document beside which Finalize wrote a summary
    used     \* history: the paths of the file tools, in the order they ran

context == <<pending, output, step, lastDoc, recent>>
fsmVars == <<present, queries, state, query, context, summary, used>>

PathTools == {"fs_list_dir", "fs_read_file", "read_document", "trash_file"}
ToolCall ==
    [tool : PathTools, path : Path, dest : {NoPath}]
        \union [tool : {"move_file"}, path : Path, dest : Path]
        \union [tool : {"shell_run"}, path : {NoPath}, dest : {NoPath}]
NoTool == [tool |-> "none", path |-> NoPath, dest |-> NoPath]

\* What a tool returned, be it text or an error: with byte 1000 inside a
\* character, or only byte 2000, or neither.
ToolOutput == {"text", "wide", "wider"}

\* What is_summarization_query can say.
Query == {"summarize", "other"}

Running == {"Init", "RetrieveContext", "ActionSelection", "Execution", "Validation", "Finalize"}
Ended == {"idle", "answered", "HallucinationDetected", "EmptyResponse", "ValidationFailed",
          "StepLimitExceeded", "DbError", "panicked"}

\* Fault: a file used again keeps its old place in the list.
PushRecentInPlace(files, path) ==
    IF path \in ToSet(files) THEN files
    ELSE LET pushed == Append(files, path)
         IN IF Len(pushed) > RecentMax THEN Tail(pushed) ELSE pushed

\* retain: no path is in the list twice, so it takes out one entry at most.
Without(files, path) ==
    IF path \in ToSet(files)
    THEN RemoveAt(files, CHOOSE i \in DOMAIN files : files[i] = path)
    ELSE files

\* push_recent_file: moved to the back, and the oldest evicted above the cap.
PushRecent(files, path) ==
    LET pushed == Append(Without(files, path), path)
    IN IF Len(pushed) > RecentMax THEN Tail(pushed) ELSE pushed

-----------------------------------------------------------------------------
(* UniversalExecutor::execute: what can come of a call, and what it leaves. *)

\* guard_path lets the call's paths through.
Guarded(t) == {t.path, t.dest} \intersect Outside = {}

\* The call can succeed: its paths are guarded, its subject is there and readable.
Possible(t) ==
    /\ Guarded(t)
    /\ t.path \in Inside => t.path \in present
    /\ t.tool = "read_document" => t.path \in Document

\* rename replaces the destination; the trash takes the path away.
After(t) ==
    CASE t.tool = "move_file" -> (present \ {t.path}) \union {t.dest}
      [] t.tool = "trash_file" -> present \ {t.path}
      [] OTHER -> present

-----------------------------------------------------------------------------
FsmInit ==
    /\ present = Inside
    /\ queries = 0
    /\ state = "idle"
    /\ query = "other"
    /\ pending = NoTool
    /\ output = "none"
    /\ step = 0
    /\ lastDoc = NoPath
    /\ recent = <<>>
    /\ summary = NoPath
    /\ used = <<>>

\* orchestrate_query with an engine: a fresh context over the store on disk.
Ask ==
    /\ state \in Ended
    /\ queries < MaxQueries
    /\ queries' = queries + 1
    /\ state' = "Init"
    /\ query' \in Query
    /\ pending' = NoTool
    /\ output' = "none"
    /\ step' = 0
    /\ lastDoc' = NoPath
    /\ recent' = <<>>
    /\ summary' = NoPath
    /\ used' = <<>>
    /\ UNCHANGED present

Start ==
    /\ state = "Init"
    /\ state' = "RetrieveContext"
    /\ UNCHANGED <<present, queries, query, context, summary, used>>

\* The five newest facts of the store, which decide nothing, or its error.
RetrieveContext ==
    /\ state = "RetrieveContext"
    /\ state' \in {"ActionSelection", "DbError"}
    /\ UNCHANGED <<present, queries, query, context, summary, used>>

\* build_action_selection_prompt quotes the output up to byte 1000, and
\* build_finalize_prompt up to byte 2000: a cut inside a character panics.
ActionPromptPanics == output = "wide"
FinalizePromptPanics == output = "wider"

\* Out of steps, before the model is asked; or the prompt cannot be built.
GiveUp ==
    /\ state = "ActionSelection"
    /\ \/ step >= MaxSteps /\ state' = "StepLimitExceeded"
       \/ step < MaxSteps /\ ActionPromptPanics /\ state' = "panicked"
    /\ UNCHANGED <<present, queries, query, context, summary, used>>

\* Fault: the limit is looked at one step late.
SelectActionOneMore ==
    /\ state = "ActionSelection"
    /\ step <= MaxSteps
    /\ ~ActionPromptPanics
    /\ \/ \E t \in ToolCall : pending' = t /\ state' = "Execution"
       \/ state' \in {"Finalize", "EmptyResponse", "HallucinationDetected"} /\ UNCHANGED pending
    /\ UNCHANGED <<present, queries, query, output, step, lastDoc, recent, summary, used>>

\* The model's line, as validate_action_selection reads it: an engine error and
\* any unknown tool or missing argument are hallucinations.
SelectAction ==
    /\ state = "ActionSelection"
    /\ step < MaxSteps
    /\ ~ActionPromptPanics
    /\ \/ \E t \in ToolCall : pending' = t /\ state' = "Execution"
       \/ state' \in {"Finalize", "EmptyResponse", "HallucinationDetected"} /\ UNCHANGED pending
    /\ UNCHANGED <<present, queries, query, output, step, lastDoc, recent, summary, used>>

\* Fault: a call that failed does not count as a step.
ExecuteUncounted ==
    /\ state = "Execution"
    /\ \E ok \in BOOLEAN :
         /\ ok => Possible(pending)
         /\ present' = IF ok THEN After(pending) ELSE present
         /\ output' \in ToolOutput
         /\ step' = IF ok THEN step + 1 ELSE step
    /\ lastDoc' = IF pending.tool = "read_document" THEN pending.path ELSE lastDoc
    /\ recent' = IF pending.tool \in {"fs_read_file", "read_document"}
                 THEN PushRecent(recent, pending.path) ELSE recent
    /\ used' = IF pending.tool \in {"fs_read_file", "read_document"}
               THEN Append(used, pending.path) ELSE used
    /\ pending' = NoTool
    /\ state' = "Validation"
    /\ UNCHANGED <<queries, query, summary>>

\* The tool runs; its paths are noted whether or not it succeeds, and its
\* output goes to the episodic store if the store takes it.
Execute ==
    /\ state = "Execution"
    /\ \E ok \in BOOLEAN :
         /\ ok => Possible(pending)
         /\ present' = IF ok THEN After(pending) ELSE present
    /\ output' \in ToolOutput
    /\ step' = step + 1
    /\ lastDoc' = IF pending.tool = "read_document" THEN pending.path ELSE lastDoc
    /\ recent' = IF pending.tool \in {"fs_read_file", "read_document"}
                 THEN PushRecent(recent, pending.path) ELSE recent
    /\ used' = IF pending.tool \in {"fs_read_file", "read_document"}
               THEN Append(used, pending.path) ELSE used
    /\ pending' = NoTool
    /\ state' = "Validation"
    /\ UNCHANGED <<queries, query, summary>>

\* A document is cut at its limit of bytes, which may lie inside a character.
ReadPanics ==
    /\ state = "Execution"
    /\ pending.tool = "read_document"
    /\ Possible(pending)
    /\ lastDoc' = pending.path
    /\ pending' = NoTool
    /\ state' = "panicked"
    /\ UNCHANGED <<present, queries, query, output, step, recent, summary, used>>

Validate ==
    /\ state = "Validation"
    /\ state' = "ActionSelection"
    /\ UNCHANGED <<present, queries, query, context, summary, used>>

\* write_summary_beside, for a query that asks for one, if the file can be written.
SummaryBeside ==
    IF lastDoc # NoPath /\ query = "summarize" THEN {lastDoc, NoPath} ELSE {NoPath}

\* The answer, then its summary; or no prompt, an empty answer or an error token.
Finalize ==
    /\ state = "Finalize"
    /\ \/ /\ ~FinalizePromptPanics
          /\ state' = "answered"
          /\ summary' \in SummaryBeside
       \/ /\ state' \in IF FinalizePromptPanics THEN {"panicked"}
                         ELSE {"EmptyResponse", "ValidationFailed"}
          /\ UNCHANGED summary
    /\ UNCHANGED <<present, queries, query, context, used>>

Step ==
    \/ Start \/ RetrieveContext \/ GiveUp \/ SelectAction
    \/ Execute \/ ReadPanics \/ Validate \/ Finalize

FsmNext == Ask \/ Step

\* The loop waits in exec_shell for its command, which ends when it likes.
WaitsForShell == state = "Execution" /\ pending.tool = "shell_run"

\* The blocking thread that runs the loop is never abandoned, and the file tools
\* return; nothing makes a command end.
FsmFairness == WF_fsmVars(~WaitsForShell /\ Step)

-----------------------------------------------------------------------------
FsmTypeOK ==
    /\ present \subseteq Inside
    /\ queries \in 0 .. MaxQueries
    /\ state \in Running \union Ended
    /\ query \in Query
    /\ pending \in ToolCall \union {NoTool}
    /\ (state = "Execution") = (pending # NoTool)
    /\ output \in ToolOutput \union {"none"}
    /\ step \in 0 .. MaxSteps
    /\ {lastDoc, summary} \subseteq Path \union {NoPath}
    /\ recent \in Seq(Path)
    /\ used \in Seq(Path)

\* p was used after the last use of q.
UsedAfter(p, q) ==
    \E i \in DOMAIN used : used[i] = p /\ \A j \in DOMAIN used : used[j] = q => j < i

\* The files the model is offered for "this file" are the RecentMax used last,
\* each once, the latest of them last, and none is forgotten before that limit.
RecentAreLatest ==
    /\ Len(recent) <= RecentMax
    /\ \A i \in DOMAIN recent : recent[i] \in ToSet(used)
    /\ \A i, j \in DOMAIN recent : i < j => UsedAfter(recent[j], recent[i])
    /\ \A p \in ToSet(used) \ ToSet(recent) :
         Len(recent) = RecentMax /\ \A i \in DOMAIN recent : UsedAfter(recent[i], p)

\* Whatever the model answers, a query ends, with an answer or an error, unless it
\* waits for ever for one shell command.
QueryEnds == state \in Running ~> (state \in Ended \/ []WaitsForShell)

\* "Maximum number of ActionSelection-Execution cycles before giving up": every
\* query ends.
QueryAlwaysEnds == state \in Running ~> state \in Ended
=============================================================================
