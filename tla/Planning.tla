------------------------------- MODULE Planning -------------------------------
(***************************************************************************)
(* How oxcer-core turns a task into a plan before anything is executed:    *)
(* the heuristics of semantic_router.rs choose a strategy, and             *)
(* start_session (planning.rs) chooses the plan.                           *)
(*                                                                         *)
(* A task is abstracted to the marks that its text shows, its length, and  *)
(* what the host knows: which keyword lists have a hit, and not the words. *)
(***************************************************************************)
EXTENDS Integers, Sequences

(* Intents and plans.  slot is the placeholder the planned intent still     *)
(* holds; start_session knows neither the file nor the tool output.         *)

Tool == {"fs_list_dir", "fs_read_file", "fs_delete", "llm_generate"}
Slot == {"none", "MOST_RECENT_FILE", "FS_RESULT"}
Intent == [tool : Tool, slot : Slot]

Step(tool, slot) == [tool |-> tool, slot |-> slot]

ToolsOnlyPlans == {<<>>, <<Step("fs_list_dir", "none")>>, <<Step("fs_delete", "none")>>}
LlmPlan == <<Step("llm_generate", "none")>>
FsThenLlmPlan == <<Step("fs_list_dir", "none"), Step("llm_generate", "FS_RESULT")>>
FileReadThenLlmPlan == <<Step("fs_read_file", "none"), Step("llm_generate", "FS_RESULT")>>
ListReadSummarizePlan ==
    <<Step("fs_list_dir", "none"), Step("fs_read_file", "MOST_RECENT_FILE"),
      Step("llm_generate", "FS_RESULT")>>

\* Every plan start_session can build in this release (see PlanOf).
Plans ==
    ToolsOnlyPlans \union {LlmPlan, FsThenLlmPlan, FileReadThenLlmPlan, ListReadSummarizePlan}

\* SessionKind::from_plan: a Task has some step that is not an LlmGenerate.
IsTask(p) == \E i \in DOMAIN p : p[i].tool # "llm_generate"

-----------------------------------------------------------------------------
(* The marks a task's text can show.                                        *)
(* tool_verb   one of TOOL_VERBS           fs_verb   one of IMPLICIT_FS_VERBS *)
(* dir_hint    one of FS_DIR_HINTS         file_noun one of FILE_CONTENT_NOUNS *)
(* code        one of CODE_MARKERS         planning  one of PLANNING_KEYWORDS *)
(* question    reads like a short question about anything but code          *)
(* list        asks for a listing          delete    asks to delete a path   *)
(* known_dir   Desktop, Documents or Downloads       home  the home directory *)
(* recency     "most recent", "just saved", ...                             *)
(* document    a bare file name with a document extension                   *)
(* source_file a bare file name with another extension                      *)
(* abs_file    an absolute path of a file                                   *)

Mark == {"tool_verb", "fs_verb", "dir_hint", "file_noun", "code", "planning", "question",
         "list", "delete", "known_dir", "home", "recency", "document", "source_file",
         "abs_file"}

PlanningThreshold == 800

\* RouterInput, with what start_session is told of the workspaces.
RoutedTask ==
    [marks : SUBSET Mark, length : Nat, selected : Nat, risk : BOOLEAN, preferTools : BOOLEAN,
     root : BOOLEAN, home : BOOLEAN]

\* The verbs of a deletion are tool verbs, and the well-known directories are hints.
Written(t) ==
    /\ "delete" \in t.marks => "tool_verb" \in t.marks
    /\ "known_dir" \in t.marks => "dir_hint" \in t.marks

Shows(t, marks) == marks \subseteq t.marks

HasToolVerbs(t) == Shows(t, {"tool_verb"})
HasImplicitFsIntent(t) == Shows(t, {"fs_verb", "dir_hint"})
HasImplicitFileReadIntent(t) == Shows(t, {"fs_verb", "file_noun"}) /\ ~Shows(t, {"dir_hint"})
HasMostRecentFileIntent(t) == Shows(t, {"recency", "known_dir"})

LooksLikeSimpleQa(t) ==
    /\ t.length <= 200
    /\ Shows(t, {"question"})
    /\ t.marks \intersect {"tool_verb", "code"} = {}
    /\ ~t.risk

\* Three selected paths with a short task are work for tools.
ManySelected(t) == t.selected >= 3 /\ t.length < 150

ToolsHeavy(t) ==
    HasToolVerbs(t) \/ HasImplicitFsIntent(t) \/ HasImplicitFileReadIntent(t) \/ ManySelected(t)

NeedsPlanning(t) == t.length >= PlanningThreshold \/ Shows(t, {"planning"})

IsCode(t) == (Shows(t, {"code"}) \/ t.selected > 0) /\ t.length >= 25

\* flags.requires_high_risk_approval
RequiresHighRiskApproval(t) == t.risk \/ HasToolVerbs(t)

\* Tools alone: when the host prefers them and no text has to be understood.
ToolsOnly(t) ==
    /\ t.preferTools
    /\ IF HasToolVerbs(t) THEN t.length < 300
       ELSE ManySelected(t) /\ ~HasImplicitFsIntent(t) /\ ~HasImplicitFileReadIntent(t)

\* route_task: the first rule that matches decides.
Strategy(t) ==
    CASE ToolsOnly(t) -> "tools_only"
      [] ~ToolsOnly(t) /\ ToolsHeavy(t) -> "cheap_model"
      [] ~ToolsHeavy(t) /\ ~NeedsPlanning(t) /\ (IsCode(t) \/ LooksLikeSimpleQa(t)) ->
            "cheap_model"
      [] OTHER -> "expensive_model"

-----------------------------------------------------------------------------
(* start_session *)

\* extract_fs_path: a directory the task names (under the user's home), or the workspace.
FsPathKnown(t) == IF t.marks \intersect {"known_dir", "home"} # {} THEN t.home ELSE t.root

\* extract_explicit_file_path
ExplicitFile(t) ==
    "abs_file" \in t.marks \/ (t.root /\ t.marks \intersect {"document", "source_file"} # {})

ToolsOnlyPlan(t) ==
    CASE t.root /\ "list" \in t.marks -> <<Step("fs_list_dir", "none")>>
      [] t.root /\ "list" \notin t.marks /\ "delete" \in t.marks -> <<Step("fs_delete", "none")>>
      [] OTHER -> <<>>

ListingPlan(t) == IF FsPathKnown(t) THEN FsThenLlmPlan ELSE LlmPlan

\* Fault: without an explicit path a question about a file goes to the model alone.
CheapPlanExplicitOnly(t) ==
    IF HasMostRecentFileIntent(t)
    THEN IF FsPathKnown(t) THEN ListReadSummarizePlan ELSE LlmPlan
    ELSE IF "document" \in t.marks /\ FsPathKnown(t) THEN FileReadThenLlmPlan
    ELSE IF HasImplicitFsIntent(t) THEN ListingPlan(t)
    ELSE IF HasImplicitFileReadIntent(t) /\ ExplicitFile(t) THEN FileReadThenLlmPlan
    ELSE LlmPlan

\* The arms of the cheap model, most specific first; without a path the model asks for one.
CheapPlan(t) ==
    IF HasMostRecentFileIntent(t)
    THEN IF FsPathKnown(t) THEN ListReadSummarizePlan ELSE LlmPlan
    ELSE IF "document" \in t.marks /\ FsPathKnown(t) THEN FileReadThenLlmPlan
    ELSE IF HasImplicitFsIntent(t) THEN ListingPlan(t)
    ELSE IF HasImplicitFileReadIntent(t)
    THEN IF ExplicitFile(t) THEN FileReadThenLlmPlan ELSE ListingPlan(t)
    ELSE LlmPlan

PlanOf(t) ==
    CASE Strategy(t) = "tools_only" -> ToolsOnlyPlan(t)
      [] Strategy(t) = "cheap_model" -> CheapPlan(t)
      [] OTHER -> LlmPlan

-----------------------------------------------------------------------------
(* What the planner promises, whatever the task says. *)

\* A task that would delete was flagged for approval by the router: the two keyword
\* lists, of two modules, agree.
ChangesAreFlagged(t) ==
    (\E i \in DOMAIN PlanOf(t) : PlanOf(t)[i].tool = "fs_delete") => RequiresHighRiskApproval(t)

\* A question about files is answered from files whenever the planner knows where to look
\* and a model is asked at all.
FilesAreConsulted(t) ==
    ( /\ HasImplicitFsIntent(t) \/ HasImplicitFileReadIntent(t)
      /\ FsPathKnown(t)
      /\ "llm_generate" \in {PlanOf(t)[i].tool : i \in DOMAIN PlanOf(t)} )
    => IsTask(PlanOf(t))

\* A step that waits for a tool's output comes after a step that produces it.
SlotsAreFed(t) ==
    \A i \in DOMAIN PlanOf(t) :
        PlanOf(t)[i].slot # "none" => i > 1 /\ PlanOf(t)[i - 1].tool # "llm_generate"
=============================================================================
