------------------------------ MODULE MCDesktop ------------------------------
(***************************************************************************)
(* The desktop application on a small instance.  Scrubbing is a function   *)
(* of the payload and is explored while the agent is at rest.  The session *)
(* and the shell share nothing but the main thread, which one of them has  *)
(* at a time: the session is explored with the model calls, for the task   *)
(* that is a question, and without them for every task, the shell without  *)
(* either, and the file service, which shares nothing with them, by        *)
(* itself.                                                                 *)
(*                                                                         *)
(* Plugins are those of MCPluginFiles: one replaces a command of the       *)
(* default catalog, one repeats its id, one is no command.                 *)
(***************************************************************************)
EXTENDS DesktopAgent, Scrubber, FileTool, Plugins

CONSTANTS f1, r1, c1, c2

MCHostResult ==
    {Err, ApprovalPending(r1), Ok("prose", Listed(<<f1>>)), Ok("narration", NoListing)}

Given(marks, prefer, known) ==
    [marks |-> marks, length |-> 40, selected |-> 0, risk |-> FALSE, preferTools |-> prefer,
     root |-> known, home |-> known]

Question == Given({"question"}, FALSE, TRUE)
MCTask ==
    {Given({"tool_verb", "delete"}, TRUE, known) : known \in BOOLEAN}
    \union {Question}
    \union {Given(marks, FALSE, TRUE) :
              marks \in {{"fs_verb", "file_noun"}, {"fs_verb", "document"},
                         {"fs_verb", "dir_hint", "known_dir", "recency"}}}

Word == [kind |-> "string", refusal |-> "none", denied |-> FALSE]
Refused(kind) == [Word EXCEPT !.refusal = kind]
MCCommand == {"list_git_status", "index", "run_tests", "unheard_of"}

Plugin(id, type, params) ==
    [parses |-> TRUE, id |-> id, type |-> type, tools |-> {}, operations |-> {},
     approval |-> "unset", dangerous |-> FALSE, binary |-> TRUE, template |-> "none",
     params |-> params, uses |-> {}, denied |-> FALSE]
Optional(type) == [type |-> type, required |-> FALSE]
MCPluginFiles ==
    <<[Plugin("index", "fs_indexer", <<>>) EXCEPT !.denied = TRUE],
      [Plugin("run_tests", "shell",
              [p \in {"test", "path"} |-> Optional(IF p = "path" THEN "path" ELSE "string")])
         EXCEPT !.template = "plain", !.uses = {"test", "path"}],
      Plugin("index", "shell", <<>>),
      Plugin("notes", "agent_tool", <<>>)>>
MCCatalog == MergedCatalog(DefaultCatalog, LoadPlugins(MCPluginFiles))

Passing(p, v) == [q \in {p} |-> v]
MCBinding ==
    {<<>>, Passing("workspace_id", Word), Passing("workspace_id", Refused("invalid_params")),
     Passing("workspace_id", [Word EXCEPT !.kind = "bool"]),
     Passing("test", [Word EXCEPT !.denied = TRUE]), Passing("path", [Word EXCEPT !.denied = TRUE]),
     Passing("path", Refused("forbidden")), Passing("path", Refused("io"))}

MCLevelOf == [r \in 1..3 |-> IF r = 3 THEN 1 ELSE 2]

MCEntry == {"a", "b", "secret", "outside", "link", "config"}
\* The second workspace is a directory of the first.
MCBasesOf ==
    [e \in MCEntry |->
        CASE e = "outside" -> {} [] e = "config" -> {"app_config"}
          [] e = "b" -> {"w1", "w2"} [] OTHER -> {"w1"}]
MCDisks ==
    {[e \in MCEntry |->
        CASE e = "a" -> Holding("text") [] e = "b" -> other [] e = "secret" -> Holding("text")
          [] e = "outside" -> Holding("text") [] e = "link" -> LinkTo(to) [] OTHER -> Directory] :
       other \in {Holding("long text"), Absent}, to \in {"a", "outside", "secret"}}

vars == <<desktopVars, scrub, fileVars>>

Init == DesktopInit /\ ScrubInit /\ FileInit

AnyDisk == CHOOSE d \in Disks : TRUE

NoCosts == check = [c \in Thread |-> Idling] /\ spent = 0
AtRest == starts = 0 /\ commands = 0 /\ NoCosts

\* DesktopNext, with the session or with the shell.
SessionOrShell ==
    \/ /\ commands = 0
       /\ \/ AgentStepCommand /\ UNCHANGED <<threshold, shellVars>>
          \/ CostStep /\ UNCHANGED <<sessionVars, task, stored, starts, threshold, shellVars>>
          \/ spent > 0 /\ SaveThreshold /\ UNCHANGED <<agentVars, shellVars>>
       /\ (NoCosts \/ task \in {NoTask, Question})'
    \/ starts = 0 /\ NoCosts /\ ShellStep /\ UNCHANGED <<agentVars, threshold>>

Next ==
    \/ /\ scrub = NoScrub /\ calls = 0 /\ disk = AnyDisk
       /\ \/ AtRest /\ ScrubPayload /\ UNCHANGED desktopVars
          \/ SessionOrShell /\ UNCHANGED scrub
       /\ UNCHANGED fileVars
    \/ /\ AtRest /\ scrub = NoScrub
       /\ FileNext
       /\ UNCHANGED <<desktopVars, scrub>>

Spec ==
    /\ Init
    /\ [][Next]_vars
    /\ WF_vars(ShellWorks /\ UNCHANGED <<agentVars, threshold, scrub, fileVars>>)

TypeOK == DesktopTypeOK /\ ScrubTypeOK /\ FileTypeOK
=============================================================================
