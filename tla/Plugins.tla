------------------------------- MODULE Plugins -------------------------------
(***************************************************************************)
(* Plugins of the desktop application (plugins/loader.rs), loaded once at  *)
(* start-up from the YAML files of a directory, in the order of their      *)
(* paths.  Each brings a rule of the policy, and those that name a binary  *)
(* a command of the shell catalog.                                         *)
(*                                                                         *)
(* A file is a record: does it parse, the id, the type, what its security  *)
(* block lists, does it name a binary, its parameters and those of them    *)
(* the template uses, and the template: "none", "plain", or, with the      *)
(* workspace's placeholder, "workspace" when it is an argument of its own  *)
(* and "inside" when it is part of one.                                    *)
(***************************************************************************)
EXTENDS Policy

PluginType == {"shell", "fs_indexer", "agent_tool"}
PluginToolTypes == {"shell", "fs", "agent", "network", "web", "other"}
PluginOperations ==
    {"read", "write", "delete", "rename", "move", "chmod", "exec", "execute"}
NoId == ""

WellFormed(raw) ==
    /\ raw.type \in PluginType
    /\ raw.tools \subseteq PluginToolTypes
    /\ raw.operations \subseteq PluginOperations
    /\ raw.type = "shell" => raw.binary /\ raw.template # "none"

\* An id is taken by the first file that names it, even when that file is then refused.
Taken(files, n) == \E j \in 1..(n - 1) : files[j].parses /\ files[j].id = files[n].id

Loads(files, n) ==
    /\ files[n].parses
    /\ files[n].id # NoId
    /\ ~Taken(files, n)
    /\ WellFormed(files[n])

\* load_plugins_from_dir: what does not load is skipped.
LoadPlugins(files) ==
    LET ok == SelectSeq([n \in DOMAIN files |-> n], LAMBDA n : Loads(files, n))
    IN [k \in DOMAIN ok |-> files[ok[k]]]

-----------------------------------------------------------------------------
(* The policy *)

RuleTools(d) == IF d.tools = {} THEN {"shell"} ELSE d.tools

\* Shell commands are always executed, whatever the plugin calls it.
RuleOperations(d) ==
    IF "shell" \in RuleTools(d) \/ d.operations = {} THEN {"exec"}
    ELSE {IF o \in {"read", "execute"} THEN "exec" ELSE o : o \in d.operations}

RequiresApproval(d) == IF d.approval = "unset" THEN d.dangerous ELSE d.approval = "yes"

\* plugin_rules_from_descriptors: the rule is for every command whose id contains the plugin's,
\* and for every caller.
PluginRules(ds) ==
    [i \in DOMAIN ds |->
        Rule(AnyCaller, RuleTools(ds[i]), RuleOperations(ds[i]), ds[i].id,
             IF RequiresApproval(ds[i]) THEN "require_approval" ELSE "allow")]

\* The policy main() installs.
ActiveRules(policyFile, ds) == MergeRules(LoadPolicy(policyFile), PluginRules(ds))

-----------------------------------------------------------------------------
(* The catalog *)

\* An indexer without a binary, or an agent tool, is no command.
IsCommand(d) == d.type \in {"shell", "fs_indexer"} /\ d.binary

\* An indexer without a template indexes the workspace.
UsesWorkspace(d) == d.template \in {"workspace", "inside", "none"}

WorkspaceParam == [p \in {"workspace_id"} |-> [type |-> "string", required |-> TRUE]]

\* The plugins that become commands.
PluginCommands(ds) == {ds[i] : i \in {k \in DOMAIN ds : IsCommand(ds[k])}}

\* shell_plugins_to_command_specs: a template with the workspace gets its parameter, but only
\* an argument of its own is a placeholder.
CommandSpec(d) ==
    [params |->
        IF UsesWorkspace(d)
        THEN [p \in DOMAIN d.params \union {"workspace_id"} |->
                IF p \in DOMAIN d.params THEN d.params[p] ELSE WorkspaceParam[p]]
        ELSE d.params,
     uses |-> d.uses,
     workspace |-> d.template \in {"workspace", "none"},
     denied |-> d.denied]

\* merge_plugin_commands: a plugin replaces the command of the same id.
MergedCatalog(catalog, ds) ==
    LET commands == PluginCommands(ds)
    IN [c \in DOMAIN catalog \union {d.id : d \in commands} |->
            IF \E d \in commands : d.id = c
            THEN CommandSpec(CHOOSE d \in commands : d.id = c)
            ELSE catalog[c]]
=============================================================================
