---------------------------- MODULE MCApprovals ----------------------------
(***************************************************************************)
(* TLC instance of Approvals.  Ids and directories are interchangeable.    *)
(* The commands of the default policy are explored without plugins, with   *)
(* moves from one directory to another; what plugins change with one       *)
(* directory; and the settings an older version left without commands.     *)
(*                                                                         *)
(* The plugin directory is empty, or has a trusted formatter and a command *)
(* that pushes what it formatted and asks: the id of the second contains   *)
(* that of the first, and both contain the blacklisted word "rm", as the   *)
(* built-in format_code does.                                              *)
(***************************************************************************)
EXTENDS Approvals, FiniteSets, TLC

Symmetry == Permutations(Request) \union Permutations(Root)

ShellIds == {"run_tests", "format_code", "shell.format", "shell.format_push"}

Words == [c \in ShellIds |->
    {c} \union
    CASE c = "run_tests" -> {}
      [] c = "shell.format_push" -> {"shell.format", "blacklist", "high_risk"}
      [] OTHER -> {"blacklist"}]

File(id, dangerous) ==
    [parses |-> TRUE, id |-> id, type |-> "shell", tools |-> {"shell"}, operations |-> {"exec"},
     approval |-> "unset", dangerous |-> dangerous, binary |-> TRUE, template |-> "plain",
     params |-> <<>>, uses |-> {}, denied |-> FALSE]

\* The files of the directory, in the order of their paths.
Formatter == File("shell.format", FALSE)
Pusher == File("shell.format_push", TRUE)
Directories == {<<>>, <<Formatter, Pusher>>, <<Pusher>>}
Installations == {LoadPlugins(files) : files \in Directories}

\* What the older version can have left: the gate open, and a workspace or none.
LegacyFiles == [workspaces : {{}} \union {{[id |-> 0, root |-> d]} : d \in Root}, destructive : {TRUE}]

VARIABLE scenario \* which of the three is explored

Asked == {r \in Request : issued[r] # NoRequest}
\* What an approval was asked for, and what was carried out.
Operations == {issued[r] : r \in Asked} \union ({effect} \ {NoEffect})
Used == {op.command : op \in Operations}

\* The directories spoken of.
AllRoots ==
    Roots(settings) \union Roots(Read(saved)) \union {w.root : w \in form}
        \union {issued[r].path.root : r \in Asked}

InScenario ==
    \/ /\ scenario = "default policy"
       /\ plugins = <<>> /\ legacy = NoLegacy
       /\ Used \subseteq {"write", "move"}
       /\ \A op \in Operations : op.command = "move" => op.path.root # op.dest.root
    \/ /\ scenario = "plugins"
       /\ legacy = NoLegacy /\ nextId <= 1
       /\ Used \subseteq ShellIds \union {"delete", "rename"}
       /\ Cardinality(AllRoots) <= 1
    \/ /\ scenario = "older version"
       /\ plugins = <<>> /\ Used = {}

MCInit ==
    /\ Init
    /\ scenario \in {"default policy", "plugins", "older version"}
    /\ InScenario
    /\ scenario # "older version" => settings = Defaults
MCNext == UNCHANGED scenario /\ Next /\ InScenario'
MCSpec == MCInit /\ [][MCNext]_<<vars, scenario>>
=============================================================================
