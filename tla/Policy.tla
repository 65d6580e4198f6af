-------------------------------- MODULE Policy --------------------------------
(***************************************************************************)
(* The security policy engine: an ordered list of rules, the first one     *)
(* that matches a request decides, and nothing that matches means deny.    *)
(* A target is abstracted to the pattern lists it hits: "credentials" (a   *)
(* path of the path blocklist), "blacklist" and "high_risk" (a command id  *)
(* contains a word of that list), and the ids of plugins that the command  *)
(* id contains: command patterns match as substrings.                      *)
(***************************************************************************)
EXTENDS Integers, Sequences

Caller == {"ui", "agent", "internal"}
ToolType == {"fs", "shell"}
Operation == {"read", "write", "delete", "rename", "move", "chmod", "exec"}
Decision == {"allow", "deny", "require_approval"}

PolicyRequest(caller, tool, operation, hits) ==
    [caller |-> caller, tool |-> tool, operation |-> operation, hits |-> hits]

AnyCaller == Caller
AnyTool == ToolType
AnyOperation == Operation
NoPattern == "no_pattern"

Rule(callers, tools, operations, patterns, action) ==
    [callers |-> callers, tools |-> tools, operations |-> operations,
     patterns |-> patterns, action |-> action]

\* policies/default.yaml, in its order.
DefaultRules == <<
    Rule(AnyCaller, {"fs"}, AnyOperation, "credentials", "deny"),
    Rule(AnyCaller, {"shell"}, AnyOperation, "blacklist", "deny"),
    Rule(AnyCaller, {"fs"}, {"delete", "rename", "move", "chmod"}, NoPattern, "require_approval"),
    Rule(AnyCaller, {"shell"}, {"exec"}, "high_risk", "require_approval"),
    Rule({"internal"}, AnyTool, AnyOperation, NoPattern, "allow"),
    Rule({"agent"}, {"fs"}, {"read"}, NoPattern, "allow"),
    Rule({"agent"}, {"fs"}, {"write"}, NoPattern, "require_approval"),
    Rule({"agent"}, {"shell"}, {"exec"}, NoPattern, "require_approval"),
    Rule({"ui"}, {"fs"}, {"read", "write"}, NoPattern, "allow"),
    Rule({"ui"}, {"shell"}, {"exec"}, NoPattern, "allow") >>

\* builtin_default_rules, for a policy that does not load: the path block list is for every
\* tool, and the command blacklist has fewer entries ("builtin_blacklist").
BuiltinRules ==
    [i \in DOMAIN DefaultRules |->
        CASE i = 1 -> Rule(AnyCaller, AnyTool, AnyOperation, "credentials", "deny")
          [] i = 2 -> Rule(AnyCaller, {"shell"}, AnyOperation, "builtin_blacklist", "deny")
          [] OTHER -> DefaultRules[i]]

\* load_from_yaml: a file that does not parse, lists no rules, or has a rule that restricts
\* nothing (restricts) is not used at all.
LoadPolicy(file) ==
    IF file.parses /\ file.rules # <<>> /\ \A i \in DOMAIN file.rules : file.rules[i].restricts
    THEN [i \in DOMAIN file.rules |-> file.rules[i].rule]
    ELSE BuiltinRules

\* The file compiled into the program, which parses.
DefaultFile ==
    [parses |-> TRUE,
     rules |-> [i \in DOMAIN DefaultRules |-> [rule |-> DefaultRules[i], restricts |-> TRUE]]]

\* merge_rules: the rules of plugins come first.
MergeRules(base, extra) == extra \o base

RuleMatches(rule, request) ==
    /\ request.caller \in rule.callers
    /\ request.tool \in rule.tools
    /\ request.operation \in rule.operations
    /\ rule.patterns # NoPattern => rule.patterns \in request.hits

\* Fault: the last rule that matches decides.
EvaluateLast(rules, request) ==
    LET matching == {i \in DOMAIN rules : RuleMatches(rules[i], request)}
    IN IF matching = {} THEN "deny"
       ELSE rules[CHOOSE i \in matching : \A j \in matching : i >= j].action

\* evaluate_with_config, for requests that carry no content sensitivity.
Evaluate(rules, request) ==
    LET matching == {i \in DOMAIN rules : RuleMatches(rules[i], request)}
    IN IF matching = {} THEN "deny"
       ELSE rules[CHOOSE i \in matching : \A j \in matching : i <= j].action
=============================================================================
