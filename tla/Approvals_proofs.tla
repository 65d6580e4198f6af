--------------------------- MODULE Approvals_proofs ---------------------------
(***************************************************************************)
(* Theorems about Policy and Plugins, for every request, and about         *)
(* Approvals, for every set of request ids, of directories, of commands    *)
(* and of plugins, every lifetime and every bound.                         *)
(***************************************************************************)
EXTENDS Approvals, WellFoundedInduction, TLAPS

-----------------------------------------------------------------------------
(* What the default policy, its fallback and the policy with plugins        *)
(* decide, for every request they can be asked.                             *)

\* The first rule that matches decides, whatever the rules.
THEOREM FirstMatchDecides ==
    ASSUME NEW rules, NEW request, DOMAIN rules \subseteq Nat, NEW n \in DOMAIN rules,
           RuleMatches(rules[n], request),
           \A j \in DOMAIN rules : j < n => ~RuleMatches(rules[j], request)
    PROVE  Evaluate(rules, request) = rules[n].action
<1> DEFINE matching == {i \in DOMAIN rules : RuleMatches(rules[i], request)}
<1> DEFINE first == CHOOSE i \in matching : \A j \in matching : i <= j
<1>1. n \in matching /\ \A j \in matching : n <= j
  OBVIOUS
<1>2. first \in matching /\ \A j \in matching : first <= j
  BY <1>1
<1>3. first = n
  BY <1>1, <1>2
<1>4. QED
  BY <1>1, <1>3 DEF Evaluate

\* A request no rule matches is denied.
THEOREM DeniedByDefault ==
    ASSUME NEW rules, NEW request, \A j \in DOMAIN rules : ~RuleMatches(rules[j], request)
    PROVE  Evaluate(rules, request) = "deny"
  BY DEF Evaluate

-----------------------------------------------------------------------------
LEMMA RuleDomain == DOMAIN DefaultRules = 1 .. 10
  BY DEF DefaultRules

\* No rule before the n-th matches.
NoneBefore(n, q) == \A j \in 1 .. 10 : j < n => ~RuleMatches(DefaultRules[j], q)

LEMMA DefaultDecision ==
    ASSUME NEW n \in 1 .. 10, NEW q, RuleMatches(DefaultRules[n], q), NoneBefore(n, q)
    PROVE  Evaluate(DefaultRules, q) = DefaultRules[n].action
  BY RuleDomain, FirstMatchDecides DEF NoneBefore

\* A blacklisted command is denied to every caller.
THEOREM BlacklistDenied ==
    ASSUME NEW caller \in Caller, NEW hits, "blacklist" \in hits
    PROVE  Evaluate(DefaultRules, PolicyRequest(caller, "shell", "exec", hits)) = "deny"
<1> DEFINE q == PolicyRequest(caller, "shell", "exec", hits)
<1>1. RuleMatches(DefaultRules[2], q) /\ DefaultRules[2].action = "deny"
  BY DEF DefaultRules, Rule, RuleMatches, PolicyRequest, AnyCaller, AnyOperation, Operation, NoPattern
<1>2. ~RuleMatches(DefaultRules[1], q)
  BY DEF DefaultRules, Rule, RuleMatches, PolicyRequest
<1>3. QED
  BY <1>1, <1>2, DefaultDecision DEF NoneBefore

\* A decision is deny or the action of a rule that matches.
LEMMA DecisionIsOfAMatch ==
    ASSUME NEW rules, NEW request, DOMAIN rules \subseteq Nat,
           \A j \in DOMAIN rules : RuleMatches(rules[j], request) => rules[j].action # "allow"
    PROVE  Evaluate(rules, request) # "allow"
<1> DEFINE matching == {i \in DOMAIN rules : RuleMatches(rules[i], request)}
<1>1. CASE matching = {}
  BY <1>1 DEF Evaluate
<1>2. CASE matching # {}
  <2>1. PICK n \in matching : \A j \in matching : n <= j
    <3>1. PICK n \in matching : \A j \in matching : <<j, n>> \notin OpToRel(<, Nat)
      BY <1>2, WFMin, NatLessThanWellFounded
    <3>2. \A j \in matching : ~(j < n)
      BY <3>1 DEF OpToRel
    <3>3. QED
      BY <3>2
  <2>2. Evaluate(rules, request) = rules[n].action
    BY <2>1, FirstMatchDecides
  <2>3. QED
    BY <2>1, <2>2
<1>3. QED
  BY <1>1, <1>2

\* The rules of the default policy that allow something do not match what the agent changes.
LEMMA DefaultAllowsNoChange ==
    ASSUME NEW tool \in ToolType, NEW operation \in Operation, NEW hits,
           ~(tool = "fs" /\ operation = "read"), NEW j \in 1 .. 10,
           RuleMatches(DefaultRules[j], PolicyRequest("agent", tool, operation, hits))
    PROVE  DefaultRules[j].action # "allow"
<1> DEFINE q == PolicyRequest("agent", tool, operation, hits)
<1>1. ~RuleMatches(DefaultRules[5], q)
  BY DEF DefaultRules, Rule, RuleMatches, PolicyRequest
<1>2. ~RuleMatches(DefaultRules[6], q)
  BY DEF DefaultRules, Rule, RuleMatches, PolicyRequest
<1>3. ~RuleMatches(DefaultRules[9], q) /\ ~RuleMatches(DefaultRules[10], q)
  BY DEF DefaultRules, Rule, RuleMatches, PolicyRequest
<1>4. \A i \in 1 .. 10 : i \notin {5, 6, 9, 10} => DefaultRules[i].action # "allow"
  <2>1. /\ DefaultRules[1].action # "allow" /\ DefaultRules[2].action # "allow"
        /\ DefaultRules[3].action # "allow" /\ DefaultRules[4].action # "allow"
        /\ DefaultRules[7].action # "allow" /\ DefaultRules[8].action # "allow"
    BY DEF DefaultRules, Rule
  <2>2. QED
    BY <2>1
<1>5. QED
  BY <1>1, <1>2, <1>3, <1>4

\* The default policy allows the agent nothing on its own but to read files, whatever the
\* targets are: a change is denied or put to the user.
THEOREM AgentChangesNotAllowed ==
    ASSUME NEW tool \in ToolType, NEW operation \in Operation, NEW hits,
           ~(tool = "fs" /\ operation = "read")
    PROVE  Evaluate(DefaultRules, PolicyRequest("agent", tool, operation, hits)) # "allow"
  BY RuleDomain, DefaultAllowsNoChange, DecisionIsOfAMatch

\* Deleting, renaming, moving and chmod are allowed to no caller without
\* consent: the rule for them comes before the one that trusts internal callers.
THEOREM DestructiveNotAllowed ==
    ASSUME NEW caller \in Caller, NEW operation \in {"delete", "rename", "move", "chmod"},
           NEW hits
    PROVE  Evaluate(DefaultRules, PolicyRequest(caller, "fs", operation, hits)) # "allow"
<1> DEFINE q == PolicyRequest(caller, "fs", operation, hits)
<1>1. /\ RuleMatches(DefaultRules[3], q)
      /\ DefaultRules[3].action = "require_approval"
      /\ DefaultRules[1].action = "deny"
      /\ ~RuleMatches(DefaultRules[2], q)
  BY DEF DefaultRules, Rule, RuleMatches, PolicyRequest, AnyCaller
<1>2. CASE RuleMatches(DefaultRules[1], q)
  BY <1>1, <1>2, DefaultDecision DEF NoneBefore
<1>3. CASE ~RuleMatches(DefaultRules[1], q)
  BY <1>1, <1>3, DefaultDecision DEF NoneBefore
<1>4. QED
  BY <1>2, <1>3

-----------------------------------------------------------------------------
LEMMA LeastElement ==
    ASSUME NEW M, M \subseteq Nat, M # {}
    PROVE  \E n \in M : \A j \in M : ~(j < n)
<1>1. PICK n \in M : \A j \in M : <<j, n>> \notin OpToRel(<, Nat)
  BY WFMin, NatLessThanWellFounded
<1>2. \A j \in M : ~(j < n)
  BY <1>1 DEF OpToRel
<1>3. QED
  BY <1>2

\* Two lists of rules with the same actions, of which the same ones match, decide alike.
LEMMA SameMatchesDecideAlike ==
    ASSUME NEW rules, NEW others, NEW request, DOMAIN rules = DOMAIN others,
           DOMAIN rules \subseteq Nat,
           \A j \in DOMAIN rules :
              /\ RuleMatches(rules[j], request) <=> RuleMatches(others[j], request)
              /\ rules[j].action = others[j].action
    PROVE  Evaluate(rules, request) = Evaluate(others, request)
<1> DEFINE matching == {i \in DOMAIN rules : RuleMatches(rules[i], request)}
<1>1. matching = {i \in DOMAIN others : RuleMatches(others[i], request)}
  OBVIOUS
<1>2. CASE matching = {}
  BY <1>1, <1>2 DEF Evaluate
<1>3. CASE matching # {}
  <2>1. matching \subseteq Nat
    OBVIOUS
  <2>2. PICK n \in matching : \A j \in matching : ~(j < n)
    <3> HIDE DEF matching
    <3> QED  BY <1>3, <2>1, LeastElement
  <2>3. Evaluate(rules, request) = rules[n].action
    BY <2>2, FirstMatchDecides
  <2>4. Evaluate(others, request) = others[n].action
    BY <1>1, <2>2, FirstMatchDecides
  <2>5. QED
    BY <2>3, <2>4
<1>4. QED
  BY <1>2, <1>3

\* The rules built into the program decide as the shipped file does, except on the commands
\* that only the file's blacklist has: "same as default.yaml" holds of everything else.
THEOREM FallbackDecidesAlike ==
    ASSUME NEW caller \in Caller, NEW tool \in ToolType, NEW operation \in Operation, NEW hits,
           "blacklist" \in hits <=> "builtin_blacklist" \in hits,
           tool = "shell" => "credentials" \notin hits
    PROVE  Evaluate(BuiltinRules, PolicyRequest(caller, tool, operation, hits))
             = Evaluate(DefaultRules, PolicyRequest(caller, tool, operation, hits))
<1> DEFINE q == PolicyRequest(caller, tool, operation, hits)
<1>1. DOMAIN BuiltinRules = 1 .. 10
  BY RuleDomain DEF BuiltinRules
<1>2. /\ BuiltinRules[1] = Rule(AnyCaller, AnyTool, AnyOperation, "credentials", "deny")
      /\ BuiltinRules[2] = Rule(AnyCaller, {"shell"}, AnyOperation, "builtin_blacklist", "deny")
      /\ \A j \in 3 .. 10 : BuiltinRules[j] = DefaultRules[j]
  BY RuleDomain DEF BuiltinRules
<1>3. /\ DefaultRules[1] = Rule(AnyCaller, {"fs"}, AnyOperation, "credentials", "deny")
      /\ DefaultRules[2] = Rule(AnyCaller, {"shell"}, AnyOperation, "blacklist", "deny")
  BY DEF DefaultRules
<1> DEFINE Alike(j) == /\ RuleMatches(BuiltinRules[j], q) <=> RuleMatches(DefaultRules[j], q)
                       /\ BuiltinRules[j].action = DefaultRules[j].action
<1>4. Alike(1)
  <2>1. /\ RuleMatches(BuiltinRules[1], q) <=> "credentials" \in hits
        /\ BuiltinRules[1].action = "deny"
    BY <1>2 DEF RuleMatches, Rule, PolicyRequest, AnyCaller, AnyTool, AnyOperation, NoPattern
  <2>2. /\ RuleMatches(DefaultRules[1], q) <=> tool = "fs" /\ "credentials" \in hits
        /\ DefaultRules[1].action = "deny"
    BY <1>3 DEF RuleMatches, Rule, PolicyRequest, AnyCaller, AnyOperation, NoPattern
  <2>3. QED
    BY <2>1, <2>2 DEF ToolType
<1>5. Alike(2)
  <2>1. /\ RuleMatches(BuiltinRules[2], q) <=> tool = "shell" /\ "builtin_blacklist" \in hits
        /\ BuiltinRules[2].action = "deny"
    BY <1>2 DEF RuleMatches, Rule, PolicyRequest, AnyCaller, AnyOperation, NoPattern
  <2>2. /\ RuleMatches(DefaultRules[2], q) <=> tool = "shell" /\ "blacklist" \in hits
        /\ DefaultRules[2].action = "deny"
    BY <1>3 DEF RuleMatches, Rule, PolicyRequest, AnyCaller, AnyOperation, NoPattern
  <2>3. QED
    BY <2>1, <2>2
<1>6. \A j \in 3 .. 10 : Alike(j)
  BY <1>2
<1>7. \A j \in 1 .. 10 : Alike(j)
  <2> HIDE DEF Alike
  <2> QED  BY <1>4, <1>5, <1>6
<1>8. DOMAIN BuiltinRules = DOMAIN DefaultRules /\ DOMAIN BuiltinRules \subseteq Nat
  BY <1>1, RuleDomain
<1>9. \A j \in DOMAIN BuiltinRules :
         /\ RuleMatches(BuiltinRules[j], q) <=> RuleMatches(DefaultRules[j], q)
         /\ BuiltinRules[j].action = DefaultRules[j].action
  BY <1>1, <1>7
<1>10. QED
  <2> HIDE DEF q
  <2>1. Evaluate(BuiltinRules, q) = Evaluate(DefaultRules, q)
    BY <1>8, <1>9, SameMatchesDecideAlike
  <2> QED  BY <2>1 DEF q

\* Where the elements of two sequences are when they are put one after the other.
LEMMA Concatenated ==
    ASSUME NEW S, NEW extra \in Seq(S), NEW base \in Seq(S)
    PROVE  /\ Len(extra) \in Nat /\ Len(base) \in Nat
           /\ DOMAIN base = 1 .. Len(base) /\ DOMAIN extra = 1 .. Len(extra)
           /\ DOMAIN (extra \o base) = 1 .. (Len(extra) + Len(base))
           /\ \A i \in 1 .. Len(extra) : (extra \o base)[i] = extra[i]
           /\ \A i \in 1 .. Len(base) : (extra \o base)[Len(extra) + i] = base[i]
  OBVIOUS

\* Rules put in front that match nothing do not change a decision.
LEMMA PrependedDecideAlike ==
    ASSUME NEW S, NEW extra \in Seq(S), NEW base \in Seq(S), NEW request,
           \A i \in DOMAIN extra : ~RuleMatches(extra[i], request)
    PROVE  Evaluate(MergeRules(base, extra), request) = Evaluate(base, request)
<1> DEFINE all == extra \o base
<1> DEFINE k == Len(extra)
<1> DEFINE matching == {i \in DOMAIN base : RuleMatches(base[i], request)}
<1>1. /\ k \in Nat /\ Len(base) \in Nat /\ DOMAIN base = 1 .. Len(base)
      /\ DOMAIN extra = 1 .. k
      /\ DOMAIN all = 1 .. (k + Len(base))
      /\ \A i \in 1 .. k : all[i] = extra[i]
      /\ \A i \in 1 .. Len(base) : all[k + i] = base[i]
  OBVIOUS
<1>2. \A i \in DOMAIN all : RuleMatches(all[i], request) => i - k \in matching /\ i > k
  <2> SUFFICES ASSUME NEW i \in DOMAIN all, RuleMatches(all[i], request)
               PROVE  i - k \in matching /\ i > k
    OBVIOUS
  <2>1. i > k
    BY <1>1
  <2>2. i - k \in 1 .. Len(base) /\ all[k + (i - k)] = all[i]
    BY <1>1, <2>1
  <2>3. QED
    BY <1>1, <2>1, <2>2
<1>3. CASE matching = {}
  <2>1. \A j \in DOMAIN all : ~RuleMatches(all[j], request)
    BY <1>2, <1>3
  <2>2. Evaluate(all, request) = "deny"
    BY <2>1, DeniedByDefault
  <2>3. Evaluate(base, request) = "deny"
    BY <1>3, DeniedByDefault
  <2>4. QED
    BY <2>2, <2>3 DEF MergeRules
<1>4. CASE matching # {}
  <2>1. matching \subseteq Nat /\ DOMAIN base \subseteq Nat
    BY <1>1
  <2>2. PICK n \in matching : \A j \in matching : ~(j < n)
    <3> HIDE DEF matching
    <3> QED  BY <1>4, <2>1, LeastElement
  <2>3. Evaluate(base, request) = base[n].action
    <3>1. /\ n \in DOMAIN base /\ RuleMatches(base[n], request)
          /\ \A j \in DOMAIN base : j < n => ~RuleMatches(base[j], request)
      BY <2>2
    <3> HIDE DEF matching
    <3> QED  BY <2>1, <3>1, FirstMatchDecides
  <2>4. k + n \in DOMAIN all /\ all[k + n] = base[n] /\ DOMAIN all \subseteq Nat
    BY <1>1, <2>1, <2>2
  <2>5. \A j \in DOMAIN all : j < k + n => ~RuleMatches(all[j], request)
    BY <1>1, <1>2, <2>1, <2>2
  <2>6. RuleMatches(all[k + n], request)
    BY <2>2, <2>4
  <2>7. Evaluate(all, request) = all[k + n].action
    BY <2>4, <2>5, <2>6, FirstMatchDecides
  <2>8. QED
    BY <2>3, <2>4, <2>7 DEF MergeRules
<1>5. QED
  BY <1>3, <1>4

\* Whatever plugins are installed, a file request is decided as if there were none: the rule
\* of a plugin is for shell commands, those that contain its id.
THEOREM PluginsLeaveFilesAlone ==
    ASSUME NEW Rules, NEW base \in Seq(Rules), NEW D, NEW ds \in Seq(D),
           NEW caller, NEW operation, NEW hits,
           \A i \in DOMAIN ds : ds[i].id \notin hits \union {NoPattern}
    PROVE  Evaluate(MergeRules(base, PluginRules(ds)), PolicyRequest(caller, "fs", operation, hits))
             = Evaluate(base, PolicyRequest(caller, "fs", operation, hits))
<1> DEFINE q == PolicyRequest(caller, "fs", operation, hits)
<1> DEFINE All == Rules \union {PluginRules(ds)[i] : i \in DOMAIN ds}
<1>1. PluginRules(ds) \in Seq(All) /\ DOMAIN PluginRules(ds) = DOMAIN ds
  BY DEF PluginRules
<1>2. base \in Seq(All)
  OBVIOUS
<1>3. \A i \in DOMAIN ds : ~RuleMatches(PluginRules(ds)[i], q)
  BY DEF PluginRules, RuleMatches, Rule, PolicyRequest
<1>4. QED
  BY <1>1, <1>2, <1>3, PrependedDecideAlike

AllRules(ds) == {DefaultRules[i] : i \in DOMAIN DefaultRules} \union {PluginRules(ds)[i] : i \in DOMAIN ds}

LEMMA RulesAreSequences ==
    ASSUME NEW D, NEW ds \in Seq(D)
    PROVE  /\ DefaultRules \in Seq(AllRules(ds))
           /\ PluginRules(ds) \in Seq(AllRules(ds))
           /\ DOMAIN PluginRules(ds) = DOMAIN ds
<1>1. PluginRules(ds) \in Seq(AllRules(ds)) /\ DOMAIN PluginRules(ds) = DOMAIN ds
  BY DEF PluginRules, AllRules
<1>2. DefaultRules \in Seq({DefaultRules[i] : i \in DOMAIN DefaultRules})
  BY DEF DefaultRules
<1>3. QED
  BY <1>1, <1>2 DEF AllRules

LEMMA MergedDomain ==
    ASSUME NEW D, NEW ds \in Seq(D)
    PROVE  DOMAIN MergeRules(DefaultRules, PluginRules(ds)) \subseteq Nat
  BY RulesAreSequences DEF MergeRules

\* How much a decision restricts.
Rank(decision) ==
    CASE decision = "allow" -> 0 [] decision = "require_approval" -> 1 [] decision = "deny" -> 2

Asks(c, tool, operation, hits) == PolicyRequest(c, tool, operation, hits)
Matches(j, c, tool, operation, hits) == RuleMatches(DefaultRules[j], Asks(c, tool, operation, hits))

\* Which rules of the default policy match what the agent and the ui ask, and what they say.
LEMMA DefaultTable ==
    ASSUME NEW c \in {"agent", "ui"}, NEW tool \in ToolType, NEW operation \in Operation, NEW hits
    PROVE  /\ Matches(1, c, tool, operation, hits) <=> tool = "fs" /\ "credentials" \in hits
           /\ Matches(2, c, tool, operation, hits) <=> tool = "shell" /\ "blacklist" \in hits
           /\ Matches(3, c, tool, operation, hits) <=> tool = "fs" /\ operation \in {"delete", "rename", "move", "chmod"}
           /\ Matches(4, c, tool, operation, hits) <=> tool = "shell" /\ operation = "exec" /\ "high_risk" \in hits
           /\ Matches(5, c, tool, operation, hits) <=> FALSE
           /\ Matches(6, c, tool, operation, hits) <=> c = "agent" /\ tool = "fs" /\ operation = "read"
           /\ Matches(7, c, tool, operation, hits) <=> c = "agent" /\ tool = "fs" /\ operation = "write"
           /\ Matches(8, c, tool, operation, hits) <=> c = "agent" /\ tool = "shell" /\ operation = "exec"
           /\ Matches(9, c, tool, operation, hits) <=> c = "ui" /\ tool = "fs" /\ operation \in {"read", "write"}
           /\ Matches(10, c, tool, operation, hits) <=> c = "ui" /\ tool = "shell" /\ operation = "exec"
<1>1. Matches(1, c, tool, operation, hits) <=> tool = "fs" /\ "credentials" \in hits
  BY DEF Matches, Asks, DefaultRules, Rule, RuleMatches, PolicyRequest, AnyCaller, AnyTool, AnyOperation, Operation,
         ToolType, Caller, NoPattern
<1>2. Matches(2, c, tool, operation, hits) <=> tool = "shell" /\ "blacklist" \in hits
  BY DEF Matches, Asks, DefaultRules, Rule, RuleMatches, PolicyRequest, AnyCaller, AnyTool, AnyOperation, Operation,
         ToolType, Caller, NoPattern
<1>3. Matches(3, c, tool, operation, hits) <=> tool = "fs" /\ operation \in {"delete", "rename", "move", "chmod"}
  BY DEF Matches, Asks, DefaultRules, Rule, RuleMatches, PolicyRequest, AnyCaller, AnyTool, AnyOperation, Operation,
         ToolType, Caller, NoPattern
<1>4. Matches(4, c, tool, operation, hits) <=> tool = "shell" /\ operation = "exec" /\ "high_risk" \in hits
  BY DEF Matches, Asks, DefaultRules, Rule, RuleMatches, PolicyRequest, AnyCaller, AnyTool, AnyOperation, Operation,
         ToolType, Caller, NoPattern
<1>5. Matches(5, c, tool, operation, hits) <=> FALSE
  BY DEF Matches, Asks, DefaultRules, Rule, RuleMatches, PolicyRequest, AnyCaller, AnyTool, AnyOperation, Operation,
         ToolType, Caller, NoPattern
<1>6. Matches(6, c, tool, operation, hits) <=> c = "agent" /\ tool = "fs" /\ operation = "read"
  BY DEF Matches, Asks, DefaultRules, Rule, RuleMatches, PolicyRequest, AnyCaller, AnyTool, AnyOperation, Operation,
         ToolType, Caller, NoPattern
<1>7. Matches(7, c, tool, operation, hits) <=> c = "agent" /\ tool = "fs" /\ operation = "write"
  BY DEF Matches, Asks, DefaultRules, Rule, RuleMatches, PolicyRequest, AnyCaller, AnyTool, AnyOperation, Operation,
         ToolType, Caller, NoPattern
<1>8. Matches(8, c, tool, operation, hits) <=> c = "agent" /\ tool = "shell" /\ operation = "exec"
  BY DEF Matches, Asks, DefaultRules, Rule, RuleMatches, PolicyRequest, AnyCaller, AnyTool, AnyOperation, Operation,
         ToolType, Caller, NoPattern
<1>9. Matches(9, c, tool, operation, hits) <=> c = "ui" /\ tool = "fs" /\ operation \in {"read", "write"}
  BY DEF Matches, Asks, DefaultRules, Rule, RuleMatches, PolicyRequest, AnyCaller, AnyTool, AnyOperation, Operation,
         ToolType, Caller, NoPattern
<1>10. Matches(10, c, tool, operation, hits) <=> c = "ui" /\ tool = "shell" /\ operation = "exec"
  BY DEF Matches, Asks, DefaultRules, Rule, RuleMatches, PolicyRequest, AnyCaller, AnyTool, AnyOperation, Operation,
         ToolType, Caller, NoPattern
<1>11. QED
  BY <1>1, <1>2, <1>3, <1>4, <1>5, <1>6, <1>7, <1>8, <1>9, <1>10

LEMMA DefaultActions ==
    /\ \A j \in {1, 2} : DefaultRules[j].action = "deny"
    /\ \A j \in {3, 4, 7, 8} : DefaultRules[j].action = "require_approval"
    /\ \A j \in {5, 6, 9, 10} : DefaultRules[j].action = "allow"
  BY DEF DefaultRules, Rule

\* The default policy refuses the agent what it refuses the ui, and asks where it asks.
LEMMA DefaultRanks ==
    ASSUME NEW tool \in ToolType, NEW operation \in Operation, NEW hits
    PROVE  Rank(Evaluate(DefaultRules, PolicyRequest("agent", tool, operation, hits)))
             >= Rank(Evaluate(DefaultRules, PolicyRequest("ui", tool, operation, hits)))
<1> DEFINE M(j, c) == Matches(j, c, tool, operation, hits)
<1> DEFINE D(c) == Evaluate(DefaultRules, Asks(c, tool, operation, hits))
<1> DEFINE First(n, c) == M(n, c) /\ \A j \in 1 .. 10 : j < n => ~M(j, c)
<1>1. ASSUME NEW c \in {"agent", "ui"}, NEW n \in 1 .. 10, First(n, c)
      PROVE  D(c) = DefaultRules[n].action
  <2> DEFINE q == Asks(c, tool, operation, hits)
  <2>1. RuleMatches(DefaultRules[n], q) /\ NoneBefore(n, q)
    BY <1>1 DEF Matches, NoneBefore
  <2> HIDE DEF q
  <2>2. Evaluate(DefaultRules, q) = DefaultRules[n].action
    BY <2>1, DefaultDecision
  <2>3. QED
    BY <2>2 DEF q
<1>2. ASSUME NEW c \in {"agent", "ui"}, \A j \in 1 .. 10 : ~M(j, c)
      PROVE  D(c) = "deny"
  BY <1>2, RuleDomain, DeniedByDefault DEF Matches
<1>3. \A c \in {"agent", "ui"} :
        /\ M(1, c) <=> tool = "fs" /\ "credentials" \in hits
        /\ M(2, c) <=> tool = "shell" /\ "blacklist" \in hits
        /\ M(3, c) <=> tool = "fs" /\ operation \in {"delete", "rename", "move", "chmod"}
        /\ M(4, c) <=> tool = "shell" /\ operation = "exec" /\ "high_risk" \in hits
        /\ M(5, c) <=> FALSE
        /\ M(6, c) <=> c = "agent" /\ tool = "fs" /\ operation = "read"
        /\ M(7, c) <=> c = "agent" /\ tool = "fs" /\ operation = "write"
        /\ M(8, c) <=> c = "agent" /\ tool = "shell" /\ operation = "exec"
        /\ M(9, c) <=> c = "ui" /\ tool = "fs" /\ operation \in {"read", "write"}
        /\ M(10, c) <=> c = "ui" /\ tool = "shell" /\ operation = "exec"
  BY DefaultTable
<1> HIDE DEF M, D
<1>4. CASE tool = "fs" /\ "credentials" \in hits
  <2>1. First(1, "agent") /\ First(1, "ui")
    BY <1>3, <1>4
  <2>2. D("agent") = "deny" /\ D("ui") = "deny"
    BY <1>1, <2>1, DefaultActions
  <2>3. QED
    BY <2>2 DEF Rank, D, Asks
<1>5. CASE tool = "shell" /\ "blacklist" \in hits
  <2>1. First(2, "agent") /\ First(2, "ui")
    BY <1>3, <1>5
  <2>2. D("agent") = "deny" /\ D("ui") = "deny"
    BY <1>1, <2>1, DefaultActions
  <2>3. QED
    BY <2>2 DEF Rank, D, Asks
<1>6. CASE tool = "fs" /\ "credentials" \notin hits /\ operation \in {"delete", "rename", "move", "chmod"}
  <2>1. First(3, "agent") /\ First(3, "ui")
    BY <1>3, <1>6
  <2>2. D("agent") = "require_approval" /\ D("ui") = "require_approval"
    BY <1>1, <2>1, DefaultActions
  <2>3. QED
    BY <2>2 DEF Rank, D, Asks
<1>7. CASE tool = "shell" /\ "blacklist" \notin hits /\ operation = "exec" /\ "high_risk" \in hits
  <2>1. First(4, "agent") /\ First(4, "ui")
    BY <1>3, <1>7
  <2>2. D("agent") = "require_approval" /\ D("ui") = "require_approval"
    BY <1>1, <2>1, DefaultActions
  <2>3. QED
    BY <2>2 DEF Rank, D, Asks
<1>8. CASE tool = "fs" /\ "credentials" \notin hits /\ operation = "read"
  <2>1. First(6, "agent") /\ First(9, "ui")
    BY <1>3, <1>8
  <2>2. D("agent") = "allow" /\ D("ui") = "allow"
    BY <1>1, <2>1, DefaultActions
  <2>3. QED
    BY <2>2 DEF Rank, D, Asks
<1>9. CASE tool = "fs" /\ "credentials" \notin hits /\ operation = "write"
  <2>1. First(7, "agent") /\ First(9, "ui")
    BY <1>3, <1>9
  <2>2. D("agent") = "require_approval" /\ D("ui") = "allow"
    BY <1>1, <2>1, DefaultActions
  <2>3. QED
    BY <2>2 DEF Rank, D, Asks
<1>10. CASE tool = "shell" /\ "blacklist" \notin hits /\ operation = "exec" /\ "high_risk" \notin hits
  <2>1. First(8, "agent") /\ First(10, "ui")
    BY <1>3, <1>10
  <2>2. D("agent") = "require_approval" /\ D("ui") = "allow"
    BY <1>1, <2>1, DefaultActions
  <2>3. QED
    BY <2>2 DEF Rank, D, Asks
<1>11. CASE \/ tool = "fs" /\ "credentials" \notin hits /\ operation = "exec"
            \/ tool = "shell" /\ "blacklist" \notin hits /\ operation # "exec"
  <2>1. \A c \in {"agent", "ui"}, j \in 1 .. 10 : ~M(j, c)
    BY <1>3, <1>11
  <2>2. D("agent") = "deny" /\ D("ui") = "deny"
    BY <1>2, <2>1
  <2>3. QED
    BY <2>2 DEF Rank, D, Asks
<1>12. QED
  BY <1>4, <1>5, <1>6, <1>7, <1>8, <1>9, <1>10, <1>11 DEF ToolType, Operation

\* Whatever plugins are installed, the agent is at least as restricted as the ui: a plugin's
\* rule that matches matches both, and the default policy trusts the agent with less.
THEOREM AgentNeverLessRestricted ==
    ASSUME NEW E, NEW ds \in Seq(E), NEW tool \in ToolType, NEW operation \in Operation, NEW hits
    PROVE  LET rules == MergeRules(DefaultRules, PluginRules(ds))
           IN  Rank(Evaluate(rules, PolicyRequest("agent", tool, operation, hits)))
                 >= Rank(Evaluate(rules, PolicyRequest("ui", tool, operation, hits)))
<1> DEFINE rules == MergeRules(DefaultRules, PluginRules(ds))
<1> DEFINE qa == PolicyRequest("agent", tool, operation, hits)
<1> DEFINE qu == PolicyRequest("ui", tool, operation, hits)
<1> DEFINE extra == PluginRules(ds)
<1> DEFINE matching == {i \in DOMAIN extra : RuleMatches(extra[i], qa)}
<1>1. /\ DefaultRules \in Seq(AllRules(ds)) /\ extra \in Seq(AllRules(ds))
      /\ DOMAIN extra = DOMAIN ds
  BY RulesAreSequences
<1>2. \A i \in DOMAIN ds : RuleMatches(extra[i], qa) <=> RuleMatches(extra[i], qu)
  BY DEF PluginRules, RuleMatches, Rule, PolicyRequest, AnyCaller, Caller
<1>3. CASE matching = {}
  <2>1. \A i \in DOMAIN extra : ~RuleMatches(extra[i], qa) /\ ~RuleMatches(extra[i], qu)
    BY <1>1, <1>2, <1>3
  <2> HIDE DEF qa, qu, extra
  <2>2. Evaluate(MergeRules(DefaultRules, extra), qa) = Evaluate(DefaultRules, qa)
    BY <1>1, <2>1, PrependedDecideAlike
  <2>3. Evaluate(MergeRules(DefaultRules, extra), qu) = Evaluate(DefaultRules, qu)
    BY <1>1, <2>1, PrependedDecideAlike
  <2>4. Rank(Evaluate(DefaultRules, qa)) >= Rank(Evaluate(DefaultRules, qu))
    BY DefaultRanks DEF qa, qu
  <2>5. QED
    BY <2>2, <2>3, <2>4 DEF qa, qu, extra
<1>4. CASE matching # {}
  <2>1. Len(extra) \in Nat /\ DOMAIN extra = 1 .. Len(extra) /\ DOMAIN rules \subseteq Nat
    BY <1>1, Concatenated, MergedDomain
  <2>2. PICK n \in matching : \A j \in matching : ~(j < n)
    <3>1. matching \subseteq Nat
      BY <2>1
    <3> HIDE DEF matching
    <3> QED  BY <1>4, <3>1, LeastElement
  <2>3. /\ \A i \in 1 .. Len(extra) : i \in DOMAIN rules /\ rules[i] = extra[i]
    <3>1. /\ DOMAIN (extra \o DefaultRules) = 1 .. (Len(extra) + Len(DefaultRules))
          /\ \A i \in 1 .. Len(extra) : (extra \o DefaultRules)[i] = extra[i]
          /\ Len(DefaultRules) \in Nat
      BY <1>1, Concatenated
    <3>2. rules = extra \o DefaultRules
      BY DEF MergeRules
    <3> HIDE DEF extra, rules
    <3>3. QED
      BY <2>1, <3>1, <3>2
  <2>4. /\ n \in 1 .. Len(extra) /\ n \in DOMAIN rules /\ rules[n] = extra[n]
        /\ RuleMatches(extra[n], qa) /\ RuleMatches(extra[n], qu)
    BY <1>1, <1>2, <2>1, <2>2, <2>3
  <2>5. \A j \in DOMAIN rules : j < n => ~RuleMatches(rules[j], qa) /\ ~RuleMatches(rules[j], qu)
    <3> SUFFICES ASSUME NEW j \in DOMAIN rules, j < n
                 PROVE  ~RuleMatches(rules[j], qa) /\ ~RuleMatches(rules[j], qu)
      OBVIOUS
    <3>1. DOMAIN rules = 1 .. (Len(extra) + Len(DefaultRules)) /\ Len(DefaultRules) \in Nat
      BY <1>1, Concatenated DEF MergeRules
    <3>2. j \in 1 .. Len(extra) /\ rules[j] = extra[j]
      <4> HIDE DEF rules, extra
      <4> QED  BY <2>1, <2>3, <2>4, <3>1
    <3>3. j \notin matching
      BY <2>2
    <3>4. QED
      BY <1>1, <1>2, <2>1, <3>2, <3>3
  <2> HIDE DEF qa, qu, rules
  <2>6. Evaluate(rules, qa) = rules[n].action /\ Evaluate(rules, qu) = rules[n].action
    BY <2>1, <2>4, <2>5, FirstMatchDecides
  <2>7. rules[n].action \in {"allow", "require_approval"}
    BY <1>1, <2>1, <2>4 DEF PluginRules, Rule
  <2>8. QED
    BY <2>6, <2>7 DEF Rank, rules, qa, qu
<1>5. QED
  BY <1>3, <1>4

-----------------------------------------------------------------------------
(* Type correctness. *)

\* A file that settings::load reads gives settings; one that settings::save
\* writes is a file that it reads, unless the save fails or is cut off.
LEMMA ReadType ==
    ASSUME NEW f \in Config \union NoConfig
    PROVE  Read(f) \in Settings
<1>1. CASE f \in NoConfig
  BY <1>1 DEF Read, Settings, Defaults, Workspaces
<1>2. CASE f \in Config /\ f \notin NoConfig
  <2>1. f.workspaces \in Workspaces /\ (f.security \/ f.fs) \in BOOLEAN
    BY <1>2 DEF Config
  <2>2. QED
    BY <1>2, <2>1 DEF Read, Settings
<1>3. QED
  BY <1>1, <1>2

LEMMA WrittenType ==
    ASSUME NEW s \in Settings, NEW file \in Config \union NoConfig, NEW saves \in BOOLEAN,
           NEW f \in Written(s, file, saves)
    PROVE  f \in Config \union NoConfig
<1>1. OnDisk(s) \in Config
  BY DEF OnDisk, Settings, Config
<1>2. QED
  BY <1>1 DEF Written, NoConfig

LEMMA LoadType ==
    ASSUME NEW file \in Config \union NoConfig, NEW old \in LegacyFile \union {NoLegacy},
           NEW loaded \in Load(file, old)
    PROVE  /\ loaded.settings \in Settings
           /\ loaded.saved \in Config \union NoConfig
           /\ loaded.legacy \in LegacyFile \union {NoLegacy}
<1>1. CASE file \in NoConfig /\ old # NoLegacy
  <2>1. old \in LegacyFile /\ old \in Settings
    BY <1>1, LegacyAssumption
  <2>2. /\ loaded.settings = old
        /\ loaded.saved \in Written(old, file, TRUE) \union Written(old, file, FALSE)
        /\ loaded.legacy \in {old, NoLegacy}
    BY <1>1 DEF Load
  <2>3. loaded.saved \in Config \union NoConfig
    BY <2>1, <2>2, WrittenType
  <2>4. QED
    BY <2>1, <2>2, <2>3
<1>2. CASE ~(file \in NoConfig /\ old # NoLegacy)
  <2>1. loaded.settings = Read(file) /\ loaded.saved = file /\ loaded.legacy = old
    BY <1>2 DEF Load
  <2>2. QED
    BY <2>1, ReadType
<1>3. QED
  BY <1>1, <1>2

LEMMA InitTypeOK == Init => TypeOK
<1> SUFFICES ASSUME Init
             PROVE  TypeOK
  OBVIOUS
<1>1. PICK old \in LegacyFile \union {NoLegacy} : \E loaded \in Load(Missing, old) :
         /\ settings = loaded.settings
         /\ saved = loaded.saved
         /\ legacy = loaded.legacy
  BY DEF Init
<1>2. /\ settings \in Settings
      /\ saved \in Config \union NoConfig
      /\ legacy \in LegacyFile \union {NoLegacy}
  BY <1>1, LoadType DEF NoConfig
<1>3. form \in Workspaces
  BY <1>2 DEF Init, Settings
<1>4. QED
  BY <1>2, <1>3 DEF Init, TypeOK

(* What the webview can send comes down to one of two outcomes. *)

Requested(c, k, p, d) ==
    /\ c \in Caller /\ k \in Command /\ p \in Path /\ d \in Path
    /\ RequestApproval(c, k, p, d)

DirectStep(c, k, p, d) ==
    /\ c \in Caller /\ k \in Command /\ p \in Path /\ d \in Path
    /\ k # "move" => d = p
    /\ ExecuteDirectly(c, k, p, d)

SettingsStep ==
    \/ SettingsGet
    \/ \E b, saves \in BOOLEAN : SettingsSave(b, saves)
    \/ \E saves \in BOOLEAN : CompleteSetup(saves)
    \/ \E root \in Root, saves \in BOOLEAN : WorkspaceAdd(root, saves)
    \/ Restart

LEMMA Steps ==
    ASSUME [Next]_vars
    PROVE  \/ \E c, k, p, d : Requested(c, k, p, d)
           \/ \E c, k, p, d : DirectStep(c, k, p, d)
           \/ \E r \in Request : ApproveAndExecute(r)
           \/ \E r \in Request : DenyRequest(r) \/ TakeUnknown(r)
           \/ \E w \in settings.workspaces, saves \in BOOLEAN : WorkspaceRemove(w, saves)
           \/ SettingsStep
           \/ Tick
           \/ UNCHANGED vars
<1>1. ASSUME NEW c \in Caller, NEW k, NEW p \in Path, NEW d \in Path,
             Put(c, k, p, d), k # "move" => d = p
      PROVE  Requested(c, k, p, d) \/ DirectStep(c, k, p, d)
  BY <1>1 DEF Put, Requested, DirectStep
<1>2. ASSUME NEW c \in Caller, NEW p \in Path,
             \/ FsWriteFile(c, p) \/ FsDelete(c, p) \/ FsRename(c, p) \/ ShellRun(c, p)
             \/ \E d \in Path : FsMove(c, p, d)
      PROVE  (\E k, d : Requested(c, k, p, d)) \/ (\E k, d : DirectStep(c, k, p, d))
  <2>1. PICK k, d : d \in Path /\ Put(c, k, p, d) /\ (k # "move" => d = p)
    BY <1>2 DEF FsWriteFile, FsDelete, FsRename, FsMove, ShellRun, ShellCommand, FsCommand
  <2>2. QED
    BY <1>1, <2>1
<1>3. CASE \E c \in Caller, p \in Path :
             \/ FsWriteFile(c, p) \/ FsDelete(c, p) \/ FsRename(c, p) \/ ShellRun(c, p)
             \/ \E d \in Path : FsMove(c, p, d)
  BY <1>2, <1>3
<1>4. QED
  BY <1>3 DEF Next, SettingsStep

LEMMA RequestTypeOK ==
    ASSUME TypeOK, NEW c \in Caller, NEW k \in Command, NEW p \in Path, NEW d \in Path,
           RequestApproval(c, k, p, d)
    PROVE  TypeOK'
<1>1. PICK r \in Request :
         /\ issued[r] = NoRequest
         /\ issued' = [issued EXCEPT ![r] = NewRecord(c, k, p, d)]
         /\ pending' = Unexpired \union {r}
  BY DEF RequestApproval
<1>2. NewRecord(c, k, p, d) \in Record /\ NewRecord(c, k, p, d) # NoRequest
  BY DEF TypeOK, Record, NoRequest, Caller, NewRecord
<1>3. issued' \in [Request -> Record \union {NoRequest}]
  BY <1>1, <1>2 DEF TypeOK
<1>4. pending' \union refused' \subseteq {x \in Request : issued'[x] # NoRequest}
  BY <1>1, <1>2 DEF TypeOK, Unexpired, RequestApproval
<1>5. QED
  BY <1>3, <1>4 DEF TypeOK, RequestApproval, desk

LEMMA DirectTypeOK ==
    ASSUME TypeOK, NEW c \in Caller, NEW k \in Command, NEW p \in Path, NEW d \in Path,
           ExecuteDirectly(c, k, p, d)
    PROVE  TypeOK'
<1>1. effect' \in Effects
  BY DEF ExecuteDirectly, Effect, Effects
<1>2. QED
  BY <1>1 DEF TypeOK, ExecuteDirectly, desk, store

LEMMA ApproveTypeOK ==
    ASSUME TypeOK, NEW r \in Request, ApproveAndExecute(r)
    PROVE  TypeOK'
<1>1. issued[r] \in Record
  BY DEF TypeOK, ApproveAndExecute, Unexpired
<1>2. effect' \in Effects \union {NoEffect}
  BY <1>1 DEF ApproveAndExecute, CarriedOut, Effect, Effects, Record
<1>3. executions' \in [Request -> Nat]
  BY DEF TypeOK, ApproveAndExecute, CarriedOut
<1>4. pending' \union refused' \subseteq {x \in Request : issued'[x] # NoRequest}
  BY DEF TypeOK, ApproveAndExecute, Unexpired
<1>5. QED
  BY <1>2, <1>3, <1>4 DEF TypeOK, ApproveAndExecute, desk

LEMMA DenyTypeOK ==
    ASSUME TypeOK, NEW r \in Request, DenyRequest(r) \/ TakeUnknown(r)
    PROVE  TypeOK'
<1>1. pending' \union refused' \subseteq {x \in Request : issued'[x] # NoRequest}
  BY DEF TypeOK, DenyRequest, TakeUnknown, Unexpired
<1>2. QED
  BY <1>1 DEF TypeOK, DenyRequest, TakeUnknown, desk

LEMMA SettingsTypeOK ==
    ASSUME TypeOK, SettingsStep \/ Tick
    PROVE  TypeOK'
<1>1. CASE SettingsGet
  <2>1. form' \in Workspaces
    BY <1>1 DEF TypeOK, SettingsGet, Settings
  <2>2. QED
    BY <1>1, <2>1 DEF TypeOK, SettingsGet, store
<1>2. ASSUME NEW b \in BOOLEAN, NEW saves \in BOOLEAN, SettingsSave(b, saves)
      PROVE  TypeOK'
  <2> DEFINE copy == [workspaces |-> form, destructive |-> b]
  <2>1. copy \in Settings
    BY DEF TypeOK, Settings
  <2>2. settings' \in Settings
    BY <1>2, <2>1 DEF SettingsSave, TypeOK
  <2>3. saved' \in Config \union NoConfig
    <3>1. saved' \in Written(copy, saved, saves)
      BY <1>2 DEF SettingsSave
    <3>2. QED
      BY <2>1, <3>1, WrittenType DEF TypeOK
  <2>4. QED
    BY <1>2, <2>2, <2>3 DEF TypeOK, SettingsSave, store
<1>3. ASSUME NEW saves \in BOOLEAN, CompleteSetup(saves)
      PROVE  TypeOK'
  <2>1. saved' \in Config \union NoConfig
    BY <1>3, WrittenType DEF TypeOK, CompleteSetup
  <2>2. QED
    BY <1>3, <2>1 DEF TypeOK, CompleteSetup, store
<1>4. ASSUME NEW root \in Root, NEW saves \in BOOLEAN, WorkspaceAdd(root, saves)
      PROVE  TypeOK'
  <2>1. nextId' \in Nat
    BY <1>4 DEF TypeOK, WorkspaceAdd
  <2>2. settings' \in Settings
    BY <1>4, <2>1 DEF TypeOK, WorkspaceAdd, Settings, Workspaces
  <2>3. saved' \in Config \union NoConfig
    BY <1>4, <2>2, WrittenType DEF WorkspaceAdd, TypeOK
  <2>4. QED
    BY <1>4, <2>1, <2>2, <2>3 DEF TypeOK, WorkspaceAdd, store
<1>5. CASE Restart
  <2>1. PICK file \in {saved, Broken} : \E loaded \in Load(file, legacy) :
           /\ settings' = loaded.settings
           /\ saved' = loaded.saved
           /\ legacy' = loaded.legacy
    BY <1>5 DEF Restart
  <2>2. file \in Config \union NoConfig
    BY <2>1 DEF TypeOK, NoConfig
  <2>3. /\ settings' \in Settings
        /\ saved' \in Config \union NoConfig
        /\ legacy' \in LegacyFile \union {NoLegacy}
    BY <2>1, <2>2, LoadType DEF TypeOK
  <2>4. form' \in Workspaces
    BY <1>5, <2>3 DEF Restart, Settings
  <2>5. QED
    BY <1>5, <2>3, <2>4 DEF TypeOK, Restart
<1>6. CASE Tick
  BY <1>6 DEF TypeOK, Tick, desk, store
<1>7. QED
  BY <1>1, <1>2, <1>3, <1>4, <1>5, <1>6 DEF SettingsStep

LEMMA RemoveTypeOK ==
    ASSUME TypeOK, NEW w \in settings.workspaces, NEW saves \in BOOLEAN,
           WorkspaceRemove(w, saves)
    PROVE  TypeOK'
<1>1. settings' \in Settings
  BY DEF TypeOK, WorkspaceRemove, Settings, Workspaces
<1>2. pending' \union refused' \subseteq {x \in Request : issued'[x] # NoRequest}
  BY DEF TypeOK, WorkspaceRemove, CancelledBy
<1>3. saved' \in Config \union NoConfig
  BY <1>1, WrittenType DEF WorkspaceRemove, TypeOK
<1>4. QED
  BY <1>1, <1>2, <1>3 DEF TypeOK, WorkspaceRemove

LEMMA NextTypeOK == TypeOK /\ [Next]_vars => TypeOK'
<1> SUFFICES ASSUME TypeOK, [Next]_vars
             PROVE  TypeOK'
  OBVIOUS
<1>1. CASE UNCHANGED vars
  BY <1>1 DEF TypeOK, vars, desk, store
<1>2. ASSUME NEW c, NEW k, NEW p, NEW d, Requested(c, k, p, d)
      PROVE  TypeOK'
  BY <1>2, RequestTypeOK DEF Requested
<1>3. ASSUME NEW c, NEW k, NEW p, NEW d, DirectStep(c, k, p, d)
      PROVE  TypeOK'
  BY <1>3, DirectTypeOK DEF DirectStep
<1>4. ASSUME NEW r \in Request, ApproveAndExecute(r) \/ DenyRequest(r) \/ TakeUnknown(r)
      PROVE  TypeOK'
  BY <1>4, ApproveTypeOK, DenyTypeOK
<1>5. ASSUME NEW w \in settings.workspaces, NEW saves \in BOOLEAN, WorkspaceRemove(w, saves)
      PROVE  TypeOK'
  BY <1>5, RemoveTypeOK
<1>6. QED
  BY <1>1, <1>2, <1>3, <1>4, <1>5, SettingsTypeOK, Steps

\* Every reachable state of the router has the declared types.
THEOREM TypeCorrect == Spec => []TypeOK
  BY InitTypeOK, NextTypeOK, PTL DEF Spec

-----------------------------------------------------------------------------
(* One request, one execution.  The invariant holds each request to a       *)
(* place: not issued, pending and untouched, or decided.  Only a pending    *)
(* request can be executed, and it stops being pending by that step.        *)

StoreInv ==
    \A r \in Request :
        /\ issued[r] = NoRequest => executions[r] = 0
        /\ r \in pending => executions[r] = 0 /\ r \notin refused
        /\ executions[r] <= 1
        /\ r \in refused => executions[r] = 0

LEMMA InitStoreInv == Init => StoreInv
  BY DEF Init, StoreInv

LEMMA RequestStoreInv ==
    ASSUME TypeOK, StoreInv,
           NEW c \in Caller, NEW k \in Command, NEW p \in Path, NEW d \in Path,
           RequestApproval(c, k, p, d)
    PROVE  StoreInv'
<1>1. PICK r \in Request :
         /\ issued[r] = NoRequest
         /\ issued' = [issued EXCEPT ![r] = NewRecord(c, k, p, d)]
         /\ pending' = Unexpired \union {r}
  BY DEF RequestApproval
<1>2. executions[r] = 0 /\ r \notin refused
  BY <1>1 DEF StoreInv, TypeOK
<1>3. \A x \in Request : x # r => issued'[x] = issued[x]
  BY <1>1 DEF TypeOK
<1>4. \A x \in Request : x # r /\ x \in pending' => x \in pending
  BY <1>1 DEF Unexpired
<1>5. executions' = executions /\ refused' = refused
  BY DEF RequestApproval
<1>6. QED
  BY <1>2, <1>3, <1>4, <1>5 DEF StoreInv

LEMMA ApproveStoreInv ==
    ASSUME TypeOK, StoreInv, NEW r \in Request, ApproveAndExecute(r)
    PROVE  StoreInv'
<1>1. r \in pending /\ r \notin pending' /\ pending' \subseteq pending
  BY DEF ApproveAndExecute, Unexpired
<1>2. issued[r] # NoRequest /\ executions[r] = 0 /\ r \notin refused
  BY <1>1 DEF TypeOK, StoreInv
<1>3. \A x \in Request : x # r => executions'[x] = executions[x]
  BY DEF ApproveAndExecute, CarriedOut, TypeOK
<1>4. executions'[r] \in {0, 1}
  BY <1>2 DEF ApproveAndExecute, CarriedOut, TypeOK
<1>5. issued' = issued /\ refused' = refused
  BY DEF ApproveAndExecute
<1>6. QED
  BY <1>1, <1>2, <1>3, <1>4, <1>5 DEF StoreInv

\* Every other step leaves the executions alone, and what it refuses it removes.
LEMMA QuietStoreInv ==
    ASSUME StoreInv, issued' = issued, executions' = executions, pending' \subseteq pending,
           refused' \subseteq refused \union pending, refused' \intersect pending' = {}
    PROVE  StoreInv'
  BY DEF StoreInv

LEMMA NextStoreInv == TypeOK /\ StoreInv /\ [Next]_vars => StoreInv'
<1> SUFFICES ASSUME TypeOK, StoreInv, [Next]_vars
             PROVE  StoreInv'
  OBVIOUS
<1>0. refused \intersect pending = {}
  BY DEF StoreInv, TypeOK
<1>1. CASE UNCHANGED <<store>>
  BY <1>0, <1>1, QuietStoreInv DEF store
<1>2. ASSUME NEW c, NEW k, NEW p, NEW d, Requested(c, k, p, d)
      PROVE  StoreInv'
  BY <1>2, RequestStoreInv DEF Requested
<1>3. ASSUME NEW r \in Request, ApproveAndExecute(r)
      PROVE  StoreInv'
  BY <1>3, ApproveStoreInv
<1>4. ASSUME NEW r \in Request, DenyRequest(r) \/ TakeUnknown(r)
      PROVE  StoreInv'
  BY <1>0, <1>4, QuietStoreInv DEF DenyRequest, TakeUnknown, Unexpired
<1>5. ASSUME NEW w \in settings.workspaces, NEW saves \in BOOLEAN, WorkspaceRemove(w, saves)
      PROVE  StoreInv'
  BY <1>0, <1>5, QuietStoreInv DEF WorkspaceRemove, CancelledBy
<1>6. CASE Restart
  BY <1>6, QuietStoreInv DEF Restart
<1>7. ASSUME NEW c, NEW k, NEW p, NEW d, DirectStep(c, k, p, d)
      PROVE  StoreInv'
  BY <1>1, <1>7 DEF DirectStep, ExecuteDirectly
<1>8. CASE SettingsStep \/ Tick \/ UNCHANGED vars
  BY <1>1, <1>6, <1>8 DEF SettingsStep, SettingsGet, SettingsSave, CompleteSetup, WorkspaceAdd,
                          Tick, vars
<1>9. QED
  BY <1>2, <1>3, <1>4, <1>5, <1>7, <1>8, Steps

\* However often the webview confirms a request, and whatever denials, time
\* outs, removals and restarts come between, it is executed at most once.
THEOREM ExecutedAtMostOnce == Spec => []SingleExecution
<1>1. StoreInv => SingleExecution
  BY DEF StoreInv, SingleExecution
<1>2. QED
  BY <1>1, InitTypeOK, NextTypeOK, InitStoreInv, NextStoreInv, PTL DEF Spec

\* A request the user denied, or the removal of its workspace cancelled, is
\* never executed.
THEOREM RefusalIsFinal == Spec => []RefusedNeverExecuted
<1>1. TypeOK /\ StoreInv => RefusedNeverExecuted
  BY DEF StoreInv, RefusedNeverExecuted, TypeOK
<1>2. QED
  BY <1>1, InitTypeOK, NextTypeOK, InitStoreInv, NextStoreInv, PTL DEF Spec

-----------------------------------------------------------------------------
(* What a step does to the file system.  Every step but a stutter decides   *)
(* it afresh: nothing, a command the policy allows, or an approved record.  *)

ApprovedStep(r) ==
    /\ r \in Request
    /\ r \in Unexpired
    /\ Registered(issued[r].path)
    /\ Registered(issued[r].dest)
    /\ effect' = Effect(issued[r].command, issued[r].path, issued[r].dest, issued[r].caller, r)
    /\ UNCHANGED <<desk, plugins, clock, issued>>

LEMMA EffectiveSteps ==
    ASSUME [Next]_vars
    PROVE  \/ UNCHANGED vars
           \/ effect' = NoEffect
           \/ \E c, k, p, d : DirectStep(c, k, p, d)
           \/ \E r : ApprovedStep(r)
<1>1. ASSUME NEW r \in Request, ApproveAndExecute(r)
      PROVE  effect' = NoEffect \/ ApprovedStep(r)
  BY <1>1 DEF ApproveAndExecute, CarriedOut, ApprovedStep
<1>2. ASSUME NEW c, NEW k, NEW p, NEW d, Requested(c, k, p, d)
      PROVE  effect' = NoEffect
  BY <1>2 DEF Requested, RequestApproval
<1>3. CASE \/ \E r \in Request : DenyRequest(r) \/ TakeUnknown(r)
           \/ \E w \in settings.workspaces, saves \in BOOLEAN : WorkspaceRemove(w, saves)
           \/ SettingsStep
           \/ Tick
  BY <1>3 DEF DenyRequest, TakeUnknown, SettingsStep, SettingsGet, SettingsSave, CompleteSetup,
              WorkspaceAdd, WorkspaceRemove, Restart, Tick
<1>4. QED
  BY <1>1, <1>2, <1>3, Steps

\* A request executed at all is executed before its approval expired.
THEOREM ExpiryFailsClosed == Spec => []NoLateExecution
<1>1. Init => NoLateExecution
  BY DEF Init, NoLateExecution
<1>2. TypeOK /\ NoLateExecution /\ [Next]_vars => NoLateExecution'
  <2> SUFFICES ASSUME TypeOK, NoLateExecution, [Next]_vars
               PROVE  NoLateExecution'
    OBVIOUS
  <2>1. CASE UNCHANGED vars
    BY <2>1 DEF NoLateExecution, vars, store
  <2>2. CASE effect' = NoEffect
    BY <2>2 DEF NoLateExecution
  <2>3. ASSUME NEW c, NEW k, NEW p, NEW d, DirectStep(c, k, p, d)
        PROVE  NoLateExecution'
    <3>1. effect'.via = "direct"
      BY <2>3 DEF DirectStep, ExecuteDirectly, Effect
    <3>2. QED
      BY <3>1, RequestAssumption DEF NoLateExecution
  <2>4. ASSUME NEW r, ApprovedStep(r)
        PROVE  NoLateExecution'
    <3>1. effect'.via = r /\ clock' = clock /\ issued' = issued
      BY <2>4 DEF ApprovedStep, Effect
    <3>2. issued[r] \in Record /\ clock \in Nat
      BY <2>4 DEF ApprovedStep, Unexpired, TypeOK
    <3>3. clock < issued[r].at + Ttl
      BY <2>4, <3>2, TtlAssumption DEF ApprovedStep, Unexpired, Expired, Record
    <3>4. QED
      BY <3>1, <3>3 DEF NoLateExecution
  <2>5. QED
    BY <2>1, <2>2, <2>3, <2>4, EffectiveSteps
<1>3. QED
  BY <1>1, <1>2, InitTypeOK, NextTypeOK, PTL DEF Spec

\* What was removed between the request and its approval is not touched.
THEOREM ConfinedToWorkspaces == Spec => []OnlyInWorkspaces
<1>1. Init => OnlyInWorkspaces
  BY DEF Init, OnlyInWorkspaces
<1>2. OnlyInWorkspaces /\ [Next]_vars => OnlyInWorkspaces'
  <2> SUFFICES ASSUME OnlyInWorkspaces, [Next]_vars
               PROVE  OnlyInWorkspaces'
    OBVIOUS
  <2>1. CASE UNCHANGED vars
    BY <2>1 DEF OnlyInWorkspaces, vars, desk, Roots
  <2>2. CASE effect' = NoEffect
    BY <2>2 DEF OnlyInWorkspaces
  <2>3. ASSUME NEW c, NEW k, NEW p, NEW d, DirectStep(c, k, p, d)
        PROVE  OnlyInWorkspaces'
    <3>1. effect'.path = p /\ effect'.dest = d /\ settings' = settings
      BY <2>3 DEF DirectStep, ExecuteDirectly, Effect, desk
    <3>2. Registered(p) /\ Registered(d)
      BY <2>3 DEF DirectStep, ExecuteDirectly, GateOpen, Destructive
    <3>3. QED
      BY <3>1, <3>2 DEF OnlyInWorkspaces, Registered, Roots
  <2>4. ASSUME NEW r, ApprovedStep(r)
        PROVE  OnlyInWorkspaces'
    <3>1. effect'.path = issued[r].path /\ effect'.dest = issued[r].dest /\ settings' = settings
      BY <2>4 DEF ApprovedStep, Effect, desk
    <3>2. QED
      BY <2>4, <3>1 DEF ApprovedStep, OnlyInWorkspaces, Registered, Roots
  <2>5. QED
    BY <2>1, <2>2, <2>3, <2>4, EffectiveSteps
<1>3. QED
  BY <1>1, <1>2, PTL DEF Spec

-----------------------------------------------------------------------------
(* Consent.  What is carried out directly was allowed by the policy in      *)
(* force.  The default policy allows the agent no change, nobody a          *)
(* destructive one, and the blacklist nobody; the rules of plugins, which   *)
(* come first, are for the commands that contain their ids.                 *)

LEMMA DefaultFileLoads == LoadPolicy(DefaultFile) = DefaultRules
<1>1. DefaultRules # <<>> /\ DefaultRules = [i \in DOMAIN DefaultRules |-> DefaultRules[i]]
  BY DEF DefaultRules
<1>2. /\ DefaultFile.parses
      /\ DOMAIN DefaultFile.rules = DOMAIN DefaultRules
      /\ \A i \in DOMAIN DefaultRules :
           DefaultFile.rules[i].restricts /\ DefaultFile.rules[i].rule = DefaultRules[i]
  BY DEF DefaultFile
<1>3. DefaultFile.rules # <<>>
  BY <1>2, RuleDomain
<1>4. [i \in DOMAIN DefaultFile.rules |-> DefaultFile.rules[i].rule] = DefaultRules
  BY <1>1, <1>2
<1>5. QED
  BY <1>2, <1>3, <1>4 DEF LoadPolicy

LEMMA InstalledRules ==
    ASSUME NEW ds
    PROVE  Installed(ds) = MergeRules(DefaultRules, PluginRules(ds))
  BY DefaultFileLoads DEF Installed, ActiveRules

\* A rule of the policy with plugins is a rule of a plugin or of the default policy.
LEMMA MergedRule ==
    ASSUME NEW D, NEW ds \in Seq(D), NEW j \in DOMAIN MergeRules(DefaultRules, PluginRules(ds))
    PROVE  \/ \E i \in DOMAIN ds : MergeRules(DefaultRules, PluginRules(ds))[j] = PluginRules(ds)[i]
           \/ \E i \in 1 .. 10 : MergeRules(DefaultRules, PluginRules(ds))[j] = DefaultRules[i]
<1> DEFINE base == DefaultRules
<1> DEFINE extra == PluginRules(ds)
<1>1. base \in Seq(AllRules(ds)) /\ extra \in Seq(AllRules(ds)) /\ DOMAIN extra = DOMAIN ds
  BY RulesAreSequences
<1> DEFINE k == Len(extra)
<1> DEFINE n == Len(base)
<1>2. DOMAIN base = 1 .. 10
  BY RuleDomain
<1> DEFINE all == extra \o base
<1> HIDE DEF base, extra
<1>3. /\ k \in Nat /\ n \in Nat /\ DOMAIN base = 1 .. n /\ DOMAIN extra = 1 .. k
      /\ DOMAIN all = 1 .. (k + n)
      /\ \A i \in 1 .. k : all[i] = extra[i]
      /\ \A i \in 1 .. n : all[k + i] = base[i]
  BY <1>1, Concatenated
<1>4. j \in DOMAIN all
  BY DEF base, extra, MergeRules
<1> HIDE DEF k, n, all
<1>5. CASE j \in 1 .. k
  <2>1. all[j] = extra[j] /\ j \in DOMAIN ds
    BY <1>1, <1>3, <1>5
  <2>2. QED
    BY <2>1 DEF all, base, extra, MergeRules
<1>6. CASE j \notin 1 .. k
  <2>1. j - k \in 1 .. n /\ k + (j - k) = j
    BY <1>3, <1>4, <1>6
  <2>2. all[j] = base[j - k]
    BY <1>3, <2>1
  <2>3. j - k \in 1 .. 10
    BY <1>2, <1>3, <2>1
  <2>4. QED
    BY <2>2, <2>3 DEF all, base, extra, MergeRules
<1>7. QED
  BY <1>5, <1>6

\* The rule of a plugin matches commands that contain its id, whoever calls.
LEMMA PluginRuleMatches ==
    ASSUME NEW ds, NEW i \in DOMAIN ds, NEW request, RuleMatches(PluginRules(ds)[i], request),
           ds[i].id # NoPattern
    PROVE  /\ ds[i].id \in request.hits
           /\ RequiresApproval(ds[i]) => PluginRules(ds)[i].action = "require_approval"
           /\ PluginRules(ds)[i].action \in {"allow", "require_approval"}
  BY DEF PluginRules, Rule, RuleMatches

LEMMA DecisionIs ==
    ASSUME TypeOK, NEW c \in Caller, NEW k \in Command
    PROVE  Decided(c, k) = Evaluate(MergeRules(DefaultRules, PluginRules(plugins)), AsRequest(c, k))
  BY InstalledRules DEF TypeOK, Decided, PolicyDecision

LEMMA PluginsAreListed ==
    ASSUME TypeOK
    PROVE  /\ plugins \in Seq({plugins[i] : i \in DOMAIN plugins})
           /\ \A i \in DOMAIN plugins : plugins[i].id \notin PatternList
  BY InstallationAssumption DEF TypeOK

\* A file request hits no pattern, so no rule of a plugin.
LEMMA FilesDecidedByDefault ==
    ASSUME TypeOK, NEW c \in Caller, NEW k \in Command \intersect FsCommand
    PROVE  Decided(c, k) = Evaluate(DefaultRules, PolicyRequest(c, "fs", k, {}))
<1>1. AsRequest(c, k) = PolicyRequest(c, "fs", k, {})
  BY DEF AsRequest
<1>2. \A i \in DOMAIN plugins : plugins[i].id \notin {} \union {NoPattern}
  BY PluginsAreListed DEF PatternList
<1>3. DefaultRules \in Seq(AllRules(plugins)) /\ plugins \in Seq({plugins[i] : i \in DOMAIN plugins})
  BY PluginsAreListed, RulesAreSequences
<1>4. Evaluate(MergeRules(DefaultRules, PluginRules(plugins)), PolicyRequest(c, "fs", k, {}))
        = Evaluate(DefaultRules, PolicyRequest(c, "fs", k, {}))
  BY <1>2, <1>3, PluginsLeaveFilesAlone
<1>5. QED
  BY <1>1, <1>4, DecisionIs

LEMMA AgentNotAllowed ==
    ASSUME TypeOK, NEW k \in Command, ~Trusted(k)
    PROVE  Decided("agent", k) # "allow"
<1>1. "agent" \in Caller
  BY DEF Caller
<1>2. CASE k \in FsCommand
  <2>1. "fs" \in ToolType /\ k \in Operation /\ k # "read"
    BY <1>2 DEF ToolType, Operation, FsCommand
  <2>2. QED
    BY <1>1, <1>2, <2>1, FilesDecidedByDefault, AgentChangesNotAllowed
<1>3. CASE k \notin FsCommand
  <2> DEFINE rules == MergeRules(DefaultRules, PluginRules(plugins))
  <2> DEFINE q == PolicyRequest("agent", "shell", "exec", Contained[k])
  <2>1. AsRequest("agent", k) = q /\ k \in ShellCommand
    BY <1>3 DEF AsRequest, ShellCommand
  <2>2. ASSUME NEW i \in DOMAIN plugins, RuleMatches(PluginRules(plugins)[i], q)
        PROVE  PluginRules(plugins)[i].action # "allow"
    <3>1. plugins[i].id # NoPattern
      BY PluginsAreListed DEF PatternList
    <3>2. plugins[i].id \in q.hits /\ q.hits = Contained[k]
      BY <2>2, <3>1, PluginRuleMatches DEF PolicyRequest
    <3>3. RequiresApproval(plugins[i])
      BY <2>1, <3>2 DEF Trusted, NamedBy
    <3>4. QED
      BY <2>2, <3>1, <3>3, PluginRuleMatches
  <2>3. ASSUME NEW i \in 1 .. 10, RuleMatches(DefaultRules[i], q)
        PROVE  DefaultRules[i].action # "allow"
    <3>1. "shell" \in ToolType /\ "exec" \in Operation
      BY DEF ToolType, Operation
    <3>2. QED
      BY <2>3, <3>1, DefaultAllowsNoChange
  <2> HIDE DEF q
  <2>4. \A j \in DOMAIN rules : RuleMatches(rules[j], q) => rules[j].action # "allow"
    <3>1. plugins \in Seq({plugins[i] : i \in DOMAIN plugins})
      BY PluginsAreListed
    <3>2. \A j \in DOMAIN rules : \/ \E i \in DOMAIN plugins : rules[j] = PluginRules(plugins)[i]
                                 \/ \E i \in 1 .. 10 : rules[j] = DefaultRules[i]
      BY <3>1, MergedRule
    <3> HIDE DEF rules
    <3>3. QED
      BY <2>2, <2>3, <3>2
  <2>5. Evaluate(rules, q) # "allow"
    <3>1. DOMAIN rules \subseteq Nat
      BY PluginsAreListed, MergedDomain
    <3> HIDE DEF rules
    <3> QED  BY <2>4, <3>1, DecisionIsOfAMatch
  <2>6. QED
    BY <1>1, <2>1, <2>5, DecisionIs
<1>4. QED
  BY <1>2, <1>3

LEMMA DestructiveNotDirect ==
    ASSUME TypeOK, NEW c \in Caller, NEW k \in Command \intersect Destructive
    PROVE  Decided(c, k) # "allow"
<1>1. k \in FsCommand /\ k \in {"delete", "rename", "move", "chmod"}
  BY DEF Destructive, FsCommand
<1>2. QED
  BY <1>1, FilesDecidedByDefault, DestructiveNotAllowed

LEMMA BlacklistedDenied ==
    ASSUME TypeOK, NEW c \in Caller, NEW k \in Command, Blacklisted(k), ~Vouched(k)
    PROVE  Decided(c, k) = "deny"
<1> DEFINE q == PolicyRequest(c, "shell", "exec", Contained[k])
<1>1. AsRequest(c, k) = q /\ k \in ShellCommand /\ "blacklist" \in Contained[k]
  BY DEF AsRequest, ShellCommand, Blacklisted
<1>2. \A i \in DOMAIN plugins : ~RuleMatches(PluginRules(plugins)[i], q)
  <2> SUFFICES ASSUME NEW i \in DOMAIN plugins, RuleMatches(PluginRules(plugins)[i], q)
               PROVE  FALSE
    OBVIOUS
  <2>1. plugins[i].id # NoPattern
    BY PluginsAreListed DEF PatternList
  <2>2. plugins[i].id \in q.hits /\ q.hits = Contained[k]
    BY <2>1, PluginRuleMatches DEF PolicyRequest
  <2>3. QED
    BY <1>1, <2>2 DEF Vouched, NamedBy
<1>3. Evaluate(DefaultRules, q) = "deny"
  BY <1>1, BlacklistDenied
<1> HIDE DEF q
<1>4. Evaluate(MergeRules(DefaultRules, PluginRules(plugins)), q) = Evaluate(DefaultRules, q)
  <2>1. /\ DefaultRules \in Seq(AllRules(plugins)) /\ PluginRules(plugins) \in Seq(AllRules(plugins))
        /\ DOMAIN PluginRules(plugins) = DOMAIN plugins
    BY PluginsAreListed, RulesAreSequences
  <2>2. \A i \in DOMAIN PluginRules(plugins) : ~RuleMatches(PluginRules(plugins)[i], q)
    BY <1>2, <2>1
  <2>3. QED
    BY <2>1, <2>2, PrependedDecideAlike
<1>5. QED
  BY <1>1, <1>3, <1>4, DecisionIs

\* Every change of the agent and every destructive one carries out, unaltered, a record that
\* was put to the user, whatever plugins are installed, but for commands that contain the id
\* of one that asks for no approval.
THEOREM ConsentPrecedesChange == Spec => []ChangesAreApproved
<1>1. Init => ChangesAreApproved
  BY DEF Init, ChangesAreApproved
<1>2. TypeOK /\ ChangesAreApproved /\ [Next]_vars => ChangesAreApproved'
  <2> SUFFICES ASSUME TypeOK, ChangesAreApproved, [Next]_vars
               PROVE  ChangesAreApproved'
    OBVIOUS
  <2>1. CASE UNCHANGED vars
    BY <2>1 DEF ChangesAreApproved, vars, store, Trusted
  <2>2. CASE effect' = NoEffect
    BY <2>2 DEF ChangesAreApproved
  <2>3. ASSUME NEW c, NEW k, NEW p, NEW d, DirectStep(c, k, p, d)
        PROVE  ChangesAreApproved'
    <3>1. effect'.caller = c /\ effect'.command = k /\ Decided(c, k) = "allow"
          /\ plugins' = plugins
      BY <2>3 DEF DirectStep, ExecuteDirectly, Effect
    <3>2. c \in Caller /\ k \in Command
      BY <2>3 DEF DirectStep
    <3>3. CASE Trusted(k)
      BY <3>1, <3>3 DEF ChangesAreApproved, Trusted
    <3>4. CASE ~Trusted(k)
      <4>1. c # "agent" /\ k \notin Destructive
        BY <3>1, <3>2, <3>4, AgentNotAllowed, DestructiveNotDirect
      <4>2. QED
        BY <3>1, <4>1 DEF ChangesAreApproved
    <3>5. QED
      BY <3>3, <3>4
  <2>4. ASSUME NEW r, ApprovedStep(r)
        PROVE  ChangesAreApproved'
    <3>1. /\ effect'.via = r
          /\ effect'.caller = issued[r].caller
          /\ effect'.command = issued[r].command
          /\ effect'.path = issued[r].path
          /\ effect'.dest = issued[r].dest
          /\ issued' = issued
      BY <2>4 DEF ApprovedStep, Effect
    <3>2. r \in Request /\ issued[r] \in Record
      BY <2>4 DEF ApprovedStep, Unexpired, TypeOK
    <3>3. issued[r] = [caller |-> issued[r].caller, command |-> issued[r].command,
                       path |-> issued[r].path, dest |-> issued[r].dest, at |-> issued[r].at]
      BY <3>2 DEF Record
    <3>4. QED
      BY <3>1, <3>2, <3>3 DEF ChangesAreApproved
  <2>5. QED
    BY <2>1, <2>2, <2>3, <2>4, EffectiveSteps
<1>3. QED
  BY <1>1, <1>2, InitTypeOK, NextTypeOK, PTL DEF Spec

\* What is asked for or carried out was not denied, so a blacklisted command contains the id
\* of a plugin.
LEMMA NotDenied ==
    ASSUME TypeOK, NEW c \in Caller, NEW k \in Command, NEW p \in Path, NEW d \in Path,
           RequestApproval(c, k, p, d) \/ ExecuteDirectly(c, k, p, d), Blacklisted(k)
    PROVE  Vouched(k)
<1> SUFFICES ASSUME ~Vouched(k) PROVE FALSE
  OBVIOUS
<1>1. Decided(c, k) = "deny" /\ k \notin Destructive
  BY BlacklistedDenied DEF Destructive, Blacklisted, ShellCommand, FsCommand
<1>2. QED
  BY <1>1 DEF RequestApproval, ExecuteDirectly, NeedsApproval

\* No caller gets a blacklisted command executed, nor even put to the user, unless it contains
\* the id of an installed plugin.
THEOREM BlacklistYieldsToPluginsOnly == Spec => []BlacklistHolds
<1>1. Init => BlacklistHolds
  BY DEF Init, BlacklistHolds
<1>2. TypeOK /\ BlacklistHolds /\ [Next]_vars => BlacklistHolds'
  <2> SUFFICES ASSUME TypeOK, BlacklistHolds, [Next]_vars
               PROVE  BlacklistHolds'
    OBVIOUS
  <2> DEFINE Asked == \A r \in pending : Blacklisted(issued[r].command) => Vouched(issued[r].command)
  <2> DEFINE Ran == effect # NoEffect /\ Blacklisted(effect.command) => Vouched(effect.command)
  <2>1. Asked'
    <3>1. ASSUME NEW c, NEW k, NEW p, NEW d, Requested(c, k, p, d)
          PROVE  Asked'
      <4>1. Blacklisted(k) => Vouched(k)
        BY <3>1, NotDenied DEF Requested
      <4>2. PICK r \in Request :
              /\ issued' = [issued EXCEPT ![r] = NewRecord(c, k, p, d)]
              /\ pending' = Unexpired \union {r}
              /\ plugins' = plugins
        BY <3>1 DEF Requested, RequestApproval
      <4>3. issued'[r].command = k
        BY <4>2 DEF TypeOK, NewRecord
      <4>4. \A x \in pending' : x # r => x \in pending /\ issued'[x] = issued[x]
        BY <4>2 DEF TypeOK, Unexpired
      <4>5. \A x : Vouched(x)' = Vouched(x)
        BY <4>2 DEF Vouched
      <4>6. QED
        BY <4>1, <4>3, <4>4, <4>5 DEF BlacklistHolds
    <3>2. CASE issued' = issued /\ plugins' = plugins /\ pending' \subseteq pending
      BY <3>2 DEF BlacklistHolds, Vouched
    <3>3. CASE pending' = {}
      BY <3>3
    <3>4. \/ \E c, k, p, d : Requested(c, k, p, d)
          \/ issued' = issued /\ plugins' = plugins /\ pending' \subseteq pending
          \/ pending' = {}
      BY Steps DEF vars, store, Unexpired, DirectStep, ExecuteDirectly, ApproveAndExecute, DenyRequest,
             TakeUnknown, SettingsStep, SettingsGet, SettingsSave, CompleteSetup, WorkspaceAdd,
             WorkspaceRemove, Restart, Tick
    <3>5. QED
      BY <3>1, <3>2, <3>3, <3>4
  <2>2. Ran'
    <3>1. CASE UNCHANGED vars
      BY <3>1 DEF BlacklistHolds, vars, Vouched
    <3>2. ASSUME NEW c, NEW k, NEW p, NEW d, DirectStep(c, k, p, d)
          PROVE  Ran'
      <4>1. Blacklisted(k) => Vouched(k)
        BY <3>2, NotDenied DEF DirectStep
      <4>2. effect'.command = k /\ plugins' = plugins
        BY <3>2 DEF DirectStep, ExecuteDirectly, Effect
      <4>3. QED
        BY <4>1, <4>2 DEF Vouched
    <3>3. ASSUME NEW r, ApprovedStep(r)
          PROVE  Ran'
      <4>1. r \in pending /\ effect'.command = issued[r].command /\ plugins' = plugins
        BY <3>3 DEF ApprovedStep, Unexpired, Effect
      <4>2. QED
        BY <4>1 DEF BlacklistHolds, Vouched
    <3>4. CASE effect' = NoEffect
      BY <3>4
    <3>5. QED
      BY <3>1, <3>2, <3>3, <3>4, EffectiveSteps
  <2>3. QED
    BY <2>1, <2>2 DEF BlacklistHolds
<1>3. QED
  BY <1>1, <1>2, InitTypeOK, NextTypeOK, PTL DEF Spec

-----------------------------------------------------------------------------
(* Settings.  The stale copy of the webview is a copy of settings that were *)
(* in force, so what holds of those holds of it; that makes the invariant   *)
(* inductive although a save writes the copy back.  On disk the gate is     *)
(* under two keys, of which either opens it: both must say what memory says.*)

Distinct(workspaces) == \A v, w \in workspaces : v.root = w.root => v = w

DeskInv ==
    /\ saved \in NoConfig \/ saved = [workspaces |-> saved.workspaces,
                                     security |-> settings.destructive,
                                     fs |-> settings.destructive]
    /\ saved \notin NoConfig => Distinct(saved.workspaces)
    /\ Distinct(settings.workspaces) /\ Distinct(form)

\* A config.json that parses says of the gate what memory says.
LEMMA GateOnDisk ==
    ASSUME TypeOK, DeskInv, saved \notin NoConfig
    PROVE  Read(saved).destructive = settings.destructive
<1>1. saved.security = settings.destructive /\ saved.fs = settings.destructive
  BY DEF DeskInv
<1>2. settings.destructive \in BOOLEAN
  BY DEF TypeOK, Settings
<1>3. Read(saved).destructive = (saved.security \/ saved.fs)
  BY DEF Read
<1>4. QED
  BY <1>1, <1>2, <1>3

\* What a start leaves: the file it read, the old settings migrated, or nothing.
LEMMA LoadDesk ==
    ASSUME NEW file \in Config \union NoConfig, NEW old \in LegacyFile \union {NoLegacy},
           NEW loaded \in Load(file, old), file \notin NoConfig => Distinct(file.workspaces)
    PROVE  /\ Distinct(loaded.settings.workspaces)
           /\ \/ loaded.saved \in NoConfig
              \/ loaded.saved = OnDisk(loaded.settings)
              \/ loaded.saved = file /\ loaded.settings = Read(file)
           /\ file \in NoConfig =>
                loaded.settings = Defaults \/ (old # NoLegacy /\ loaded.settings = old)
<1>1. CASE file \in NoConfig /\ old # NoLegacy
  <2>1. /\ loaded.settings = old
        /\ loaded.saved \in Written(old, file, TRUE) \union Written(old, file, FALSE)
    BY <1>1 DEF Load
  <2>2. Distinct(old.workspaces)
    BY <1>1, LegacyAssumption DEF Distinct
  <2>3. loaded.saved \in {OnDisk(old), file, Broken}
    BY <2>1 DEF Written
  <2>4. QED
    BY <1>1, <2>1, <2>2, <2>3 DEF NoConfig
<1>2. CASE ~(file \in NoConfig /\ old # NoLegacy)
  <2>1. loaded.settings = Read(file) /\ loaded.saved = file
    BY <1>2 DEF Load
  <2>2. CASE file \in NoConfig
    <3>1. loaded.settings = Defaults
      BY <2>1, <2>2 DEF Read
    <3>2. loaded.settings.workspaces = {}
      BY <3>1 DEF Defaults
    <3>3. Distinct(loaded.settings.workspaces)
      BY <3>2 DEF Distinct
    <3>4. loaded.saved \in NoConfig
      BY <2>1, <2>2
    <3>5. QED
      BY <3>1, <3>3, <3>4
  <2>3. CASE file \notin NoConfig
    <3>1. loaded.settings.workspaces = file.workspaces
      BY <2>1, <2>3 DEF Read
    <3>2. QED
      BY <2>1, <2>3, <3>1
  <2>4. QED
    BY <2>2, <2>3
<1>3. QED
  BY <1>1, <1>2

LEMMA InitDeskInv == Init => DeskInv
<1> SUFFICES ASSUME Init
             PROVE  DeskInv
  OBVIOUS
<1>1. PICK old \in LegacyFile \union {NoLegacy} : \E loaded \in Load(Missing, old) :
         settings = loaded.settings /\ saved = loaded.saved
  BY DEF Init
<1>2. Missing \in Config \union NoConfig /\ Missing \in NoConfig
  BY DEF NoConfig
<1>3. /\ Distinct(settings.workspaces)
      /\ saved \in NoConfig \/ saved = OnDisk(settings)
  BY <1>1, <1>2, LoadDesk
<1>4. form = settings.workspaces
  BY DEF Init
<1>5. QED
  BY <1>3, <1>4 DEF DeskInv, OnDisk

\* A save that writes what is in memory then, or does not complete.
LEMMA SaveDeskInv ==
    ASSUME DeskInv, NEW saves \in BOOLEAN, saved' \in Written(settings', saved, saves),
           ~saves => settings'.destructive = settings.destructive,
           Distinct(settings'.workspaces), Distinct(form')
    PROVE  DeskInv'
<1>1. CASE saved' = OnDisk(settings')
  BY <1>1 DEF OnDisk, DeskInv
<1>2. CASE ~saves /\ saved' = saved
  BY <1>2 DEF DeskInv
<1>3. CASE saved' = Broken
  BY <1>3 DEF DeskInv, NoConfig
<1>4. QED
  BY <1>1, <1>2, <1>3 DEF Written

LEMMA NextDeskInv == TypeOK /\ DeskInv /\ [Next]_vars => DeskInv'
<1> SUFFICES ASSUME TypeOK, DeskInv, [Next]_vars
             PROVE  DeskInv'
  OBVIOUS
<1>1. CASE UNCHANGED desk
  BY <1>1 DEF DeskInv, desk
<1>2. CASE SettingsGet
  BY <1>2 DEF SettingsGet, DeskInv
<1>3. ASSUME NEW b \in BOOLEAN, NEW saves \in BOOLEAN, SettingsSave(b, saves)
      PROVE  DeskInv'
  <2>1. CASE saves
    <3>1. settings' = [workspaces |-> form, destructive |-> b] /\ form' = form
      BY <1>3, <2>1 DEF SettingsSave
    <3>2. saved' \in Written(settings', saved, saves)
      BY <1>3, <3>1 DEF SettingsSave
    <3>3. QED
      BY <2>1, <3>1, <3>2, SaveDeskInv DEF DeskInv
  <2>2. CASE ~saves
    <3>1. settings' = settings /\ form' = form /\ saved' \in {saved, Broken}
      BY <1>3, <2>2 DEF SettingsSave, Written
    <3>2. QED
      BY <3>1 DEF DeskInv, NoConfig
  <2>3. QED
    BY <2>1, <2>2
<1>4. ASSUME NEW saves \in BOOLEAN, CompleteSetup(saves)
      PROVE  DeskInv'
  <2>1. settings' = settings /\ form' = form /\ saved' \in Written(settings', saved, saves)
    BY <1>4 DEF CompleteSetup
  <2>2. QED
    BY <2>1, SaveDeskInv DEF DeskInv
<1>5. ASSUME NEW root \in Root, NEW saves \in BOOLEAN, WorkspaceAdd(root, saves)
      PROVE  DeskInv'
  <2>1. /\ settings'.workspaces = settings.workspaces \union {[id |-> nextId', root |-> root]}
        /\ settings'.destructive = settings.destructive
        /\ \A w \in settings.workspaces : w.root # root
    BY <1>5 DEF WorkspaceAdd, TypeOK, Settings, Roots
  <2>2. Distinct(settings'.workspaces)
    BY <2>1 DEF DeskInv, Distinct
  <2>3. saved' \in Written(settings', saved, saves) /\ form' = form
    BY <1>5 DEF WorkspaceAdd
  <2>4. QED
    BY <2>1, <2>2, <2>3, SaveDeskInv DEF DeskInv
<1>6. ASSUME NEW w \in settings.workspaces, NEW saves \in BOOLEAN, WorkspaceRemove(w, saves)
      PROVE  DeskInv'
  <2>1. /\ settings'.workspaces \subseteq settings.workspaces
        /\ settings'.destructive = settings.destructive
    BY <1>6 DEF WorkspaceRemove, TypeOK, Settings
  <2>2. Distinct(settings'.workspaces)
    BY <2>1 DEF DeskInv, Distinct
  <2>3. saved' \in Written(settings', saved, saves) /\ form' = form
    BY <1>6 DEF WorkspaceRemove
  <2>4. QED
    BY <2>1, <2>2, <2>3, SaveDeskInv DEF DeskInv
<1>7. CASE Restart
  <2>1. PICK file \in {saved, Broken} : \E loaded \in Load(file, legacy) :
           settings' = loaded.settings /\ saved' = loaded.saved
    BY <1>7 DEF Restart
  <2>2. /\ file \in Config \union NoConfig
        /\ legacy \in LegacyFile \union {NoLegacy}
        /\ file \notin NoConfig => file = saved /\ Distinct(file.workspaces)
    BY <2>1 DEF TypeOK, NoConfig, DeskInv
  <2>3. /\ Distinct(settings'.workspaces)
        /\ \/ saved' \in NoConfig
           \/ saved' = OnDisk(settings')
           \/ saved' = file /\ settings' = Read(file)
    BY <2>1, <2>2, LoadDesk
  <2>4. form' = settings'.workspaces
    BY <1>7 DEF Restart
  <2>5. CASE saved' \in NoConfig \/ saved' = OnDisk(settings')
    BY <2>3, <2>4, <2>5 DEF DeskInv, OnDisk
  <2>6. CASE saved' = file /\ settings' = Read(file) /\ file \notin NoConfig
    <3>1. /\ saved' = saved
          /\ settings'.workspaces = saved.workspaces
          /\ settings'.destructive = settings.destructive
      BY <2>2, <2>6, GateOnDisk DEF Read
    <3>2. QED
      BY <2>3, <2>4, <2>6, <3>1 DEF DeskInv
  <2>7. QED
    BY <2>3, <2>5, <2>6
<1>8. CASE \/ \E c, k, p, d : Requested(c, k, p, d) \/ DirectStep(c, k, p, d)
           \/ \E r \in Request : ApproveAndExecute(r) \/ DenyRequest(r) \/ TakeUnknown(r)
           \/ Tick
           \/ UNCHANGED vars
  BY <1>1, <1>8 DEF Requested, DirectStep, RequestApproval, ExecuteDirectly, ApproveAndExecute,
                    DenyRequest, TakeUnknown, Tick, vars
<1>9. QED
  BY <1>2, <1>3, <1>4, <1>5, <1>6, <1>7, <1>8, Steps DEF SettingsStep

\* No restart opens the destructive gate, whichever save failed or was cut off, but from a
\* settings.json of an older version that is still there.
THEOREM GateSurvivesRestart == Spec => GateOpensByUserOnly
<1> DEFINE Opened == settings'.destructive /\ ~settings.destructive
<1> DEFINE ByUser == \E saves \in BOOLEAN : SettingsSave(TRUE, saves)
<1> DEFINE ByLegacy == legacy # NoLegacy /\ legacy.destructive
<1>1. ASSUME TypeOK, DeskInv, [Next]_vars
      PROVE  Opened => ByUser \/ ByLegacy
  <2> SUFFICES ASSUME Opened
               PROVE  ByUser \/ ByLegacy
    OBVIOUS
  <2>1. CASE Restart
    <3>1. PICK file \in {saved, Broken} : \E loaded \in Load(file, legacy) :
             settings' = loaded.settings /\ saved' = loaded.saved
      BY <2>1 DEF Restart
    <3>2. /\ file \in Config \union NoConfig
          /\ legacy \in LegacyFile \union {NoLegacy}
          /\ file \notin NoConfig => file = saved /\ Distinct(file.workspaces)
      BY <1>1, <3>1 DEF TypeOK, NoConfig, DeskInv
    <3>3. CASE file \in NoConfig
      <4>1. settings' = Defaults \/ (legacy # NoLegacy /\ settings' = legacy)
        BY <3>1, <3>2, <3>3, LoadDesk
      <4>2. settings' # Defaults
        BY DEF Defaults
      <4>3. QED
        BY <4>1, <4>2
    <3>4. CASE file \notin NoConfig
      <4>1. file = saved /\ settings' = Read(file)
        BY <3>1, <3>2, <3>4 DEF Load
      <4>2. settings'.destructive = settings.destructive
        BY <1>1, <3>4, <4>1, GateOnDisk
      <4>3. QED
        BY <4>2
    <3>5. QED
      BY <3>3, <3>4
  <2>2. ASSUME NEW b \in BOOLEAN, NEW saves \in BOOLEAN, SettingsSave(b, saves)
        PROVE  ByUser
    <3>1. settings'.destructive \in {b, settings.destructive}
      BY <2>2 DEF SettingsSave
    <3>2. b = TRUE
      BY <3>1
    <3>3. QED
      BY <2>2, <3>2
  <2>3. CASE \/ SettingsGet
             \/ \E saves \in BOOLEAN : CompleteSetup(saves)
             \/ \E root \in Root, saves \in BOOLEAN : WorkspaceAdd(root, saves)
             \/ \E w \in settings.workspaces, saves \in BOOLEAN : WorkspaceRemove(w, saves)
    <3>1. settings'.destructive = settings.destructive
      BY <1>1, <2>3 DEF TypeOK, Settings, SettingsGet, CompleteSetup, WorkspaceAdd, WorkspaceRemove
    <3>2. QED
      BY <3>1
  <2>4. CASE \/ \E c, k, p, d : Requested(c, k, p, d) \/ DirectStep(c, k, p, d)
             \/ \E r \in Request : ApproveAndExecute(r) \/ DenyRequest(r) \/ TakeUnknown(r)
             \/ Tick
             \/ UNCHANGED vars
    <3>1. settings' = settings
      BY <2>4 DEF Requested, DirectStep, RequestApproval, ExecuteDirectly, ApproveAndExecute,
                  DenyRequest, TakeUnknown, Tick, vars, desk
    <3>2. QED
      BY <3>1
  <2>5. QED
    BY <1>1, <2>1, <2>2, <2>3, <2>4, Steps DEF SettingsStep
<1>2. TypeOK /\ DeskInv /\ [Next]_vars => [Opened => ByUser \/ ByLegacy]_vars
  BY <1>1
<1>3. QED
  BY <1>2, InitTypeOK, NextTypeOK, InitDeskInv, NextDeskInv, PTL DEF Spec, GateOpensByUserOnly

\* One directory is one workspace, whatever stale copies are written back.
THEOREM DirectoriesAreDistinct == Spec => []OneWorkspacePerDirectory
<1>1. DeskInv => OneWorkspacePerDirectory
  BY DEF DeskInv, Distinct, OneWorkspacePerDirectory, Read, Defaults
<1>2. QED
  BY <1>1, InitTypeOK, NextTypeOK, InitDeskInv, NextDeskInv, PTL DEF Spec
=============================================================================
