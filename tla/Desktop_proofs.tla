---------------------------- MODULE Desktop_proofs ----------------------------
(***************************************************************************)
(* What the planner promises for every task, and what the desktop agent    *)
(* and its cost alert promise for every number of calls, runs and costs.   *)
(***************************************************************************)
EXTENDS MCDesktop, Ordering_proofs, SequenceTheorems, TLAPS

(* Plans *)

LEMMA CheapPlans ==
    ASSUME NEW t
    PROVE  CheapPlan(t) \in {LlmPlan, FsThenLlmPlan, FileReadThenLlmPlan, ListReadSummarizePlan}
  BY DEF CheapPlan, ListingPlan

LEMMA ToolsOnlyPlansOf ==
    ASSUME NEW t
    PROVE  /\ ToolsOnlyPlan(t) \in ToolsOnlyPlans
           /\ ToolsOnlyPlan(t) = <<Step("fs_delete", "none")>> => "delete" \in t.marks
<1>1. CASE t.root /\ "list" \in t.marks
  <2>1. ToolsOnlyPlan(t) = <<Step("fs_list_dir", "none")>>
    BY <1>1 DEF ToolsOnlyPlan
  <2>2. <<Step("fs_list_dir", "none")>> # <<Step("fs_delete", "none")>>
    BY DEF Step
  <2>3. QED
    BY <2>1, <2>2 DEF ToolsOnlyPlans
<1>2. CASE t.root /\ "list" \notin t.marks /\ "delete" \in t.marks
  BY <1>2 DEF ToolsOnlyPlan, ToolsOnlyPlans
<1>3. CASE ~(t.root /\ "list" \in t.marks) /\ ~(t.root /\ "list" \notin t.marks /\ "delete" \in t.marks)
  BY <1>3 DEF ToolsOnlyPlan, ToolsOnlyPlans
<1>4. QED
  BY <1>1, <1>2, <1>3

LEMMA PlanCases ==
    ASSUME NEW t
    PROVE  \/ ToolsOnly(t) /\ PlanOf(t) = ToolsOnlyPlan(t)
           \/ PlanOf(t) = CheapPlan(t)
           \/ ~ToolsHeavy(t) /\ PlanOf(t) = LlmPlan
<1>1. CASE ToolsOnly(t)
  BY <1>1 DEF PlanOf, Strategy
<1>2. CASE ~ToolsOnly(t) /\ ToolsHeavy(t)
  BY <1>2 DEF PlanOf, Strategy
<1>3. CASE ~ToolsOnly(t) /\ ~ToolsHeavy(t)
  <2>1. Strategy(t) \in {"cheap_model", "expensive_model"}
    BY <1>3 DEF Strategy
  <2>2. QED
    BY <1>3, <2>1 DEF PlanOf
<1>4. QED
  BY <1>1, <1>2, <1>3

\* Whatever a task says, start_session builds one of the plans the session can run.
THEOREM PlansAreRunnable ==
    ASSUME NEW t
    PROVE  PlanOf(t) \in Plans
  BY PlanCases, CheapPlans, ToolsOnlyPlansOf DEF Plans

\* A step that waits for a tool's output comes right after a step that produces it.
THEOREM SlotsComeAfterTools ==
    ASSUME NEW t
    PROVE  SlotsAreFed(t)
<1>1. ASSUME NEW p \in Plans, NEW i \in DOMAIN p, p[i].slot # "none"
      PROVE  i > 1 /\ p[i - 1].tool # "llm_generate"
  <2> USE DEF Step
  <2>1. CASE p \in ToolsOnlyPlans
    BY <1>1, <2>1 DEF ToolsOnlyPlans
  <2>2. CASE p = LlmPlan
    BY <1>1, <2>2 DEF LlmPlan
  <2>3. CASE p = FsThenLlmPlan
    BY <1>1, <2>3 DEF FsThenLlmPlan
  <2>4. CASE p = FileReadThenLlmPlan
    BY <1>1, <2>4 DEF FileReadThenLlmPlan
  <2>5. CASE p = ListReadSummarizePlan
    BY <1>1, <2>5 DEF ListReadSummarizePlan
  <2>6. QED
    BY <2>1, <2>2, <2>3, <2>4, <2>5 DEF Plans
<1>2. QED
  BY <1>1, PlansAreRunnable DEF SlotsAreFed

\* A plan deletes only for a task that the router flagged for approval, although the two
\* keyword lists are of two modules.
THEOREM DeletionsAreFlagged ==
    ASSUME NEW t, Written(t)
    PROVE  ChangesAreFlagged(t)
<1>1. SUFFICES ASSUME NEW i \in DOMAIN PlanOf(t), PlanOf(t)[i].tool = "fs_delete"
               PROVE  RequiresHighRiskApproval(t)
  BY DEF ChangesAreFlagged
<1>2. PlanOf(t) \notin {LlmPlan, FsThenLlmPlan, FileReadThenLlmPlan, ListReadSummarizePlan}
  BY <1>1 DEF LlmPlan, FsThenLlmPlan, FileReadThenLlmPlan, ListReadSummarizePlan, Step
<1>3. PlanOf(t) = ToolsOnlyPlan(t)
  BY <1>2, PlanCases, CheapPlans
<1>4. PlanOf(t) = <<Step("fs_delete", "none")>>
  <2>1. PlanOf(t) \notin {<<>>, <<Step("fs_list_dir", "none")>>}
    BY <1>1 DEF Step
  <2>2. QED
    BY <1>3, <2>1, ToolsOnlyPlansOf DEF ToolsOnlyPlans
<1>5. "tool_verb" \in t.marks
  BY <1>3, <1>4, ToolsOnlyPlansOf DEF Written
<1>6. QED
  BY <1>5 DEF RequiresHighRiskApproval, HasToolVerbs, Shows

\* A question about files whose place is known is never answered by a model alone.
THEOREM FilesComeFirst ==
    ASSUME NEW t
    PROVE  FilesAreConsulted(t)
<1>1. SUFFICES ASSUME HasImplicitFsIntent(t) \/ HasImplicitFileReadIntent(t), FsPathKnown(t),
                      NEW i \in DOMAIN PlanOf(t), PlanOf(t)[i].tool = "llm_generate"
               PROVE  IsTask(PlanOf(t))
  BY DEF FilesAreConsulted
<1>2. ToolsHeavy(t)
  BY <1>1 DEF ToolsHeavy
<1>3. PlanOf(t) \notin ToolsOnlyPlans
  BY <1>1 DEF ToolsOnlyPlans, Step
<1>4. PlanOf(t) = CheapPlan(t)
  BY <1>2, <1>3, PlanCases, ToolsOnlyPlansOf
<1>5. CheapPlan(t) \in {FsThenLlmPlan, FileReadThenLlmPlan, ListReadSummarizePlan}
  BY <1>1 DEF CheapPlan, ListingPlan
<1>6. \A p \in {FsThenLlmPlan, FileReadThenLlmPlan, ListReadSummarizePlan} :
         1 \in DOMAIN p /\ p[1].tool # "llm_generate"
  BY DEF FsThenLlmPlan, FileReadThenLlmPlan, ListReadSummarizePlan, Step
<1>7. QED
  BY <1>4, <1>5, <1>6 DEF IsTask

-----------------------------------------------------------------------------
(* The agent step command *)

TaskIsGiven == task = NoTask \/ task \in Task

LEMMA TaskStep ==
    ASSUME TaskIsGiven, [DesktopNext]_desktopVars
    PROVE  TaskIsGiven'
<1>1. CASE UNCHANGED task
  BY <1>1 DEF TaskIsGiven
<1>2. CASE AgentStepCommand
  <2>1. CASE \E t \in Task : RunFirstStep(t)
    BY <2>1 DEF RunFirstStep, TaskIsGiven
  <2>2. CASE \E r \in HostResult : ResumeStep(r)
    BY <1>1, <2>2 DEF ResumeStep
  <2>3. QED
    BY <1>2, <2>1, <2>2 DEF AgentStepCommand
<1>3. QED
  BY <1>1, <1>2 DEF DesktopNext, desktopVars, agentVars

\* PlansAreGrounded: the plan of the task in hand can be run, consults the files it is
\* about, is flagged when it deletes, and fills its placeholders in order.
THEOREM PlansOfTasksAreGrounded == DesktopSpec => []PlansAreGrounded
<1>1. DesktopInit => TaskIsGiven
  BY DEF DesktopInit, TaskIsGiven
<1>2. TaskIsGiven /\ [DesktopNext]_desktopVars => TaskIsGiven'
  BY TaskStep
<1>3. TaskIsGiven => PlansAreGrounded
  BY TaskAssumption, PlansAreRunnable, FilesComeFirst, DeletionsAreFlagged, SlotsComeAfterTools
     DEF TaskIsGiven, PlansAreGrounded
<1>4. QED
  BY <1>1, <1>2, <1>3, PTL DEF DesktopSpec

-----------------------------------------------------------------------------
(* The session's cost *)

CostTypeOK ==
    /\ totals \in Nat \union {NoTotals}
    /\ spent \in Nat
    /\ summarised \in Nat
    /\ alerted \in BOOLEAN
    /\ check \in [Thread -> Checks]

\* An overspending that nobody was told of yet is one that some thread will find out.
AlertIsComing == totals > Highest /\ ~alerted => \E c \in Thread : OnItsWay(c)

CostInv == CostTypeOK /\ SpendingIsAccounted /\ AlertIsComing

LEMMA NoTotalsValue == NoTotals = -1
  BY DEF NoTotals

\* No threshold is above the highest one.
LEMMA HighestThreshold == Highest \in Nat /\ \A t \in Thresholds : t \in Nat /\ t <= Highest
  BY ThresholdAssumption

\* What one thread does leaves the others on their way.
LEMMA OthersStayOnTheirWay ==
    ASSUME NEW c \in Thread, NEW phase \in Checks, CostTypeOK,
           check' = [check EXCEPT ![c] = phase]
    PROVE  /\ check' \in [Thread -> Checks]
           /\ check'[c] = phase
           /\ \A d \in Thread : d # c /\ OnItsWay(d) => OnItsWay(d)'
<1>1. /\ check' \in [Thread -> Checks] /\ check'[c] = phase
      /\ \A d \in Thread : d # c => check'[d] = check[d]
  BY DEF CostTypeOK
<1>2. QED
  BY <1>1 DEF OnItsWay

LEMMA Phases ==
    /\ Idling \in Checks
    /\ \A phase \in Phase, n \in Nat :
          At(phase, n) \in Checks /\ At(phase, n).at = phase /\ At(phase, n).cost = n
<1>1. Idling \in Checks
  BY DEF Idling, Checks, Phase
<1>2. \A phase \in Phase, n \in Nat :
          At(phase, n) \in Checks /\ At(phase, n).at = phase /\ At(phase, n).cost = n
  BY DEF At, Checks, Phase
<1>3. QED
  BY <1>1, <1>2

\* The main thread takes the totals.
LEMMA SummariseStep ==
    ASSUME CostInv, Summarise
    PROVE  CostInv'
<1> USE NoTotalsValue DEF CostInv
<1>1. totals \in Nat /\ MainThread \in Thread
  BY DEF Summarise, CostTypeOK, Thread
<1>2. At("comparing", totals) \in Checks
  BY <1>1, Phases DEF Phase
<1>3. check' \in [Thread -> Checks]
  BY <1>2 DEF Summarise, CostTypeOK
<1>4. /\ totals' = -1 /\ summarised' = summarised + totals
      /\ spent' = spent /\ alerted' = alerted
  BY DEF Summarise
<1>5. CostTypeOK'
  BY <1>1, <1>3, <1>4 DEF CostTypeOK
<1>6. SpendingIsAccounted'
  BY <1>1, <1>4 DEF SpendingIsAccounted, CostTypeOK
<1>7. AlertIsComing'
  BY <1>4, HighestThreshold DEF AlertIsComing
<1>8. QED
  BY <1>5, <1>6, <1>7

LEMMA AgentKeepsCost ==
    ASSUME CostInv, AgentStepCommand
    PROVE  CostInv'
<1>1. Summarise \/ UNCHANGED costVars
  BY DEF AgentStepCommand, RunFirstStep, ResumeStep, Settle
<1>2. CASE UNCHANGED costVars
  BY <1>2 DEF costVars, CostInv, CostTypeOK, SpendingIsAccounted, AlertIsComing, OnItsWay
<1>3. QED
  BY <1>1, <1>2, SummariseStep

\* A thread that was on its way is, after its step, still on it, done with the alert, or
\* found nothing left to alert.
LEMMA CostStepKeeps ==
    ASSUME CostInv, threshold \in Thresholds, CostStep
    PROVE  CostInv'
<1> USE NoTotalsValue, HighestThreshold DEF CostInv
<1> DEFINE Quiet == UNCHANGED <<totals, spent, summarised, alerted>>
<1>1. ASSUME Quiet, check' \in [Thread -> Checks],
             totals > Highest /\ ~alerted => \E d \in Thread : OnItsWay(d)'
      PROVE  CostInv'
  BY <1>1 DEF CostTypeOK, SpendingIsAccounted, AlertIsComing
<1>2. ASSUME NEW c \in Call, Invoke(c) \/ InvokeFails(c)
      PROVE  CostInv'
  <2>1. c \in Thread /\ ~OnItsWay(c) /\ Quiet
    BY <1>2 DEF Thread, Invoke, InvokeFails, OnItsWay, Idling
  <2>2. PICK phase \in Checks : check' = [check EXCEPT ![c] = phase]
    BY <1>2, Phases DEF Invoke, InvokeFails, Phase
  <2>3. \A d \in Thread : OnItsWay(d) => OnItsWay(d)'
    BY <2>1, <2>2, OthersStayOnTheirWay
  <2>4. QED
    BY <1>1, <2>1, <2>2, <2>3, OthersStayOnTheirWay DEF AlertIsComing
<1>3. ASSUME NEW c \in Call, AddCost(c)
      PROVE  CostInv'
  <2>1. c \in Thread /\ check' = [check EXCEPT ![c] = At("added", 0)] /\ At("added", 0) \in Checks
    BY <1>3, Phases DEF Thread, AddCost, Phase
  <2>2. check' \in [Thread -> Checks] /\ check'[c] = At("added", 0)
    BY <2>1, OthersStayOnTheirWay
  <2>3. OnItsWay(c)'
    BY <2>2, Phases DEF OnItsWay, Phase
  <2>4. /\ spent' = spent + 1 /\ summarised' = summarised /\ alerted' = alerted
        /\ totals' = (IF totals = NoTotals THEN 0 ELSE totals) + 1
    BY <1>3 DEF AddCost
  <2>5. CostTypeOK'
    BY <2>2, <2>4 DEF CostTypeOK
  <2>6. SpendingIsAccounted'
    BY <2>4 DEF SpendingIsAccounted, CostTypeOK
  <2>7. QED
    BY <2>1, <2>3, <2>5, <2>6 DEF AlertIsComing
<1>4. ASSUME NEW c \in Call, GetTotals(c)
      PROVE  CostInv'
  <2> DEFINE phase == IF totals = NoTotals THEN Idling ELSE At("comparing", totals)
  <2>1. c \in Thread /\ check' = [check EXCEPT ![c] = phase] /\ Quiet
    BY <1>4 DEF Thread, GetTotals
  <2>2. phase \in Checks
    BY Phases DEF CostTypeOK, Phase
  <2>3. check' \in [Thread -> Checks] /\ check'[c] = phase
    BY <2>1, <2>2, OthersStayOnTheirWay
  <2>4. totals > Highest => OnItsWay(c)'
    <3>1. SUFFICES ASSUME totals > Highest PROVE OnItsWay(c)'
      OBVIOUS
    <3>2. totals \in Nat /\ phase = At("comparing", totals)
      BY <3>1 DEF CostTypeOK
    <3>3. check'[c].at = "comparing" /\ check'[c].cost = totals
      BY <2>3, <3>2, Phases DEF Phase
    <3>4. QED
      BY <3>1, <3>3 DEF OnItsWay
  <2>5. QED
    BY <1>1, <2>1, <2>3, <2>4
<1>5. ASSUME NEW c \in Thread, threshold \in Thresholds, CompareThreshold(c) \/ HasAlerted(c)
      PROVE  CostInv'
  <2>1. PICK on \in {"exceeding", "alerting"} :
          LET done == IF on = "exceeding" THEN check[c].cost <= threshold ELSE alerted
          IN check' = [check EXCEPT ![c] = IF done THEN Idling ELSE At(on, check[c].cost)]
    BY <1>5, Zenon DEF CompareThreshold, HasAlerted
  <2> DEFINE done == IF on = "exceeding" THEN check[c].cost <= threshold ELSE alerted
             phase == IF done THEN Idling ELSE At(on, check[c].cost)
  <2>2. check[c].cost \in Nat
    BY DEF CostTypeOK, Checks
  <2>3. phase \in Checks
    BY <2>2, Phases DEF Phase
  <2>4. /\ check' \in [Thread -> Checks] /\ check'[c] = phase
        /\ \A d \in Thread : d # c /\ OnItsWay(d) => OnItsWay(d)'
    BY <2>1, <2>3, OthersStayOnTheirWay
  <2>0. Quiet /\ check[c].at \in {"comparing", "exceeding"}
    BY <1>5 DEF CompareThreshold, HasAlerted
  <2>5. ~alerted /\ OnItsWay(c) => OnItsWay(c)'
    <3>1. SUFFICES ASSUME ~alerted, OnItsWay(c) PROVE OnItsWay(c)'
      OBVIOUS
    <3>2. check[c].cost > Highest
      BY <2>0, <3>1 DEF OnItsWay
    <3>3. ~done
      BY <1>5, <2>2, <3>1, <3>2
    <3>4. check'[c].at = on /\ check'[c].cost = check[c].cost
      BY <2>2, <2>4, <3>3, Phases DEF Phase
    <3>5. QED
      BY <3>2, <3>4 DEF OnItsWay
  <2> HIDE DEF phase
  <2>6. QED
    BY <1>1, <2>0, <2>4, <2>5 DEF AlertIsComing
<1>6. ASSUME NEW c \in Thread, MarkAlerted(c)
      PROVE  CostInv'
  <2>1. check' = [check EXCEPT ![c] = Idling] /\ alerted' = TRUE
    BY <1>6 DEF MarkAlerted
  <2>2. check' \in [Thread -> Checks]
    BY <2>1, Phases, OthersStayOnTheirWay
  <2>3. UNCHANGED <<totals, spent, summarised>>
    BY <1>6 DEF MarkAlerted
  <2>4. QED
    BY <2>1, <2>2, <2>3 DEF CostTypeOK, SpendingIsAccounted, AlertIsComing
<1>7. QED
  BY <1>2, <1>3, <1>4, <1>5, <1>6 DEF CostStep, InvokeStep

LEMMA CostStarts == DesktopInit => CostInv
<1>1. SUFFICES ASSUME DesktopInit PROVE CostInv
  OBVIOUS
<1>2. totals = -1 /\ spent = 0 /\ summarised = 0 /\ alerted = FALSE
  BY <1>1, NoTotalsValue DEF DesktopInit
<1>3. check \in [Thread -> Checks]
  BY <1>1, Phases DEF DesktopInit
<1>4. CostTypeOK
  BY <1>2, <1>3, NoTotalsValue DEF CostTypeOK
<1>5. SpendingIsAccounted
  BY <1>2, NoTotalsValue DEF SpendingIsAccounted
<1>6. AlertIsComing
  BY <1>2, HighestThreshold DEF AlertIsComing
<1>7. QED
  BY <1>4, <1>5, <1>6 DEF CostInv

LEMMA ThresholdSteps ==
    ASSUME threshold \in Thresholds, [DesktopNext]_desktopVars
    PROVE  threshold' \in Thresholds
  BY DEF DesktopNext, SaveThreshold, desktopVars

LEMMA CostSteps ==
    ASSUME CostInv, threshold \in Thresholds, [DesktopNext]_desktopVars
    PROVE  CostInv'
<1>1. CASE UNCHANGED costVars
  BY <1>1 DEF costVars, CostInv, CostTypeOK, SpendingIsAccounted, AlertIsComing, OnItsWay
<1>2. AgentStepCommand \/ CostStep \/ UNCHANGED costVars
  BY DEF DesktopNext, desktopVars, agentVars
<1>3. QED
  BY <1>1, <1>2, AgentKeepsCost, CostStepKeeps

\* OverspendingIsAlerted: no cost is lost between the calls and the summaries, and spending
\* over the threshold is alerted or about to be, for every number of concurrent calls.
THEOREM OverspendingIsNoticed == DesktopSpec => []OverspendingIsAlerted
<1> DEFINE Inv == CostInv /\ threshold \in Thresholds
<1>1. Inv => OverspendingIsAlerted
  BY DEF CostInv, AlertIsComing, OverspendingIsAlerted
<1>2. Inv /\ [DesktopNext]_desktopVars => Inv'
  BY CostSteps, ThresholdSteps
<1>3. DesktopInit => Inv
  BY CostStarts DEF DesktopInit
<1>4. QED
  BY <1>1, <1>2, <1>3, PTL DEF DesktopSpec

-----------------------------------------------------------------------------
(* The file service changes only what a request can reach, and a move to    *)
(* another file loses nothing: for every set of entries, links, contents    *)
(* and every failure of a system call.                                      *)

Things == Contents \union {Part}

\* Links lead to no link.
Direct == \A e \in Entry : disk[e].kind = "link" => disk[disk[e].target].kind # "link"

\* What a move in progress is about: the source is a file within reach, and unless it is its
\* own destination both ends hold what is moved.
Moving ==
    mover # NoMove =>
        /\ mover.from \in Entry /\ mover.to \in Entry /\ mover.held \in Things
        /\ InReach(mover.from)
        /\ disk[mover.from].kind = "file"
        /\ mover.from # mover.to =>
              disk[mover.from] = Holding(mover.held) /\ disk[mover.to] = Holding(mover.held)

Answered ==
    (answer.op = "move" /\ answer.from # answer.to /\ mover = NoMove) =>
        disk[IF answer.outcome = "ok" THEN answer.to ELSE answer.from] = Holding(answer.held)

FileInv == disk \in [Entry -> Node] /\ Direct /\ Moving /\ Answered

\* A file is known by what it holds.
LEMMA NodeCases ==
    ASSUME NEW n \in Node
    PROVE  /\ n.kind = "file" => \E data \in Things : n = Holding(data)
           /\ n.kind = "dir" => n = Directory
           /\ n.kind = "link" => n.target \in Entry
           /\ n.kind \in {"absent", "dir", "file", "link"}
  BY DEF Node, Holding, LinkTo, Absent, Directory, Things

LEMMA NodeKinds ==
    /\ \A data : Holding(data).kind = "file" /\ Holding(data).data = data
    /\ Absent.kind = "absent" /\ Directory.kind = "dir"
    /\ Absent \in Node /\ Directory \in Node
    /\ \A data \in Things : Holding(data) \in Node
  BY DEF Node, Holding, Absent, Directory, Things

LEMMA CanonicalEntry ==
    ASSUME disk \in [Entry -> Node], Direct, NEW e \in Entry
    PROVE  Canonical(e) \in Entry /\ disk[Canonical(e)].kind # "link"
  BY NodeCases DEF Canonical, Direct

\* A path that is not refused in a workspace is within reach.
LEMMA AcceptedIsInReach ==
    ASSUME disk \in [Entry -> Node], Direct, NEW b \in Workspace, NEW e \in Under(b),
           PathRefusal(b, e) = "none"
    PROVE  Canonical(e) \in Entry /\ InReach(Canonical(e))
<1>1. e \in Entry
  BY DEF Under
<1>2. Canonical(e) \in Entry /\ disk[Canonical(e)].kind # "link"
  BY <1>1, CanonicalEntry
<1>3. /\ disk[Canonical(e)] # Absent /\ b \in BasesOf[Canonical(e)]
      /\ Canonical(e) \notin Blocked
  BY DEF PathRefusal, ResolveRefusal
<1>4. disk[Canonical(e)].kind \in {"file", "dir"}
  BY <1>2, <1>3 DEF Node, Holding, LinkTo, Absent, Directory
<1>5. QED
  BY <1>1, <1>2, <1>3, <1>4 DEF InReach

LEMMA WritableIsAccepted ==
    ASSUME NEW b \in Base, NEW e, WriteRefusal(b, e) = "none"
    PROVE  PathRefusal(b, e) = "none" /\ b \in Workspace
  BY DEF WriteRefusal, Base

\* Putting a file, a directory or nothing in the place of what is no link keeps links direct.
LEMMA StaysDirect ==
    ASSUME disk \in [Entry -> Node], Direct, NEW e \in Entry, disk[e].kind # "link",
           NEW n \in Node, n.kind # "link", disk' = [disk EXCEPT ![e] = n]
    PROVE  disk' \in [Entry -> Node] /\ Direct'
<1>1. disk' \in [Entry -> Node]
  OBVIOUS
<1>2. ASSUME NEW f \in Entry, disk'[f].kind = "link"
      PROVE  disk'[disk'[f].target].kind # "link"
  <2>1. disk'[f] = disk[f] /\ disk[f].target \in Entry
    BY <1>2, NodeCases
  <2>2. QED
    BY <1>2, <2>1 DEF Direct
<1>3. QED
  BY <1>1, <1>2 DEF Direct

-----------------------------------------------------------------------------
LEMMA FileInit_Inv == FileInit => FileInv
  BY DiskAssumption DEF FileInit, FileInv, Direct, Moving, Answered, Unanswered, Answer

\* Nothing moves and nothing about a move is answered: what is left is the disk.
LEMMA QuietStep ==
    ASSUME mover' = NoMove, answer'.op # "move"
    PROVE  Moving' /\ Answered'
  BY DEF Moving, Answered

LEMMA QuietAnswers ==
    /\ Unanswered.op # "move"
    /\ \A o : Answer("read", o).op # "move" /\ Answer("refused", o).op # "move"
                    /\ Answer("write", o).op # "move" /\ Answer("delete", o).op # "move"
                    /\ Answer("rename", o).op # "move"
  BY DEF Unanswered, Answer

LEMMA UnchangedDisk ==
    ASSUME FileInv, UNCHANGED disk
    PROVE  disk' \in [Entry -> Node] /\ Direct' /\ (\A e \in Entry : disk'[e] = disk[e])
  BY DEF FileInv, Direct

LEMMA Write_Inv ==
    ASSUME FileInv, NEW b \in Base, NEW e \in Under(b), NEW data \in Contents,
           WriteFile(b, e, data)
    PROVE  FileInv' /\ \A f \in Entry : disk'[f] # disk[f] => InReach(f)
<1>1. Canonical(e) \in Entry /\ InReach(Canonical(e)) /\ disk[Canonical(e)].kind = "file"
  BY WritableIsAccepted, AcceptedIsInReach DEF FileInv, WriteFile
<1>2. \E n \in Node : n.kind = "file" /\ disk' = [disk EXCEPT ![Canonical(e)] = n]
  BY NodeKinds DEF WriteFile, Things
<1>3. disk' \in [Entry -> Node] /\ Direct'
  BY <1>1, <1>2, StaysDirect DEF FileInv
<1>4. Moving' /\ Answered'
  BY QuietStep, QuietAnswers DEF WriteFile, Serve
<1>5. \A f \in Entry : disk'[f] # disk[f] => f = Canonical(e)
  BY <1>2 DEF FileInv
<1>6. QED
  BY <1>1, <1>3, <1>4, <1>5 DEF FileInv

LEMMA Remove_Inv ==
    ASSUME FileInv, NEW b \in Base, NEW e \in Under(b), RemoveFile(b, e)
    PROVE  FileInv' /\ \A f \in Entry : disk'[f] # disk[f] => InReach(f)
<1>1. Canonical(e) \in Entry /\ InReach(Canonical(e)) /\ disk[Canonical(e)].kind = "file"
  BY WritableIsAccepted, AcceptedIsInReach DEF FileInv, RemoveFile
<1>2. disk' = [disk EXCEPT ![Canonical(e)] = Absent]
  BY DEF RemoveFile
<1>3. disk' \in [Entry -> Node] /\ Direct'
  BY <1>1, <1>2, NodeKinds, StaysDirect DEF FileInv
<1>4. Moving' /\ Answered'
  BY QuietStep, QuietAnswers DEF RemoveFile, Serve
<1>5. \A f \in Entry : disk'[f] # disk[f] => f = Canonical(e)
  BY <1>2 DEF FileInv
<1>6. QED
  BY <1>1, <1>3, <1>4, <1>5 DEF FileInv

LEMMA Rename_Inv ==
    ASSUME FileInv, NEW b \in Base, NEW e \in Under(b), NEW new \in Under(b), Rename(b, e, new)
    PROVE  FileInv' /\ \A f \in Entry : disk'[f] # disk[f] => InReach(f)
<1> DEFINE c == Canonical(e)
<1> DEFINE d == Canonical(new)
<1>1. /\ c \in Entry /\ InReach(c) /\ d \in Entry /\ InReach(d)
      /\ disk[c].kind # "link" /\ disk[d].kind # "link"
  <2>1. c \in Entry /\ InReach(c) /\ d \in Entry /\ InReach(d)
    BY WritableIsAccepted, AcceptedIsInReach DEF FileInv, Rename
  <2>2. QED
    BY <2>1 DEF InReach
<1>2. Moving' /\ Answered'
  BY QuietStep, QuietAnswers DEF Rename, Serve
<1>3. CASE c = d
  <2>1. UNCHANGED disk
    BY <1>3 DEF Rename
  <2>2. QED
    BY <1>2, <2>1, UnchangedDisk DEF FileInv
<1>4. CASE c # d
  <2>1. disk' = [disk EXCEPT ![d] = disk[c], ![c] = Absent]
    BY <1>4 DEF Rename
  <2>2. /\ disk' \in [Entry -> Node]
        /\ disk'[c] = Absent /\ disk'[d] = disk[c]
        /\ \A f \in Entry : f \notin {c, d} => disk'[f] = disk[f]
    BY <1>1, <1>4, <2>1, NodeKinds DEF FileInv
  <2>3. ASSUME NEW f \in Entry, disk'[f].kind = "link"
        PROVE  disk'[disk'[f].target].kind # "link"
    <3>1. disk'[f] = disk[f] /\ disk[f].target \in Entry /\ disk[f] \in Node
      BY <1>1, <2>2, <2>3, NodeKinds, NodeCases DEF FileInv
    <3>2. disk[disk[f].target].kind # "link"
      BY <2>3, <3>1 DEF FileInv, Direct
    <3>3. QED
      BY <1>1, <2>2, <3>1, <3>2, NodeKinds
  <2>4. QED
    BY <1>1, <1>2, <2>2, <2>3 DEF FileInv, Direct
<1>5. QED
  BY <1>3, <1>4

\* The copy leaves a move in progress with both ends alike, or an answer with the source
\* as it was.
LEMMA MoveCopy_Inv ==
    ASSUME FileInv, NEW b \in Workspace, NEW to \in Workspace, NEW e \in Under(b),
           NEW dest \in Under(to), MoveCopy(b, e, to, dest)
    PROVE  FileInv' /\ \A f \in Entry : disk'[f] # disk[f] => InReach(f)
<1> DEFINE c == Canonical(e)
<1> DEFINE d == Canonical(dest)
<1> DEFINE move == [from |-> c, to |-> d, held |-> disk[c].data]
<1>1. /\ c \in Entry /\ InReach(c) /\ d \in Entry /\ InReach(d)
      /\ disk[c].kind = "file" /\ disk[d].kind = "file"
  BY AcceptedIsInReach DEF FileInv, MoveCopy
<1>2. PICK held \in Things : disk[c] = Holding(held) /\ disk[c].data = held
  BY <1>1, NodeCases, NodeKinds DEF FileInv
<1>3. PICK n \in Node :
          /\ n.kind = "file" /\ disk' = [disk EXCEPT ![d] = n]
          /\ \/ mover' = move /\ answer' = Unanswered /\ (c # d => n = disk[c])
             \/ mover' = mover /\ answer' = MoveAnswer("io", move)
  BY <1>1, NodeKinds DEF MoveCopy, FileInv, Things
<1>4. disk' \in [Entry -> Node] /\ Direct'
  BY <1>1, <1>3, StaysDirect DEF FileInv
<1>5. \A f \in Entry : disk'[f] = IF f = d THEN n ELSE disk[f]
  BY <1>3 DEF FileInv
<1>6. CASE mover' = move /\ answer' = Unanswered /\ (c # d => n = disk[c])
  <2>1. mover'.from = c /\ mover'.to = d /\ mover'.held = held
    BY <1>2, <1>6
  <2>2. InReach(mover.from)'
    BY <1>1, <1>3, <1>5, <2>1 DEF InReach
  <2>3. Moving'
    BY <1>1, <1>2, <1>3, <1>5, <1>6, <2>1, <2>2 DEF Moving
  <2>4. Answered'
    BY <1>6, QuietAnswers DEF Answered
  <2>5. QED
    BY <1>1, <1>4, <1>5, <2>3, <2>4 DEF FileInv
<1>7. CASE mover' = mover /\ answer' = MoveAnswer("io", move)
  <2>1. mover' = NoMove
    BY <1>7 DEF MoveCopy, Serve
  <2>2. /\ answer'.from = c /\ answer'.to = d /\ answer'.held = held
        /\ answer'.outcome = "io"
    BY <1>2, <1>7 DEF MoveAnswer
  <2>3. Moving' /\ Answered'
    BY <1>1, <1>2, <1>5, <2>1, <2>2 DEF Moving, Answered
  <2>4. QED
    BY <1>1, <1>4, <1>5, <2>3 DEF FileInv
<1>8. QED
  BY <1>3, <1>6, <1>7

LEMMA MoveEnds_Inv ==
    ASSUME FileInv, MoveRemove \/ QuitMoving
    PROVE  FileInv' /\ \A f \in Entry : disk'[f] # disk[f] => InReach(f)
<1>1. /\ mover.from \in Entry /\ mover.to \in Entry /\ InReach(mover.from)
      /\ disk[mover.from].kind = "file"
      /\ mover.from # mover.to =>
            disk[mover.from] = Holding(mover.held) /\ disk[mover.to] = Holding(mover.held)
  BY DEF FileInv, Moving, MoveRemove, QuitMoving
<1>2. mover' = NoMove /\ Moving'
  BY DEF MoveRemove, QuitMoving, Moving
<1>3. PICK o :
          /\ answer' = MoveAnswer(o, mover)
          /\ IF o = "ok" THEN disk' = [disk EXCEPT ![mover.from] = Absent]
             ELSE UNCHANGED disk
  BY DEF MoveRemove, QuitMoving
<1>4. /\ answer'.from = mover.from /\ answer'.to = mover.to
      /\ answer'.held = mover.held /\ answer'.outcome = o
  BY <1>3 DEF MoveAnswer
<1>5. CASE o = "ok"
  <2>1. disk' = [disk EXCEPT ![mover.from] = Absent]
    BY <1>3, <1>5
  <2>2. disk' \in [Entry -> Node] /\ Direct'
    BY <1>1, <2>1, NodeKinds, StaysDirect DEF FileInv
  <2>3. \A f \in Entry : disk'[f] = IF f = mover.from THEN Absent ELSE disk[f]
    BY <2>1 DEF FileInv
  <2>4. Answered'
    BY <1>1, <1>4, <1>5, <2>3 DEF Answered
  <2>5. QED
    BY <1>1, <1>2, <2>2, <2>3, <2>4 DEF FileInv
<1>6. CASE o # "ok"
  <2>1. UNCHANGED disk
    BY <1>3, <1>6
  <2>2. Answered'
    BY <1>1, <1>4, <1>6, <2>1 DEF Answered
  <2>3. QED
    BY <1>2, <2>1, <2>2, UnchangedDisk DEF FileInv
<1>7. QED
  BY <1>5, <1>6

LEMMA Still_Inv ==
    ASSUME FileInv, UNCHANGED disk, mover' = NoMove, answer'.op # "move"
    PROVE  FileInv' /\ \A f \in Entry : disk'[f] # disk[f] => InReach(f)
  BY UnchangedDisk, QuietStep DEF FileInv

LEMMA FileNext_Inv ==
    ASSUME FileInv, [FileNext]_fileVars
    PROVE  FileInv' /\ \A f \in Entry : disk'[f] # disk[f] => InReach(f)
<1>1. ASSUME NEW caller \in Caller, NEW b \in Base, NEW e \in Under(b), ReadCommand(caller, b, e)
      PROVE  UNCHANGED disk /\ mover' = NoMove /\ answer'.op # "move"
  <2>1. \E o : answer' = Answer("read", o)
    BY <1>1 DEF ReadCommand
  <2>2. QED
    BY <1>1, <2>1, QuietAnswers DEF ReadCommand, Serve
<1>2. ASSUME NEW b \in Base, NEW e \in Under(b), RefuseFile(b, e)
      PROVE  UNCHANGED disk /\ mover' = NoMove /\ answer'.op # "move"
  BY <1>2, QuietAnswers DEF RefuseFile, Serve
<1>3. CASE UNCHANGED fileVars
  BY <1>3, UnchangedDisk DEF fileVars, FileInv, Moving, Answered, InReach
<1>4. QED
  BY <1>1, <1>2, <1>3, Still_Inv, Write_Inv, Remove_Inv, Rename_Inv, MoveCopy_Inv, MoveEnds_Inv
     DEF FileNext

\* However a move to another file ends, what was to be moved is still there.
THEOREM MovesAreSafe == FileSpec => []MovesLoseNothing
<1>1. FileInv => MovesLoseNothing
  BY DEF FileInv, Moving, Answered, MovesLoseNothing
<1>2. FileInv /\ [FileNext]_fileVars => FileInv'
  BY FileNext_Inv
<1>3. QED
  BY FileInit_Inv, <1>1, <1>2, PTL DEF FileSpec

\* Nothing out of reach is changed, no link is replaced, and nothing is created.
THEOREM ChangesAreConfined == FileSpec => OnlyReachableChanges
<1>1. FileInv /\ [FileNext]_fileVars => FileInv'
  BY FileNext_Inv
<1>2. FileInv /\ [FileNext]_fileVars => [\A e \in Entry : disk'[e] # disk[e] => InReach(e)]_disk
  BY FileNext_Inv
<1>3. QED
  BY FileInit_Inv, <1>1, <1>2, PTL DEF FileSpec, OnlyReachableChanges

-----------------------------------------------------------------------------
(* Masking is exact, for every set of findings.                              *)

\* p is in one of the first n spans of items.
Hit(items, n, p) == \E k \in DOMAIN items : k <= n /\ items[k].start < p /\ p <= items[k].end

\* The spans of items follow one another with something in between.
Apart(items) == \A j, k \in DOMAIN items : j < k => items[j].end < items[k].start

StartsInOrder(items) == \A j, k \in DOMAIN items : j < k => items[j].start <= items[k].start

LEMMA FindingFields ==
    ASSUME NEW f \in Finding
    PROVE  /\ f.start \in 0 .. PayloadLength /\ f.end \in 0 .. PayloadLength
           /\ f.start \in Nat /\ f.end \in Nat /\ PayloadLength \in Nat /\ f.end <= PayloadLength
           /\ f.start < f.end /\ f.rule \in SensitivityRule
           /\ LevelOf[f.rule] \in Nat /\ f.rule \in Nat
           /\ f = [start |-> f.start, end |-> f.end, rule |-> f.rule]
<1>1. PayloadLength \in Nat /\ SensitivityRule \subseteq Nat /\ LevelOf \in [SensitivityRule -> Nat]
  BY ScrubAssumption
<1>2. f \in [start : 0 .. PayloadLength, end : 0 .. PayloadLength, rule : SensitivityRule] /\ f.start < f.end
  BY DEF Finding
<1>3. f.start \in 0 .. PayloadLength /\ f.end \in 0 .. PayloadLength /\ f.rule \in SensitivityRule
  BY <1>2
<1>4. f = [start |-> f.start, end |-> f.end, rule |-> f.rule]
  BY <1>2
<1>5. LevelOf[f.rule] \in Nat /\ f.rule \in Nat
  BY <1>1, <1>3
<1>6. QED
  BY <1>1, <1>2, <1>3, <1>4, <1>5

LEMMA ItemFields ==
    ASSUME NEW items \in Seq(Finding), NEW k \in DOMAIN items
    PROVE  /\ items[k] \in Finding
           /\ items[k].start \in Nat /\ items[k].end \in Nat /\ items[k].start < items[k].end
           /\ items[k].end <= PayloadLength
<1>1. items[k] \in Finding
  OBVIOUS
<1>2. QED
  BY <1>1, FindingFields

LEMMA SortedFindings ==
    ASSUME NEW fs \in Findings, NEW s, s = Sorted(fs)
    PROVE  /\ s \in Seq(Finding) /\ StartsInOrder(s)
           /\ \A f \in fs : \E i \in DOMAIN s : s[i] = f
           /\ \A i \in DOMAIN s : s[i] \in fs
<1> DEFINE R == {r \in fs \X fs : Before(r[1], r[2])}
           n == Cardinality(fs)
<1>1. fs \subseteq Finding /\ IsFiniteSet(fs)
  <2>1. CASE fs = {}
    BY <2>1, FS_EmptySet
  <2>2. CASE fs # {}
    <3>1. PICK t \in [1 .. MaxFindings -> Finding] : fs = Range(t)
      BY <2>2 DEF Findings
    <3>2. fs = {t[i] : i \in 1 .. MaxFindings}
      BY <3>1 DEF Range
    <3>3. MaxFindings \in Nat
      BY ScrubAssumption
    <3>4. IsFiniteSet(1 .. MaxFindings)
      BY <3>3, IntervalLength
    <3>5. IsFiniteSet(fs)
      <4>1. t \in Surjection(1 .. MaxFindings, fs)
        BY <3>1, <3>2 DEF Surjection
      <4>2. QED
        BY <3>4, <4>1, FS_Surjection
    <3>6. QED
      BY <3>1, <3>2, <3>5
  <2>3. QED
    BY <2>1, <2>2
<1>2. \A f, g \in fs : <<f, g>> \in R <=> Before(f, g)
  OBVIOUS
<1>3. s = Arranged(fs, R)
  BY DEF Sorted
<1> HIDE DEF R
<1>4. \A f \in fs : f.start \in Nat /\ LevelOf[f.rule] \in Nat /\ f.rule \in Nat
  BY <1>1, FindingFields
<1>5. Orders(R, fs)
  <2>1. \A f, g \in fs : Before(f, g) \/ Before(g, f)
    BY <1>4 DEF Before
  <2>2. \A f, g, h \in fs : Before(f, g) /\ Before(g, h) => Before(f, h)
    BY <1>4 DEF Before
  <2>3. QED
    BY <1>2, <2>1, <2>2 DEF Orders
<1>6. n \in Nat
  BY <1>1, FS_CardinalityType
<1>7. /\ s \in [1 .. n -> fs]
      /\ \A f \in fs : \E i \in 1 .. n : s[i] = f
      /\ \A i, j \in 1 .. n : i < j => <<s[i], s[j]>> \in R
  <2>1. Arrangement(s, fs, R)
    BY <1>1, <1>3, <1>5, ArrangedIsSorted
  <2>2. QED
    BY <2>1, Zenon DEF Arrangement
<1> HIDE DEF n
<1>8. s \in Seq(Finding) /\ DOMAIN s = 1 .. n
  BY <1>1, <1>6, <1>7
<1>9. StartsInOrder(s)
  <2>1. ASSUME NEW i \in 1 .. n, NEW j \in 1 .. n, i < j
        PROVE  s[i].start <= s[j].start
    <3>1. s[i] \in fs /\ s[j] \in fs /\ Before(s[i], s[j])
      BY <1>2, <1>7, <2>1
    <3>2. QED
      BY <1>4, <3>1 DEF Before
  <2>2. QED
    BY <1>8, <2>1 DEF StartsInOrder
<1>10. QED
  BY <1>7, <1>8, <1>9

-----------------------------------------------------------------------------
(* Merging.                                                                  *)

LEMMA MergedSpan ==
    ASSUME NEW last \in Finding, NEW f \in Finding
    PROVE  /\ MergedWith(last, f) \in Finding
           /\ MergedWith(last, f).start = last.start
           /\ MergedWith(last, f).end = IF last.end >= f.end THEN last.end ELSE f.end
<1> DEFINE m == Max({last.end, f.end})
           r == IF LevelOf[f.rule] > LevelOf[last.rule] THEN f.rule ELSE last.rule
<1>1. m = IF last.end >= f.end THEN last.end ELSE f.end
  <2>1. last.end \in Nat /\ f.end \in Nat
    BY FindingFields
  <2>2. QED
    BY <2>1 DEF Max
<1>2. MergedWith(last, f) = [start |-> last.start, end |-> m, rule |-> r]
  <2>1. last = [start |-> last.start, end |-> last.end, rule |-> last.rule]
    BY FindingFields
  <2>2. MergedWith(last, f) = [[last EXCEPT !.end = m] EXCEPT !.rule = r]
    BY <2>1 DEF MergedWith
  <2> HIDE DEF m, r
  <2>3. QED
    BY <2>1, <2>2
<1> HIDE DEF m
<1>3. m \in 0 .. PayloadLength /\ last.start < m
  BY <1>1, FindingFields
<1>4. r \in SensitivityRule
  BY FindingFields
<1> HIDE DEF r
<1>5. last.start \in 0 .. PayloadLength
  BY FindingFields
<1>6. QED
  BY <1>1, <1>2, <1>3, <1>4, <1>5 DEF Finding

\* What holds of merged when it stands for the first n of the findings.
MergedSoFar(merged, items, n) ==
    /\ merged \in Seq(Finding) /\ Apart(merged)
    /\ \A k \in DOMAIN merged : \A j \in DOMAIN items : j > n => merged[k].start <= items[j].start
    /\ \A p \in Nat : Hit(merged, Len(merged), p) <=> Hit(items, n, p)

LEMMA MergeStep ==
    ASSUME NEW items \in Seq(Finding), StartsInOrder(items), NEW n \in Nat, n + 1 \in DOMAIN items,
           NEW merged, MergedSoFar(merged, items, n), NEW next, next = Merge(merged, items[n + 1])
    PROVE  MergedSoFar(next, items, n + 1)
<1> DEFINE f == items[n + 1]
           m == Len(merged)
<1>0. merged \in Seq(Finding) /\ Apart(merged) /\ m \in Nat /\ DOMAIN merged = 1 .. m
  BY DEF MergedSoFar
<1>1. f \in Finding /\ f.start \in Nat /\ f.end \in Nat /\ f.start < f.end
  BY ItemFields
<1>2. \A k \in 1 .. m : merged[k].start \in Nat /\ merged[k].end \in Nat /\ merged[k].start < merged[k].end
  BY <1>0, ItemFields
<1>3. \A p \in Nat : Hit(items, n + 1, p) <=> Hit(items, n, p) \/ (f.start < p /\ p <= f.end)
  <2>1. \A k \in DOMAIN items : k \in Nat
    OBVIOUS
  <2>2. \A k \in DOMAIN items : k <= n + 1 <=> k <= n \/ k = n + 1
    BY <2>1
  <2>3. QED
    BY <2>2, Zenon DEF Hit
<1>4. \A j \in DOMAIN items : j > n + 1 => f.start <= items[j].start /\ j > n
  <2>1. \A j \in DOMAIN items : j \in Nat
    OBVIOUS
  <2>2. QED
    BY <2>1 DEF StartsInOrder
<1>5. \A k \in 1 .. m : merged[k].start <= f.start
  BY <1>0 DEF MergedSoFar
<1>6. \A k \in 1 .. m : \A j \in DOMAIN items : j > n + 1 => merged[k].start <= items[j].start
  BY <1>0, <1>4, Zenon DEF MergedSoFar
<1>7. \A p \in Nat : Hit(merged, m, p) <=> Hit(items, n, p)
  BY Zenon DEF MergedSoFar
<1>8. \A p : Hit(merged, m, p) <=> \E k \in 1 .. m : merged[k].start < p /\ p <= merged[k].end
  BY <1>0 DEF Hit
<1> HIDE DEF f, m
<1>9. CASE merged # <<>> /\ f.start <= merged[m].end
  <2> DEFINE g == MergedWith(merged[m], f)
  <2>1. m \in 1 .. m /\ merged[m] \in Finding
    <3>1. m # 0
      BY <1>0, <1>9 DEF m
    <3>2. m \in 1 .. m
      BY <1>0, <3>1
    <3>3. QED
      BY <1>0, <3>2
  <2>2. next = [merged EXCEPT ![m] = g]
    BY <1>9 DEF Merge, Last, f, m
  <2>3. /\ g \in Finding /\ g.start = merged[m].start
        /\ g.end = IF merged[m].end >= f.end THEN merged[m].end ELSE f.end
    BY <1>1, <2>1, MergedSpan
  <2> HIDE DEF g
  <2>4. next \in Seq(Finding) /\ DOMAIN next = 1 .. m /\ Len(next) = m
    BY <1>0, <2>1, <2>2, <2>3, ExceptSeq DEF m
  <2>5. \A k \in 1 .. m : next[k] = IF k = m THEN g ELSE merged[k]
    BY <1>0, <2>1, <2>2
  <2>6. \A k \in 1 .. m : next[k].start = merged[k].start
    BY <2>3, <2>5
  <2>7. Apart(next)
    <3>1. ASSUME NEW j \in 1 .. m, NEW k \in 1 .. m, j < k
          PROVE  next[j].end < next[k].start
      <4>1. j # m /\ next[j] = merged[j]
        BY <1>0, <2>5, <3>1
      <4>2. merged[j].end < merged[k].start
        BY <1>0, <3>1 DEF Apart
      <4>3. QED
        BY <2>6, <4>1, <4>2
    <3>2. QED
      BY <2>4, <3>1 DEF Apart
  <2>8. ASSUME NEW p \in Nat
        PROVE  Hit(next, m, p) <=> Hit(items, n + 1, p)
    <3>1. Hit(next, m, p) <=> \E k \in 1 .. m : next[k].start < p /\ p <= next[k].end
      BY <2>4 DEF Hit
    <3>2. g.start < p /\ p <= g.end <=>
             (merged[m].start < p /\ p <= merged[m].end) \/ (f.start < p /\ p <= f.end)
      <4>1. merged[m].start <= f.start /\ f.start <= merged[m].end
        BY <1>5, <1>9, <2>1
      <4>2. merged[m].start \in Nat /\ merged[m].end \in Nat
        BY <1>2, <2>1
      <4>3. QED
        BY <1>1, <2>3, <4>1, <4>2, SMTT(30)
    <3>3. (\E k \in 1 .. m : next[k].start < p /\ p <= next[k].end) <=>
             (\E k \in 1 .. m : merged[k].start < p /\ p <= merged[k].end) \/ (f.start < p /\ p <= f.end)
      <4>1. \A k \in 1 .. m : k # m => next[k] = merged[k]
        BY <2>5
      <4>2. next[m] = g
        BY <2>1, <2>5
      <4>3. QED
        BY <2>1, <3>2, <4>1, <4>2, Zenon
    <3>4. QED
      BY <1>3, <1>7, <1>8, <3>1, <3>3, Zenon
  <2>9. QED
    BY <1>6, <2>4, <2>6, <2>7, <2>8 DEF MergedSoFar
<1>10. CASE ~(merged # <<>> /\ f.start <= merged[m].end)
  <2>1. next = Append(merged, f)
    BY <1>10 DEF Merge, Last, f, m
  <2>2. next \in Seq(Finding) /\ DOMAIN next = 1 .. (m + 1) /\ Len(next) = m + 1
    BY <1>0, <1>1, <2>1 DEF m
  <2>3. (\A k \in 1 .. m : next[k] = merged[k]) /\ next[m + 1] = f
    BY <1>0, <2>1 DEF m
  <2>4. \A k \in 1 .. m : merged[k].end < f.start
    <3>1. ASSUME NEW k \in 1 .. m
          PROVE  merged[k].end < f.start
      <4>1. merged # <<>> /\ m \in 1 .. m /\ k <= m
        BY <1>0, <3>1 DEF m
      <4>2. f.start > merged[m].end
        BY <1>1, <1>2, <1>10, <4>1
      <4>3. CASE k = m
        BY <1>1, <1>2, <4>1, <4>2, <4>3
      <4>4. CASE k < m
        <5>1. merged[k].end < merged[m].start
          BY <1>0, <3>1, <4>1, <4>4 DEF Apart
        <5>2. QED
          BY <1>1, <1>2, <3>1, <4>1, <4>2, <5>1
      <4>5. QED
        BY <1>0, <3>1, <4>3, <4>4
    <3>2. QED
      BY <3>1
  <2>5. Apart(next)
    <3>1. ASSUME NEW j \in 1 .. (m + 1), NEW k \in 1 .. (m + 1), j < k
          PROVE  next[j].end < next[k].start
      <4>1. j \in 1 .. m /\ next[j] = merged[j]
        BY <1>0, <2>3, <3>1
      <4>2. CASE k = m + 1
        BY <2>3, <2>4, <4>1, <4>2
      <4>3. CASE k # m + 1
        <5>1. k \in 1 .. m /\ next[k] = merged[k]
          BY <1>0, <2>3, <3>1, <4>3
        <5>2. QED
          BY <1>0, <3>1, <4>1, <5>1 DEF Apart
      <4>4. QED
        BY <4>2, <4>3
    <3>2. QED
      BY <2>2, <3>1 DEF Apart
  <2>6. \A k \in 1 .. (m + 1) : k \in 1 .. m \/ k = m + 1
    BY <1>0
  <2>7. (\A k \in 1 .. m : k \in 1 .. (m + 1)) /\ m + 1 \in 1 .. (m + 1)
    BY <1>0
  <2>8. \A k \in 1 .. (m + 1) : \A j \in DOMAIN items : j > n + 1 => next[k].start <= items[j].start
    BY <1>4, <1>6, <2>3, <2>6, Zenon
  <2>9. ASSUME NEW p \in Nat
        PROVE  Hit(next, m + 1, p) <=> Hit(items, n + 1, p)
    <3>1. Hit(next, m + 1, p) <=> \E k \in 1 .. (m + 1) : next[k].start < p /\ p <= next[k].end
      BY <2>2 DEF Hit
    <3>2. (\E k \in 1 .. (m + 1) : next[k].start < p /\ p <= next[k].end) <=>
             (\E k \in 1 .. m : merged[k].start < p /\ p <= merged[k].end) \/ (f.start < p /\ p <= f.end)
      BY <2>3, <2>6, <2>7, Zenon
    <3>3. QED
      BY <1>3, <1>7, <1>8, <3>1, <3>2, Zenon
  <2>10. QED
    BY <2>2, <2>5, <2>8, <2>9 DEF MergedSoFar
<1>11. QED
  BY <1>9, <1>10
LEMMA MergeType ==
    ASSUME NEW merged \in Seq(Finding), NEW f \in Finding
    PROVE  Merge(merged, f) \in Seq(Finding)
<1>1. CASE merged # <<>> /\ f.start <= Last(merged).end
  <2> DEFINE m == Len(merged)
             g == MergedWith(merged[m], f)
  <2>1. m \in 1 .. m /\ merged[m] \in Finding
    BY <1>1
  <2>2. Merge(merged, f) = [merged EXCEPT ![m] = g]
    BY <1>1 DEF Merge
  <2>3. g \in Finding
    BY <2>1, MergedSpan
  <2> HIDE DEF g
  <2>4. [merged EXCEPT ![m] = g] \in Seq(Finding)
    BY <2>1, <2>3, ExceptSeq
  <2>5. QED
    BY <2>2, <2>4
<1>2. CASE ~(merged # <<>> /\ f.start <= Last(merged).end)
  <2>1. Merge(merged, f) = Append(merged, f)
    BY <1>2 DEF Merge
  <2>2. QED
    BY <2>1
<1>3. QED
  BY <1>1, <1>2

\* Merging leaves spans apart that cover what the findings covered.
LEMMA MergingIsExact ==
    ASSUME NEW items \in Seq(Finding), StartsInOrder(items), NEW s, s = MergedSpans(items)
    PROVE  /\ s \in Seq(Finding) /\ Apart(s)
           /\ \A p \in Nat : Hit(s, Len(s), p) <=> Hit(items, Len(items), p)
<1> DEFINE n == Len(items)
           merged[i \in 0 .. n] == IF i = 0 THEN <<>> ELSE Merge(merged[i - 1], items[i])
           X == Seq(Finding)
           step == [r \in (1 .. n) \X X |-> Merge(r[2], items[r[1]])]
<1>1. n \in Nat /\ DOMAIN items = 1 .. n /\ \A i \in 1 .. n : items[i] \in Finding
  OBVIOUS
<1>2. s = merged[n]
  BY DEF MergedSpans
<1>3. step \in [(1 .. n) \X X -> X] /\ <<>> \in X
  BY <1>1, MergeType
<1>4. \A i \in 1 .. n : \A x \in X : step[<<i, x>>] = Merge(x, items[i])
  <2>1. ASSUME NEW i \in 1 .. n, NEW x \in X
        PROVE  step[<<i, x>>] = Merge(x, items[i])
    <3> DEFINE r == <<i, x>>
    <3>1. r \in (1 .. n) \X X /\ r[1] = i /\ r[2] = x
      OBVIOUS
    <3> HIDE DEF r
    <3>2. step[r] = Merge(r[2], items[r[1]])
      BY <3>1
    <3>3. QED
      BY <3>1, <3>2 DEF r
  <2>2. QED
    BY <2>1
<1> HIDE DEF X, step
<1>5. PICK f \in [0 .. n -> X] : f[0] = <<>> /\ \A i \in 1 .. n : f[i] = step[<<i, f[i - 1]>>]
  <2>1. n \in Nat
    BY <1>1
  <2> HIDE DEF n
  <2>2. \E f : Folded(f, X, <<>>, n, step)
    BY <1>3, <2>1, FoldExists
  <2>3. QED
    BY <2>2, Zenon DEF Folded
<1>6. f = [i \in 0 .. n |-> IF i = 0 THEN <<>> ELSE Merge(f[i - 1], items[i])]
  <2>1. \A i \in 1 .. n : i - 1 \in 0 .. n
    BY <1>1
  <2>2. \A i \in 1 .. n : f[i] = Merge(f[i - 1], items[i])
    BY <1>4, <1>5, <2>1
  <2>3. \A i \in 0 .. n : i = 0 \/ i \in 1 .. n
    BY <1>1
  <2>4. QED
    BY <1>5, <2>2, <2>3
<1>7. merged = [i \in 0 .. n |-> IF i = 0 THEN <<>> ELSE Merge(merged[i - 1], items[i])]
  BY <1>6
<1> HIDE DEF merged
<1>8. merged[0] = <<>> /\ \A i \in 1 .. n : merged[i] = Merge(merged[i - 1], items[i])
  <2>1. 0 \in 0 .. n /\ \A i \in 1 .. n : i \in 0 .. n /\ i # 0
    BY <1>1
  <2>2. QED
    BY <1>7, <2>1
<1> DEFINE P == [i \in 0 .. n |-> MergedSoFar(merged[i], items, i)]
<1>9. P \in [0 .. n -> BOOLEAN]
  BY DEF MergedSoFar
<1>10. \A i \in 0 .. n : P[i] <=> MergedSoFar(merged[i], items, i)
  OBVIOUS
<1> HIDE DEF P
<1>11. P[0]
  <2>1. Len(<<>>) = 0 /\ <<>> \in Seq(Finding) /\ DOMAIN <<>> = {}
    OBVIOUS
  <2>2. Apart(<<>>)
    BY <2>1 DEF Apart
  <2>3. \A p \in Nat : ~Hit(<<>>, 0, p)
    BY <2>1 DEF Hit
  <2>4. \A p \in Nat : ~Hit(items, 0, p)
    BY <1>1 DEF Hit
  <2>5. MergedSoFar(<<>>, items, 0)
    BY <2>1, <2>2, <2>3, <2>4, Zenon DEF MergedSoFar
  <2>6. 0 \in 0 .. n
    BY <1>1
  <2>7. QED
    BY <1>8, <1>10, <2>5, <2>6, Zenon
<1>12. ASSUME NEW i \in 1 .. n, P[i - 1]
       PROVE  P[i]
  <2>1. i - 1 \in Nat /\ i - 1 \in 0 .. n /\ i \in 0 .. n /\ (i - 1) + 1 = i /\ i \in DOMAIN items
    BY <1>1
  <2>2. MergedSoFar(merged[i - 1], items, i - 1)
    BY <1>10, <1>12, <2>1, Zenon
  <2>3. merged[i] = Merge(merged[i - 1], items[(i - 1) + 1])
    BY <1>8, <2>1
  <2>4. MergedSoFar(merged[i], items, (i - 1) + 1)
    <3> DEFINE k == i - 1
    <3>1. k \in Nat /\ k + 1 \in DOMAIN items /\ MergedSoFar(merged[k], items, k)
          /\ merged[i] = Merge(merged[k], items[k + 1])
      BY <2>1, <2>2, <2>3
    <3> HIDE DEF k
    <3>2. MergedSoFar(merged[i], items, k + 1)
      BY <3>1, MergeStep
    <3>3. QED
      BY <3>2 DEF k
  <2>5. QED
    BY <1>10, <2>1, <2>4
<1>13. P[n]
  BY <1>1, <1>9, <1>11, <1>12, Upward
<1>14. MergedSoFar(s, items, n)
  <2>1. n \in 0 .. n
    BY <1>1
  <2>2. QED
    BY <1>2, <1>10, <1>13, <2>1, Zenon
<1>15. QED
  BY <1>14, Zenon DEF MergedSoFar, n

-----------------------------------------------------------------------------
(* Deduplication finds nothing to drop in spans that are apart.              *)

LEMMA DedupStep ==
    ASSUME NEW items \in Seq(Finding), Apart(items), NEW n \in Nat, n + 1 \in DOMAIN items,
           NEW out, out = SubSeq(items, 1, n)
    PROVE  Dedup(out, items[n + 1]) = SubSeq(items, 1, n + 1)
<1>1. DOMAIN items = 1 .. Len(items) /\ Len(items) \in Nat
  OBVIOUS
<1>2. DOMAIN out = 1 .. n /\ \A i \in 1 .. n : out[i] = items[i] /\ i \in DOMAIN items /\ i < n + 1
  BY <1>1
<1>3. ASSUME NEW i \in 1 .. n
      PROVE  ~Covers(out[i], items[n + 1])
  <2>1. items[i].end < items[n + 1].start
    BY <1>2, <1>3 DEF Apart
  <2>2. items[i].end \in Nat /\ items[n + 1].start \in Nat /\ items[n + 1].end \in Nat
        /\ items[n + 1].start < items[n + 1].end
    BY <1>2, ItemFields
  <2>3. QED
    BY <1>2, <2>1, <2>2 DEF Covers
<1>4. Dedup(out, items[n + 1]) = Append(out, items[n + 1])
  BY <1>2, <1>3 DEF Dedup
<1>5. Append(SubSeq(items, 1, n), items[n + 1]) = SubSeq(items, 1, n + 1)
  BY <1>1
<1>6. QED
  BY <1>4, <1>5

LEMMA DedupKeepsAll ==
    ASSUME NEW items \in Seq(Finding), Apart(items)
    PROVE  Deduped(items) = items
<1> DEFINE n == Len(items)
           out[i \in 0 .. n] == IF i = 0 THEN <<>> ELSE Dedup(out[i - 1], items[i])
           f == [i \in 0 .. n |-> SubSeq(items, 1, i)]
<1>1. n \in Nat /\ DOMAIN items = 1 .. n
  OBVIOUS
<1>2. Deduped(items) = out[n]
  BY DEF Deduped
<1>3. f[0] = <<>> /\ \A i \in 1 .. n : f[i] = Dedup(f[i - 1], items[i])
  <2>1. f[0] = <<>>
    BY <1>1
  <2>2. ASSUME NEW i \in 1 .. n
        PROVE  f[i] = Dedup(f[i - 1], items[i])
    <3> DEFINE k == i - 1
    <3>1. k \in Nat /\ k \in 0 .. n /\ i = k + 1 /\ k + 1 \in DOMAIN items /\ i \in 0 .. n
      BY <1>1
    <3>2. f[i] = SubSeq(items, 1, i) /\ f[k] = SubSeq(items, 1, k)
      BY <3>1
    <3> HIDE DEF f, k
    <3>3. Dedup(f[k], items[k + 1]) = SubSeq(items, 1, k + 1)
      BY <3>1, <3>2, DedupStep
    <3>4. QED
      BY <3>1, <3>2, <3>3 DEF k
  <2>3. QED
    BY <2>1, <2>2
<1>4. f = [i \in 0 .. n |-> IF i = 0 THEN <<>> ELSE Dedup(f[i - 1], items[i])]
  <2>1. \A i \in 0 .. n : i = 0 \/ i \in 1 .. n
    BY <1>1
  <2>2. f = [i \in 0 .. n |-> f[i]]
    OBVIOUS
  <2> HIDE DEF f
  <2>3. QED
    BY <1>3, <2>1, <2>2
<1>5. out = [i \in 0 .. n |-> IF i = 0 THEN <<>> ELSE Dedup(out[i - 1], items[i])]
  BY <1>4
<1> HIDE DEF out, f
<1>6. out[0] = <<>> /\ \A i \in 1 .. n : out[i] = Dedup(out[i - 1], items[i])
  <2>1. 0 \in 0 .. n /\ \A i \in 1 .. n : i \in 0 .. n /\ i # 0
    BY <1>1
  <2>2. QED
    BY <1>5, <2>1
<1> DEFINE P == [i \in 0 .. n |-> out[i] = f[i]]
<1>7. P \in [0 .. n -> BOOLEAN] /\ \A i \in 0 .. n : P[i] <=> out[i] = f[i]
  OBVIOUS
<1> HIDE DEF P
<1>8. P[0]
  BY <1>1, <1>3, <1>6, <1>7
<1>9. ASSUME NEW i \in 1 .. n, P[i - 1]
      PROVE  P[i]
  <2>1. i - 1 \in 0 .. n /\ i \in 0 .. n
    BY <1>1
  <2>2. out[i - 1] = f[i - 1]
    BY <1>7, <1>9, <2>1
  <2>3. out[i] = f[i]
    BY <1>3, <1>6, <2>2
  <2>4. QED
    BY <1>7, <2>1, <2>3
<1>10. P[n]
  BY <1>1, <1>7, <1>8, <1>9, Upward
<1>11. n \in 0 .. n
  BY <1>1
<1>12. f[n] = items
  BY <1>1, <1>11 DEF f
<1>13. QED
  BY <1>2, <1>7, <1>10, <1>11, <1>12

-----------------------------------------------------------------------------
(* Replacing.                                                                *)

\* out is the payload with some spans masked, none of them in its first n positions: it
\* shows the positions in Left, in their order.
MaskedAfter(out, n, Left) ==
    /\ out \in Seq(0 .. PayloadLength) /\ n \in Nat /\ n <= Len(out)
    /\ \A i \in DOMAIN out : i <= n => out[i] = i
    /\ \A i \in DOMAIN out : i > n /\ out[i] # 0 => out[i] > n
    /\ \A i, j \in DOMAIN out : i < j /\ out[i] # 0 /\ out[j] # 0 => out[i] < out[j]
    /\ \A i \in DOMAIN out : out[i] # 0 => out[i] \in Left
    /\ \A p \in Left : \E i \in DOMAIN out : out[i] = p
    /\ Left \subseteq 1 .. PayloadLength

LEMMA ReplaceStep ==
    ASSUME NEW out, NEW n, NEW Left, MaskedAfter(out, n, Left), NEW f \in Finding, f.end <= n
    PROVE  MaskedAfter(Replace(f, out), f.start, {p \in Left : p <= f.start \/ p > f.end})
<1> DEFINE s == f.start
           e == f.end
           m == PlaceholderLength
           l == Len(out)
           new == Replace(f, out)
           Rest == {p \in Left : p <= s \/ p > e}
<1>1. /\ out \in Seq(0 .. PayloadLength) /\ l \in Nat /\ DOMAIN out = 1 .. l /\ n \in Nat /\ n <= l
      /\ \A i \in 1 .. l : out[i] \in 0 .. PayloadLength
  <2>1. out \in Seq(0 .. PayloadLength) /\ n \in Nat /\ n <= Len(out)
    BY Zenon DEF MaskedAfter
  <2> DEFINE X == 0 .. PayloadLength
  <2>2. out \in Seq(X)
    BY <2>1
  <2> HIDE DEF X
  <2>3. l \in Nat /\ DOMAIN out = 1 .. l /\ \A i \in 1 .. l : out[i] \in X
    BY <2>2
  <2>4. QED
    BY <2>1, <2>3 DEF X
<1>2. s \in Nat /\ e \in Nat /\ s < e /\ e <= n
  BY FindingFields
<1>3. m \in Nat /\ PayloadLength \in Nat
  BY ScrubAssumption
<1>4. new = SubSeq(out, 1, s) \o Placeholder \o SubSeq(out, e + 1, l)
  <2>1. f.start < Len(out) /\ f.end <= Len(out)
    BY <1>1, <1>2
  <2>2. QED
    BY <2>1 DEF Replace
<1> HIDE DEF new
<1> DEFINE head == SubSeq(out, 1, s)
           tail == SubSeq(out, e + 1, l)
<1>5. /\ head \in Seq(0 .. PayloadLength) /\ Len(head) = s
      /\ \A i \in 1 .. s : head[i] = out[i]
  BY <1>1, <1>2
<1>6. /\ tail \in Seq(0 .. PayloadLength) /\ Len(tail) = l - e /\ l - e \in Nat
      /\ \A i \in 1 .. (l - e) : tail[i] = out[e + i]
  <2>1. l - e \in Nat /\ e + 1 \in Int /\ l \in Int /\ l - (e + 1) + 1 = l - e
        /\ (IF e + 1 <= l THEN l - (e + 1) + 1 ELSE 0) = l - e
        /\ \A i \in (e + 1) .. l : out[i] \in 0 .. PayloadLength
    <3>1. l \in Nat /\ e \in Nat /\ e <= l
      BY <1>1, <1>2
    <3> HIDE DEF l, e
    <3>2. \A i \in (e + 1) .. l : i \in 1 .. l
      BY <3>1
    <3>3. \A i \in (e + 1) .. l : out[i] \in 0 .. PayloadLength
      BY <1>1, <3>2, Zenon
    <3>4. QED
      BY <3>1, <3>3
  <2> DEFINE a == e + 1
  <2>2. \A i \in 1 .. (l - e) : a + i - 1 = e + i
    BY <1>2, <2>1
  <2>3. a \in Int /\ (\A i \in a .. l : out[i] \in 0 .. PayloadLength) /\ tail = SubSeq(out, a, l)
        /\ l - a + 1 = l - e /\ (IF a <= l THEN l - a + 1 ELSE 0) = l - e
    BY <2>1
  <2> HIDE DEF a, tail, l, e
  <2>4. /\ tail \in Seq(0 .. PayloadLength)
        /\ Len(tail) = IF a <= l THEN l - a + 1 ELSE 0
        /\ \A i \in 1 .. l - a + 1 : tail[i] = out[a + i - 1]
    BY <2>1, <2>3, SubSeqProperties
  <2>5. QED
    BY <2>1, <2>2, <2>3, <2>4
<1>7. /\ Placeholder \in Seq(0 .. PayloadLength) /\ Len(Placeholder) = m
      /\ \A i \in 1 .. m : Placeholder[i] = 0
  BY <1>3 DEF Placeholder, Hidden
<1>8. new = head \o Placeholder \o tail
  BY <1>4
<1> HIDE DEF s, e, m, l, head, tail
<1>9. /\ new \in Seq(0 .. PayloadLength) /\ Len(new) = s + m + (l - e)
      /\ DOMAIN new = 1 .. (s + m + (l - e))
  <2> DEFINE T == 0 .. PayloadLength
  <2>1. head \in Seq(T) /\ tail \in Seq(T) /\ Placeholder \in Seq(T)
    BY <1>5, <1>6, <1>7
  <2> HIDE DEF T
  <2>2. (head \o Placeholder) \in Seq(T) /\ Len(head \o Placeholder) = s + m
    <3>1. (head \o Placeholder) \in Seq(T) /\ Len(head \o Placeholder) = Len(head) + Len(Placeholder)
      BY <2>1, ConcatProperties
    <3>2. Len(head) = s /\ Len(Placeholder) = m
      BY <1>5, <1>7
    <3>3. QED
      BY <3>1, <3>2
  <2>3. new \in Seq(T) /\ Len(new) = s + m + (l - e)
    <3> DEFINE hp == head \o Placeholder
    <3>1. hp \in Seq(T) /\ Len(hp) = s + m /\ new = hp \o tail
      BY <1>8, <2>2
    <3> HIDE DEF hp
    <3>2. new \in Seq(T) /\ Len(new) = Len(hp) + Len(tail)
      BY <2>1, <3>1, ConcatProperties
    <3>3. Len(tail) = l - e
      BY <1>6
    <3>4. QED
      BY <3>1, <3>2, <3>3
  <2>4. DOMAIN new = 1 .. (s + m + (l - e))
    BY <2>3
  <2>5. QED
    BY <2>3, <2>4 DEF T
<1>10. /\ \A i \in 1 .. s : new[i] = out[i]
       /\ \A i \in 1 .. m : new[s + i] = 0
       /\ \A i \in 1 .. (l - e) : new[s + m + i] = out[e + i]
  <2> DEFINE hp == head \o Placeholder
  <2>1. /\ hp \in Seq(0 .. PayloadLength) /\ Len(hp) = s + m
        /\ \A i \in 1 .. s + m : hp[i] = IF i <= s THEN head[i] ELSE Placeholder[i - s]
    BY <1>5, <1>7, ConcatProperties, ZenonT(40)
  <2>2. new = hp \o tail
    BY <1>8
  <2> HIDE DEF hp
  <2>3. \A i \in 1 .. s + m + (l - e) : new[i] = IF i <= s + m THEN hp[i] ELSE tail[i - (s + m)]
    BY <1>6, <2>1, <2>2, ConcatProperties
  <2>4. \A i \in 1 .. s : new[i] = out[i]
    <3>1. \A i \in 1 .. s : i \in 1 .. s + m /\ i \in 1 .. s + m + (l - e) /\ i <= s /\ i <= s + m
      BY <1>2, <1>3, <1>6
    <3>2. QED
      BY <1>5, <2>1, <2>3, <3>1
  <2>5. \A i \in 1 .. m : new[s + i] = 0
    <3>1. \A i \in 1 .. m : /\ s + i \in 1 .. s + m /\ s + i \in 1 .. s + m + (l - e)
                            /\ ~(s + i <= s) /\ s + i <= s + m /\ (s + i) - s = i
      BY <1>2, <1>3, <1>6
    <3>2. QED
      BY <1>7, <2>1, <2>3, <3>1
  <2>6. \A i \in 1 .. (l - e) : new[s + m + i] = out[e + i]
    <3>1. \A i \in 1 .. (l - e) : /\ s + m + i \in 1 .. s + m + (l - e)
                                  /\ ~(s + m + i <= s + m) /\ (s + m + i) - (s + m) = i
      BY <1>2, <1>3, <1>6
    <3>2. QED
      BY <1>6, <2>3, <3>1
  <2>7. QED
    BY <2>4, <2>5, <2>6
<1>11. \A i \in 1 .. s : i \in 1 .. l /\ i <= n /\ out[i] = i
  BY <1>1, <1>2, SMTT(30) DEF MaskedAfter
<1>12. \A i \in 1 .. (l - e) : e + i \in 1 .. l /\ (out[e + i] # 0 => out[e + i] > e)
  <2>1. ASSUME NEW i \in 1 .. (l - e)
        PROVE  e + i \in 1 .. l /\ (out[e + i] # 0 => out[e + i] > e)
    <3>1. e + i \in 1 .. l /\ e + i > e
      BY <1>1, <1>2
    <3>2. CASE e + i <= n
      BY <1>1, <3>1, <3>2 DEF MaskedAfter
    <3>3. CASE e + i > n
      <4>1. out[e + i] # 0 => out[e + i] > n
        BY <1>1, <3>1, <3>3 DEF MaskedAfter
      <4>2. out[e + i] \in Nat
        BY <1>1, <1>3, <3>1
      <4>3. QED
        BY <1>1, <1>2, <3>1, <4>1, <4>2
    <3>4. QED
      BY <1>1, <1>2, <3>1, <3>2, <3>3
  <2>2. QED
    BY <2>1
\* A visible position of new is one of the head or one of the tail.
<1>13. ASSUME NEW i \in DOMAIN new, new[i] # 0
       PROVE  \/ i \in 1 .. s /\ new[i] = i
              \/ /\ i > s + m /\ i - (s + m) \in 1 .. (l - e)
                 /\ new[i] = out[e + (i - (s + m))] /\ new[i] > e
  <2>1. CASE i \in 1 .. s
    BY <1>10, <1>11, <2>1
  <2>2. CASE i > s /\ i <= s + m
    <3>1. i - s \in 1 .. m /\ s + (i - s) = i
      BY <1>2, <1>3, <1>9, <2>2
    <3>2. QED
      BY <1>10, <1>13, <3>1
  <2>3. CASE i > s + m
    <3>1. i - (s + m) \in 1 .. (l - e) /\ (s + m) + (i - (s + m)) = i
      <4>1. i \in Nat /\ i <= s + m + (l - e)
        BY <1>9, <2>3
      <4>2. l - e \in Nat
        BY <1>6
      <4>3. QED
        BY <1>2, <1>3, <2>3, <4>1, <4>2
    <3>2. new[i] = out[e + (i - (s + m))]
      BY <1>10, <3>1
    <3>3. QED
      BY <1>12, <1>13, <2>3, <3>1, <3>2
  <2>4. QED
    BY <1>2, <1>3, <1>9, <2>1, <2>2, <2>3
<1>14. \A i \in DOMAIN new : i <= s => new[i] = i
  <2>1. \A i \in DOMAIN new : i <= s => i \in 1 .. s
    BY <1>2, <1>9
  <2>2. QED
    BY <1>10, <1>11, <2>1
<1>15. \A i \in DOMAIN new : i > s /\ new[i] # 0 => new[i] > s
  <2>1. ASSUME NEW i \in DOMAIN new, i > s, new[i] # 0
        PROVE  new[i] > s
    <3>1. new[i] > e /\ new[i] \in Nat
      BY <1>2, <1>3, <1>9, <1>13, <2>1
    <3>2. QED
      BY <1>2, <3>1
  <2>2. QED
    BY <2>1
<1>16. ASSUME NEW i \in DOMAIN new, NEW j \in DOMAIN new, i < j, new[i] # 0, new[j] # 0
       PROVE  new[i] < new[j]
  <2>0. i \in Nat /\ j \in Nat
    BY <1>9
  <2>1. CASE j \in 1 .. s
    <3>1. i \in 1 .. s
      BY <1>2, <1>9, <1>16, <2>1
    <3>2. QED
      BY <1>10, <1>11, <1>16, <2>1, <3>1
  <2>2. CASE /\ j > s + m /\ j - (s + m) \in 1 .. (l - e)
             /\ new[j] = out[e + (j - (s + m))] /\ new[j] > e
    <3>1. CASE i \in 1 .. s
      <4>1. new[i] = i /\ new[j] \in Nat
        BY <1>3, <1>9, <1>10, <1>11, <3>1
      <4>2. QED
        BY <1>2, <2>2, <3>1, <4>1
    <3>2. CASE /\ i > s + m /\ i - (s + m) \in 1 .. (l - e)
               /\ new[i] = out[e + (i - (s + m))] /\ new[i] > e
      <4> DEFINE a == e + (i - (s + m))
                 b == e + (j - (s + m))
      <4>1. a < b
        BY <1>2, <1>3, <1>16, <2>0
      <4>2. a \in DOMAIN out /\ b \in DOMAIN out
        BY <1>1, <1>12, <2>2, <3>2
      <4> HIDE DEF a, b
      <4>3. out[a] # 0 /\ out[b] # 0 => out[a] < out[b]
        BY <4>1, <4>2 DEF MaskedAfter
      <4>4. QED
        BY <1>16, <2>2, <3>2, <4>3 DEF a, b
    <3>3. QED
      BY <1>13, <1>16, <3>1, <3>2
  <2>3. QED
    BY <1>13, <1>16, <2>1, <2>2
<1>17. ASSUME NEW i \in DOMAIN new, new[i] # 0
       PROVE  new[i] \in Rest
  <2>1. CASE i \in 1 .. s
    <3>1. new[i] = out[i] /\ out[i] = i /\ i \in DOMAIN out /\ i <= s
      BY <1>1, <1>10, <1>11, <2>1
    <3>2. out[i] \in Left
      BY <1>17, <3>1 DEF MaskedAfter
    <3>3. QED
      BY <3>1, <3>2
  <2>2. CASE /\ i > s + m /\ i - (s + m) \in 1 .. (l - e)
             /\ new[i] = out[e + (i - (s + m))] /\ new[i] > e
    <3>1. e + (i - (s + m)) \in DOMAIN out
      BY <1>1, <1>12, <2>2
    <3>2. new[i] \in Left
      BY <1>17, <2>2, <3>1 DEF MaskedAfter
    <3>3. QED
      BY <2>2, <3>2
  <2>3. QED
    BY <1>13, <1>17, <2>1, <2>2
<1>18. ASSUME NEW p \in Rest
       PROVE  \E i \in DOMAIN new : new[i] = p
  <2>1. p \in Left /\ p \in Nat /\ p # 0 /\ (p <= s \/ p > e)
    BY <1>3 DEF MaskedAfter
  <2>2. PICK i \in 1 .. l : out[i] = p
    BY <1>1, <2>1 DEF MaskedAfter
  <2>3. CASE i <= s
    <3>1. i \in 1 .. s /\ i \in DOMAIN new
      BY <1>2, <1>3, <1>6, <1>9, <2>3
    <3>2. QED
      BY <1>10, <2>2, <3>1
  <2>4. CASE i > s
    <3>1. i > e
      <4>1. CASE i <= n
        <5>1. out[i] = i
          BY <1>1, <4>1 DEF MaskedAfter
        <5>2. QED
          BY <1>2, <2>1, <2>2, <2>4, <5>1
      <4>2. CASE i > n
        BY <1>1, <1>2, <4>2
      <4>3. QED
        BY <1>1, <4>1, <4>2
    <3>2. i - e \in 1 .. (l - e) /\ e + (i - e) = i
      BY <1>1, <1>2, <3>1
    <3>3. new[s + m + (i - e)] = out[i]
      BY <1>10, <3>2
    <3>4. s + m + (i - e) \in DOMAIN new
      <4>1. l - e \in Nat
        BY <1>6
      <4>2. s + m + (i - e) \in 1 .. (s + m + (l - e))
        BY <1>2, <1>3, <3>2, <4>1
      <4>3. QED
        BY <1>9, <4>2
    <3>5. QED
      BY <2>2, <3>3, <3>4
  <2>5. QED
    BY <1>2, <2>3, <2>4
<1>19. Rest \subseteq 1 .. PayloadLength
  BY DEF MaskedAfter
<1>20. s <= Len(new)
  BY <1>2, <1>3, <1>6, <1>9
<1> HIDE DEF Rest
<1>21. MaskedAfter(new, s, Rest)
  BY <1>2, <1>9, <1>14, <1>15, <1>16, <1>17, <1>18, <1>19, <1>20, Zenon DEF MaskedAfter
<1>22. QED
  BY <1>21 DEF new, s, e, Rest

LEMMA SeqShape ==
    ASSUME NEW X, NEW q \in Seq(X)
    PROVE  Len(q) \in Nat /\ DOMAIN q = 1 .. Len(q) /\ \A i \in 1 .. Len(q) : q[i] \in X
  OBVIOUS

LEMMA ReplaceType ==
    ASSUME NEW X, X = 0 .. PayloadLength, NEW out \in Seq(X), NEW f \in Finding
    PROVE  Replace(f, out) \in Seq(X)
<1>1. CASE f.start < Len(out) /\ f.end <= Len(out)
  <2>1. Len(out) \in Nat /\ DOMAIN out = 1 .. Len(out) /\ \A i \in 1 .. Len(out) : out[i] \in X
    BY SeqShape, Zenon
  <2>2. f.start \in Nat /\ f.end \in Nat /\ f.end + 1 \in Int
    BY FindingFields
  <2>3. /\ \A i \in 1 .. f.start : out[i] \in X
        /\ \A i \in (f.end + 1) .. Len(out) : out[i] \in X
    BY <1>1, <2>1, <2>2
  <2>4. SubSeq(out, 1, f.start) \in Seq(X)
    BY <2>2, <2>3, SubSeqProperties
  <2>5. SubSeq(out, f.end + 1, Len(out)) \in Seq(X)
    BY <2>1, <2>2, <2>3, SubSeqProperties
  <2>6. Placeholder \in Seq(X)
    <3>1. PlaceholderLength \in Nat /\ PayloadLength \in Nat
      BY ScrubAssumption
    <3>2. 0 \in X
      BY <3>1
    <3>3. QED
      BY <3>1, <3>2 DEF Placeholder, Hidden
  <2>7. SubSeq(out, 1, f.start) \o Placeholder \in Seq(X)
    BY <2>4, <2>6, ConcatProperties
  <2>8. SubSeq(out, 1, f.start) \o Placeholder \o SubSeq(out, f.end + 1, Len(out)) \in Seq(X)
    BY <2>5, <2>7, ConcatProperties
  <2>9. QED
    BY <1>1, <2>8 DEF Replace
<1>2. CASE ~(f.start < Len(out) /\ f.end <= Len(out))
  BY <1>2 DEF Replace
<1>3. QED
  BY <1>1, <1>2

\* The positions outside the spans of items after the first j.
OutsideAfter(items, j) ==
    {p \in 1 .. PayloadLength :
        \A k \in DOMAIN items : k > j => p <= items[k].start \/ p > items[k].end}

LEMMA OutsideStep ==
    ASSUME NEW items \in Seq(Finding), NEW j \in DOMAIN items
    PROVE  OutsideAfter(items, j - 1) =
             {p \in OutsideAfter(items, j) : p <= items[j].start \/ p > items[j].end}
<1>1. \A k \in DOMAIN items : k > j - 1 <=> k > j \/ k = j
  OBVIOUS
<1>2. QED
  BY <1>1, Zenon DEF OutsideAfter

LEMMA PayloadUnmasked ==
    ASSUME NEW items \in Seq(Finding)
    PROVE  MaskedAfter(Payload, PayloadLength, OutsideAfter(items, Len(items)))
<1>1. PayloadLength \in Nat
  BY ScrubAssumption
<1>2. /\ Payload \in Seq(0 .. PayloadLength) /\ Len(Payload) = PayloadLength
      /\ DOMAIN Payload = 1 .. PayloadLength /\ \A i \in 1 .. PayloadLength : Payload[i] = i
  BY <1>1 DEF Payload
<1>3. OutsideAfter(items, Len(items)) = 1 .. PayloadLength
  BY DEF OutsideAfter
<1>4. QED
  BY <1>1, <1>2, <1>3 DEF MaskedAfter

\* What is left of the payload after all replacements.
LEMMA ReplacingIsExact ==
    ASSUME NEW items \in Seq(Finding), Apart(items)
    PROVE  \E n : MaskedAfter(Replaced(items), n, OutsideAfter(items, 0))
<1> DEFINE n == Len(items)
           out[i \in 0 .. n] == IF i = 0 THEN Payload ELSE Replace(items[n + 1 - i], out[i - 1])
           Kept == 0 .. PayloadLength
           X == Seq(Kept)
           step == [r \in (1 .. n) \X X |-> Replace(items[n + 1 - r[1]], r[2])]
           Limit(i) == IF i = 0 THEN PayloadLength ELSE items[n + 1 - i].start
           P == [i \in 0 .. n |-> MaskedAfter(out[i], Limit(i), OutsideAfter(items, n - i))]
<1>1. n \in Nat /\ DOMAIN items = 1 .. n
  OBVIOUS
<1>2. \A i \in 1 .. n : n + 1 - i \in 1 .. n /\ items[n + 1 - i] \in Finding
  OBVIOUS
<1>3. Replaced(items) = out[n]
  BY DEF Replaced
<1>4. Payload \in X
  <2>1. PayloadLength \in Nat
    BY ScrubAssumption
  <2>2. QED
    BY <2>1 DEF Payload
<1>5. step \in [(1 .. n) \X X -> X]
  BY <1>2, ReplaceType
<1>6. \A i \in 1 .. n : \A x \in X : step[<<i, x>>] = Replace(items[n + 1 - i], x)
  <2>1. ASSUME NEW i \in 1 .. n, NEW x \in X
        PROVE  step[<<i, x>>] = Replace(items[n + 1 - i], x)
    <3> DEFINE r == <<i, x>>
    <3>1. r \in (1 .. n) \X X /\ r[1] = i /\ r[2] = x
      OBVIOUS
    <3> HIDE DEF r
    <3>2. step[r] = Replace(items[n + 1 - r[1]], r[2])
      BY <3>1
    <3>3. QED
      BY <3>1, <3>2 DEF r
  <2>2. QED
    BY <2>1
<1> HIDE DEF X, step
<1>7. PICK f : Folded(f, X, Payload, n, step)
  <2>1. n \in Nat
    BY <1>1
  <2> HIDE DEF n
  <2>2. QED
    BY <1>4, <1>5, <2>1, FoldExists
<1>8. f \in [0 .. n -> X] /\ f[0] = Payload /\ \A i \in 1 .. n : f[i] = step[<<i, f[i - 1]>>]
  BY <1>7, Zenon DEF Folded
<1>9. f = [i \in 0 .. n |-> IF i = 0 THEN Payload ELSE Replace(items[n + 1 - i], f[i - 1])]
  <2>1. \A i \in 1 .. n : i - 1 \in 0 .. n
    BY <1>1
  <2>2. \A i \in 1 .. n : f[i] = Replace(items[n + 1 - i], f[i - 1])
    BY <1>6, <1>8, <2>1
  <2>3. \A i \in 0 .. n : i = 0 \/ i \in 1 .. n
    BY <1>1
  <2>4. QED
    BY <1>8, <2>2, <2>3
<1>10. out = [i \in 0 .. n |-> IF i = 0 THEN Payload ELSE Replace(items[n + 1 - i], out[i - 1])]
  BY <1>9
<1> HIDE DEF out
<1>11. out[0] = Payload /\ \A i \in 1 .. n : out[i] = Replace(items[n + 1 - i], out[i - 1])
  <2>1. 0 \in 0 .. n /\ \A i \in 1 .. n : i \in 0 .. n /\ i # 0
    BY <1>1
  <2>2. QED
    BY <1>10, <2>1
<1>12. P \in [0 .. n -> BOOLEAN]
  BY DEF MaskedAfter
<1>13. \A i \in 0 .. n : P[i] <=> MaskedAfter(out[i], Limit(i), OutsideAfter(items, n - i))
  OBVIOUS
<1> HIDE DEF P
<1>14. P[0]
  <2>1. 0 \in 0 .. n /\ n - 0 = Len(items)
    BY <1>1
  <2>2. QED
    BY <1>11, <1>13, <2>1, PayloadUnmasked
<1>15. ASSUME NEW i \in 1 .. n, P[i - 1]
       PROVE  P[i]
  <2> DEFINE j == n + 1 - i
             b == Limit(i - 1)
             Left == OutsideAfter(items, j)
             g == items[j]
  <2>1. i - 1 \in 0 .. n /\ i \in 0 .. n /\ n - (i - 1) = j /\ n - i = j - 1 /\ i # 0
    BY <1>1
  <2>2. j \in DOMAIN items /\ g \in Finding
    BY <1>1, <1>2
  <2>3. MaskedAfter(out[i - 1], b, Left)
    BY <1>13, <1>15, <2>1
  <2>4. g.end <= b
    <3>1. CASE i = 1
      <4>1. b = PayloadLength
        BY <3>1
      <4>2. QED
        BY <2>2, <4>1, FindingFields
    <3>2. CASE i # 1
      <4> DEFINE k == n + 1 - (i - 1)
      <4>1. i - 1 # 0 /\ k \in DOMAIN items /\ j < k
        BY <1>1, <3>2
      <4>2. b = items[k].start
        BY <4>1
      <4>3. g.end < items[k].start
        BY <2>2, <4>1 DEF Apart
      <4>4. g.end \in Nat /\ items[k].start \in Nat
        BY <2>2, <4>1, ItemFields
      <4> HIDE DEF k, g, b
      <4>5. QED
        BY <4>2, <4>3, <4>4
    <3>3. QED
      BY <3>1, <3>2
  <2>5. out[i] = Replace(g, out[i - 1])
    BY <1>11
  <2>6. OutsideAfter(items, j - 1) = {p \in Left : p <= g.start \/ p > g.end}
    BY <2>2, OutsideStep
  <2>7. Limit(i) = g.start
    BY <2>1
  <2> HIDE DEF g, b, Left
  <2>8. MaskedAfter(Replace(g, out[i - 1]), g.start, {p \in Left : p <= g.start \/ p > g.end})
    BY <2>2, <2>3, <2>4, ReplaceStep
  <2>9. MaskedAfter(out[i], Limit(i), OutsideAfter(items, n - i))
    BY <2>1, <2>5, <2>6, <2>7, <2>8
  <2>10. QED
    BY <1>13, <2>1, <2>9
<1>16. P[n]
  BY <1>1, <1>12, <1>14, <1>15, Upward
<1>17. MaskedAfter(out[n], Limit(n), OutsideAfter(items, n - n))
  <2>1. n \in 0 .. n
    BY <1>1
  <2>2. QED
    BY <1>13, <1>16, <2>1
<1>18. n - n = 0
  BY <1>1
<1>19. QED
  BY <1>3, <1>17, <1>18

\* What a payload becomes, whatever the rules find in it.
LEMMA MaskedPayload ==
    ASSUME NEW fs \in Findings
    PROVE  \E n : MaskedAfter(MaskedContent(fs), n,
                     {p \in 1 .. PayloadLength : \A f \in fs : p <= f.start \/ p > f.end})
<1> DEFINE s == Sorted(fs)
           m == MergedSpans(s)
           Outside == {p \in 1 .. PayloadLength : \A f \in fs : p <= f.start \/ p > f.end}
<1>1. /\ s \in Seq(Finding) /\ StartsInOrder(s)
      /\ \A f \in fs : \E i \in DOMAIN s : s[i] = f
      /\ \A i \in DOMAIN s : s[i] \in fs
  BY SortedFindings
<1> HIDE DEF s
<1>2. /\ m \in Seq(Finding) /\ Apart(m)
      /\ \A p \in Nat : Hit(m, Len(m), p) <=> Hit(s, Len(s), p)
  BY <1>1, MergingIsExact
<1> HIDE DEF m
<1>3. MaskedContent(fs) = Replaced(m)
  BY <1>2, DedupKeepsAll DEF MaskedContent, Masked, m, s
<1>4. OutsideAfter(m, 0) = Outside
  <2>1. ASSUME NEW p \in 1 .. PayloadLength
        PROVE  (\A k \in DOMAIN m : k > 0 => p <= m[k].start \/ p > m[k].end) <=>
               (\A f \in fs : p <= f.start \/ p > f.end)
    <3>0. p \in Nat
      BY ScrubAssumption
    <3>1. \A k \in DOMAIN m : k > 0 /\ k <= Len(m) /\ m[k].start \in Nat /\ m[k].end \in Nat
      BY <1>2, ItemFields
    <3>2. \A k \in DOMAIN s : k <= Len(s) /\ s[k].start \in Nat /\ s[k].end \in Nat
      BY <1>1, ItemFields
    <3>3. (\A k \in DOMAIN m : k > 0 => p <= m[k].start \/ p > m[k].end) <=> ~Hit(m, Len(m), p)
      BY <3>0, <3>1 DEF Hit
    <3>4. (\A k \in DOMAIN s : p <= s[k].start \/ p > s[k].end) <=> ~Hit(s, Len(s), p)
      BY <3>0, <3>2 DEF Hit
    <3>5. (\A k \in DOMAIN s : p <= s[k].start \/ p > s[k].end) <=>
          (\A f \in fs : p <= f.start \/ p > f.end)
      BY <1>1, Zenon
    <3>6. QED
      BY <1>2, <3>0, <3>3, <3>4, <3>5, Zenon
  <2>2. QED
    BY <2>1 DEF OutsideAfter
<1>5. \E n : MaskedAfter(Replaced(m), n, OutsideAfter(m, 0))
  BY <1>2, ReplacingIsExact
<1> HIDE DEF Outside
<1>6. \E n : MaskedAfter(MaskedContent(fs), n, Outside)
  BY <1>3, <1>4, <1>5, Zenon
<1>7. QED
  BY <1>6 DEF Outside

-----------------------------------------------------------------------------
(* Scrubbing alone, and with the rest of the application.                    *)

\* The last payload was scrubbed by what the rules found in it.
ScrubInv ==
    \/ scrub = NoScrub
    \/ \E fs \in Findings :
         /\ scrub.findings = fs /\ scrub.content = MaskedContent(fs)
         /\ scrub.decision \in Verdicts

LEMMA ScrubSteps == ScrubPayload => ScrubInv'
<1> SUFFICES ASSUME ScrubPayload PROVE ScrubInv'
  OBVIOUS
<1>1. PICK fs \in Findings : \E decision \in ScrubDecisions(fs) :
        scrub' = [findings |-> fs, content |-> MaskedContent(fs), decision |-> decision]
  BY DEF ScrubPayload
<1>2. PICK decision \in ScrubDecisions(fs) :
        scrub' = [findings |-> fs, content |-> MaskedContent(fs), decision |-> decision]
  BY <1>1
<1>3. decision \in Verdicts
  BY <1>2, Zenon DEF ScrubDecisions, Verdicts
<1>4. scrub'.findings = fs /\ scrub'.content = MaskedContent(fs) /\ scrub'.decision = decision
  BY <1>2
<1>5. QED
  BY <1>3, <1>4 DEF ScrubInv

LEMMA ScrubExact == ScrubInv => MaskIsExact
<1> SUFFICES ASSUME ScrubInv, scrub.decision # "none"
             PROVE  /\ {scrub.content[i] : i \in Shown(scrub.content)} =
                         {p \in 1 .. PayloadLength : \A f \in scrub.findings : p <= f.start \/ p > f.end}
                    /\ \A i, j \in Shown(scrub.content) : i < j => scrub.content[i] < scrub.content[j]
  BY DEF MaskIsExact
<1>1. PICK fs \in Findings : scrub.findings = fs /\ scrub.content = MaskedContent(fs)
  BY DEF ScrubInv, NoScrub
<1> DEFINE c == scrub.content
           Outside == {p \in 1 .. PayloadLength : \A f \in scrub.findings : p <= f.start \/ p > f.end}
           shown == {i \in DOMAIN c : c[i] # Hidden}
<1>2. PICK n : MaskedAfter(c, n, Outside)
  BY <1>1, MaskedPayload
<1> HIDE DEF c, Outside
<1>3. /\ \A i, j \in DOMAIN c : i < j /\ c[i] # 0 /\ c[j] # 0 => c[i] < c[j]
      /\ \A i \in DOMAIN c : c[i] # 0 => c[i] \in Outside
      /\ \A p \in Outside : \E i \in DOMAIN c : c[i] = p
  BY <1>2, Zenon DEF MaskedAfter
<1>4. \A p \in Outside : p # 0
  BY ScrubAssumption DEF Outside
<1>5. {c[i] : i \in shown} = Outside
  BY <1>3, <1>4 DEF Hidden
<1>6. \A i, j \in shown : i < j => c[i] < c[j]
  BY <1>3 DEF Hidden
<1>7. Shown(scrub.content) = shown
  BY DEF Shown, c
<1> HIDE DEF shown
<1>8. QED
  BY <1>5, <1>6, <1>7 DEF c, Outside

LEMMA ScrubTypes == ScrubInv => ScrubTypeOK
<1> SUFFICES ASSUME ScrubInv PROVE ScrubTypeOK
  OBVIOUS
<1>1. CASE scrub = NoScrub
  <2>1. scrub.findings = {} /\ scrub.content = <<>> /\ scrub.decision = "none"
    BY <1>1 DEF NoScrub
  <2>2. QED
    BY <2>1 DEF ScrubTypeOK
<1>2. CASE scrub # NoScrub
  <2>1. PICK fs \in Findings :
         /\ scrub.findings = fs /\ scrub.content = MaskedContent(fs)
         /\ scrub.decision \in Verdicts
    BY <1>2 DEF ScrubInv
  <2> DEFINE X == 0 .. PayloadLength
  <2>2. scrub.content \in Seq(X)
    BY <2>1, MaskedPayload, Zenon DEF MaskedAfter
  <2> HIDE DEF X
  <2>3. \A i \in DOMAIN scrub.content : scrub.content[i] \in X
    BY <2>2
  <2>4. fs \subseteq Finding
    <3>1. CASE fs = {}
      BY <3>1
    <3>2. CASE fs # {}
      <4>1. PICK t \in [1 .. MaxFindings -> Finding] : fs = Range(t)
        BY <3>2 DEF Findings
      <4>2. QED
        BY <4>1 DEF Range
    <3>3. QED
      BY <3>1, <3>2
  <2>5. QED
    BY <2>1, <2>3, <2>4 DEF ScrubTypeOK, X
<1>3. QED
  BY <1>1, <1>2

\* MaskIsExact: what a rule found is masked, the rest is shown, and in its order, for every
\* payload, every set of findings and every number of rules.
THEOREM MaskingIsExact == Spec => []MaskIsExact
<1>1. Init => ScrubInv
  BY DEF Init, ScrubInit, ScrubInv, NoScrub
<1>2. ScrubInv /\ [Next]_vars => ScrubInv'
  <2>1. ScrubInv /\ UNCHANGED scrub => ScrubInv'
    BY DEF ScrubInv
  <2>2. [Next]_vars => ScrubPayload \/ UNCHANGED scrub
    BY DEF Next, vars
  <2>3. QED
    BY <2>1, <2>2, ScrubSteps
<1>3. QED
  BY <1>1, <1>2, ScrubExact, PTL DEF Spec

-----------------------------------------------------------------------------
(* Types *)

LEMMA ShellBounds ==
    /\ PipeSize \in Nat /\ MaxOutput \in Nat /\ MaxCapture \in Nat /\ TimeLimit \in Nat
    /\ MaxCommands \in Nat
  BY ShellAssumption

LEMMA ShellStarts == ShellInit => ShellTypeOK
<1>1. \A n \in Nat : 0 \in 0 .. n
  OBVIOUS
<1>2. /\ 0 \in 0 .. MaxOutput /\ 0 \in 0 .. PipeSize /\ 0 \in 0 .. MaxCapture
      /\ 0 \in 0 .. TimeLimit /\ 0 \in 0 .. MaxCommands
  BY <1>1, ShellBounds
<1>3. Nothing \in [Stream -> 0 .. PipeSize] /\ Nothing \in [Stream -> 0 .. MaxCapture]
  BY <1>2 DEF Nothing
<1>4. QED
  BY <1>2, <1>3 DEF ShellInit, ShellTypeOK, Results

LEMMA FinishedShell ==
    ASSUME ShellTypeOK, NEW o \in Results, Finish(o), leak' \in BOOLEAN,
           commands' \in 0 .. MaxCommands
    PROVE  ShellTypeOK'
<1>1. /\ 0 \in 0 .. MaxOutput /\ 0 \in 0 .. TimeLimit
      /\ Nothing \in [Stream -> 0 .. PipeSize] /\ Nothing \in [Stream -> 0 .. MaxCapture]
  BY ShellBounds DEF Nothing
<1>2. QED
  BY <1>1 DEF Finish, ShellTypeOK

\* Every kind a request can be refused with is one of the results.
LEMMA RefusalKinds ==
    ASSUME NEW command, NEW params \in Binding
    PROVE  Refusals(command, params) \subseteq Results
<1>1. CASE command \notin DOMAIN Catalog
  BY <1>1 DEF Refusals, Results
<1>2. CASE command \in DOMAIN Catalog
  <2> DEFINE spec == Catalog[command]
  <2>1. ASSUME NEW p \in DOMAIN spec.params PROVE ParamRefusal(spec, params, p) \in Results
    <3>1. CASE p \in DOMAIN params
      <4>1. params[p].refusal \in Results
        BY <3>1, BindingAssumption DEF Results
      <4>2. spec.params[p].type \in {"string", "enum", "path", "bool", "integer"}
        BY <1>2, <2>1, CatalogAssumption
      <4>3. ValueRefusal(spec.params[p].type, params[p]) \in Results
        BY <4>1, <4>2 DEF ValueRefusal, Results
      <4>4. QED
        BY <3>1, <4>3 DEF ParamRefusal
    <3>2. CASE p \notin DOMAIN params
      BY <3>2 DEF ParamRefusal, Results
    <3>3. QED
      BY <3>1, <3>2
  <2>2. BindRefusals(spec, params) \subseteq Results
    BY <2>1, Zenon DEF BindRefusals, Results
  <2>3. QED
    BY <1>2, <2>2 DEF Refusals, Results
<1>3. QED
  BY <1>1, <1>2

LEMMA RequestSteps ==
    ASSUME ShellTypeOK, NEW command, NEW params \in Binding,
           Refuse(command, params) \/ Spawn(command, params)
    PROVE  ShellTypeOK'
<1>1. commands' \in 0 .. MaxCommands
  BY ShellBounds DEF Refuse, Spawn, ShellTypeOK
<1>2. CASE Refuse(command, params)
  <2>1. leak' \in BOOLEAN
    BY <1>2 DEF Refuse, ShellTypeOK
  <2>2. \E o \in Results : Finish(o)
    <3>1. Refusals(command, params) \subseteq Results /\ "io" \in Results
      BY RefusalKinds DEF Results
    <3>2. QED
      BY <1>2, <3>1 DEF Refuse
  <2>3. QED
    BY <1>1, <2>1, <2>2, FinishedShell
<1>3. CASE Spawn(command, params)
  <2>1. /\ 0 \in 0 .. TimeLimit
        /\ Nothing \in [Stream -> 0 .. PipeSize] /\ Nothing \in [Stream -> 0 .. MaxCapture]
    BY ShellBounds DEF Nothing
  <2>2. QED
    BY <1>1, <1>3, <2>1 DEF Spawn, ShellTypeOK, Results
<1>4. QED
  BY <1>2, <1>3

LEMMA ShellSteps ==
    ASSUME ShellTypeOK, [ShellNext]_shellVars
    PROVE  ShellTypeOK'
<1>1. CASE (\E s \in Stream : ChildWrites(s)) \/ ChildExits \/ DescendantEnds
  <2>1. ASSUME NEW s \in Stream, ChildWrites(s) PROVE ShellTypeOK'
    <3>1. /\ toWrite \in 0 .. MaxOutput /\ toWrite > 0 /\ toWrite' = toWrite - 1
          /\ pipe[s] \in 0 .. PipeSize /\ pipe[s] < PipeSize
      BY <2>1 DEF ChildWrites, ShellTypeOK
    <3>2. toWrite' \in 0 .. MaxOutput /\ pipe[s] + 1 \in 0 .. PipeSize
      BY <3>1, ShellBounds
    <3>3. pipe' \in [Stream -> 0 .. PipeSize]
      BY <2>1, <3>2 DEF ChildWrites, ShellTypeOK
    <3>4. QED
      BY <2>1, <3>2, <3>3 DEF ChildWrites, ShellTypeOK
  <2>2. CASE ChildExits
    BY <2>2 DEF ChildExits, ShellTypeOK
  <2>3. CASE DescendantEnds
    <3>1. toWrite' \in 0 .. MaxOutput
      BY <2>3, ShellBounds DEF DescendantEnds, ShellTypeOK
    <3>2. QED
      BY <2>3, <3>1 DEF DescendantEnds, ShellTypeOK
  <2>4. QED
    BY <1>1, <2>1, <2>2, <2>3
<1>2. CASE PollExited \/ Sleep \/ StdoutEnds
  BY <1>2, ShellBounds DEF PollExited, Sleep, StdoutEnds, Stream, ShellTypeOK
<1>3. CASE ReadChunk
  <2>1. PICK n \in 1 .. pipe[shell] :
          /\ pipe' = [pipe EXCEPT ![shell] = @ - n]
          /\ captured' = IF captured[shell] + n <= MaxCapture
                         THEN [captured EXCEPT ![shell] = @ + n] ELSE captured
    BY <1>3 DEF ReadChunk
  <2>2. /\ shell \in Stream /\ pipe[shell] \in 0 .. PipeSize /\ captured[shell] \in 0 .. MaxCapture
    BY <1>3 DEF ReadChunk, ShellTypeOK
  <2>3. pipe[shell] - n \in 0 .. PipeSize
    BY <2>1, <2>2, ShellBounds
  <2>4. captured[shell] + n <= MaxCapture => captured[shell] + n \in 0 .. MaxCapture
    BY <2>1, <2>2, ShellBounds
  <2>5. pipe' \in [Stream -> 0 .. PipeSize]
    BY <2>1, <2>3 DEF ShellTypeOK
  <2>6. captured' \in [Stream -> 0 .. MaxCapture]
    BY <2>1, <2>4 DEF ShellTypeOK
  <2>7. QED
    BY <1>3, <2>5, <2>6 DEF ReadChunk, ShellTypeOK
<1>4. CASE PollTimesOut \/ StderrEnds \/ WaitFails
  <2>1. leak' \in BOOLEAN /\ commands' \in 0 .. MaxCommands
    BY <1>4 DEF PollTimesOut, StderrEnds, WaitFails, ShellTypeOK
  <2>2. \E o \in Results : Finish(o)
    BY <1>4 DEF PollTimesOut, StderrEnds, WaitFails, Results
  <2>3. QED
    BY <2>1, <2>2, FinishedShell
<1>5. CASE UNCHANGED shellVars
  BY <1>5 DEF shellVars, ShellTypeOK
<1>6. QED
  BY <1>1, <1>2, <1>3, <1>4, <1>5, RequestSteps DEF ShellNext, ShellWorks

-----------------------------------------------------------------------------
(* The stored session is one that waits for the result of its current step, *)
(* and every step before it left one trace.                                  *)

Trace == [tool : Tool, ok : BOOLEAN]

SessionInv ==
    /\ SessionTypeOK
    /\ traces \in Seq(Trace)
    /\ stored => stepIndex < Len(plan) /\ Len(traces) = stepIndex

LEMMA PlanShape ==
    ASSUME NEW p \in Plans
    PROVE  /\ Len(p) \in Nat
           /\ p # <<>> => 0 < Len(p)
           /\ \A i \in 0 .. Len(p) : i < Len(p) => p[i + 1].tool \in Tool
<1> USE DEF Step, Tool
<1>1. CASE p \in ToolsOnlyPlans
  BY <1>1 DEF ToolsOnlyPlans
<1>2. CASE p = LlmPlan
  BY <1>2 DEF LlmPlan
<1>3. CASE p = FsThenLlmPlan
  BY <1>3 DEF FsThenLlmPlan
<1>4. CASE p = FileReadThenLlmPlan
  BY <1>4 DEF FileReadThenLlmPlan
<1>5. CASE p = ListReadSummarizePlan
  BY <1>5 DEF ListReadSummarizePlan
<1>6. QED
  BY <1>1, <1>2, <1>3, <1>4, <1>5 DEF Plans

LEMMA Responses ==
    /\ Unset \in Response /\ Notice \in Response
    /\ \A n \in Nat, s \in Shape : TextOf(n, s) \in Response
  BY DEF Unset, Notice, TextOf, Response

\* A traced result: the trace grows by the current step, as the step index may.
LEMMA TracedStep ==
    ASSUME SessionInv, stored, NEW ok \in BOOLEAN
    PROVE  /\ TracedWith(ok) \in Seq(Trace) /\ Len(TracedWith(ok)) = stepIndex + 1
           /\ stepIndex \in Nat /\ Len(plan) \in Nat /\ stepIndex + 1 \in 0 .. Len(plan)
<1>1. /\ stepIndex \in 0 .. Len(plan) /\ stepIndex < Len(plan) /\ Len(traces) = stepIndex
      /\ traces \in Seq(Trace) /\ plan \in Plans
  BY DEF SessionInv, SessionTypeOK
<1>2. Len(plan) \in Nat /\ plan[stepIndex + 1].tool \in Tool
  BY <1>1, PlanShape
<1>3. TracedWith(ok) = Append(traces, [tool |-> plan[stepIndex + 1].tool, ok |-> ok])
  BY <1>1, Zenon DEF TracedWith
<1>4. [tool |-> plan[stepIndex + 1].tool, ok |-> ok] \in Trace
  BY <1>2 DEF Trace
<1>5. TracedWith(ok) \in Seq(Trace) /\ Len(TracedWith(ok)) = Len(traces) + 1
  BY <1>1, <1>3, <1>4, AppendProperties
<1>6. QED
  BY <1>1, <1>2, <1>5

LEMMA HostResults ==
    ASSUME NEW r \in HostResult
    PROVE  /\ r.kind = "approval_pending" => r.id \in RequestId
           /\ r.kind = "ok" => /\ r.text \in Shape \union {"absent"}
                               /\ r.sorted.names \in Seq(File)
  BY HostAssumption DEF Err, ApprovalPending

\* The session ends: what is left of it is no longer stored.
LEMMA EndedSession ==
    ASSUME SessionInv, stored, NEW reply \in Response, StopWith(reply),
           NEW ok \in BOOLEAN, traces' = TracedWith(ok),
           stepIndex' \in {stepIndex, stepIndex + 1}, listing' \in Seq(File),
           plan' = plan, approvals' = approvals, stored' = (outcome'.status # "complete")
    PROVE  SessionInv'
<1>1. state' = "complete" /\ response' \in Response /\ outcome'.status = "complete" /\ stored' = FALSE
  BY DEF StopWith, Complete
<1>2. /\ traces' \in Seq(Trace) /\ Len(traces') <= Len(plan') /\ stepIndex' \in 0 .. Len(plan')
  BY TracedStep
<1>3. plan' \in Plans /\ approvals' \in Seq(RequestId) /\ Len(approvals') <= MaxApprovals
  BY DEF SessionInv, SessionTypeOK
<1>4. QED
  BY <1>1, <1>2, <1>3, Zenon DEF SessionInv, SessionTypeOK

\* A step that needs its result: the next intent is out, or the session ends.
LEMMA FinishedStep ==
    ASSUME SessionInv, stored, NEW r \in HostResult, FinishStep(r),
           stored' = (outcome'.status # "complete")
    PROVE  SessionInv'
<1> DEFINE resp == NewResponse(r)
           names == NewListing(r)
           next == stepIndex + 1
<1>1. /\ r.kind = "ok" /\ traces' = TracedWith(TRUE) /\ listing' = names /\ stepIndex' = next
      /\ plan' = plan /\ approvals' = approvals /\ EmitOrStop(next, resp, names)
  BY DEF FinishStep
<1>2. names \in Seq(File)
  BY <1>1, HostResults DEF NewListing, SessionInv, SessionTypeOK
<1>3. /\ stepIndex \in Nat /\ Len(plan) \in Nat /\ next \in 0 .. Len(plan) /\ next \in Nat
      /\ TracedWith(TRUE) \in Seq(Trace) /\ Len(TracedWith(TRUE)) = next
  <2>1. TRUE \in BOOLEAN
    OBVIOUS
  <2>2. /\ TracedWith(TRUE) \in Seq(Trace) /\ Len(TracedWith(TRUE)) = stepIndex + 1
        /\ stepIndex \in Nat /\ Len(plan) \in Nat /\ stepIndex + 1 \in 0 .. Len(plan)
    BY <2>1, TracedStep, Zenon
  <2>3. stepIndex + 1 \in Nat
    BY <2>2
  <2>4. QED
    BY <2>2, <2>3, Zenon
<1>4. resp \in Response
  <2>1. (IF r.text = "absent" THEN "brace" ELSE r.text) \in Shape
    BY <1>1, HostResults DEF Shape
  <2>2. QED
    BY <1>3, <2>1, Responses DEF NewResponse
<1> HIDE DEF resp, names
<1>5. \/ \E reply \in Response : StopWith(reply)
      \/ /\ next < Len(plan) /\ state' = state /\ response' = resp
         /\ outcome'.status = "need_tool"
  <2>1. CASE next >= Len(plan)
    <3>1. StopWith(resp)
      BY <1>1, <2>1, Zenon DEF EmitOrStop
    <3>2. QED
      BY <1>4, <3>1
  <2>2. CASE ~(next >= Len(plan))
    <3>1. next < Len(plan)
      BY <1>3, <2>2
    <3>2. \/ StopWith(Notice)
          \/ /\ state' = state /\ response' = resp
             /\ \E step, file, evidence : outcome' = NeedTool(step, file, evidence)
      BY <1>1, <2>2, Zenon DEF EmitOrStop
    <3>3. \A step, file, evidence : NeedTool(step, file, evidence).status = "need_tool"
      BY DEF NeedTool
    <3>4. QED
      BY <3>1, <3>2, <3>3, Responses, Zenon
  <2>3. QED
    BY <2>1, <2>2
<1>6. CASE \E reply \in Response : StopWith(reply)
  BY <1>1, <1>2, <1>6, EndedSession
<1>7. CASE next < Len(plan) /\ state' = state /\ response' = resp /\ outcome'.status = "need_tool"
  <2>1. traces' \in Seq(Trace) /\ Len(traces') = next
    BY <1>1, <1>3, Zenon
  <2>2. stepIndex' \in 0 .. Len(plan') /\ stepIndex' < Len(plan') /\ Len(traces') = stepIndex'
        /\ Len(traces') <= Len(plan')
    <3>1. stepIndex' = next /\ plan' = plan /\ next \in 0 .. Len(plan) /\ next < Len(plan)
      BY <1>1, <1>3, <1>7, Zenon
    <3>2. next <= Len(plan)
      BY <3>1
    <3>3. QED
      BY <2>1, <3>1, <3>2, Zenon
  <2>3. /\ plan' \in Plans /\ approvals' \in Seq(RequestId) /\ Len(approvals') <= MaxApprovals
        /\ state' \in {"initial", "executing", "complete"}
    BY <1>1, <1>7 DEF SessionInv, SessionTypeOK
  <2>4. response' \in Response /\ listing' \in Seq(File)
    BY <1>1, <1>2, <1>4, <1>7
  <2>5. outcome'.status \in {"idle", "need_tool", "awaiting_approval", "complete"}
    BY <1>7
  <2>6. QED
    BY <2>1, <2>2, <2>3, <2>4, <2>5, Zenon DEF SessionInv, SessionTypeOK
<1>8. QED
  BY <1>5, <1>6, <1>7

LEMMA AwaitedStep ==
    ASSUME SessionInv, stored, NEW r \in HostResult, AwaitApproval(r),
           Len(approvals) < MaxApprovals
    PROVE  SessionInv'
<1>1. approvals \in Seq(RequestId) /\ r.id \in RequestId /\ approvals' = Append(approvals, r.id)
  BY HostResults DEF AwaitApproval, SessionInv, SessionTypeOK
<1>2. approvals' \in Seq(RequestId) /\ Len(approvals') = Len(approvals) + 1
  BY <1>1, AppendProperties
<1>3. Len(approvals') <= MaxApprovals
  <2>1. Len(approvals) \in Nat /\ MaxApprovals \in Nat
    BY <1>1, BoundsAssumption
  <2>2. QED
    BY <1>2, <2>1
<1>4. outcome'.status = "awaiting_approval"
  BY DEF AwaitApproval, Awaiting
<1>5. UNCHANGED <<state, plan, stepIndex, response, listing, traces>>
  BY DEF AwaitApproval
<1>6. stored' => stored
  OBVIOUS
<1>7. QED
  BY <1>2, <1>3, <1>4, <1>5, Zenon DEF SessionInv, SessionTypeOK

LEMMA ResumedSession ==
    ASSUME SessionInv, stored \in BOOLEAN, NEW r \in HostResult, ResumeStep(r)
    PROVE  SessionInv' /\ stored' \in BOOLEAN
<1>1. stored /\ stored' = (outcome'.status # "complete")
  BY DEF ResumeStep
<1>2. CASE AwaitApproval(r)
  <2>1. Len(approvals) < MaxApprovals
    BY <1>2 DEF ResumeStep, AwaitApproval
  <2>2. QED
    BY <1>1, <1>2, <2>1, AwaitedStep
<1>3. CASE FailStep(r)
  <2>1. listing' \in Seq(File) /\ stepIndex' = stepIndex
    BY <1>3 DEF FailStep, SessionInv, SessionTypeOK
  <2>2. StopWith(Notice) /\ traces' = TracedWith(FALSE) /\ plan' = plan /\ approvals' = approvals
    BY <1>3 DEF FailStep
  <2>3. QED
    BY <1>1, <2>1, <2>2, Responses, EndedSession
<1>4. CASE RejectNarration(r)
  <2>1. listing' \in Seq(File) /\ stepIndex' = stepIndex
    BY <1>4, HostResults DEF RejectNarration, NewListing, SessionInv, SessionTypeOK
  <2>2. StopWith(Notice) /\ traces' = TracedWith(TRUE) /\ plan' = plan /\ approvals' = approvals
    BY <1>4 DEF RejectNarration
  <2>3. QED
    BY <1>1, <2>1, <2>2, Responses, EndedSession
<1>5. CASE FinishStep(r)
  BY <1>1, <1>5, FinishedStep
<1>6. QED
  BY <1>1, <1>2, <1>3, <1>4, <1>5 DEF ResumeStep, AgentStep

LEMMA FirstStep ==
    ASSUME SessionInv, stored \in BOOLEAN, starts \in 0 .. MaxStarts, NEW t, RunFirstStep(t)
    PROVE  SessionInv' /\ stored' \in BOOLEAN /\ starts' \in 0 .. MaxStarts
<1>1. starts' \in 0 .. MaxStarts
  BY BoundsAssumption DEF RunFirstStep
<1>2. CASE PlanOf(t) = <<>>
  <2>1. /\ outcome'.status = "complete"
        /\ UNCHANGED <<state, plan, stepIndex, response, listing, traces, approvals, stored>>
    BY <1>2 DEF RunFirstStep, Complete
  <2>2. QED
    BY <1>1, <2>1, Zenon DEF SessionInv, SessionTypeOK
<1>3. CASE PlanOf(t) # <<>>
  <2>1. /\ stored' = TRUE /\ state' = "executing" /\ plan' = PlanOf(t) /\ stepIndex' = 0
        /\ response' = Unset /\ listing' = <<>> /\ traces' = <<>> /\ approvals' = <<>>
        /\ outcome'.status = "need_tool"
    BY <1>3 DEF RunFirstStep, NeedTool
  <2>2. Len(plan') \in Nat /\ 0 < Len(plan') /\ plan' \in Plans
    BY <1>3, <2>1, PlansAreRunnable, PlanShape
  <2>3. /\ listing' \in Seq(File) /\ traces' \in Seq(Trace) /\ approvals' \in Seq(RequestId)
        /\ Len(traces') = 0 /\ Len(approvals') = 0
    BY <2>1, EmptySeq
  <2>4. /\ stepIndex' \in 0 .. Len(plan') /\ stepIndex' < Len(plan') /\ Len(traces') = stepIndex'
        /\ Len(traces') <= Len(plan') /\ Len(approvals') <= MaxApprovals
    BY <2>1, <2>2, <2>3, BoundsAssumption
  <2>5. /\ response' \in Response /\ state' \in {"initial", "executing", "complete"}
        /\ outcome'.status \in {"idle", "need_tool", "awaiting_approval", "complete"}
    BY <2>1, Responses
  <2>6. SessionInv'
    BY <2>2, <2>3, <2>4, <2>5, Zenon DEF SessionInv, SessionTypeOK
  <2>7. QED
    BY <1>1, <2>1, <2>6
<1>4. QED
  BY <1>2, <1>3

-----------------------------------------------------------------------------
(* Every variable of the desktop application keeps its type.                 *)

DesktopInv ==
    /\ SessionInv /\ stored \in BOOLEAN /\ starts \in 0 .. MaxStarts
    /\ TaskIsGiven
    /\ CostInv /\ spent <= MaxSpent /\ threshold \in Thresholds
    /\ ShellTypeOK

LEMMA DesktopStarts == DesktopInit => DesktopInv
<1>1. SUFFICES ASSUME DesktopInit PROVE DesktopInv
  OBVIOUS
<1>2. <<>> \in Plans /\ Len(<<>>) = 0 /\ 0 \in 0 .. 0
  BY DEF Plans, ToolsOnlyPlans
<1>3. /\ state = "initial" /\ plan = <<>> /\ stepIndex = 0 /\ response = Unset /\ listing = <<>>
      /\ traces = <<>> /\ approvals = <<>> /\ outcome.status = "idle" /\ stored = FALSE
  BY <1>1 DEF DesktopInit, SessionInit, Idle
<1>4. listing \in Seq(File) /\ traces \in Seq(Trace) /\ approvals \in Seq(RequestId)
  BY <1>3, EmptySeq
<1>5. Len(traces) <= Len(plan) /\ Len(approvals) <= MaxApprovals
  BY <1>2, <1>3, BoundsAssumption
<1>6. SessionInv
  BY <1>2, <1>3, <1>4, <1>5, Responses DEF SessionInv, SessionTypeOK
<1>7. 0 \in 0 .. MaxStarts /\ 0 <= MaxSpent
  BY BoundsAssumption
<1>8. stored \in BOOLEAN /\ starts \in 0 .. MaxStarts /\ TaskIsGiven /\ spent <= MaxSpent
      /\ threshold \in Thresholds
  BY <1>1, <1>3, <1>7 DEF DesktopInit, TaskIsGiven
<1>9. CostInv /\ ShellTypeOK
  BY <1>1, CostStarts, ShellStarts DEF DesktopInit
<1>10. QED
  BY <1>6, <1>8, <1>9, Zenon DEF DesktopInv

LEMMA SpentSteps ==
    ASSUME CostInv, spent <= MaxSpent, [DesktopNext]_desktopVars
    PROVE  spent' <= MaxSpent
<1>1. CASE \E c \in Call : AddCost(c)
  <2>1. spent' = spent + 1 /\ spent < MaxSpent /\ spent \in Nat /\ MaxSpent \in Nat
    BY <1>1, BoundsAssumption DEF AddCost, CostInv, CostTypeOK
  <2>2. QED
    BY <2>1
<1>2. CASE UNCHANGED spent
  BY <1>2
<1>3. CostStep => (\E c \in Call : AddCost(c)) \/ UNCHANGED spent
  BY DEF CostStep, InvokeStep, Invoke, InvokeFails, GetTotals, CompareThreshold, HasAlerted, MarkAlerted
<1>4. AgentStepCommand => UNCHANGED spent
  BY DEF AgentStepCommand, RunFirstStep, ResumeStep, Settle, Summarise, costVars
<1>5. QED
  BY <1>1, <1>2, <1>3, <1>4 DEF DesktopNext, desktopVars, agentVars, costVars

LEMMA StillSession ==
    ASSUME SessionInv, stored \in BOOLEAN, starts \in 0 .. MaxStarts,
           UNCHANGED <<sessionVars, stored, starts>>
    PROVE  SessionInv' /\ stored' \in BOOLEAN /\ starts' \in 0 .. MaxStarts
  BY Zenon DEF sessionVars, SessionInv, SessionTypeOK

LEMMA DesktopSteps ==
    ASSUME DesktopInv, [DesktopNext]_desktopVars
    PROVE  DesktopInv'
<1>1. TaskIsGiven' /\ CostInv' /\ spent' <= MaxSpent /\ threshold' \in Thresholds
  BY TaskStep, CostSteps, SpentSteps, ThresholdSteps DEF DesktopInv
<1>2. [ShellNext]_shellVars
  BY DEF DesktopNext, ShellStep, desktopVars
<1>3. ShellTypeOK'
  BY <1>2, ShellSteps DEF DesktopInv
<1>4. SessionInv' /\ stored' \in BOOLEAN /\ starts' \in 0 .. MaxStarts
  <2>1. CASE \E t \in Task : RunFirstStep(t)
    BY <2>1, FirstStep DEF DesktopInv
  <2>2. CASE \E r \in HostResult : ResumeStep(r)
    <3>1. UNCHANGED starts
      BY <2>2 DEF ResumeStep
    <3>2. QED
      BY <2>2, <3>1, ResumedSession DEF DesktopInv
  <2>3. CASE UNCHANGED <<sessionVars, stored, starts>>
    BY <2>3, StillSession DEF DesktopInv
  <2>4. AgentStepCommand \/ UNCHANGED <<sessionVars, stored, starts>>
    BY DEF DesktopNext, desktopVars, agentVars
  <2>5. QED
    BY <2>1, <2>2, <2>3, <2>4 DEF AgentStepCommand
<1>5. QED
  BY <1>1, <1>3, <1>4 DEF DesktopInv

\* A move in progress is one between entries, and the calls are counted.
FileTyped == (mover = NoMove \/ mover \in Move) /\ calls \in 0 .. MaxCalls

LEMMA FileTypeSteps ==
    ASSUME FileInv, FileTyped, [FileNext]_fileVars
    PROVE  FileTyped'
<1>1. CASE UNCHANGED fileVars
  BY <1>1 DEF fileVars, FileTyped
<1>2. CASE MoveRemove \/ QuitMoving
  BY <1>2 DEF MoveRemove, QuitMoving, FileTyped
<1>3. Serve => calls' \in 0 .. MaxCalls
  BY CallsAssumption DEF Serve, FileTyped
<1>4. ASSUME Serve, UNCHANGED mover
      PROVE  FileTyped'
  BY <1>3, <1>4 DEF FileTyped
<1>5. ASSUME NEW b \in Workspace, NEW to \in Workspace, NEW e \in Under(b),
             NEW dest \in Under(to), MoveCopy(b, e, to, dest)
      PROVE  FileTyped'
  <2>1. Serve
    BY <1>5 DEF MoveCopy
  <2>2. /\ Canonical(e) \in Entry /\ Canonical(dest) \in Entry
        /\ disk[Canonical(e)].kind = "file"
    BY <1>5, CanonicalEntry DEF MoveCopy, FileInv, Under
  <2>3. disk[Canonical(e)].data \in Contents \union {Part}
    BY <2>2, NodeCases, NodeKinds DEF FileInv, Things
  <2>4. [from |-> Canonical(e), to |-> Canonical(dest), held |-> disk[Canonical(e)].data] \in Move
    BY <2>2, <2>3 DEF Move
  <2>5. \/ mover' = [from |-> Canonical(e), to |-> Canonical(dest), held |-> disk[Canonical(e)].data]
        \/ UNCHANGED mover
    BY <1>5 DEF MoveCopy
  <2>6. QED
    BY <1>3, <1>4, <2>1, <2>4, <2>5 DEF FileTyped
<1>6. ASSUME NEW caller \in Caller, NEW b \in Base, NEW e \in Under(b), ReadCommand(caller, b, e)
      PROVE  FileTyped'
  BY <1>4, <1>6 DEF ReadCommand
<1>7. ASSUME NEW b \in Base, NEW e \in Under(b), RefuseFile(b, e) \/ RemoveFile(b, e)
      PROVE  FileTyped'
  BY <1>4, <1>7 DEF RefuseFile, RemoveFile
<1>8. ASSUME NEW b \in Base, NEW e \in Under(b), NEW data \in Contents, WriteFile(b, e, data)
      PROVE  FileTyped'
  BY <1>4, <1>8 DEF WriteFile
<1>9. ASSUME NEW b \in Base, NEW e \in Under(b), NEW new \in Under(b), Rename(b, e, new)
      PROVE  FileTyped'
  BY <1>4, <1>9 DEF Rename
<1>10. QED
  BY <1>1, <1>2, <1>5, <1>6, <1>7, <1>8, <1>9 DEF FileNext

\* TypeOK: the stored session always waits for the result of a step of its plan, and the
\* agent, the costs, the shell, the scrubber and the file service keep their types, whatever
\* the bounds.
THEOREM TypeCorrect == Spec => []TypeOK
<1> DEFINE Typed == DesktopInv /\ ScrubInv /\ FileInv /\ FileTyped
<1>1. Init => Typed
  <2>1. ScrubInit => ScrubInv
    BY DEF ScrubInit, ScrubInv, NoScrub
  <2>2. FileInit => FileTyped
    BY CallsAssumption DEF FileInit, FileTyped
  <2>3. QED
    BY <2>1, <2>2, DesktopStarts, FileInit_Inv DEF Init
<1>2. Typed /\ [Next]_vars => Typed'
  <2>1. SUFFICES ASSUME Typed, [Next]_vars PROVE Typed'
    OBVIOUS
  <2>2. [DesktopNext]_desktopVars
    BY <2>1, Zenon DEF Next, SessionOrShell, DesktopNext, vars
  <2>3. [FileNext]_fileVars
    BY <2>1, Zenon DEF Next, vars
  <2>4. ScrubPayload \/ UNCHANGED scrub
    BY <2>1, Zenon DEF Next, vars
  <2>5. ScrubInv'
    BY <2>1, <2>4, ScrubSteps DEF ScrubInv
  <2>6. QED
    BY <2>1, <2>2, <2>3, <2>5, DesktopSteps, FileNext_Inv, FileTypeSteps
<1>3. Typed => TypeOK
  <2>1. SUFFICES ASSUME Typed PROVE TypeOK
    OBVIOUS
  <2>2. spent \in 0 .. MaxSpent
    BY <2>1, BoundsAssumption DEF DesktopInv, CostInv, CostTypeOK
  <2>3. DesktopTypeOK
    BY <2>1, <2>2, Zenon
       DEF DesktopInv, SessionInv, TaskIsGiven, CostInv, CostTypeOK, DesktopTypeOK
  <2>4. FileTypeOK
    BY <2>1 DEF FileInv, FileTyped, FileTypeOK
  <2>5. QED
    BY <2>1, <2>3, <2>4, ScrubTypes DEF TypeOK
<1>4. QED
  BY <1>1, <1>2, <1>3, PTL DEF Spec
===============================================================================
