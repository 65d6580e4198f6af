---------------------------- MODULE DesktopAgent ----------------------------
(***************************************************************************)
(* The agent of the desktop application (main.rs), for one session id: the *)
(* synchronous command cmd_agent_step over the stored orchestrator         *)
(* session, and concurrent cmd_llm_invoke calls, which run on the worker   *)
(* threads of the asynchronous runtime.  Both add to or take the session's *)
(* language-model cost and raise its cost alert; the stores they share are *)
(* locked per call, so every locked section is a step of its own.          *)
(*                                                                         *)
(* The variables of AgentSession are the session in AgentSessionStore as   *)
(* long as `stored` holds.  The frontend is external: it may call with a   *)
(* result, start over, or invoke a model, at any time.                     *)
(***************************************************************************)
EXTENDS AgentSession, ShellTool

CONSTANTS
    Task,        \* the tasks the user can give
    HostResult,  \* the step results the frontend can hand back
    Call,        \* cmd_llm_invoke calls that can be in flight together
    Thresholds,  \* what the user can set max_session_cost_usd to, in costs of one generation
    Highest,     \* the highest of them
    MaxStarts,   \* bound: runs started under the id
    MaxApprovals, \* bound: pending approvals reported in one run
    MaxSpent     \* bound: generations that succeed

VARIABLES
    task,        \* the task of the last run started, NoTask before
    stored,      \* AgentSessionStore holds the session
    starts,      \* runs started
    totals,      \* SessionLlmMetricsStore: cost of the session, NoTotals without entry
    spent,       \* cost of all generations that succeeded
    summarised,  \* cost reported in session_summary events
    alerted,     \* SessionCostAlertedStore holds the session
    check,       \* what each thread is doing with the cost
    threshold    \* max_session_cost_usd in the settings

ASSUME ThresholdAssumption ==
    Thresholds \subseteq Nat /\ Highest \in Thresholds /\ \A t \in Thresholds : t <= Highest
ASSUME TaskAssumption == \A t \in Task : Written(t)
ASSUME BoundsAssumption == {MaxStarts, MaxApprovals, MaxSpent} \subseteq Nat

\* The results the frontend hands back are those a step can have.
ASSUME HostAssumption ==
    \A r \in HostResult :
        \/ r = Err
        \/ r.kind = "approval_pending" /\ r.id \in RequestId /\ r = ApprovalPending(r.id)
        \/ /\ r.kind = "ok"
           /\ r.text \in Shape \union {"absent"}
           /\ r.sorted.names \in Seq(File)
           /\ r = Ok(r.text, r.sorted)

NoTask == [marks |-> {}]
NoTotals == -1
MainThread == "main thread"
Thread == Call \union {MainThread}

costVars == <<totals, spent, summarised, alerted, check>>
agentVars == <<sessionVars, task, stored, starts, costVars>>
desktopVars == <<agentVars, threshold, shellVars>>

\* "asked" waits for the provider, "added" has added its cost; "comparing" holds the totals
\* it read, "exceeding" found them over the threshold, "alerting" the session not alerted yet.
Idling == [at |-> "idle", cost |-> 0]
At(phase, cost) == [at |-> phase, cost |-> cost]
Phase == {"idle", "asked", "added", "comparing", "exceeding", "alerting"}
Checks == [at : Phase, cost : Nat]

DesktopInit ==
    /\ SessionInit
    /\ ShellInit
    /\ task = NoTask
    /\ stored = FALSE
    /\ starts = 0
    /\ totals = NoTotals
    /\ spent = 0
    /\ summarised = 0
    /\ alerted = FALSE
    /\ check = [c \in Thread |-> Idling]
    /\ threshold \in Thresholds

-----------------------------------------------------------------------------
(* cmd_agent_step *)

\* Synchronous commands run one after another on the main thread.
MainThreadFree == check[MainThread] = Idling /\ shell = "idle"

\* llm_store.take: what the session cost so far goes into its summary.
Summarise ==
    /\ totals # NoTotals
    /\ totals' = NoTotals
    /\ summarised' = summarised + totals
    /\ check' = [check EXCEPT ![MainThread] = At("comparing", totals)]
    /\ UNCHANGED <<spent, alerted>>

\* A completed step is logged, and its session's cost summarised if there is any.
Settle(completed) ==
    IF completed /\ totals # NoTotals THEN Summarise ELSE UNCHANGED costVars

\* run_first_step: without last_result a new session replaces the stored one, unless it
\* completes at once; then the store is left as it was.
RunFirstStep(t) ==
    /\ MainThreadFree
    /\ starts < MaxStarts
    /\ starts' = starts + 1
    /\ task' = t
    /\ LET p == PlanOf(t) IN
       /\ IF p = <<>>
          THEN /\ outcome' = Complete(Unset)
               /\ UNCHANGED <<state, plan, stepIndex, response, listing, traces, approvals, stored>>
          ELSE /\ stored' = TRUE
               /\ state' = "executing"
               /\ plan' = p
               /\ stepIndex' = 0
               /\ response' = Unset
               /\ listing' = <<>>
               /\ traces' = <<>>
               /\ approvals' = <<>>
               /\ outcome' = NeedTool(p[1], NoFile, Unset)
       /\ Settle(p = <<>>)

\* With a result and a stored session: next_action, then the store follows its outcome.
ResumeStep(r) ==
    /\ MainThreadFree
    /\ stored
    /\ r.kind = "approval_pending" => Len(approvals) < MaxApprovals
    /\ AgentStep(r)
    /\ stored' = (outcome'.status # "complete")
    /\ Settle(outcome'.status = "complete")
    /\ UNCHANGED <<task, starts>>

-----------------------------------------------------------------------------
(* cmd_llm_invoke *)

Invoke(c) ==
    /\ check[c] = Idling
    /\ check' = [check EXCEPT ![c] = At("asked", 0)]
    /\ UNCHANGED <<totals, spent, summarised, alerted>>

\* The provider failed: an event is logged and nothing is charged.
InvokeFails(c) ==
    /\ check[c].at = "asked"
    /\ check' = [check EXCEPT ![c] = Idling]
    /\ UNCHANGED <<totals, spent, summarised, alerted>>

\* SessionLlmMetricsStore::add, after the response; the entry is created when absent.
AddCost(c) ==
    /\ check[c].at = "asked"
    /\ spent < MaxSpent
    /\ spent' = spent + 1
    /\ totals' = (IF totals = NoTotals THEN 0 ELSE totals) + 1
    /\ check' = [check EXCEPT ![c] = At("added", 0)]
    /\ UNCHANGED <<summarised, alerted>>

\* Fault: the call compares what it cost itself with the threshold.
GetOwnCost(c) ==
    /\ check[c].at = "added"
    /\ check' = [check EXCEPT ![c] = At("comparing", 1)]
    /\ UNCHANGED <<totals, spent, summarised, alerted>>

\* SessionLlmMetricsStore::get_totals; the entry may have been taken in between.
GetTotals(c) ==
    /\ check[c].at = "added"
    /\ check' = [check EXCEPT ![c] =
                   IF totals = NoTotals THEN Idling ELSE At("comparing", totals)]
    /\ UNCHANGED <<totals, spent, summarised, alerted>>

-----------------------------------------------------------------------------
(* check_cost_threshold_and_alert *)

\* The threshold is read from the settings as they are by now.
CompareThreshold(c) ==
    /\ check[c].at = "comparing"
    /\ check' = [check EXCEPT ![c] =
                   IF check[c].cost <= threshold THEN Idling ELSE At("exceeding", check[c].cost)]
    /\ UNCHANGED <<totals, spent, summarised, alerted>>

HasAlerted(c) ==
    /\ check[c].at = "exceeding"
    /\ check' = [check EXCEPT ![c] = IF alerted THEN Idling ELSE At("alerting", check[c].cost)]
    /\ UNCHANGED <<totals, spent, summarised, alerted>>

\* The session is marked, an event is logged and the launcher is notified.
MarkAlerted(c) ==
    /\ check[c].at = "alerting"
    /\ alerted' = TRUE
    /\ check' = [check EXCEPT ![c] = Idling]
    /\ UNCHANGED <<totals, spent, summarised>>

InvokeStep(c) == Invoke(c) \/ InvokeFails(c) \/ AddCost(c) \/ GetTotals(c)

AgentStepCommand ==
    \/ \E t \in Task : RunFirstStep(t)
    \/ \E r \in HostResult : ResumeStep(r)

CostStep ==
    \/ \E c \in Call : InvokeStep(c)
    \/ \E c \in Thread : CompareThreshold(c) \/ HasAlerted(c) \/ MarkAlerted(c)

\* cmd_settings_save, as far as the agent sees it.
SaveThreshold == threshold' \in Thresholds

ShellStep ==
    /\ shell = "idle" => check[MainThread] = Idling
    /\ ShellNext

DesktopNext ==
    \/ AgentStepCommand /\ UNCHANGED <<threshold, shellVars>>
    \/ CostStep /\ UNCHANGED <<sessionVars, task, stored, starts, threshold, shellVars>>
    \/ SaveThreshold /\ UNCHANGED <<agentVars, shellVars>>
    \/ ShellStep /\ UNCHANGED <<agentVars, threshold>>

DesktopSpec == DesktopInit /\ [][DesktopNext]_desktopVars

-----------------------------------------------------------------------------
SessionTypeOK ==
    /\ state \in {"initial", "executing", "complete"}
    /\ plan \in Plans
    /\ stepIndex \in 0..Len(plan)
    /\ response \in Response
    /\ listing \in Seq(File)
    /\ Len(traces) <= Len(plan)
    /\ approvals \in Seq(RequestId)
    /\ Len(approvals) <= MaxApprovals
    /\ outcome.status \in {"idle", "need_tool", "awaiting_approval", "complete"}

DesktopTypeOK ==
    /\ SessionTypeOK
    /\ ShellTypeOK
    /\ task = NoTask \/ task \in Task
    /\ stored \in BOOLEAN
    /\ starts \in 0..MaxStarts
    /\ totals \in Nat \union {NoTotals}
    /\ spent \in 0..MaxSpent
    /\ summarised \in Nat
    /\ alerted \in BOOLEAN
    /\ check \in [Thread -> Checks]
    /\ threshold \in Thresholds

\* Every generation's cost is either still in the store or was reported in one summary.
SpendingIsAccounted == spent = summarised + (IF totals = NoTotals THEN 0 ELSE totals)

OnItsWay(c) ==
    \/ check[c].at = "added"
    \/ check[c].at \in {"comparing", "exceeding", "alerting"} /\ check[c].cost > Highest

\* Spending above any threshold the user sets is alerted, or some thread is about to find it
\* out, however the calls interleave, whichever of them takes the totals away and whatever
\* becomes of the threshold meanwhile.
OverspendingIsAlerted ==
    SpendingIsAccounted /\ (totals > Highest /\ ~alerted => \E c \in Thread : OnItsWay(c))

\* The plan of every task is one the session can run, reads the files that the question is
\* about, is flagged when it deletes, and fills its placeholders in order.
PlansAreGrounded ==
    task # NoTask =>
        /\ PlanOf(task) \in Plans
        /\ FilesAreConsulted(task)
        /\ ChangesAreFlagged(task)
        /\ SlotsAreFed(task)
=============================================================================
