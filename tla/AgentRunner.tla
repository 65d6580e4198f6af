----------------------------- MODULE AgentRunner -----------------------------
(***************************************************************************)
(* The Swift step loop AgentRunner.run over an orchestrator session, with  *)
(* its approval gate, its step budget, cooperative cancellation and the    *)
(* SwiftAgentExecutor that performs the tools.  FfiStepResult carries only *)
(* ok and error, so the session never sees an approval that is pending.    *)
(***************************************************************************)
EXTENDS AgentSession, FiniteSets, SequencesExt

CONSTANTS
    Budgets,    \* the step budgets a backend configuration can set (config.maxSteps)
    MaxFiles    \* bound: longest directory listing

ASSUME BudgetsAssumption == Budgets \subseteq Nat \ {0}
ASSUME MaxFilesAssumption == MaxFiles \in Nat

VARIABLES
    maxSteps,       \* this run's step budget
    pc,             \* where the loop is
    iteration,      \* iterations begun
    lastResult,     \* FfiStepResult to hand to the next agentStep
    stopRequested,  \* the Swift Task was cancelled
    executed,       \* history: the tools executed, with their success
    consents,       \* history: iterations whose approval request was granted
    stoppedAt       \* history: how many tools had been executed at the stop

runnerVars ==
    <<maxSteps, pc, iteration, lastResult, stopRequested, executed, consents, stoppedAt>>
vars == <<sessionVars, runnerVars>>

\* approvalRequiredKinds, restricted to the tools a plan can hold.
ApprovalRequiredKinds == {"fs_delete"}

Ended == {"answered", "cancelled", "exhausted", "failed"}
Pc == {"step", "approval", "executing"} \union Ended

-----------------------------------------------------------------------------
(* What SwiftAgentExecutor.execute can report for each tool. *)

\* Directory contents, newest first; no name twice.
Listings == {s \in SeqOf(File, MaxFiles) : \A i, j \in DOMAIN s : s[i] = s[j] => i = j}

\* The text of a listing is its names, one a line: blank exactly when there are none.
ListResults ==
    {Ok("blank", Listed(<<>>))} \union
    {Ok(text, Listed(names)) : text \in Shape \ {"blank"}, names \in Listings \ {<<>>}}
TextResults == {Ok(text, NoListing) : text \in Shape}
OkPayload == Ok("absent", NoListing)

\* Every handler can also throw: a missing file, a timeout, an engine error.
Results(tool) ==
    {Err} \union
        (CASE tool = "fs_list_dir" -> ListResults
           [] tool = "fs_delete" -> {OkPayload}
           [] OTHER -> TextResults)

-----------------------------------------------------------------------------
Init ==
    /\ SessionInit
    /\ maxSteps \in Budgets
    /\ pc = "step"
    /\ iteration = 0
    /\ lastResult = Err
    /\ stopRequested = FALSE
    /\ executed = <<>>
    /\ consents = {}
    /\ stoppedAt = 0

\* ffi_agent_step: the first call starts the session, later ones report a result.
FfiAgentStep ==
    \/ \E p \in Plans : StartSession(p)
    \/ /\ state # "initial"
       /\ FailStep(lastResult) \/ RejectNarration(lastResult) \/ FinishStep(lastResult)

\* Fault: the approval gate is not consulted.
AfterStepUngated(out) ==
    IF out.status = "complete" THEN "answered" ELSE "executing"

AfterStep(out) ==
    IF out.status = "complete" THEN "answered"
    ELSE IF out.tool \in ApprovalRequiredKinds THEN "approval" ELSE "executing"

\* Fault: one iteration too many.
IterateOnceMore ==
    /\ pc = "step"
    /\ iteration <= maxSteps
    /\ ~stopRequested
    /\ iteration' = iteration + 1
    /\ FfiAgentStep
    /\ pc' = AfterStep(outcome')
    /\ UNCHANGED <<maxSteps, lastResult, stopRequested, executed, consents, stoppedAt>>

\* Fault: the cancellation is not checked before an iteration.
IterateWhenStopped ==
    /\ pc = "step"
    /\ iteration < maxSteps
    /\ iteration' = iteration + 1
    /\ FfiAgentStep
    /\ pc' = AfterStep(outcome')
    /\ UNCHANGED <<maxSteps, lastResult, stopRequested, executed, consents, stoppedAt>>

\* One iteration up to the point where the loop suspends or returns.
Iterate ==
    /\ pc = "step"
    /\ iteration < maxSteps
    /\ ~stopRequested
    /\ iteration' = iteration + 1
    /\ FfiAgentStep
    /\ pc' = AfterStep(outcome')
    /\ UNCHANGED <<maxSteps, lastResult, stopRequested, executed, consents, stoppedAt>>

\* agentStep throws: its error leaves the loop, and the session is not replaced.
AgentStepThrows ==
    /\ pc = "step"
    /\ iteration < maxSteps
    /\ ~stopRequested
    /\ pc' = "failed"
    /\ UNCHANGED <<sessionVars, maxSteps, iteration, lastResult, stopRequested, executed, consents, stoppedAt>>

\* Task.checkCancellation at the top of an iteration.
CheckCancellation ==
    /\ pc = "step"
    /\ iteration < maxSteps
    /\ stopRequested
    /\ pc' = "cancelled"
    /\ UNCHANGED <<sessionVars, maxSteps, iteration, lastResult, stopRequested, executed, consents, stoppedAt>>

\* Fault: the end of the budget is missed by one.
StepLimitTooLate ==
    /\ pc = "step"
    /\ iteration > maxSteps
    /\ pc' = "exhausted"
    /\ UNCHANGED <<sessionVars, maxSteps, iteration, lastResult, stopRequested, executed, consents, stoppedAt>>

\* The for loop ran out of iterations.
StepLimitExceeded ==
    /\ pc = "step"
    /\ iteration = maxSteps
    /\ pc' = "exhausted"
    /\ UNCHANGED <<sessionVars, maxSteps, iteration, lastResult, stopRequested, executed, consents, stoppedAt>>

\* onApprovalNeeded returns true: the loop goes on to the executor.
Approve ==
    /\ pc = "approval"
    /\ consents' = consents \union {iteration}
    /\ pc' = "executing"
    /\ UNCHANGED <<sessionVars, maxSteps, iteration, lastResult, stopRequested, executed, stoppedAt>>

\* onApprovalNeeded returns false: an error result goes back to the session.
Deny ==
    /\ pc = "approval"
    /\ lastResult' = Err
    /\ pc' = "step"
    /\ UNCHANGED <<sessionVars, maxSteps, iteration, stopRequested, executed, consents, stoppedAt>>

\* executor.execute ran the tool and captured its result; it never throws.
Execute ==
    /\ pc = "executing"
    /\ lastResult' \in Results(outcome.tool)
    /\ executed' = Append(executed, [tool |-> outcome.tool, ok |-> lastResult'.kind = "ok"])
    /\ pc' = "step"
    /\ UNCHANGED <<sessionVars, maxSteps, iteration, stopRequested, consents, stoppedAt>>

\* The user presses Stop: the task is cancelled, wherever the loop is.
RequestStop ==
    /\ pc \notin Ended
    /\ ~stopRequested
    /\ stopRequested' = TRUE
    /\ stoppedAt' = Len(executed)
    /\ UNCHANGED <<sessionVars, maxSteps, pc, iteration, lastResult, executed, consents>>

Terminated == pc \in Ended /\ UNCHANGED vars

Next ==
    \/ Iterate \/ AgentStepThrows \/ CheckCancellation \/ StepLimitExceeded
    \/ Approve \/ Deny \/ Execute \/ RequestStop \/ Terminated

\* The Swift runtime schedules the loop and a tool returns; the user owes nothing.
Fairness ==
    /\ WF_vars(Iterate) /\ WF_vars(CheckCancellation) /\ WF_vars(StepLimitExceeded)
    /\ WF_vars(Execute)

Spec == Init /\ [][Next]_vars
FairSpec == Spec /\ Fairness

-----------------------------------------------------------------------------
(* Properties.  ToolsDone: the tools performed so far, in order. *)

ToolsDone == [i \in DOMAIN executed |-> executed[i].tool]

Trace == [tool : Tool, ok : BOOLEAN]

\* The shape of the session and of the loop around it.
TypeOK ==
    /\ state \in {"initial", "executing", "complete"}
    /\ plan \in Plans
    /\ stepIndex \in 0 .. Len(plan)
    /\ response \in Response
    /\ listing \in Seq(File)
    /\ traces \in Seq(Trace)
    /\ approvals \in Seq(RequestId)
    /\ outcome.status \in {"idle", "need_tool", "awaiting_approval", "complete"}
    /\ pc \in Pc
    /\ maxSteps \in Budgets
    /\ iteration \in 0 .. maxSteps
    /\ lastResult.kind \in {"ok", "err"}
    /\ stopRequested \in BOOLEAN
    /\ executed \in Seq(Trace)
    /\ consents \subseteq 1 .. maxSteps
    /\ stoppedAt \in Nat

\* The model is never asked to answer from a tool output it did not get: an
\* FS_RESULT prompt in flight carries readable text of exactly the step before
\* it, the one the session last traced, and that step succeeded
\* (check_llm_generate_precondition and the substitution in next_action).
EvidenceIsLastResult ==
    (outcome.status = "need_tool" /\ outcome.slot = "FS_RESULT") =>
        /\ outcome.evidence.from = stepIndex
        /\ outcome.evidence.shape \notin {"unset", "blank", "brace", "notice"}
        /\ Len(traces) >= stepIndex
        /\ traces[stepIndex].ok

\* The file a plan reads as "most recent" is the newest one of a listing that
\* was performed in this very run, never a placeholder or a stale name.
MostRecentFileIsListed ==
    (outcome.status = "need_tool" /\ outcome.slot = "MOST_RECENT_FILE") =>
        /\ outcome.file \in File
        /\ outcome.file = Head(listing)
        /\ \E i \in 1 .. stepIndex : executed[i] = [tool |-> "fs_list_dir", ok |-> TRUE]

\* What a step says of an earlier one is filled in from that step of this very run.
PlaceholdersAreFresh == EvidenceIsLastResult /\ MostRecentFileIsListed

\* An answer that is not one of the handler's own messages is the text of the
\* plan's last step, every step of the plan succeeded, and in a Task session
\* it is not a narration of tool calls written by the model.
AnswerProvenance ==
    (pc = "answered" /\ response.shape # "notice" /\ plan # <<>>) =>
        /\ response.from = Len(plan)
        /\ Len(executed) = Len(plan)
        /\ \A i \in DOMAIN executed : executed[i].ok
        /\ (IsTask(plan) /\ Last(plan).tool = "llm_generate") => response.shape # "narration"

\* The session's tool traces are the tools the executor really ran, in plan
\* order and with the success each had; the one executed last may still wait
\* for its trace.  A denied tool is traced as failed without being executed.
TracesMatchExecution ==
    \A i \in DOMAIN traces :
        /\ traces[i].tool = plan[i].tool
        /\ IF i \in DOMAIN executed THEN traces[i] = executed[i]
           ELSE ~traces[i].ok /\ i \notin consents

\* A tool that changes something is executed only after the user granted that
\* very step: consent to one step is never used for another.
GatedOnlyWithConsent ==
    \A i \in DOMAIN executed : executed[i].tool \in ApprovalRequiredKinds => i \in consents

\* After Stop at most the tool already under way still completes.
AtMostOneToolAfterStop == stopRequested => Len(executed) <= stoppedAt + 1

\* The budget is spent only by a plan it cannot hold: the loop needs one
\* iteration per tool and one more to collect the answer.
BudgetOnlyForLongPlans == pc = "exhausted" => Len(plan) >= maxSteps

\* Nothing is executed after a step failed or was denied.
NothingAfterFailure ==
    [][executed' # executed =>
         /\ \A i \in DOMAIN executed : executed[i].ok
         /\ \A i \in DOMAIN traces : traces[i].ok]_vars

\* Every run ends, unless it waits for a user who does not answer.
RunSettles == <>[](pc \in Ended \/ pc = "approval")

-----------------------------------------------------------------------------
(* The run implements AgentTask: an answer of the handler's own is giving up. *)

ToolsOf(p) == [i \in DOMAIN p |-> p[i].tool]

Phase ==
    IF state = "initial" /\ pc = "step" THEN "new"
    ELSE IF pc \notin Ended THEN "working"
    ELSE IF pc = "answered" /\ response.shape # "notice" THEN "answered"
    ELSE "gave_up"

Task == INSTANCE AgentTask WITH
    Works <- {ToolsOf(p) : p \in Plans},
    Gated <- ApprovalRequiredKinds,
    work <- ToolsOf(plan),
    performed <- ToolsDone,
    granted <- consents,
    phase <- Phase

ImplementsAgentTask == Task!Spec
=============================================================================
