---------------------------- MODULE AgentSession ----------------------------
(***************************************************************************)
(* The orchestrator session of oxcer-core: SessionState and the handler    *)
(* agent_step / next_action that a host (the Swift step loop, the Tauri    *)
(* command cmd_agent_step or the blocking agent_request) calls once per    *)
(* tool result.  The handler is synchronous: one call is one action.       *)
(*                                                                         *)
(* Texts are abstracted to their shape, which is all the handler looks at: *)
(* "prose"     ordinary text                                               *)
(* "blank"     the empty string                                            *)
(* "brace"     text that starts with '{' (a serialised payload, or a       *)
(*             document that is itself a JSON object)                      *)
(* "narration" text that contains one of NARRATION_PATTERNS                *)
(***************************************************************************)
EXTENDS Integers, Sequences, Planning

CONSTANTS
    File,       \* names a directory listing can contain
    RequestId   \* approval request ids a host can hand back

VARIABLES
    state,      \* TaskState of the session
    plan,       \* the intents built by start_session
    stepIndex,  \* number of plan steps completed (step_index)
    response,   \* accumulated_response: shape and the step it came from
    listing,    \* last_dir_listing_sorted
    traces,     \* tool_traces: tool and whether its result was Ok
    approvals,  \* approvals_requested
    outcome     \* the AgentStepOutcome returned by the last call

sessionVars ==
    <<state, plan, stepIndex, response, listing, traces, approvals, outcome>>

-----------------------------------------------------------------------------
(* Step results, as the host reports them. *)

Shape == {"prose", "blank", "brace", "narration"}
NoListing == [present |-> FALSE, names |-> <<>>]
Listed(names) == [present |-> TRUE, names |-> names]

\* text is "absent" when the payload has no string field `text`.
Ok(text, sorted) == [kind |-> "ok", text |-> text, sorted |-> sorted]
Err == [kind |-> "err"]
ApprovalPending(id) == [kind |-> "approval_pending", id |-> id]

\* accumulated_response: None, a step's text, or a message of the handler's own.
Unset == [shape |-> "unset", from |-> 0]
Notice == [shape |-> "notice", from |-> 0]
TextOf(step, shape) == [shape |-> shape, from |-> step]
Response == [shape : Shape \union {"unset", "notice"}, from : Nat]

-----------------------------------------------------------------------------
(* What a call returns.  The intent of need_tool is the planned one with    *)
(* its placeholder substituted: the file for MOST_RECENT_FILE, the          *)
(* accumulated response for FS_RESULT.                                      *)

NoFile == "no file"
Idle == [status |-> "idle"]
NeedTool(step, file, evidence) ==
    [status |-> "need_tool", tool |-> step.tool, slot |-> step.slot,
     file |-> file, evidence |-> evidence]
Awaiting(id) == [status |-> "awaiting_approval", id |-> id]
Complete(answer) == [status |-> "complete", answer |-> answer]

-----------------------------------------------------------------------------
SessionInit ==
    /\ state = "initial"
    /\ plan = <<>>
    /\ stepIndex = 0
    /\ response = Unset
    /\ listing = <<>>
    /\ traces = <<>>
    /\ approvals = <<>>
    /\ outcome = Idle

\* First call: route, build the plan, hand out its first intent unchanged.
\* An empty plan completes at once, with no answer and the state still Executing.
StartSession(p) ==
    /\ state = "initial"
    /\ state' = "executing"
    /\ plan' = p
    /\ outcome' = IF p = <<>> THEN Complete(Unset) ELSE NeedTool(p[1], NoFile, Unset)
    /\ UNCHANGED <<stepIndex, response, listing, traces, approvals>>

\* The result is an approval that is still pending: nothing is traced, no step ends.
AwaitApproval(r) ==
    /\ r.kind = "approval_pending"
    /\ approvals' = Append(approvals, r.id)
    /\ outcome' = Awaiting(r.id)
    /\ UNCHANGED <<state, plan, stepIndex, response, listing, traces>>

\* Fault: traced after step_index was advanced.
TracedAfterAdvance(ok) ==
    IF stepIndex + 1 < Len(plan)
    THEN Append(traces, [tool |-> plan[stepIndex + 2].tool, ok |-> ok])
    ELSE traces

\* Every other result is traced against the step that was current.
TracedWith(ok) ==
    IF stepIndex < Len(plan)
    THEN Append(traces, [tool |-> plan[stepIndex + 1].tool, ok |-> ok])
    ELSE traces

StopWith(answer) ==
    /\ state' = "complete"
    /\ response' = answer
    /\ outcome' = Complete(answer)

\* Fault: the failed step is handed out once more.
FailStepRetried(r) ==
    /\ r.kind = "err"
    /\ traces' = TracedWith(FALSE)
    /\ UNCHANGED <<state, plan, stepIndex, response, listing, approvals, outcome>>

\* A failed step ends the session; step_index is left where it was.
FailStep(r) ==
    /\ r.kind = "err"
    /\ traces' = TracedWith(FALSE)
    /\ StopWith(Notice)
    /\ UNCHANGED <<plan, stepIndex, listing, approvals>>

CurrentIsLlm == stepIndex < Len(plan) /\ plan[stepIndex + 1].tool = "llm_generate"

\* Fault: the sanitizer runs in Chat sessions instead of Task sessions.
NarrationRefusedInChat(r) ==
    r.text = "narration" /\ ~IsTask(plan) /\ CurrentIsLlm

\* sanitize_llm_generate_output refuses the model's text in a Task session.
NarrationRefused(r) ==
    r.text = "narration" /\ IsTask(plan) /\ CurrentIsLlm

NewListing(r) == IF r.sorted.present THEN r.sorted.names ELSE listing

RejectNarration(r) ==
    /\ r.kind = "ok"
    /\ NarrationRefused(r)
    /\ traces' = TracedWith(TRUE)
    /\ listing' = NewListing(r)
    /\ StopWith(Notice)
    /\ UNCHANGED <<plan, stepIndex, approvals>>

\* A payload without text is accumulated as its JSON serialisation.
NewResponse(r) ==
    TextOf(stepIndex + 1, IF r.text = "absent" THEN "brace" ELSE r.text)

\* Fault: only a missing result is refused, not an unreadable one.
EvidenceUnset(step, resp) ==
    step.tool = "llm_generate" /\ step.slot = "FS_RESULT" /\ resp.shape = "unset"

\* Guard B of check_llm_generate_precondition.
EvidenceMissing(step, resp) ==
    /\ step.tool = "llm_generate"
    /\ step.slot = "FS_RESULT"
    /\ resp.shape \in {"unset", "blank", "brace"}

\* sortedByModified is newest first.
MostRecent(names) == Head(names)

\* What next_action returns once step_index has been advanced to `next`.
EmitOrStop(next, resp, names) ==
    IF next >= Len(plan) THEN StopWith(resp)
    ELSE LET step == plan[next + 1] IN
         CASE IsTask(plan) /\ EvidenceMissing(step, resp) -> StopWith(Notice)
           [] step.slot = "MOST_RECENT_FILE" /\ names = <<>> -> StopWith(Notice)
           [] OTHER ->
                /\ state' = state
                /\ response' = resp
                /\ outcome' =
                     NeedTool(step,
                              IF step.slot = "MOST_RECENT_FILE" THEN MostRecent(names) ELSE NoFile,
                              IF step.slot = "FS_RESULT" THEN resp ELSE Unset)

FinishStep(r) ==
    /\ r.kind = "ok"
    /\ ~NarrationRefused(r)
    /\ traces' = TracedWith(TRUE)
    /\ listing' = NewListing(r)
    /\ stepIndex' = stepIndex + 1
    /\ EmitOrStop(stepIndex + 1, NewResponse(r), NewListing(r))
    /\ UNCHANGED <<plan, approvals>>

\* agent_step with Some(result): the whole of next_action.
AgentStep(r) ==
    AwaitApproval(r) \/ FailStep(r) \/ RejectNarration(r) \/ FinishStep(r)
=============================================================================
