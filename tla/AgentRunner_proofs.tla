-------------------------- MODULE AgentRunner_proofs --------------------------
(***************************************************************************)
(* Theorems about AgentRunner, for every set of file names, every listing  *)
(* length and every budget.  The loop and the session advance together:    *)
(* while an intent is out, the iteration is the number of the plan's step, *)
(* and what was executed is what was traced, plus at most the step whose   *)
(* result is on its way back.                                              *)
(***************************************************************************)
EXTENDS AgentRunner, SequenceTheorems, TLAPS

Payload ==
    [kind : {"ok"}, text : Shape \union {"absent"},
     sorted : [present : BOOLEAN, names : Seq(File)]]

\* The session handed out an intent and waits for its result.
IntentOut == outcome.status = "need_tool"

NotBegun ==
    /\ state = "initial"
    /\ outcome = Idle
    /\ iteration = 0
    /\ plan = <<>>
    /\ response = Unset
    /\ stepIndex = 0
    /\ traces = <<>>
    /\ executed = <<>>
    /\ consents = {}

\* Where the loop is, and where the session is.
Progress ==
    /\ lastResult \in Payload \union {Err}
    /\ IntentOut =>
         /\ state = "executing"
         /\ iteration = stepIndex + 1
         /\ stepIndex < Len(plan)
         /\ outcome.tool = plan[stepIndex + 1].tool
         /\ outcome.slot = plan[stepIndex + 1].slot
    /\ pc \in {"approval", "executing"} => IntentOut
    /\ pc \in {"step", "cancelled", "exhausted", "failed"} => IntentOut \/ NotBegun
    /\ pc = "answered" => ~IntentOut /\ state # "initial"
    /\ pc = "exhausted" => iteration = maxSteps

\* What was executed, and what was traced.
Ledger ==
    /\ IntentOut => Len(traces) = stepIndex /\ \A i \in DOMAIN traces : traces[i].ok
    /\ Len(traces) <= Len(plan)
    /\ \A i \in DOMAIN traces : traces[i].tool = plan[i].tool
    /\ pc \in {"approval", "executing"} => executed = traces
    /\ (pc \in {"step", "cancelled", "exhausted", "failed"} /\ IntentOut) =>
         \/ executed = Append(traces, [tool |-> outcome.tool, ok |-> lastResult.kind = "ok"])
         \/ executed = traces /\ lastResult = Err /\ iteration \notin consents
    /\ pc = "answered" =>
         \/ executed = traces
         \/ /\ Len(traces) \in Nat \ {0} /\ Len(traces) \notin consents
            /\ ~traces[Len(traces)].ok
            /\ traces = Append(executed, traces[Len(traces)])

\* Which iterations the user consented to.
Consent ==
    /\ consents \subseteq 1 .. iteration
    /\ pc = "approval" => iteration \notin consents /\ outcome.tool \in ApprovalRequiredKinds
    /\ (pc = "executing" /\ outcome.tool \in ApprovalRequiredKinds) => iteration \in consents
    /\ GatedOnlyWithConsent

\* What can still be executed once the run was stopped.
Stopping ==
    stopRequested =>
        /\ Len(executed) <= stoppedAt + 1
        /\ pc \in {"approval", "executing"} => Len(executed) <= stoppedAt

\* What the placeholders of the intent that is out were replaced with.
Substituted ==
    IntentOut =>
        /\ outcome.slot = "FS_RESULT" =>
             /\ outcome.evidence.from = stepIndex
             /\ outcome.evidence.shape \in {"prose", "narration"}
        /\ outcome.slot = "MOST_RECENT_FILE" =>
             listing # <<>> /\ outcome.file = Head(listing)

\* Where a full answer comes from.
Answered ==
    (pc = "answered" /\ response.shape # "notice" /\ plan # <<>>) =>
        /\ response.from = Len(plan)
        /\ executed = traces
        /\ Len(traces) = Len(plan)
        /\ \A i \in DOMAIN traces : traces[i].ok
        /\ (IsTask(plan) /\ plan[Len(plan)].tool = "llm_generate") => response.shape # "narration"

IInv ==
    /\ TypeOK
    /\ Progress
    /\ Ledger
    /\ Consent
    /\ Stopping
    /\ Substituted
    /\ Answered

-----------------------------------------------------------------------------
(* What the plans of the release look like. *)

LEMMA PlanFacts ==
    ASSUME NEW p \in Plans
    PROVE  /\ p \in Seq(Intent)
           /\ p # <<>> => Len(p) >= 1 /\ p[1].slot = "none"
           /\ \A i \in 1 .. Len(p) :
                /\ p[i].slot = "FS_RESULT" =>
                     i >= 2 /\ p[i].tool = "llm_generate" /\ IsTask(p)
                /\ p[i].slot = "MOST_RECENT_FILE" => i = 2 /\ p[1].tool = "fs_list_dir"
<1> USE DEF Intent, Tool, Slot, Step, IsTask
<1>1. CASE p = <<>>
  BY <1>1
<1>2. CASE p = <<Step("fs_list_dir", "none")>>
  BY <1>2
<1>3. CASE p = <<Step("fs_delete", "none")>>
  BY <1>3
<1>4. CASE p = LlmPlan
  BY <1>4 DEF LlmPlan
<1>5. CASE p = FsThenLlmPlan
  BY <1>5 DEF FsThenLlmPlan
<1>6. CASE p = FileReadThenLlmPlan
  BY <1>6 DEF FileReadThenLlmPlan
<1>7. CASE p = ListReadSummarizePlan
  BY <1>7 DEF ListReadSummarizePlan
<1>8. QED
  BY <1>1, <1>2, <1>3, <1>4, <1>5, <1>6, <1>7, Zenon DEF Plans, ToolsOnlyPlans

LEMMA NoListingType == NoListing \in [present : BOOLEAN, names : Seq(File)]
<1>1. <<>> \in Seq(File)
  OBVIOUS
<1>2. QED
  BY <1>1 DEF NoListing

\* What the executor reports is an error or a well-formed payload.
LEMMA ResultFacts ==
    ASSUME NEW tool, NEW r \in Results(tool)
    PROVE  r \in Payload \union {Err}
<1>1. ASSUME NEW text \in Shape \union {"absent"},
             NEW sorted \in [present : BOOLEAN, names : Seq(File)]
      PROVE  Ok(text, sorted) \in Payload
  BY DEF Ok, Payload
<1>2. ASSUME NEW names \in Seq(File)
      PROVE  Listed(names) \in [present : BOOLEAN, names : Seq(File)]
  BY DEF Listed
<1>3. "blank" \in Shape /\ Shape \subseteq Shape \union {"absent"}
  BY DEF Shape
<1>4. Listings \subseteq Seq(File) /\ <<>> \in Seq(File)
  <2>1. SeqOf(File, MaxFiles) \subseteq Seq(File)
    BY MaxFilesAssumption DEF SeqOf
  <2>2. QED
    BY <2>1 DEF Listings
<1>5. ASSUME NEW x \in ListResults PROVE x \in Payload
  <2>1. CASE x = Ok("blank", Listed(<<>>))
    BY <1>1, <1>2, <1>3, <1>4, <2>1
  <2>2. CASE x \in {Ok(text, Listed(names)) :
                      text \in Shape \ {"blank"}, names \in Listings \ {<<>>}}
    <3>1. PICK text \in Shape, names \in Listings : x = Ok(text, Listed(names))
      BY <2>2
    <3>2. QED
      BY <1>1, <1>2, <1>3, <1>4, <3>1
  <2>3. QED
    BY <2>1, <2>2 DEF ListResults
<1>6. ASSUME NEW x \in TextResults PROVE x \in Payload
  <2>1. PICK text \in Shape : x = Ok(text, NoListing)
    BY Zenon DEF TextResults
  <2>2. QED
    BY <1>1, <1>3, NoListingType, <2>1
<1>7. OkPayload \in Payload
  BY <1>1, NoListingType DEF OkPayload
<1>8. QED
  BY <1>5, <1>6, <1>7, Zenon DEF Results

LEMMA InitIInv == Init => IInv
<1> SUFFICES ASSUME Init PROVE IInv
  OBVIOUS
<1> USE DEF Init, SessionInit
<1>1. <<>> \in Plans
  BY DEF Plans, ToolsOnlyPlans
<1>2. TypeOK
  <2>1. Unset \in Response /\ Idle.status = "idle" /\ Err.kind = "err" /\ "step" \in Pc
    BY DEF Unset, Response, Idle, Err, Pc
  <2>2. maxSteps \in Budgets /\ iteration \in 0 .. maxSteps
    BY BudgetsAssumption
  <2>3. stepIndex \in 0 .. Len(plan)
    OBVIOUS
  <2>4. listing \in Seq(File) /\ traces \in Seq(Trace) /\ approvals \in Seq(RequestId)
        /\ executed \in Seq(Trace)
    OBVIOUS
  <2>5. QED
    BY <1>1, <2>1, <2>2, <2>3, <2>4, Zenon DEF TypeOK
<1>3. Progress
  BY DEF Progress, IntentOut, Idle, NotBegun, Err
<1>4. Ledger /\ Consent /\ Stopping /\ Substituted /\ Answered
  BY DEF Ledger, Consent, Stopping, Substituted, Answered, IntentOut, Idle, GatedOnlyWithConsent
<1>5. QED
  BY <1>2, <1>3, <1>4 DEF IInv

-----------------------------------------------------------------------------
(* The steps of the loop that do not call the session. *)

\* The loop returns without an answer.
LEMMA ReturnIInv ==
    ASSUME IInv, AgentStepThrows \/ CheckCancellation \/ StepLimitExceeded
    PROVE  IInv'
<1> USE DEF IInv
<1>0. /\ UNCHANGED <<sessionVars, maxSteps, iteration, lastResult, stopRequested, executed,
                     consents, stoppedAt>>
      /\ pc = "step"
      /\ pc' \in {"cancelled", "exhausted", "failed"}
      /\ pc' = "exhausted" => iteration = maxSteps
  BY DEF AgentStepThrows, CheckCancellation, StepLimitExceeded
<1> USE <1>0 DEF sessionVars
<1>1. TypeOK'
  BY DEF TypeOK, Pc, Ended
<1>2. Progress' /\ Ledger'
  BY DEF TypeOK, Progress, Ledger, IntentOut, NotBegun
<1>3. Consent' /\ Substituted' /\ Answered'
  BY DEF Consent, Substituted, Answered, GatedOnlyWithConsent, IntentOut
<1>4. Stopping'
  BY DEF Stopping
<1>5. QED
  BY <1>1, <1>2, <1>3, <1>4

LEMMA StopIInv == ASSUME IInv, RequestStop PROVE IInv'
<1> USE DEF IInv, RequestStop, sessionVars
<1>0. Len(executed) \in Nat
  BY DEF TypeOK
<1>1. TypeOK'
  BY <1>0 DEF TypeOK
<1>2. Progress' /\ Ledger'
  BY DEF TypeOK, Progress, Ledger, IntentOut, NotBegun
<1>3. Consent' /\ Substituted' /\ Answered'
  BY DEF Consent, Substituted, Answered, GatedOnlyWithConsent, IntentOut, IsTask
<1>4. Stopping'
  BY <1>0 DEF Stopping
<1>5. QED
  BY <1>1, <1>2, <1>3, <1>4

LEMMA StutterIInv == ASSUME IInv, UNCHANGED vars PROVE IInv'
<1> USE DEF IInv, vars, runnerVars, sessionVars
<1>1. TypeOK' /\ Stopping'
  BY DEF TypeOK, Stopping
<1>2. Progress' /\ Ledger'
  BY DEF Progress, Ledger, IntentOut, NotBegun
<1>3. Consent' /\ Substituted' /\ Answered'
  BY DEF Consent, Substituted, Answered, GatedOnlyWithConsent, IntentOut, IsTask
<1>4. QED
  BY <1>1, <1>2, <1>3

\* While an intent is out, the step it belongs to is a step of the plan.
LEMMA CurrentStep ==
    ASSUME IInv, IntentOut
    PROVE  /\ plan \in Seq(Intent) /\ Len(plan) \in Nat /\ maxSteps \in Nat
           /\ stepIndex \in Nat /\ stepIndex + 1 \in 1 .. Len(plan)
           /\ plan[stepIndex + 1] \in Intent
           /\ iteration \in 1 .. maxSteps
<1>1. plan \in Seq(Intent)
  BY PlanFacts DEF IInv, TypeOK
<1>2. Len(plan) \in Nat /\ maxSteps \in Nat
  BY <1>1, BudgetsAssumption DEF IInv, TypeOK
<1>3. stepIndex \in Nat /\ stepIndex + 1 \in 1 .. Len(plan)
  BY <1>2 DEF IInv, TypeOK, Progress
<1>4. iteration \in 1 .. maxSteps
  BY <1>2, <1>3 DEF IInv, TypeOK, Progress
<1>5. QED
  BY <1>1, <1>2, <1>3, <1>4

LEMMA ApproveIInv == ASSUME IInv, Approve PROVE IInv'
<1> USE DEF IInv, Approve, sessionVars
<1>0. iteration \in 1 .. maxSteps /\ maxSteps \in Nat
  BY CurrentStep DEF Progress
<1>1. TypeOK'
  BY <1>0 DEF TypeOK, Pc
<1>2. Progress' /\ Ledger'
  BY DEF TypeOK, Progress, Ledger, IntentOut, NotBegun
<1>3. Consent' /\ Substituted' /\ Answered'
  BY <1>0 DEF Consent, Substituted, Answered, GatedOnlyWithConsent, IntentOut
<1>4. Stopping'
  BY DEF Stopping
<1>5. QED
  BY <1>1, <1>2, <1>3, <1>4

LEMMA DenyIInv == ASSUME IInv, Deny PROVE IInv'
<1> USE DEF IInv, Deny, sessionVars
<1>1. TypeOK'
  BY DEF TypeOK, Pc, Err
<1>2. Progress' /\ Ledger'
  BY DEF TypeOK, Progress, Ledger, IntentOut, NotBegun, Consent
<1>3. Consent' /\ Substituted' /\ Answered'
  BY DEF Consent, Substituted, Answered, GatedOnlyWithConsent, IntentOut
<1>4. Stopping'
  BY DEF TypeOK, Stopping
<1>5. QED
  BY <1>1, <1>2, <1>3, <1>4

LEMMA ExecuteIInv == ASSUME IInv, Execute PROVE IInv'
<1> USE DEF IInv, Execute, sessionVars
<1>1. lastResult' \in Payload \union {Err} /\ lastResult'.kind \in {"ok", "err"}
  <2>1. lastResult' \in Payload \union {Err}
    BY ResultFacts
  <2>2. QED
    BY <2>1 DEF Payload, Err
<1>2. IntentOut /\ executed = traces /\ outcome.tool = plan[stepIndex + 1].tool
  BY DEF Progress, Ledger
<1>3. outcome.tool \in Tool
  BY <1>2, CurrentStep DEF Intent
<1>4. [tool |-> outcome.tool, ok |-> lastResult'.kind = "ok"] \in Trace
  BY <1>3 DEF Trace
<1>5. executed' \in Seq(Trace) /\ Len(executed') = Len(executed) + 1
  BY <1>4 DEF TypeOK
<1>6. TypeOK'
  BY <1>1, <1>5 DEF TypeOK, Pc
<1>7. Progress' /\ Ledger'
  BY <1>1, <1>2 DEF TypeOK, Progress, Ledger, IntentOut, NotBegun
<1>8. Len(executed) + 1 = iteration
  BY <1>2 DEF Progress, Ledger
<1>9. \A i \in DOMAIN executed' :
        executed'[i].tool \in ApprovalRequiredKinds => i \in consents
  BY <1>8, <1>4 DEF TypeOK, Consent, GatedOnlyWithConsent
<1>10. Consent'
  BY <1>9 DEF Consent, GatedOnlyWithConsent
<1>11. Substituted' /\ Answered'
  BY DEF Substituted, Answered, IntentOut
<1>12. Stopping'
  BY <1>5 DEF TypeOK, Stopping
<1>13. QED
  BY <1>6, <1>7, <1>10, <1>11, <1>12

-----------------------------------------------------------------------------
(* The steps that call the session: its first call, and the ways a result   *)
(* can end it or make it hand out the next intent.                          *)

LEMMA StartIInv ==
    ASSUME IInv, Iterate, NEW p \in Plans, StartSession(p)
    PROVE  IInv'
<1> USE DEF IInv, Iterate
<1>1. NotBegun /\ maxSteps \in Nat
  BY BudgetsAssumption DEF StartSession, Progress, TypeOK, Ended
<1>2. p \in Seq(Intent) /\ Len(p) \in Nat
  BY PlanFacts
<1>3. CASE p = <<>>
  <2>1. outcome'.status = "complete" /\ pc' = "answered"
    BY <1>3 DEF StartSession, Complete, AfterStep
  <2>2. TypeOK'
    BY <1>1, <1>3, <2>1 DEF StartSession, NotBegun, TypeOK, Pc, Ended
  <2>3. QED
    BY <1>1, <1>3, <2>1, <2>2 DEF StartSession, NotBegun, Progress, Ledger, Consent, Stopping,
       Substituted, Answered, IntentOut, GatedOnlyWithConsent
<1>4. CASE p # <<>>
  <2>1. /\ outcome' = NeedTool(p[1], NoFile, Unset)
        /\ p[1].slot = "none" /\ Len(p) >= 1
    BY <1>4, PlanFacts DEF StartSession
  <2>2. /\ outcome'.status = "need_tool"
        /\ outcome'.tool = p[1].tool /\ outcome'.slot = "none"
        /\ pc' = IF p[1].tool \in ApprovalRequiredKinds THEN "approval" ELSE "executing"
    BY <2>1 DEF NeedTool, AfterStep
  <2>3. TypeOK'
    BY <1>1, <1>2, <2>1, <2>2 DEF StartSession, NotBegun, TypeOK, Pc
  <2>4. Progress' /\ Ledger'
    BY <1>1, <1>2, <2>1, <2>2 DEF StartSession, NotBegun, Progress, Ledger, IntentOut
  <2>5. QED
    BY <1>1, <2>2, <2>3, <2>4 DEF StartSession, NotBegun, Consent, Stopping, Substituted,
       Answered, IntentOut, GatedOnlyWithConsent
<1>5. QED
  BY <1>3, <1>4

\* Once the session has begun, a step of the loop brings it the result of the
\* intent that is out.
LEMMA ResultStep ==
    ASSUME IInv, Iterate, state # "initial", NEW b \in BOOLEAN
    PROVE  /\ IntentOut
           /\ TracedWith(b) = Append(traces, [tool |-> outcome.tool, ok |-> b])
           /\ TracedWith(b) \in Seq(Trace)
           /\ Len(TracedWith(b)) = stepIndex + 1
           /\ \A i \in 1 .. stepIndex + 1 : TracedWith(b)[i].tool = plan[i].tool
           /\ b => \A i \in 1 .. stepIndex + 1 : TracedWith(b)[i].ok
           /\ TracedWith(b)[stepIndex + 1].ok = b
<1>1. IntentOut
  BY DEF IInv, Iterate, Progress, NotBegun
<1>2. /\ stepIndex \in Nat /\ stepIndex < Len(plan) /\ outcome.tool = plan[stepIndex + 1].tool
      /\ outcome.tool \in Tool
  BY <1>1, CurrentStep DEF IInv, Progress, Intent
<1>3. [tool |-> outcome.tool, ok |-> b] \in Trace
  BY <1>2 DEF Trace
<1>4. TracedWith(b) = Append(traces, [tool |-> outcome.tool, ok |-> b])
  BY <1>2 DEF TracedWith
<1>5. traces \in Seq(Trace) /\ Len(traces) = stepIndex
  BY <1>1 DEF IInv, TypeOK, Ledger
<1>6. \A i \in DOMAIN traces : traces[i].ok /\ traces[i].tool = plan[i].tool
  BY <1>1 DEF IInv, Ledger
<1>7. QED
  BY <1>1, <1>2, <1>3, <1>4, <1>5, <1>6, SMTT(40)

\* The session ends with this answer: the loop is answered, and what was
\* executed is what was traced, or the last trace is a denial.
LEMMA EndedIInv ==
    ASSUME IInv, Iterate, state # "initial", NEW answer \in Response, StopWith(answer),
           traces' = TracedWith(lastResult.kind = "ok"), plan' = plan, approvals' = approvals,
           stepIndex' \in 0 .. Len(plan), listing' \in Seq(File), Answered'
    PROVE  IInv'
<1> USE DEF IInv, Iterate
<1> DEFINE ok == lastResult.kind = "ok"
<1>0. ok \in BOOLEAN
  OBVIOUS
<1>1. /\ IntentOut
      /\ traces' = Append(traces, [tool |-> outcome.tool, ok |-> ok])
      /\ traces' \in Seq(Trace)
      /\ Len(traces') = stepIndex + 1
      /\ \A i \in 1 .. stepIndex + 1 : traces'[i].tool = plan[i].tool
      /\ traces'[stepIndex + 1].ok = ok
  BY <1>0, ResultStep
<1>2. /\ stepIndex \in Nat /\ stepIndex + 1 \in 1 .. Len(plan) /\ maxSteps \in Nat
      /\ iteration = stepIndex + 1
  BY <1>1, CurrentStep DEF Progress
<1>3. /\ state' = "complete" /\ response' = answer /\ outcome'.status = "complete"
      /\ pc' = "answered"
  BY DEF StopWith, Complete, AfterStep
<1>4. TypeOK'
  BY <1>1, <1>2, <1>3 DEF TypeOK, Pc, Ended
<1>5. Progress'
  BY <1>3 DEF Progress, IntentOut
<1>6. Ledger'
  <2>1. \/ executed = traces'
        \/ ~ok /\ executed = traces /\ iteration \notin consents
    <3>1. pc = "step" /\ lastResult = Err => ~ok
      BY DEF Err
    <3>2. QED
      BY <1>1, <3>1, Zenon DEF Ledger
  <2>2. traces'[Len(traces')] = [tool |-> outcome.tool, ok |-> ok]
    BY <1>1, <1>2 DEF TypeOK
  <2>3. Len(traces') <= Len(plan) /\ DOMAIN traces' = 1 .. stepIndex + 1
    BY <1>1, <1>2
  <2>4. executed' = traces' \/ /\ Len(traces') \in Nat \ {0} /\ Len(traces') \notin consents'
                                /\ ~traces'[Len(traces')].ok
                                /\ traces' = Append(executed', traces'[Len(traces')])
    <3>1. CASE executed = traces'
      BY <3>1
    <3>2. CASE ~ok /\ executed = traces /\ iteration \notin consents
      <4>1. Len(traces') \in Nat \ {0} /\ Len(traces') \notin consents'
        BY <1>1, <1>2, <3>2
      <4>2. ~traces'[Len(traces')].ok
        BY <1>1, <3>2, Zenon
      <4>3. traces' = Append(executed', traces'[Len(traces')])
        BY <1>1, <2>2, <3>2, Zenon
      <4>4. QED
        BY <4>1, <4>2, <4>3
    <3>3. QED
      BY <2>1, <3>1, <3>2
  <2>5. QED
    BY <1>1, <1>3, <2>3, <2>4 DEF Ledger, IntentOut
<1>7. Consent'
  BY <1>2, <1>3 DEF TypeOK, Consent, GatedOnlyWithConsent
<1>8. Stopping' /\ Substituted'
  BY <1>3 DEF Stopping, Substituted, IntentOut
<1>9. QED
  BY <1>4, <1>5, <1>6, <1>7, <1>8

\* The session hands out the next intent of the plan.
LEMMA EmittedIInv ==
    ASSUME IInv, Iterate, state # "initial", lastResult \in Payload,
           traces' = TracedWith(lastResult.kind = "ok"), plan' = plan, approvals' = approvals,
           stepIndex' = stepIndex + 1, stepIndex + 1 < Len(plan),
           response' \in Response, listing' \in Seq(File), state' = state,
           outcome'.status = "need_tool", outcome'.tool = plan[stepIndex + 2].tool,
           outcome'.slot = plan[stepIndex + 2].slot, Substituted'
    PROVE  IInv'
<1>0. /\ TypeOK /\ Progress /\ Ledger /\ Consent
      /\ pc = "step" /\ iteration < maxSteps /\ iteration' = iteration + 1 /\ ~stopRequested
      /\ pc' = AfterStep(outcome')
      /\ UNCHANGED <<maxSteps, lastResult, stopRequested, executed, consents, stoppedAt>>
  BY DEF IInv, Iterate
<1>1. lastResult # Err /\ lastResult.kind = "ok"
  BY DEF Payload, Err
<1>2. /\ IntentOut
      /\ traces' \in Seq(Trace)
      /\ Len(traces') = stepIndex + 1
      /\ \A i \in 1 .. stepIndex + 1 : traces'[i].tool = plan[i].tool /\ traces'[i].ok
  BY <1>1, ResultStep
<1>3. /\ stepIndex \in Nat /\ Len(plan) \in Nat /\ maxSteps \in Nat
      /\ iteration = stepIndex + 1
  BY <1>0, <1>2, CurrentStep DEF Progress
<1>4. pc' = IF outcome'.tool \in ApprovalRequiredKinds THEN "approval" ELSE "executing"
  BY <1>0 DEF AfterStep
<1>5. TypeOK'
  BY <1>0, <1>2, <1>3, <1>4 DEF TypeOK, Pc
<1>6. Progress'
  <2>1. IntentOut' /\ stepIndex' + 1 = stepIndex + 2
    BY <1>3, <1>4 DEF IntentOut
  <2>2. state' = "executing" /\ iteration' = stepIndex' + 1 /\ stepIndex' < Len(plan')
    BY <1>0, <1>2, <1>3 DEF Progress
  <2>3. QED
    BY <1>0, <1>4, <2>1, <2>2 DEF Progress
<1>7. Ledger'
  <2>1. executed' = traces'
    <3>1. traces' = Append(traces, [tool |-> outcome.tool, ok |-> lastResult.kind = "ok"])
      BY ResultStep
    <3>2. QED
      BY <1>0, <1>2, <1>1, <3>1 DEF Ledger
  <2>2. DOMAIN traces' = 1 .. stepIndex + 1
    BY <1>2, <1>3
  <2>3. \A i \in DOMAIN traces' : traces'[i].tool = plan'[i].tool /\ traces'[i].ok
    BY <1>2, <2>2
  <2>4. Len(traces') = stepIndex' /\ Len(traces') <= Len(plan')
    BY <1>2, <1>3
  <2>5. pc' \in {"approval", "executing"}
    BY <1>4
  <2>6. QED
    BY <2>1, <2>3, <2>4, <2>5 DEF Ledger
<1>8. Consent'
  BY <1>0, <1>3, <1>4 DEF TypeOK, Consent, GatedOnlyWithConsent
<1>9. Stopping' /\ Answered'
  BY <1>0, <1>4 DEF Stopping, Answered
<1>10. QED
  BY <1>5, <1>6, <1>7, <1>8, <1>9 DEF IInv

LEMMA FailedIInv ==
    ASSUME IInv, Iterate, state # "initial", FailStep(lastResult) \/ RejectNarration(lastResult)
    PROVE  IInv'
<1>1. traces' = TracedWith(lastResult.kind = "ok")
  <2>1. CASE FailStep(lastResult)
    <3>1. (lastResult.kind = "ok") = FALSE
      BY <2>1 DEF FailStep
    <3>2. QED
      BY <2>1, <3>1, Zenon DEF FailStep
  <2>2. CASE RejectNarration(lastResult)
    <3>1. (lastResult.kind = "ok") = TRUE
      BY <2>2 DEF RejectNarration
    <3>2. QED
      BY <2>2, <3>1, Zenon DEF RejectNarration
  <2>3. QED
    BY <2>1, <2>2
<1>2. /\ StopWith(Notice) /\ plan' = plan /\ approvals' = approvals /\ stepIndex' = stepIndex
      /\ listing' # listing => lastResult.kind = "ok" /\ listing' = NewListing(lastResult)
  <2>1. CASE FailStep(lastResult)
    BY <2>1 DEF FailStep
  <2>2. CASE RejectNarration(lastResult)
    BY <2>2 DEF RejectNarration
  <2>3. QED
    BY <2>1, <2>2
<1>3. Notice \in Response /\ Notice.shape = "notice"
  BY DEF Notice, Response
<1>4. listing' \in Seq(File)
  <2>1. lastResult.kind = "ok" => lastResult \in Payload
    BY DEF IInv, Progress, Err
  <2>2. QED
    BY <1>2, <2>1 DEF NewListing, Payload, IInv, TypeOK
<1>5. Answered'
  BY <1>2, <1>3 DEF StopWith, Answered
<1>6. stepIndex' \in 0 .. Len(plan)
  BY <1>2 DEF IInv, TypeOK
<1>7. QED
  BY <1>1, <1>2, <1>3, <1>4, <1>5, <1>6, EndedIInv

\* What EmitOrStop decides, case by case.
LEMMA EmitCases ==
    ASSUME NEW next, NEW resp, NEW names, EmitOrStop(next, resp, names)
    PROVE  \/ next >= Len(plan) /\ StopWith(resp)
           \/ StopWith(Notice)
           \/ /\ ~(next >= Len(plan))
              /\ ~(IsTask(plan) /\ EvidenceMissing(plan[next + 1], resp))
              /\ ~(plan[next + 1].slot = "MOST_RECENT_FILE" /\ names = <<>>)
              /\ state' = state
              /\ response' = resp
              /\ outcome' =
                   NeedTool(plan[next + 1],
                            IF plan[next + 1].slot = "MOST_RECENT_FILE"
                            THEN MostRecent(names) ELSE NoFile,
                            IF plan[next + 1].slot = "FS_RESULT" THEN resp ELSE Unset)
  BY Zenon DEF EmitOrStop

\* A result that is accumulated: its text, its listing, and their provenance.
LEMMA FinishFacts ==
    ASSUME IInv, Iterate, state # "initial", FinishStep(lastResult)
    PROVE  /\ IntentOut /\ lastResult \in Payload
           /\ NewResponse(lastResult) \in Response
           /\ NewResponse(lastResult).from = stepIndex + 1
           /\ NewResponse(lastResult).shape \in Shape
           /\ NewResponse(lastResult).shape = "narration" => lastResult.text = "narration"
           /\ NewListing(lastResult) \in Seq(File)
           /\ traces' = TracedWith(lastResult.kind = "ok")
           /\ executed = traces'
<1>1. lastResult \in Payload /\ lastResult.kind = "ok"
  BY DEF FinishStep, IInv, Progress, Err
<1>2. IntentOut /\ stepIndex \in Nat
  BY ResultStep, CurrentStep
<1>3. NewListing(lastResult) \in Seq(File)
  BY <1>1 DEF NewListing, Payload, IInv, TypeOK
<1>4. /\ NewResponse(lastResult).from = stepIndex + 1
      /\ NewResponse(lastResult).shape = IF lastResult.text = "absent" THEN "brace" ELSE lastResult.text
      /\ NewResponse(lastResult) = TextOf(stepIndex + 1, NewResponse(lastResult).shape)
  BY DEF NewResponse, TextOf
<1>5. lastResult.text \in Shape \union {"absent"}
  BY <1>1 DEF Payload
<1>6. NewResponse(lastResult).shape \in Shape
  BY <1>4, <1>5 DEF Shape
<1>7. NewResponse(lastResult) \in Response
  BY <1>2, <1>4, <1>6 DEF TextOf, Response
<1>8. traces' = TracedWith(lastResult.kind = "ok")
  <2>1. (lastResult.kind = "ok") = TRUE
    BY <1>1
  <2>2. QED
    BY <2>1, Zenon DEF FinishStep
<1>9. executed = traces'
  <2>1. traces' = Append(traces, [tool |-> outcome.tool, ok |-> lastResult.kind = "ok"])
    BY <1>8, ResultStep
  <2>2. lastResult # Err /\ pc = "step"
    BY <1>1 DEF Err, Payload, Iterate
  <2>3. QED
    BY <1>2, <2>1, <2>2, Zenon DEF IInv, Ledger
<1>10. QED
  BY <1>1, <1>2, <1>3, <1>4, <1>6, <1>7, <1>8, <1>9

\* Is the text that answers the task the text of its last step, and no narration?
LEMMA AnsweredFacts ==
    ASSUME IInv, Iterate, state # "initial", FinishStep(lastResult), stepIndex + 1 >= Len(plan),
           StopWith(NewResponse(lastResult))
    PROVE  Answered'
<1> DEFINE resp == NewResponse(lastResult)
<1>1. /\ IntentOut /\ resp.from = stepIndex + 1 /\ executed = traces'
      /\ resp.shape = "narration" => lastResult.text = "narration"
      /\ traces' = TracedWith(lastResult.kind = "ok")
  BY FinishFacts
<1>2. Len(plan) = stepIndex + 1 /\ stepIndex \in Nat
  BY <1>1, CurrentStep
<1>3. /\ Len(traces') = Len(plan) /\ traces' \in Seq(Trace)
      /\ \A i \in 1 .. Len(plan) : traces'[i].ok
  <2>1. lastResult.kind = "ok"
    BY DEF FinishStep
  <2>2. QED
    BY <1>1, <1>2, <2>1, ResultStep
<1>4. \A i \in DOMAIN traces' : traces'[i].ok
  BY <1>2, <1>3
<1>5. (IsTask(plan) /\ plan[Len(plan)].tool = "llm_generate") => resp.shape # "narration"
  BY <1>1, <1>2 DEF FinishStep, NarrationRefused, CurrentIsLlm
<1>6. plan' = plan /\ response' = resp /\ executed' = executed
  BY DEF FinishStep, StopWith, Iterate
<1>7. QED
  BY <1>1, <1>2, <1>3, <1>4, <1>5, <1>6 DEF Answered, IsTask

LEMMA FinishIInv ==
    ASSUME IInv, Iterate, state # "initial", FinishStep(lastResult)
    PROVE  IInv'
<1> DEFINE resp == NewResponse(lastResult)
           names == NewListing(lastResult)
<1>1. /\ IntentOut /\ lastResult \in Payload /\ resp \in Response /\ names \in Seq(File)
      /\ resp.from = stepIndex + 1 /\ resp.shape \in Shape
      /\ traces' = TracedWith(lastResult.kind = "ok")
  BY FinishFacts
<1>2. /\ plan' = plan /\ approvals' = approvals /\ stepIndex' = stepIndex + 1 /\ listing' = names
      /\ EmitOrStop(stepIndex + 1, resp, names)
  BY DEF FinishStep
<1>3. stepIndex \in Nat /\ stepIndex + 1 \in 1 .. Len(plan) /\ Len(plan) \in Nat
  BY <1>1, CurrentStep
<1>4. CASE stepIndex + 1 >= Len(plan) /\ StopWith(resp)
  BY <1>1, <1>2, <1>3, <1>4, AnsweredFacts, EndedIInv
<1>5. CASE StopWith(Notice)
  <2>1. Notice \in Response /\ Answered'
    BY <1>5 DEF Notice, Response, StopWith, Answered
  <2>2. QED
    BY <1>1, <1>2, <1>3, <1>5, <2>1, EndedIInv
<1>6. CASE /\ ~(stepIndex + 1 >= Len(plan))
           /\ ~(IsTask(plan) /\ EvidenceMissing(plan[stepIndex + 2], resp))
           /\ ~(plan[stepIndex + 2].slot = "MOST_RECENT_FILE" /\ names = <<>>)
           /\ state' = state
           /\ response' = resp
           /\ outcome' =
                NeedTool(plan[stepIndex + 2],
                         IF plan[stepIndex + 2].slot = "MOST_RECENT_FILE"
                         THEN MostRecent(names) ELSE NoFile,
                         IF plan[stepIndex + 2].slot = "FS_RESULT" THEN resp ELSE Unset)
  <2>1. stepIndex + 1 < Len(plan) /\ stepIndex + 2 \in 1 .. Len(plan)
    BY <1>3, <1>6
  <2>2. /\ outcome'.status = "need_tool" /\ outcome'.tool = plan[stepIndex + 2].tool
        /\ outcome'.slot = plan[stepIndex + 2].slot
        /\ outcome'.slot = "FS_RESULT" => outcome'.evidence = resp
        /\ outcome'.slot = "MOST_RECENT_FILE" => outcome'.file = Head(names) /\ names # <<>>
    BY <1>6 DEF NeedTool, MostRecent
  <2>3. plan[stepIndex + 2].slot = "FS_RESULT" =>
            IsTask(plan) /\ plan[stepIndex + 2].tool = "llm_generate"
    BY <2>1, PlanFacts DEF IInv, TypeOK
  <2>4. plan[stepIndex + 2].slot = "FS_RESULT" => resp.shape \in {"prose", "narration"}
    BY <1>1, <1>6, <2>3 DEF EvidenceMissing, Shape
  <2>5. Substituted'
    BY <1>1, <1>2, <2>2, <2>4 DEF Substituted
  <2>6. QED
    BY <1>1, <1>2, <1>6, <2>1, <2>2, <2>5, EmittedIInv
<1>7. QED
  <2>1. stepIndex + 1 + 1 = stepIndex + 2
    BY <1>3
  <2>2. QED
    BY <1>2, <1>4, <1>5, <1>6, <2>1, EmitCases

LEMMA NextIInv == IInv /\ [Next]_vars => IInv'
<1> SUFFICES ASSUME IInv, [Next]_vars PROVE IInv'
  OBVIOUS
<1>1. CASE Iterate
  <2>1. ASSUME NEW p \in Plans, StartSession(p) PROVE IInv'
    BY <1>1, <2>1, StartIInv
  <2>2. CASE state # "initial" /\ (FailStep(lastResult) \/ RejectNarration(lastResult))
    BY <1>1, <2>2, FailedIInv
  <2>3. CASE state # "initial" /\ FinishStep(lastResult)
    BY <1>1, <2>3, FinishIInv
  <2>4. QED
    BY <1>1, <2>1, <2>2, <2>3 DEF Iterate, FfiAgentStep
<1>2. CASE AgentStepThrows \/ CheckCancellation \/ StepLimitExceeded
  BY <1>2, ReturnIInv
<1>3. CASE Approve
  BY <1>3, ApproveIInv
<1>4. CASE Deny
  BY <1>4, DenyIInv
<1>5. CASE Execute
  BY <1>5, ExecuteIInv
<1>6. CASE RequestStop
  BY <1>6, StopIInv
<1>7. CASE UNCHANGED vars
  BY <1>7, StutterIInv
<1>8. QED
  BY <1>1, <1>2, <1>3, <1>4, <1>5, <1>6, <1>7 DEF Next, Terminated

LEMMA Inductive == Spec => []IInv
  BY InitIInv, NextIInv, PTL DEF Spec

-----------------------------------------------------------------------------
(* The properties of AgentRunner. *)

\* Every reachable state of the loop and its session has the declared types.
THEOREM TypeCorrect == Spec => []TypeOK
<1>1. IInv => TypeOK
  BY DEF IInv
<1>2. QED
  BY <1>1, Inductive, PTL

\* A tool that changes something runs only after the user granted that step.
THEOREM ConsentPerStep == Spec => []GatedOnlyWithConsent
<1>1. IInv => GatedOnlyWithConsent
  BY DEF IInv, Consent
<1>2. QED
  BY <1>1, Inductive, PTL

\* After Stop at most the tool already under way still completes.
THEOREM StopIsPrompt == Spec => []AtMostOneToolAfterStop
<1>1. IInv => AtMostOneToolAfterStop
  BY DEF IInv, Stopping, AtMostOneToolAfterStop
<1>2. QED
  BY <1>1, Inductive, PTL

\* Only a plan that the budget cannot hold exhausts it.
THEOREM BudgetSuffices == Spec => []BudgetOnlyForLongPlans
<1>1. IInv => BudgetOnlyForLongPlans
  <2> SUFFICES ASSUME IInv, pc = "exhausted" PROVE Len(plan) >= maxSteps
    BY DEF BudgetOnlyForLongPlans
  <2>1. IntentOut
    BY BudgetsAssumption DEF IInv, TypeOK, Progress, NotBegun
  <2>2. QED
    BY <2>1, CurrentStep DEF IInv, Progress
<1>2. QED
  BY <1>1, Inductive, PTL

\* An intent that asks the model about a tool's output carries the output of
\* the step before it, which succeeded.
THEOREM EvidenceIsFresh == Spec => []EvidenceIsLastResult
<1>1. IInv => EvidenceIsLastResult
  <2> SUFFICES ASSUME IInv, IntentOut, outcome.slot = "FS_RESULT"
               PROVE  /\ outcome.evidence.from = stepIndex
                      /\ outcome.evidence.shape \notin {"unset", "blank", "brace", "notice"}
                      /\ Len(traces) >= stepIndex
                      /\ traces[stepIndex].ok
    BY DEF EvidenceIsLastResult, IntentOut
  <2>1. stepIndex \in Nat /\ stepIndex + 1 \in 1 .. Len(plan)
        /\ plan[stepIndex + 1].slot = "FS_RESULT"
    BY CurrentStep DEF IInv, Progress
  <2>2. stepIndex >= 1
    BY <2>1, PlanFacts DEF IInv, TypeOK
  <2>3. Len(traces) = stepIndex /\ traces \in Seq(Trace) /\ \A i \in DOMAIN traces : traces[i].ok
    BY DEF IInv, TypeOK, Ledger
  <2>4. stepIndex \in DOMAIN traces
    BY <2>1, <2>2, <2>3
  <2>5. QED
    BY <2>1, <2>3, <2>4 DEF IInv, Substituted
<1>2. QED
  BY <1>1, Inductive, PTL

\* The file read as "most recent" is the newest of a listing made in this run.
THEOREM MostRecentIsListed == Spec => []MostRecentFileIsListed
<1>1. IInv => MostRecentFileIsListed
  <2> SUFFICES ASSUME IInv, IntentOut, outcome.slot = "MOST_RECENT_FILE"
               PROVE  /\ outcome.file \in File
                      /\ outcome.file = Head(listing)
                      /\ \E i \in 1 .. stepIndex :
                            executed[i] = [tool |-> "fs_list_dir", ok |-> TRUE]
    BY DEF MostRecentFileIsListed, IntentOut
  <2>1. stepIndex \in Nat /\ stepIndex + 1 \in 1 .. Len(plan)
        /\ plan[stepIndex + 1].slot = "MOST_RECENT_FILE"
    BY CurrentStep DEF IInv, Progress
  <2>2. stepIndex = 1 /\ plan[1].tool = "fs_list_dir"
    BY <2>1, PlanFacts DEF IInv, TypeOK
  <2>3. traces \in Seq(Trace) /\ Len(traces) = 1 /\ traces[1].tool = "fs_list_dir" /\ traces[1].ok
    BY <2>2 DEF IInv, TypeOK, Ledger
  <2>4. traces[1] = [tool |-> "fs_list_dir", ok |-> TRUE]
    <3>1. traces[1] \in Trace
      BY <2>3
    <3>2. traces[1] = [tool |-> traces[1].tool, ok |-> traces[1].ok]
      BY <3>1, Zenon DEF Trace
    <3>3. (traces[1].ok) = TRUE
      BY <2>3, <3>1 DEF Trace
    <3>4. QED
      BY <2>3, <3>2, <3>3, Zenon
  <2>5. executed[1] = traces[1]
    <3>1. pc # "answered"
      BY DEF IInv, Progress
    <3>2. executed = traces \/ \E x : executed = Append(traces, x)
      BY <3>1, Zenon DEF IInv, Ledger, TypeOK, Pc, Ended
    <3>3. QED
      BY <2>3, <3>2
  <2>6. listing # <<>> /\ listing \in Seq(File) /\ outcome.file = Head(listing)
    BY DEF IInv, TypeOK, Substituted
  <2>7. QED
    BY <2>2, <2>4, <2>5, <2>6
<1>2. QED
  BY <1>1, Inductive, PTL

\* Both placeholders of a plan, FS_RESULT and MOST_RECENT_FILE, are filled in from
\* the steps of this run that they speak of.
THEOREM PlaceholdersFilled == Spec => []PlaceholdersAreFresh
<1>1. EvidenceIsLastResult /\ MostRecentFileIsListed <=> PlaceholdersAreFresh
  BY DEF PlaceholdersAreFresh
<1>2. QED
  BY <1>1, EvidenceIsFresh, MostRecentIsListed, PTL

\* What the session traced is what the executor ran, except a denial.
THEOREM TracesAreTrue == Spec => []TracesMatchExecution
<1>1. IInv => TracesMatchExecution
  <2> SUFFICES ASSUME IInv, NEW i \in DOMAIN traces
               PROVE  /\ traces[i].tool = plan[i].tool
                      /\ IF i \in DOMAIN executed THEN traces[i] = executed[i]
                         ELSE ~traces[i].ok /\ i \notin consents
    BY DEF TracesMatchExecution
  <2>1. traces[i].tool = plan[i].tool
    BY DEF IInv, Ledger
  <2>2. traces \in Seq(Trace) /\ executed \in Seq(Trace) /\ i \in 1 .. Len(traces)
    BY DEF IInv, TypeOK
  <2>3. CASE executed = traces \/ \E x : executed = Append(traces, x)
    BY <2>1, <2>2, <2>3
  <2>4. CASE /\ Len(traces) \in Nat \ {0} /\ Len(traces) \notin consents
             /\ ~traces[Len(traces)].ok
             /\ traces = Append(executed, traces[Len(traces)])
    <3>1. Len(traces) = Len(executed) + 1 /\ \A j \in 1 .. Len(executed) : traces[j] = executed[j]
      BY <2>2, <2>4
    <3>2. CASE i = Len(traces)
      BY <2>1, <2>2, <2>4, <3>1, <3>2
    <3>3. CASE i # Len(traces)
      BY <2>1, <2>2, <3>1, <3>3
    <3>4. QED
      BY <3>2, <3>3
  <2>5. CASE NotBegun
    BY <2>3, <2>5 DEF NotBegun
  <2>6. QED
    BY <2>3, <2>4, <2>5, Zenon DEF IInv, Progress, Ledger, TypeOK, Pc, Ended
<1>2. QED
  BY <1>1, Inductive, PTL

\* A full answer is the text of the plan's last step, after every step was
\* performed and succeeded, and no narration in a Task session.
THEOREM AnswersAreEarned == Spec => []AnswerProvenance
<1>1. IInv => AnswerProvenance
  <2> SUFFICES ASSUME IInv, pc = "answered", response.shape # "notice", plan # <<>>
               PROVE  /\ response.from = Len(plan)
                      /\ Len(executed) = Len(plan)
                      /\ \A i \in DOMAIN executed : executed[i].ok
                      /\ (IsTask(plan) /\ Last(plan).tool = "llm_generate") =>
                           response.shape # "narration"
    BY DEF AnswerProvenance
  <2>1. plan \in Seq(Intent) /\ Last(plan) = plan[Len(plan)]
    BY PlanFacts DEF IInv, TypeOK, Last
  <2>2. QED
    BY <2>1 DEF IInv, Answered
<1>2. QED
  BY <1>1, Inductive, PTL

\* Nothing is executed after a step failed or was denied.
THEOREM FailureIsFinal == Spec => NothingAfterFailure
<1> DEFINE Safe == executed' # executed =>
                     /\ \A i \in DOMAIN executed : executed[i].ok
                     /\ \A i \in DOMAIN traces : traces[i].ok
<1>1. IInv /\ [Next]_vars => [Safe]_vars
  <2> SUFFICES ASSUME IInv, [Next]_vars, executed' # executed
               PROVE  /\ \A i \in DOMAIN executed : executed[i].ok
                      /\ \A i \in DOMAIN traces : traces[i].ok
    OBVIOUS
  <2>1. Execute
    BY DEF Next, Terminated, Iterate, AgentStepThrows, CheckCancellation, StepLimitExceeded, Approve, Deny,
           RequestStop, vars, runnerVars
  <2>2. QED
    BY <2>1 DEF Execute, IInv, Progress, Ledger
<1>2. QED
  BY <1>1, Inductive, PTL DEF Spec, NothingAfterFailure

-----------------------------------------------------------------------------
(* The run implements AgentTask.  The phase of a step of the loop follows    *)
(* from where it was and where it is, by the invariant in both states.       *)

LEMMA ToolsOfPlan ==
    ASSUME NEW p \in Plans
    PROVE  /\ ToolsOf(p) \in Seq(Tool) /\ Len(ToolsOf(p)) = Len(p) /\ Len(p) \in Nat
           /\ \A i \in 1 .. Len(p) : ToolsOf(p)[i] = p[i].tool
           /\ ToolsOf(p) = <<>> <=> p = <<>>
<1>1. p \in Seq(Intent)
  BY PlanFacts
<1>2. DOMAIN p = 1 .. Len(p) /\ Len(p) \in Nat
  BY <1>1
<1>3. ASSUME NEW i \in 1 .. Len(p) PROVE p[i].tool \in Tool
  <2>1. p[i] \in Intent
    BY <1>1
  <2>2. QED
    BY <2>1 DEF Intent
<1>4. ToolsOf(p) \in [1 .. Len(p) -> Tool]
  BY <1>2, <1>3 DEF ToolsOf
<1>5. QED
  BY <1>1, <1>2, <1>4 DEF ToolsOf

LEMMA ToolsPerformed ==
    ASSUME IInv
    PROVE  /\ ToolsDone \in Seq(Tool) /\ Len(ToolsDone) = Len(executed) /\ Len(executed) \in Nat
           /\ \A i \in 1 .. Len(executed) : ToolsDone[i] = executed[i].tool
<1>1. executed \in Seq(Trace)
  BY DEF IInv, TypeOK
<1>2. DOMAIN executed = 1 .. Len(executed) /\ Len(executed) \in Nat
  BY <1>1
<1>3. ASSUME NEW i \in 1 .. Len(executed) PROVE executed[i].tool \in Tool
  <2>1. executed[i] \in Trace
    BY <1>1
  <2>2. QED
    BY <2>1 DEF Trace
<1>4. ToolsDone \in [1 .. Len(executed) -> Tool]
  BY <1>2, <1>3 DEF ToolsDone
<1>5. QED
  BY <1>2, <1>4 DEF ToolsDone

LEMMA InitTask == Init => Task!Init
  BY DEF Init, SessionInit, Task!Init, ToolsOf, ToolsDone, Phase

LEMMA IterateTask == ASSUME IInv, IInv', Iterate PROVE [Task!Next]_(Task!taskVars)
<1>1. ToolsDone' = ToolsDone /\ consents' = consents /\ pc = "step"
  BY DEF Iterate, ToolsDone
<1>2. ASSUME NEW p \in Plans, StartSession(p) PROVE Task!Begin
  <2>1. Phase = "new" /\ ToolsOf(plan') \in {ToolsOf(q) : q \in Plans} /\ plan' = p
    BY <1>1, <1>2 DEF StartSession, Phase
  <2>2. CASE p = <<>>
    <3>1. pc' = "answered" /\ response' = Unset
      BY <1>2, <2>2 DEF StartSession, Iterate, AfterStep, Complete, IInv, Progress, NotBegun
    <3>2. Phase' = "answered"
      BY <3>1 DEF Phase, Unset, Ended
    <3>3. QED
      BY <1>1, <2>1, <2>2, <3>2, ToolsOfPlan DEF Task!Begin
  <2>3. CASE p # <<>>
    <3>1. pc' \in {"approval", "executing"} /\ state' = "executing"
      BY <1>2, <2>3 DEF StartSession, Iterate, AfterStep, NeedTool
    <3>2. Phase' = "working"
      BY <3>1 DEF Phase, Ended
    <3>3. QED
      BY <1>1, <2>1, <2>3, <3>2, ToolsOfPlan DEF Task!Begin
  <2>4. QED
    BY <2>2, <2>3
<1>3. ASSUME state # "initial",
             FailStep(lastResult) \/ RejectNarration(lastResult) \/ FinishStep(lastResult)
      PROVE  [Task!Next]_(Task!taskVars)
  <2>1. plan' = plan /\ ToolsOf(plan)' = ToolsOf(plan)
    BY <1>3 DEF FailStep, RejectNarration, FinishStep, ToolsOf
  <2>2. IntentOut /\ plan # <<>> /\ Phase = "working"
    BY <1>1, <1>3, CurrentStep DEF IInv, Progress, NotBegun, Phase, Ended
  <2>3. pc' \in {"answered", "approval", "executing"}
    BY DEF Iterate, AfterStep
  <2>4. CASE pc' # "answered"
    <3>1. Phase' = "working"
      BY <2>3, <2>4 DEF IInv, Progress, Phase, Ended
    <3>2. QED
      BY <1>1, <2>1, <2>2, <3>1 DEF Task!taskVars
  <2>5. CASE pc' = "answered" /\ response'.shape = "notice"
    <3>1. Phase' = "gave_up"
      BY <2>5 DEF Phase, Ended
    <3>2. QED
      BY <1>1, <2>1, <2>2, <3>1 DEF Task!Next, Task!GiveUp
  <2>6. CASE pc' = "answered" /\ response'.shape # "notice"
    <3>1. Phase' = "answered"
      BY <2>6 DEF Phase, Ended
    <3>2. Len(executed) = Len(plan)
      BY <2>1, <2>2, <2>6 DEF IInv, Answered, Iterate
    <3>3. Len(ToolsDone) = Len(ToolsOf(plan))
      BY <3>2, ToolsPerformed, ToolsOfPlan DEF IInv, TypeOK
    <3>4. QED
      BY <1>1, <2>1, <2>2, <3>1, <3>3 DEF Task!Next, Task!Answer
  <2>7. QED
    BY <2>3, <2>4, <2>5, <2>6
<1>4. QED
  BY <1>2, <1>3 DEF Iterate, FfiAgentStep, Task!Next

LEMMA ApproveTask == ASSUME IInv, IInv', Approve PROVE Task!Grant
<1>1. /\ IntentOut /\ executed = traces /\ Len(traces) = stepIndex
      /\ outcome.tool = plan[stepIndex + 1].tool /\ outcome.tool \in ApprovalRequiredKinds
      /\ iteration = stepIndex + 1
  BY DEF Approve, IInv, Progress, Ledger, Consent
<1>2. stepIndex + 1 \in 1 .. Len(plan) /\ stepIndex \in Nat
  BY <1>1, CurrentStep
<1>3. Len(ToolsDone) = stepIndex
  BY <1>1, ToolsPerformed
<1>4. Len(ToolsOf(plan)) = Len(plan) /\ ToolsOf(plan)[stepIndex + 1] = outcome.tool
  BY <1>1, <1>2, ToolsOfPlan DEF IInv, TypeOK
<1>5. Phase = "working" /\ Phase' = "working"
  BY <1>1 DEF Approve, Phase, Ended, sessionVars, IInv, Progress
<1>6. ToolsOf(plan)' = ToolsOf(plan) /\ ToolsDone' = ToolsDone
  BY DEF Approve, sessionVars, ToolsOf, ToolsDone
<1>7. consents' = consents \union {Len(ToolsDone) + 1}
  BY <1>1, <1>3 DEF Approve
<1>8. QED
  BY <1>1, <1>2, <1>3, <1>4, <1>5, <1>6, <1>7 DEF Task!Grant, Task!NextTool

LEMMA ExecuteTask == ASSUME IInv, IInv', Execute PROVE Task!Perform
<1>1. /\ IntentOut /\ executed = traces /\ Len(traces) = stepIndex
      /\ outcome.tool = plan[stepIndex + 1].tool /\ iteration = stepIndex + 1
      /\ outcome.tool \in ApprovalRequiredKinds => iteration \in consents
  BY DEF Execute, IInv, Progress, Ledger, Consent
<1>2. stepIndex + 1 \in 1 .. Len(plan) /\ stepIndex \in Nat
  BY <1>1, CurrentStep
<1>3. Len(ToolsDone) = stepIndex /\ ToolsDone \in Seq(Tool)
  BY <1>1, ToolsPerformed
<1>4. Len(ToolsOf(plan)) = Len(plan) /\ ToolsOf(plan)[stepIndex + 1] = outcome.tool
  BY <1>1, <1>2, ToolsOfPlan DEF IInv, TypeOK
<1>5. Phase = "working" /\ Phase' = "working"
  BY <1>1 DEF Execute, Phase, Ended, sessionVars, IInv, Progress
<1>6. ToolsOf(plan)' = ToolsOf(plan) /\ consents' = consents
  BY DEF Execute, sessionVars, ToolsOf
<1>7. ToolsDone' = Append(ToolsDone, outcome.tool)
  <2>1. /\ executed \in Seq(Trace) /\ executed' \in Seq(Trace)
        /\ Len(executed') = Len(executed) + 1 /\ executed'[Len(executed) + 1].tool = outcome.tool
        /\ \A i \in 1 .. Len(executed) : executed'[i] = executed[i]
    BY DEF Execute, IInv, TypeOK
  <2>2. \A i \in 1 .. Len(executed) + 1 : ToolsDone'[i] = executed'[i].tool
    BY <2>1 DEF ToolsDone
  <2>3. DOMAIN ToolsDone' = 1 .. Len(executed) + 1
    BY <2>1 DEF ToolsDone
  <2>4. \A i \in 1 .. Len(executed) + 1 : ToolsDone'[i] = Append(ToolsDone, outcome.tool)[i]
    BY <2>1, <2>2, ToolsPerformed
  <2>5. ToolsDone' \in Seq(Tool) /\ Len(ToolsDone') = Len(executed) + 1
    <3>1. ASSUME NEW i \in 1 .. Len(executed) + 1 PROVE executed'[i].tool \in Tool
      <4>1. executed'[i] \in Trace
        BY <2>1
      <4>2. QED
        BY <4>1 DEF Trace
    <3>2. ToolsDone' \in [1 .. Len(executed) + 1 -> Tool]
      BY <2>1, <3>1 DEF ToolsDone
    <3>3. Len(executed) \in Nat
      BY <2>1
    <3>4. QED
      BY <3>2, <3>3
  <2>6. outcome.tool \in Tool
    BY <1>1, CurrentStep DEF Intent
  <2>7. QED
    BY <2>4, <2>5, <2>6, ToolsPerformed
<1>8. QED
  BY <1>1, <1>2, <1>3, <1>4, <1>5, <1>6, <1>7 DEF Task!Perform, Task!NextTool

\* The loop returns, is denied, or is asked to stop.
LEMMA OtherTask ==
    ASSUME IInv, IInv', AgentStepThrows \/ CheckCancellation \/ StepLimitExceeded \/ Deny \/ RequestStop
    PROVE  [Task!Next]_(Task!taskVars)
<1>1. /\ ToolsOf(plan)' = ToolsOf(plan) /\ ToolsDone' = ToolsDone /\ consents' = consents
      /\ state' = state /\ response' = response
  BY DEF AgentStepThrows, CheckCancellation, StepLimitExceeded, Deny, RequestStop, sessionVars, ToolsOf, ToolsDone
<1>2. CASE AgentStepThrows \/ CheckCancellation \/ StepLimitExceeded
  <2>1. Phase \in {"new", "working"} /\ Phase' = "gave_up"
    BY <1>2 DEF AgentStepThrows, CheckCancellation, StepLimitExceeded, Phase, Ended
  <2>2. QED
    BY <1>1, <2>1 DEF Task!Next, Task!GiveUp
<1>3. CASE Deny \/ RequestStop
  <2>1. Phase' = Phase
    BY <1>1, <1>3 DEF Deny, RequestStop, Phase, Ended, IInv, Progress
  <2>2. QED
    BY <1>1, <2>1 DEF Task!taskVars
<1>4. QED
  BY <1>2, <1>3

\* Every run keeps the promise of AgentTask: the planned tools in order, each
\* at most once, the grants before what needs them, and an answer at the end.
THEOREM Implementation == Spec => ImplementsAgentTask
<1>1. IInv /\ IInv' /\ [Next]_vars => [Task!Next]_(Task!taskVars)
  <2> SUFFICES ASSUME IInv, IInv', [Next]_vars PROVE [Task!Next]_(Task!taskVars)
    OBVIOUS
  <2>1. CASE Iterate
    BY <2>1, IterateTask
  <2>2. CASE Approve
    BY <2>2, ApproveTask DEF Task!Next
  <2>3. CASE Execute
    BY <2>3, ExecuteTask DEF Task!Next
  <2>4. CASE AgentStepThrows \/ CheckCancellation \/ StepLimitExceeded \/ Deny \/ RequestStop
    BY <2>4, OtherTask
  <2>5. CASE UNCHANGED vars
    BY <2>5 DEF vars, runnerVars, sessionVars, Task!taskVars, ToolsOf, ToolsDone, Phase
  <2>6. QED
    BY <2>1, <2>2, <2>3, <2>4, <2>5 DEF Next, Terminated
<1>2. QED
  BY <1>1, InitTask, Inductive, PTL DEF Spec, ImplementsAgentTask, Task!Spec
=============================================================================
