------------------------------ MODULE Launcher ------------------------------
(***************************************************************************)
(* The chat sessions of OxcerLauncher: sending, stopping, deleting and     *)
(* answering approvals on the main actor, against agent runs that execute  *)
(* off it.  A run is the step loop of AgentRunner with its outcomes left   *)
(* open; what matters here is where it suspends.                           *)
(*                                                                         *)
(* An approval is a continuation.  The run creates it and enqueues a hop   *)
(* to the main actor that publishes it in session.pendingApproval: between *)
(* the two nobody can resume it, and cancelling the task does not.         *)
(***************************************************************************)
EXTENDS Integers, FiniteSets

CONSTANTS
    Session,    \* conversation sessions; an ended, deleted one stands for a fresh one
    MaxSteps    \* the step loop's budget (config.maxSteps)

None == "none selected"

ASSUME StepsAssumption == MaxSteps \in Nat \ {0}
ASSUME SessionAssumption == None \notin Session

VARIABLES
    sessions,   \* the sessions in the sidebar
    selected,   \* selectedSessionID, or None
    pc,         \* where the run of each session is
    steps,      \* iterations of the run's loop
    cancelled,  \* the run's Task was cancelled
    hasTask,    \* session.currentTask is set
    generating, \* session.isGenerating
    pending     \* session.pendingApproval holds the run's continuation

vars == <<sessions, selected, pc, steps, cancelled, hasTask, generating, pending>>

Pc == {"none", "starting", "step", "asking", "waiting", "executing", "revealing", "ending"}

-----------------------------------------------------------------------------
Init ==
    /\ sessions = {}
    /\ selected = None
    /\ pc = [s \in Session |-> "none"]
    /\ steps = [s \in Session |-> 0]
    /\ cancelled = [s \in Session |-> FALSE]
    /\ hasTask = [s \in Session |-> FALSE]
    /\ generating = [s \in Session |-> FALSE]
    /\ pending = [s \in Session |-> FALSE]

run == <<pc, steps, cancelled, hasTask, generating, pending>>

(* The user, on the main actor. *)

CreateNewSession(s) ==
    /\ s \notin sessions
    /\ pc[s] = "none"
    /\ sessions' = sessions \union {s}
    /\ selected' = s
    /\ UNCHANGED run

SelectSession(s) ==
    /\ s \in sessions
    /\ selected' = s
    /\ UNCHANGED <<sessions, run>>

\* The input bar submits only while the session is not generating. The last
\* guard is an assumption on the user: nobody types a second message before the
\* main actor has started the first one's task.
SendMessage(s) ==
    /\ s = selected
    /\ ~generating[s]
    /\ pc[s] # "starting"
    /\ hasTask' = [hasTask EXCEPT ![s] = TRUE]
    /\ pc' = [pc EXCEPT ![s] = "starting"]
    /\ steps' = [steps EXCEPT ![s] = 0]
    /\ cancelled' = [cancelled EXCEPT ![s] = FALSE]
    /\ UNCHANGED <<sessions, selected, generating, pending>>

\* Resuming the continuation with false: AgentRunner reports a denial to the
\* session and goes on to its next iteration.
Resumed(s, approved) == IF approved THEN "executing" ELSE "step"

\* Fault: the published approval is dropped and its continuation never resumed.
StopLeaksContinuation(s) ==
    /\ pending' = [pending EXCEPT ![s] = FALSE]
    /\ cancelled' = [cancelled EXCEPT ![s] = @ \/ hasTask[s]]
    /\ hasTask' = [hasTask EXCEPT ![s] = FALSE]
    /\ UNCHANGED <<pc, steps, generating>>

\* Fault: Stop marks the session idle while its run is still under way.
StopMarksIdle(s) ==
    /\ pending' = [pending EXCEPT ![s] = FALSE]
    /\ pc' = [pc EXCEPT ![s] = IF pending[s] THEN Resumed(s, FALSE) ELSE @]
    /\ cancelled' = [cancelled EXCEPT ![s] = @ \/ hasTask[s]]
    /\ hasTask' = [hasTask EXCEPT ![s] = FALSE]
    /\ generating' = [generating EXCEPT ![s] = FALSE]
    /\ UNCHANGED steps

\* stopGeneration(for:): dismiss a published approval, then cancel the task.
StopGeneration(s) ==
    /\ pending' = [pending EXCEPT ![s] = FALSE]
    /\ pc' = [pc EXCEPT ![s] = IF pending[s] THEN Resumed(s, FALSE) ELSE @]
    /\ cancelled' = [cancelled EXCEPT ![s] = @ \/ hasTask[s]]
    /\ hasTask' = [hasTask EXCEPT ![s] = FALSE]
    /\ UNCHANGED <<steps, generating>>

\* The Stop button replaces Send while the session is generating.
PressStop(s) ==
    /\ s = selected
    /\ generating[s]
    /\ StopGeneration(s)
    /\ UNCHANGED <<sessions, selected>>

\* Fault: the run is not stopped before its session is removed.
DeleteWithoutStop(s) ==
    /\ s \in sessions
    /\ sessions' = sessions \ {s}
    /\ IF selected # s THEN UNCHANGED selected
       ELSE IF sessions' = {} THEN selected' = None
       ELSE selected' \in sessions'
    /\ UNCHANGED run

\* deleteSession: stop, advance the selection to a neighbour, remove.
DeleteSession(s) ==
    /\ s \in sessions
    /\ StopGeneration(s)
    /\ sessions' = sessions \ {s}
    /\ IF selected # s THEN UNCHANGED selected
       ELSE IF sessions' = {} THEN selected' = None
       ELSE selected' \in sessions'

\* Fault: the answer does not clear pendingApproval.
RespondKeepsApproval(s, approved) ==
    /\ s = selected
    /\ pending[s]
    /\ pc' = [pc EXCEPT ![s] = Resumed(s, approved)]
    /\ UNCHANGED <<sessions, selected, steps, cancelled, hasTask, generating, pending>>

\* The overlay of the selected session.
RespondToApproval(s, approved) ==
    /\ s = selected
    /\ pending[s]
    /\ pending' = [pending EXCEPT ![s] = FALSE]
    /\ pc' = [pc EXCEPT ![s] = Resumed(s, approved)]
    /\ UNCHANGED <<sessions, selected, steps, cancelled, hasTask, generating>>

-----------------------------------------------------------------------------
(* The run of session s.  Start, Publish, Reveal and Finish are on the main actor. *)

\* The task begins: markGenerating(true), then the step loop.
Start(s) ==
    /\ pc[s] = "starting"
    /\ generating' = [generating EXCEPT ![s] = TRUE]
    /\ pc' = [pc EXCEPT ![s] = "step"]
    /\ UNCHANGED <<sessions, selected, steps, cancelled, hasTask, pending>>

\* Fault: one iteration too many.
IterateOnceMore(s) ==
    /\ pc[s] = "step"
    /\ ~cancelled[s]
    /\ steps[s] <= MaxSteps
    /\ steps' = [steps EXCEPT ![s] = @ + 1]
    /\ \E next \in {"asking", "executing", "revealing"} : pc' = [pc EXCEPT ![s] = next]
    /\ UNCHANGED <<sessions, selected, cancelled, hasTask, generating, pending>>

\* One iteration: the cancellation check, then agent_step, which asks for a
\* gated tool, for a plain one, or completes.
Iterate(s) ==
    /\ pc[s] = "step"
    /\ ~cancelled[s]
    /\ steps[s] < MaxSteps
    /\ steps' = [steps EXCEPT ![s] = @ + 1]
    /\ \E next \in {"asking", "executing", "revealing"} : pc' = [pc EXCEPT ![s] = next]
    /\ UNCHANGED <<sessions, selected, cancelled, hasTask, generating, pending>>

\* CancellationError, or stepLimitExceeded.
GiveUp(s) ==
    /\ pc[s] = "step"
    /\ cancelled[s] \/ steps[s] = MaxSteps
    /\ pc' = [pc EXCEPT ![s] = "ending"]
    /\ UNCHANGED <<sessions, selected, steps, cancelled, hasTask, generating, pending>>

\* The hop of onApprovalNeeded. The task holds the session, so it is still
\* there even when it was deleted.
Publish(s) ==
    /\ pc[s] = "asking"
    /\ pending' = [pending EXCEPT ![s] = TRUE]
    /\ pc' = [pc EXCEPT ![s] = "waiting"]
    /\ UNCHANGED <<sessions, selected, steps, cancelled, hasTask, generating>>

Execute(s) ==
    /\ pc[s] = "executing"
    /\ pc' = [pc EXCEPT ![s] = "step"]
    /\ UNCHANGED <<sessions, selected, steps, cancelled, hasTask, generating, pending>>

\* streamReveal, cut short when the task is cancelled.
Reveal(s) ==
    /\ pc[s] = "revealing"
    /\ pc' = [pc EXCEPT ![s] = "ending"]
    /\ UNCHANGED <<sessions, selected, steps, cancelled, hasTask, generating, pending>>

\* The defer block of runAgentRequest.
Finish(s) ==
    /\ pc[s] = "ending"
    /\ hasTask' = [hasTask EXCEPT ![s] = FALSE]
    /\ pending' = [pending EXCEPT ![s] = FALSE]
    /\ generating' = [generating EXCEPT ![s] = FALSE]
    /\ pc' = [pc EXCEPT ![s] = "none"]
    /\ UNCHANGED <<sessions, selected, steps, cancelled>>

RunStep(s) ==
    \/ Start(s) \/ Iterate(s) \/ GiveUp(s) \/ Publish(s)
    \/ Execute(s) \/ Reveal(s) \/ Finish(s)

UserStep(s) ==
    \/ CreateNewSession(s) \/ SelectSession(s) \/ SendMessage(s)
    \/ PressStop(s) \/ DeleteSession(s)
    \/ \E approved \in BOOLEAN : RespondToApproval(s, approved)

Next == \E s \in Session : UserStep(s) \/ RunStep(s)

\* The Swift runtime schedules every run and the main actor; users owe nothing.
Fairness == \A s \in Session : WF_vars(RunStep(s))

Spec == Init /\ [][Next]_vars
FairSpec == Spec /\ Fairness

-----------------------------------------------------------------------------
\* The shape of the sessions and their runs.
TypeOK ==
    /\ sessions \subseteq Session
    /\ selected \in Session \union {None}
    /\ pc \in [Session -> Pc]
    /\ steps \in [Session -> 0 .. MaxSteps]
    /\ cancelled \in [Session -> BOOLEAN]
    /\ hasTask \in [Session -> BOOLEAN]
    /\ generating \in [Session -> BOOLEAN]
    /\ pending \in [Session -> BOOLEAN]

\* A published continuation belongs to a run suspended on it, and a suspended
\* run has its continuation published: it is resumed exactly once, however
\* Stop, Delete, an answer and the end of the run are ordered.
ContinuationResumedOnce == \A s \in Session : pending[s] <=> pc[s] = "waiting"

\* Send and Stop never show the wrong one: a session is generating from the
\* start of its task until the run has fully exited, stopped or not, so two
\* runs never share one session's state.
GeneratingWhileLive == \A s \in Session : generating[s] <=> pc[s] \notin {"none", "starting"}

\* Every run that was not stopped yet can be: the session still holds its task,
\* and a session that is not in the sidebar has no such run.
RunsCanBeStopped ==
    \A s \in Session :
        (pc[s] # "none" /\ ~cancelled[s]) => hasTask[s] /\ s \in sessions

\* What is selected is in the sidebar, whatever was deleted.
SelectionExists == selected \in sessions \union {None}

\* A run stopped, by Stop or by the deletion of its session, anywhere but at its
\* approval gate ends; one stopped at the gate in a session of the sidebar leaves
\* the gate or has its question published there, until that session is deleted.
\* (What a deletion at the gate does is DeletedRunEnds.)
StoppedRunSettles ==
    \A s \in Session :
        LET asks == pc[s] \in {"asking", "waiting"} IN
        /\ (cancelled[s] /\ ~asks) ~> pc[s] = "none"
        /\ (cancelled[s] /\ asks /\ s \in sessions) ~> (~asks \/ pending[s] \/ s \notin sessions)

\* "Stop generation before removing so the continuation is not leaked": the run
\* of a deleted session ends.
DeletedRunEnds == \A s \in Session : (s \notin sessions) ~> (pc[s] = "none" \/ s \in sessions)
=============================================================================
