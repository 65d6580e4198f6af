------------------------------ MODULE AgentTask ------------------------------
(***************************************************************************)
(* What one agent run promises its user, whatever hosts the orchestrator:  *)
(* the planned tools are performed in plan order and each at most once, a  *)
(* tool that changes something is performed only after the user granted    *)
(* that very step, and a full answer is given only after the whole plan    *)
(* was performed.  Otherwise the run gives up and performs nothing more.   *)
(***************************************************************************)
EXTENDS Integers, Sequences

CONSTANTS
    Works,  \* the sequences of tools a task can consist of
    Gated   \* the tools that need the user's grant

VARIABLES work, performed, granted, phase

taskVars == <<work, performed, granted, phase>>

NextTool == work[Len(performed) + 1]

Init ==
    /\ work = <<>>
    /\ performed = <<>>
    /\ granted = {}
    /\ phase = "new"

Begin ==
    /\ phase = "new"
    /\ work' \in Works
    /\ phase' = IF work' = <<>> THEN "answered" ELSE "working"
    /\ UNCHANGED <<performed, granted>>

Grant ==
    /\ phase = "working"
    /\ Len(performed) < Len(work)
    /\ NextTool \in Gated
    /\ granted' = granted \union {Len(performed) + 1}
    /\ UNCHANGED <<work, performed, phase>>

Perform ==
    /\ phase = "working"
    /\ Len(performed) < Len(work)
    /\ NextTool \in Gated => Len(performed) + 1 \in granted
    /\ performed' = Append(performed, NextTool)
    /\ UNCHANGED <<work, granted, phase>>

Answer ==
    /\ phase = "working"
    /\ Len(performed) = Len(work)
    /\ phase' = "answered"
    /\ UNCHANGED <<work, performed, granted>>

GiveUp ==
    /\ phase \in {"new", "working"}
    /\ phase' = "gave_up"
    /\ UNCHANGED <<work, performed, granted>>

Next == Begin \/ Grant \/ Perform \/ Answer \/ GiveUp

Spec == Init /\ [][Next]_taskVars
=============================================================================
