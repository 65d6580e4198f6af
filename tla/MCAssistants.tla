---------------------------- MODULE MCAssistants ----------------------------
(* TLC instance of the two experimental agents the FFI exports beside the step
   API.  They share no state, so each is explored while the other is at rest.
   TLC's second caller calls only while the first does, of a query that names no file. *)
EXTENDS Fsm, Subagents

vars == <<fsmVars, subagentVars>>

Init == FsmInit /\ SubagentInit

Next ==
    \/ calls = 0 /\ FsmNext /\ UNCHANGED subagentVars
    \/ queries = 0 /\ SubagentNext /\ UNCHANGED fsmVars

Spec == Init /\ [][Next]_vars /\ FsmFairness

First == CHOOSE c \in Caller : TRUE
Begins(c) == agent[c] = Resting /\ agent'[c] # Resting
SecondJoins ==
    \A c \in Caller \ {First} : Begins(c) => agent[First] # Resting /\ agent'[c].names = {}

MCSpec == Init /\ [][Next /\ SecondJoins]_vars /\ FsmFairness

TypeOK == FsmTypeOK /\ SubagentTypeOK
=============================================================================
