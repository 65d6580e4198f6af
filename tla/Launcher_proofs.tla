--------------------------- MODULE Launcher_proofs ---------------------------
(***************************************************************************)
(* Theorems about Launcher, for every set of sessions and every budget.    *)
(* The safety properties strengthen one another: Stop cancels a run only   *)
(* because the session still holds its task, and resumes its continuation  *)
(* only because a published one belongs to a suspended run.                *)
(***************************************************************************)
EXTENDS Launcher, TLAPS

IInv ==
    /\ TypeOK
    /\ ContinuationResumedOnce
    /\ GeneratingWhileLive
    /\ RunsCanBeStopped
    /\ SelectionExists

\* The state of one session s is consistent.
Consistent(s) ==
    /\ pending[s] <=> pc[s] = "waiting"
    /\ generating[s] <=> pc[s] \notin {"none", "starting"}
    /\ (pc[s] # "none" /\ ~cancelled[s]) => hasTask[s] /\ s \in sessions

LEMMA IInvByParts ==
    IInv <=> TypeOK /\ SelectionExists /\ \A s \in Session : Consistent(s)
  BY DEF IInv, ContinuationResumedOnce, GeneratingWhileLive, RunsCanBeStopped, Consistent

LEMMA InitIInv == Init => IInv
  BY StepsAssumption DEF Init, IInv, TypeOK, Pc, ContinuationResumedOnce, GeneratingWhileLive,
         RunsCanBeStopped, SelectionExists

\* A step of s leaves the state of every other session alone.
OthersUnchanged(s) ==
    \A x \in Session \ {s} :
        /\ pc'[x] = pc[x]
        /\ cancelled'[x] = cancelled[x]
        /\ hasTask'[x] = hasTask[x]
        /\ generating'[x] = generating[x]
        /\ pending'[x] = pending[x]
        /\ x \in sessions <=> x \in sessions'

LEMMA LocalStep ==
    ASSUME IInv, NEW s \in Session, TypeOK', SelectionExists', OthersUnchanged(s), Consistent(s)'
    PROVE  IInv'
<1>1. \A x \in Session \ {s} : Consistent(x)'
  BY IInvByParts DEF OthersUnchanged, Consistent
<1>2. \A x \in Session : Consistent(x)'
  BY <1>1
<1>3. QED
  BY <1>2 DEF IInv, ContinuationResumedOnce, GeneratingWhileLive, RunsCanBeStopped, Consistent

-----------------------------------------------------------------------------
(* The steps of the user. *)

LEMMA CreateIInv ==
    ASSUME IInv, NEW s \in Session, CreateNewSession(s)
    PROVE  IInv'
<1>1. TypeOK' /\ SelectionExists'
  BY DEF IInv, TypeOK, SelectionExists, CreateNewSession, run
<1>2. OthersUnchanged(s)
  BY DEF OthersUnchanged, CreateNewSession, run
<1>3. Consistent(s)'
  BY IInvByParts DEF Consistent, CreateNewSession, run
<1>4. QED
  BY <1>1, <1>2, <1>3, LocalStep

LEMMA SelectIInv ==
    ASSUME IInv, NEW s \in Session, SelectSession(s)
    PROVE  IInv'
<1>1. TypeOK' /\ SelectionExists'
  BY DEF IInv, TypeOK, SelectionExists, SelectSession, run
<1>2. OthersUnchanged(s)
  BY DEF OthersUnchanged, SelectSession, run
<1>3. Consistent(s)'
  BY IInvByParts DEF Consistent, SelectSession, run
<1>4. QED
  BY <1>1, <1>2, <1>3, LocalStep

LEMMA SendIInv ==
    ASSUME IInv, NEW s \in Session, SendMessage(s)
    PROVE  IInv'
<1>1. TypeOK' /\ SelectionExists'
  BY StepsAssumption DEF IInv, TypeOK, Pc, SelectionExists, SendMessage
<1>2. OthersUnchanged(s)
  BY DEF IInv, TypeOK, OthersUnchanged, SendMessage
<1>3. s \in sessions
  BY SessionAssumption DEF IInv, SelectionExists, SendMessage
<1>4. Consistent(s)'
  BY <1>3, IInvByParts DEF TypeOK, Consistent, SendMessage
<1>5. QED
  BY <1>1, <1>2, <1>4, LocalStep

\* What stopGeneration does to the state of its session.
LEMMA StopEffect ==
    ASSUME IInv, NEW s \in Session, StopGeneration(s)
    PROVE  /\ pc' \in [Session -> Pc] /\ steps' = steps
           /\ cancelled' \in [Session -> BOOLEAN] /\ hasTask' \in [Session -> BOOLEAN]
           /\ generating' = generating /\ pending' \in [Session -> BOOLEAN]
           /\ \A x \in Session \ {s} :
                /\ pc'[x] = pc[x] /\ cancelled'[x] = cancelled[x]
                /\ hasTask'[x] = hasTask[x] /\ pending'[x] = pending[x]
           /\ pending'[s] = FALSE /\ pc'[s] # "waiting"
           /\ pc'[s] = pc[s] \/ (pc[s] = "waiting" /\ pc'[s] = "step")
           /\ pc[s] # "none" => cancelled'[s]
<1>1. pc' \in [Session -> Pc] /\ (\A x \in Session \ {s} : pc'[x] = pc[x])
  BY DEF IInv, TypeOK, Pc, StopGeneration, Resumed
<1>2. pc'[s] = IF pending[s] THEN "step" ELSE pc[s]
  BY DEF IInv, TypeOK, StopGeneration, Resumed
<1>3. cancelled' \in [Session -> BOOLEAN] /\ (\A x \in Session \ {s} : cancelled'[x] = cancelled[x])
  BY DEF IInv, TypeOK, StopGeneration
<1>4. cancelled'[s] = (cancelled[s] \/ hasTask[s])
  BY DEF IInv, TypeOK, StopGeneration
<1>5. hasTask' \in [Session -> BOOLEAN] /\ (\A x \in Session \ {s} : hasTask'[x] = hasTask[x])
  BY DEF IInv, TypeOK, StopGeneration
<1>6. /\ pending' \in [Session -> BOOLEAN] /\ (\A x \in Session \ {s} : pending'[x] = pending[x])
      /\ pending'[s] = FALSE
  BY DEF IInv, TypeOK, StopGeneration
<1>7. Consistent(s)
  BY IInvByParts
<1>8. QED
  BY <1>1, <1>2, <1>3, <1>4, <1>5, <1>6, <1>7 DEF StopGeneration, Consistent

LEMMA StopIInv ==
    ASSUME IInv, NEW s \in Session, PressStop(s)
    PROVE  IInv'
<1>1. StopGeneration(s) /\ sessions' = sessions /\ selected' = selected
  BY DEF PressStop
<1>2. TypeOK' /\ SelectionExists'
  BY <1>1, StopEffect DEF IInv, TypeOK, SelectionExists
<1>3. OthersUnchanged(s)
  BY <1>1, StopEffect DEF OthersUnchanged
<1>4. Consistent(s)'
  BY <1>1, StopEffect, IInvByParts, ZenonT(40) DEF Consistent
<1>5. QED
  BY <1>2, <1>3, <1>4, LocalStep

LEMMA DeleteIInv ==
    ASSUME IInv, NEW s \in Session, DeleteSession(s)
    PROVE  IInv'
<1>1. StopGeneration(s) /\ sessions' = sessions \ {s}
  BY DEF DeleteSession
<1>2. SelectionExists'
  BY SessionAssumption DEF IInv, TypeOK, SelectionExists, DeleteSession
<1>3. TypeOK'
  BY <1>1, <1>2, StopEffect DEF IInv, TypeOK, SelectionExists
<1>4. OthersUnchanged(s)
  BY <1>1, StopEffect DEF OthersUnchanged
<1>5. Consistent(s)'
  BY <1>1, StopEffect, IInvByParts, ZenonT(40) DEF Consistent
<1>6. QED
  BY <1>2, <1>3, <1>4, <1>5, LocalStep

LEMMA RespondIInv ==
    ASSUME IInv, NEW s \in Session, NEW approved \in BOOLEAN, RespondToApproval(s, approved)
    PROVE  IInv'
<1>1. TypeOK' /\ SelectionExists'
  BY DEF IInv, TypeOK, Pc, SelectionExists, RespondToApproval, Resumed
<1>2. OthersUnchanged(s)
  BY DEF IInv, TypeOK, OthersUnchanged, RespondToApproval
<1>3. Consistent(s)'
  BY IInvByParts DEF TypeOK, Consistent, RespondToApproval, Resumed
<1>4. QED
  BY <1>1, <1>2, <1>3, LocalStep

-----------------------------------------------------------------------------
(* The steps of the run. *)

LEMMA RunIInv ==
    ASSUME IInv, NEW s \in Session, RunStep(s)
    PROVE  IInv'
<1>1. CASE Start(s)
  <2>1. TypeOK' /\ SelectionExists'
    BY <1>1 DEF IInv, TypeOK, Pc, SelectionExists, Start
  <2>2. OthersUnchanged(s)
    BY <1>1 DEF IInv, TypeOK, OthersUnchanged, Start
  <2>3. Consistent(s)'
    BY <1>1, IInvByParts DEF TypeOK, Consistent, Start
  <2>4. QED
    BY <2>1, <2>2, <2>3, LocalStep
<1>2. CASE Iterate(s)
  <2>1. TypeOK' /\ SelectionExists'
    BY <1>2, StepsAssumption DEF IInv, TypeOK, Pc, SelectionExists, Iterate
  <2>2. OthersUnchanged(s)
    BY <1>2 DEF IInv, TypeOK, OthersUnchanged, Iterate
  <2>3. Consistent(s)'
    BY <1>2, IInvByParts DEF TypeOK, Consistent, Iterate
  <2>4. QED
    BY <2>1, <2>2, <2>3, LocalStep
<1>3. CASE GiveUp(s) \/ Execute(s) \/ Reveal(s)
  <2>1. TypeOK' /\ SelectionExists'
    BY <1>3 DEF IInv, TypeOK, Pc, SelectionExists, GiveUp, Execute, Reveal
  <2>2. OthersUnchanged(s)
    BY <1>3 DEF IInv, TypeOK, OthersUnchanged, GiveUp, Execute, Reveal
  <2>3. Consistent(s)'
    BY <1>3, IInvByParts DEF TypeOK, Consistent, GiveUp, Execute, Reveal
  <2>4. QED
    BY <2>1, <2>2, <2>3, LocalStep
<1>4. CASE Publish(s)
  <2>1. TypeOK' /\ SelectionExists'
    BY <1>4 DEF IInv, TypeOK, Pc, SelectionExists, Publish
  <2>2. OthersUnchanged(s)
    BY <1>4 DEF IInv, TypeOK, OthersUnchanged, Publish
  <2>3. Consistent(s)'
    BY <1>4, IInvByParts DEF TypeOK, Consistent, Publish
  <2>4. QED
    BY <2>1, <2>2, <2>3, LocalStep
<1>5. CASE Finish(s)
  <2>1. TypeOK' /\ SelectionExists'
    BY <1>5 DEF IInv, TypeOK, Pc, SelectionExists, Finish
  <2>2. OthersUnchanged(s)
    BY <1>5 DEF IInv, TypeOK, OthersUnchanged, Finish
  <2>3. Consistent(s)'
    BY <1>5, IInvByParts DEF TypeOK, Consistent, Finish
  <2>4. QED
    BY <2>1, <2>2, <2>3, LocalStep
<1>6. QED
  BY <1>1, <1>2, <1>3, <1>4, <1>5 DEF RunStep

LEMMA NextIInv == IInv /\ [Next]_vars => IInv'
<1> SUFFICES ASSUME IInv, [Next]_vars
             PROVE  IInv'
  OBVIOUS
<1>1. CASE UNCHANGED vars
  BY <1>1 DEF IInv, TypeOK, ContinuationResumedOnce, GeneratingWhileLive, RunsCanBeStopped,
              SelectionExists, vars
<1>2. ASSUME NEW s \in Session, UserStep(s)
      PROVE  IInv'
  BY <1>2, CreateIInv, SelectIInv, SendIInv, StopIInv, DeleteIInv, RespondIInv DEF UserStep
<1>3. QED
  BY <1>1, <1>2, RunIInv DEF Next

LEMMA Inductive == Spec => []IInv
  BY InitIInv, NextIInv, PTL DEF Spec

-----------------------------------------------------------------------------
\* Every reachable state of the launcher has the declared types.
THEOREM TypeCorrect == Spec => []TypeOK
<1>1. IInv => TypeOK
  BY DEF IInv
<1>2. QED
  BY <1>1, Inductive, PTL

\* No continuation is resumed twice, and none that is published is forgotten.
THEOREM ResumedOnce == Spec => []ContinuationResumedOnce
<1>1. IInv => ContinuationResumedOnce
  BY DEF IInv
<1>2. QED
  BY <1>1, Inductive, PTL

\* A session shows Stop exactly while its run is under way.
THEOREM StopShownWhileLive == Spec => []GeneratingWhileLive
<1>1. IInv => GeneratingWhileLive
  BY DEF IInv
<1>2. QED
  BY <1>1, Inductive, PTL

\* A run that was not stopped is in the sidebar and its task can be cancelled.
THEOREM NoOrphanRun == Spec => []RunsCanBeStopped
<1>1. IInv => RunsCanBeStopped
  BY DEF IInv
<1>2. QED
  BY <1>1, Inductive, PTL

\* The selection is always a session of the sidebar.
THEOREM SelectionIsValid == Spec => []SelectionExists
<1>1. IInv => SelectionExists
  BY DEF IInv
<1>2. QED
  BY <1>1, Inductive, PTL
=============================================================================
