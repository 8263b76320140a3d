--------------------------- MODULE PhaseGateProofs ----------------------------
(***************************************************************************)
(* For any number of processes and slots, the phase gate loses no permit,  *)
(* never leaves a flock with a dead or waiting thread, and implements      *)
(* mutual exclusion for the machine-locked phases.                         *)
(***************************************************************************)
EXTENDS PhaseGate, TLAPS

(* What the gate's control flow says of a thread that is not at its start. *)
GateShape ==
  \A t \in Thread :
    /\ step[t] # "out" => phase[t] \in Phase /\ run[t[1]] = "round"
    /\ step[t] \in {"opening", "flocking"} => phase[t] \in MachineLocked

(* The inductive invariant.  PermitsAccounted alone is not inductive: that *)
(* a release returns the only permit out needs ProcessMutex, and that no   *)
(* thread holds one when its round starts or ends needs GateShape.         *)
IInv ==
  /\ TypeOK
  /\ GateShape
  /\ ProcessMutex
  /\ PermitsAccounted
  /\ LockFollowsHolder

-----------------------------------------------------------------------------

LEMMA InitIInv == Init => IInv
<1> SUFFICES ASSUME Init PROVE IInv
  OBVIOUS
<1>1. TypeOK
  BY GateAssumption DEF Init, TypeOK, Phase, Step, Run, PhaseCapacity
<1>2. GateShape /\ ProcessMutex
  BY DEF Init, GateShape, ProcessMutex, HasPermit
<1>3. PermitsAccounted
  BY DEF Init, PermitsAccounted, HasPermit, PhaseCapacity, ThreadsOf
<1>4. LockFollowsHolder
  BY GateAssumption DEF Init, LockFollowsHolder, Inside
<1> QED  BY <1>1, <1>2, <1>3, <1>4 DEF IInv

LEMMA ThreadProc == \A t \in Thread : t[1] \in Proc
BY DEF Thread

LEMMA ReachGatePreserves ==
  ASSUME IInv, NEW t \in Thread, ReachGate(t)
  PROVE  IInv'
<1> USE DEF IInv
<1>1. TypeOK'
  BY DEF ReachGate, TypeOK, Step
<1>2. GateShape'
  BY DEF ReachGate, TypeOK, GateShape
<1>3. \A u \in Thread : /\ HasPermit(u)' <=> HasPermit(u)
                        /\ HasPermit(u) => phase'[u] = phase[u]
  BY DEF ReachGate, TypeOK, HasPermit
<1>4. ProcessMutex'
  BY <1>3 DEF ReachGate, ProcessMutex
<1>5. PermitsAccounted'
  BY <1>3 DEF ReachGate, PermitsAccounted, ThreadsOf
<1>6. LockFollowsHolder'
  BY DEF ReachGate, TypeOK, LockFollowsHolder, Inside
<1> QED  BY <1>1, <1>2, <1>4, <1>5, <1>6

LEMMA AcquirePreserves ==
  ASSUME IInv, NEW t \in Thread, AcquireSemaphore(t)
  PROVE  IInv'
<1> USE DEF IInv
<1>0. t[1] \in Proc /\ phase[t] \in Phase
  BY ThreadProc DEF GateShape, AcquireSemaphore
<1>1. sem[t[1]][phase[t]] = 1
  BY <1>0 DEF TypeOK, AcquireSemaphore, MayAcquire
<1>2. \A u \in ThreadsOf(t[1]) : phase[u] = phase[t] => ~ HasPermit(u)
  BY <1>0, <1>1 DEF PermitsAccounted
<1>3. TypeOK'
  BY <1>0, <1>1, GateAssumption DEF TypeOK, AcquireSemaphore, Step
<1>4. GateShape'
  BY DEF GateShape, AcquireSemaphore, TypeOK
<1>5. ProcessMutex'
  BY <1>2 DEF ProcessMutex, HasPermit, AcquireSemaphore, TypeOK, ThreadsOf
<1>6. PermitsAccounted'
  <2> SUFFICES ASSUME NEW p \in Proc, NEW ph \in Phase
               PROVE  sem'[p][ph] = 0 <=>
                        \E u \in ThreadsOf(p) : phase'[u] = ph /\ HasPermit(u)'
    BY DEF PermitsAccounted
  <2>1. HasPermit(t)' /\ \A u \in Thread \ {t} : HasPermit(u)' <=> HasPermit(u)
    BY DEF HasPermit, AcquireSemaphore, TypeOK
  <2>2. CASE p = t[1] /\ ph = phase[t]
    BY <2>1, <2>2, <1>0, <1>1 DEF AcquireSemaphore, TypeOK, ThreadsOf
  <2>3. CASE p # t[1] \/ ph # phase[t]
    <3>1. sem'[p][ph] = sem[p][ph]
      BY <2>3, <1>0 DEF AcquireSemaphore, TypeOK
    <3> QED  BY <3>1, <2>1, <2>3 DEF PermitsAccounted, AcquireSemaphore, ThreadsOf
  <2> QED  BY <2>2, <2>3
<1>7. LockFollowsHolder'
  BY DEF LockFollowsHolder, Inside, AcquireSemaphore, TypeOK
<1> QED  BY <1>3, <1>4, <1>5, <1>6, <1>7

LEMMA OpenPreserves ==
  ASSUME IInv, NEW t \in Thread, OpenLockFile(t)
  PROVE  IInv'
BY DEF IInv, TypeOK, GateShape, ProcessMutex, PermitsAccounted,
       LockFollowsHolder, HasPermit, Inside, OpenLockFile, Step, ThreadsOf

LEMMA GrantPreserves ==
  ASSUME IInv, NEW t \in Thread, GrantLock(t)
  PROVE  IInv'
BY GateAssumption
   DEF IInv, TypeOK, GateShape, ProcessMutex, PermitsAccounted,
       LockFollowsHolder, HasPermit, Inside, GrantLock, MayLock, Step, ThreadsOf

LEMMA LeavePreserves ==
  ASSUME IInv, NEW t \in Thread, LeaveBody(t)
  PROVE  IInv'
BY GateAssumption
   DEF IInv, TypeOK, GateShape, ProcessMutex, PermitsAccounted,
       LockFollowsHolder, HasPermit, Inside, LeaveBody, Unlocked, Step, ThreadsOf

LEMMA ReleasePreserves ==
  ASSUME IInv, NEW t \in Thread, ReleaseSemaphore(t)
  PROVE  IInv'
<1> USE DEF IInv
<1>0. t[1] \in Proc /\ phase[t] \in Phase /\ HasPermit(t)
  BY ThreadProc DEF GateShape, ReleaseSemaphore, HasPermit
<1>1. sem[t[1]][phase[t]] = 0
  BY <1>0 DEF PermitsAccounted, ThreadsOf
<1>2. \A u \in ThreadsOf(t[1]) : phase[u] = phase[t] /\ HasPermit(u) => u = t
  BY <1>0 DEF ProcessMutex, ThreadsOf
<1>3. TypeOK'
  BY <1>0, <1>1 DEF TypeOK, ReleaseSemaphore, PermitBack, Step, Phase
<1>4. GateShape'
  BY DEF GateShape, ReleaseSemaphore, TypeOK
<1>5. ProcessMutex'
  BY DEF ProcessMutex, HasPermit, ReleaseSemaphore, TypeOK
<1>6. PermitsAccounted'
  <2> SUFFICES ASSUME NEW p \in Proc, NEW ph \in Phase
               PROVE  sem'[p][ph] = 0 <=>
                        \E u \in ThreadsOf(p) : phase'[u] = ph /\ HasPermit(u)'
    BY DEF PermitsAccounted
  <2>1. /\ ~ HasPermit(t)'
        /\ \A u \in Thread \ {t} : /\ HasPermit(u)' <=> HasPermit(u)
                                   /\ phase'[u] = phase[u]
    BY DEF HasPermit, ReleaseSemaphore, TypeOK
  <2>2. CASE p = t[1] /\ ph = phase[t]
    BY <2>1, <2>2, <1>0, <1>1, <1>2 DEF ReleaseSemaphore, PermitBack, TypeOK, ThreadsOf
  <2>3. CASE p # t[1] \/ ph # phase[t]
    <3>1. sem'[p][ph] = sem[p][ph]
      BY <2>3, <1>0 DEF ReleaseSemaphore, PermitBack, TypeOK
    <3> QED  BY <3>1, <2>1, <2>3 DEF PermitsAccounted, ThreadsOf
  <2> QED  BY <2>2, <2>3
<1>7. LockFollowsHolder'
  BY DEF LockFollowsHolder, Inside, ReleaseSemaphore, TypeOK
<1> QED  BY <1>3, <1>4, <1>5, <1>6, <1>7

(* The main thread never touches a gate; the threads it starts hold none.  *)
LEMMA MainPreserves ==
  ASSUME IInv, NEW p \in Proc, MainStep(p)
  PROVE  IInv'
<1> USE DEF IInv
<1>1. CASE Retest(p)
  <2>1. TypeOK' /\ GateShape'
    BY <1>1, ThreadProc DEF Retest, slotVars, TypeOK, Run, GateShape
  <2>2. ProcessMutex' /\ PermitsAccounted' /\ LockFollowsHolder'
    BY <1>1 DEF Retest, slotVars, ProcessMutex, PermitsAccounted,
                LockFollowsHolder, HasPermit, Inside
  <2> QED  BY <2>1, <2>2
<1>2. CASE StartRound(p)
  <2>1. \A t \in ThreadsOf(p) : step[t] = "out"
    BY <1>2 DEF StartRound, GateShape, ThreadsOf
  <2>2. TypeOK'
    BY <1>2, GateAssumption DEF StartRound, TypeOK, Run, Phase
  <2>3. GateShape'
    BY <1>2, <2>1, ThreadProc DEF StartRound, GateShape, TypeOK, ThreadsOf
  <2>4. ProcessMutex' /\ PermitsAccounted' /\ LockFollowsHolder'
    BY <1>2, <2>1 DEF StartRound, TypeOK, ProcessMutex, PermitsAccounted,
                      LockFollowsHolder, HasPermit, Inside, ThreadsOf
  <2> QED  BY <2>2, <2>3, <2>4
<1>3. CASE EndRound(p)
  BY <1>3, ThreadProc
     DEF EndRound, slotVars, TypeOK, Run, Phase, GateShape, ProcessMutex,
         PermitsAccounted, LockFollowsHolder, HasPermit, Inside, ThreadsOf
<1>4. CASE Finish(p)
  BY <1>4 DEF Finish, slotVars, TypeOK, Run, GateShape, ProcessMutex,
              PermitsAccounted, LockFollowsHolder, HasPermit, Inside
<1> QED  BY <1>1, <1>2, <1>3, <1>4 DEF MainStep

LEMMA KillPreserves ==
  ASSUME IInv, NEW p \in Proc, Kill(p)
  PROVE  IInv'
<1> USE DEF IInv
<1>1. TypeOK'
  BY DEF Kill, TypeOK, Run, Step, Phase, PhaseCapacity
<1>2. GateShape'
  BY ThreadProc DEF Kill, GateShape, TypeOK, ThreadsOf
<1>3. ProcessMutex'
  BY DEF Kill, ProcessMutex, HasPermit, TypeOK, ThreadsOf
<1>4. PermitsAccounted'
  BY DEF Kill, PermitsAccounted, HasPermit, TypeOK, ThreadsOf, PhaseCapacity
<1>5. LockFollowsHolder'
  BY GateAssumption
     DEF Kill, LockFollowsHolder, Inside, TypeOK, ThreadsOf
<1> QED  BY <1>1, <1>2, <1>3, <1>4, <1>5

LEMMA NextIInv == IInv /\ [Next]_vars => IInv'
<1> SUFFICES ASSUME IInv, [Next]_vars PROVE IInv'
  OBVIOUS
<1>1. ASSUME NEW t \in Thread, ThreadStep(t) PROVE IInv'
  BY <1>1, ReachGatePreserves, AcquirePreserves, OpenPreserves,
     GrantPreserves, LeavePreserves, ReleasePreserves DEF ThreadStep
<1>2. CASE UNCHANGED vars
  BY <1>2 DEF vars, IInv, TypeOK, GateShape, ProcessMutex, PermitsAccounted,
              LockFollowsHolder, HasPermit, Inside
<1> QED  BY <1>1, <1>2, MainPreserves, KillPreserves DEF Next, AllStopped

THEOREM GateIInv == Spec => []IInv
BY InitIInv, NextIInv, PTL DEF Spec

-----------------------------------------------------------------------------

(* The state of the gates is well typed, for any hosts and slots: a permit *)
(* count never leaves 0..1 (tools/tournament.py, phase_gate).              *)
THEOREM GateTypeOK == Spec => []TypeOK
BY GateIInv, PTL DEF IInv

(* Whichever slots fail, raise or are killed, no permit is lost or minted  *)
(* (phase_gate's finally: sem.release()).                                  *)
THEOREM GatePermits == Spec => [](PermitsAccounted /\ ProcessMutex)
BY GateIInv, PTL DEF IInv

(* Of the slots of a process, one at a time is in a phase, whether or not  *)
(* it is machine-locked (PHASE_CAPACITY).                                  *)
THEOREM GateProcessMutex == Spec => []ProcessMutex
BY GateIInv, PTL DEF IInv

(* A flock is held by nobody but the thread running the phase              *)
(* (_machine_lock).                                                        *)
THEOREM GateLock == Spec => []LockFollowsHolder
BY GateIInv, PTL DEF IInv

(* A machine-locked phase runs in one slot of one process at a time        *)
(* (phase_gate with _machine_lock).                                        *)
THEOREM GateMutex == Spec => []GatedMutex
<1>1. IInv => GatedMutex
  BY DEF IInv, LockFollowsHolder, GatedMutex
<1> QED  BY <1>1, GateIInv, PTL

(* The gate around formal implements Exclusive when formal is machine      *)
(* locked: every step enters, leaves or does not touch the phase.          *)
THEOREM GateImplementsExclusive ==
  ASSUME "formal" \in MachineLocked
  PROVE  Spec => FormalIsExclusive
<1> USE DEF FormalThreads, Inside
<1>1. Init => Formal!Init
  BY DEF Init, Formal!Init
<1>2. IInv /\ [Next]_vars => [Formal!Next]_FormalThreads
  <2> SUFFICES ASSUME IInv, [Next]_vars
               PROVE  Formal!Next \/ UNCHANGED FormalThreads
    OBVIOUS
  <2> USE DEF IInv
  <2>1. \A t \in FormalThreads : lock["formal"] = t
    BY DEF LockFollowsHolder
  <2>2. ASSUME NEW t \in Thread, ThreadStep(t)
        PROVE  Formal!Next \/ UNCHANGED FormalThreads
    <3>1. CASE GrantLock(t)
      <4>1. CASE phase[t] = "formal"
        <5>1. FormalThreads = {}
          BY <3>1, <4>1, <2>1, GateAssumption DEF GrantLock, MayLock
        <5>2. FormalThreads' = {t}
          BY <3>1, <4>1, <5>1 DEF GrantLock, TypeOK
        <5> QED  BY <5>1, <5>2 DEF Formal!Next, Formal!Enter
      <4>2. CASE phase[t] # "formal"
        BY <3>1, <4>2 DEF GrantLock, TypeOK
      <4> QED  BY <4>1, <4>2
    <3>2. CASE LeaveBody(t)
      <4>1. CASE phase[t] = "formal"
        <5>1. FormalThreads = {t}
          BY <3>2, <4>1, <2>1 DEF LeaveBody
        <5>2. FormalThreads' = {}
          BY <3>2, <4>1, <5>1 DEF LeaveBody, TypeOK
        <5> QED  BY <5>1, <5>2 DEF Formal!Next, Formal!Leave
      <4>2. CASE phase[t] # "formal"
        BY <3>2, <4>2 DEF LeaveBody, TypeOK
      <4> QED  BY <4>1, <4>2
    <3>3. CASE AcquireSemaphore(t)
      BY <3>3 DEF AcquireSemaphore, TypeOK
    <3>4. CASE ReachGate(t) \/ OpenLockFile(t) \/ ReleaseSemaphore(t)
      BY <3>4 DEF ReachGate, OpenLockFile, ReleaseSemaphore, TypeOK
    <3> QED  BY <2>2, <3>1, <3>2, <3>3, <3>4 DEF ThreadStep
  <2>3. ASSUME NEW p \in Proc, MainStep(p)
        PROVE  UNCHANGED FormalThreads
    <3>1. CASE StartRound(p)
      BY <3>1 DEF StartRound, GateShape, TypeOK, ThreadsOf
    <3>2. CASE Retest(p) \/ EndRound(p) \/ Finish(p)
      BY <3>2 DEF Retest, EndRound, Finish, slotVars
    <3> QED  BY <2>3, <3>1, <3>2 DEF MainStep
  <2>4. ASSUME NEW p \in Proc, Kill(p)
        PROVE  Formal!Next \/ UNCHANGED FormalThreads
    <3>1. FormalThreads' = FormalThreads \ ThreadsOf(p)
      BY <2>4 DEF Kill, TypeOK, ThreadsOf
    <3>2. FormalThreads' = FormalThreads \/ FormalThreads' = {}
      BY <3>1, <2>1
    <3> QED  BY <3>2 DEF Formal!Next, Formal!Leave
  <2>5. CASE UNCHANGED vars
    BY <2>5 DEF vars
  <2> QED  BY <2>2, <2>3, <2>4, <2>5 DEF Next, AllStopped
<1> QED  BY <1>1, <1>2, GateIInv, PTL DEF Spec, FormalIsExclusive, Formal!Spec

===============================================================================
