------------------------------ MODULE PhaseGate -------------------------------
(***************************************************************************)
(* The gates around the two CPU-hungry phases of a slot, formal and FPGA   *)
(* (tools/tournament.py, phase_gate): a semaphore per process and phase,   *)
(* and, for the machine-locked phases, an flock shared by every            *)
(* orchestrator process of the host.  Slots of one process are threads; a  *)
(* process first retests its baseline when its log is empty, then runs its *)
(* rounds, and may be killed at any moment.                                *)
(***************************************************************************)
EXTENDS Integers

CONSTANTS
  Proc,            \* orchestrator processes on one host
  Slot,            \* tournament slots of each
  MachineLocked,   \* MACHINE_LOCKED_PHASES; {} under AAT_MACHINE_LOCK_DIR=off
  MaxRounds,       \* --iterations
  Free             \* an flock nobody holds

Phase  == {"formal", "fpga"}
Thread == Proc \X Slot

ThreadsOf(p) == {t \in Thread : t[1] = p}

ASSUME GateAssumption ==
  /\ MachineLocked \subseteq Phase
  /\ MaxRounds \in Nat
  /\ Free \notin Thread

(* PHASE_CAPACITY: one slot of a process at a time in either phase. *)
PhaseCapacity == [ph \in Phase |-> 1]

VARIABLES
  run,      \* what the main thread of a process is doing
  rounds,   \* rounds a process still has to run
  phase,    \* the gate a slot is in, or is on its way to; "end" once returned
  step,     \* where a slot stands with respect to that gate
  sem,      \* free permits of each process's semaphores
  lock      \* the holder of each machine-wide flock

vars == <<run, rounds, phase, step, sem, lock>>
slotVars == <<phase, step, sem, lock>>

Run  == {"retest", "retest_formal", "retest_cosim", "retest_fpga",
         "idle", "round", "exited", "killed"}
Step == {"out", "acquiring", "opening", "flocking", "inside", "leaving", "failing"}

(* A slot's thread has the semaphore of the phase it is in. *)
HasPermit(t) == step[t] \notin {"out", "acquiring"}

Inside(t, ph) == phase[t] = ph /\ step[t] = "inside"

Init ==
  /\ run \in [Proc -> {"retest", "idle"}]      \* empty log, or an old one
  /\ rounds = [p \in Proc |-> MaxRounds]
  /\ phase = [t \in Thread |-> "end"]
  /\ step = [t \in Thread |-> "out"]
  /\ sem = [p \in Proc |-> PhaseCapacity]
  /\ lock = [ph \in Phase |-> Free]

-----------------------------------------------------------------------------
(* The primitives of the gate, some after a faulty variant of themselves.  *)

AlwaysAcquires(t) == TRUE
MayAcquire(t) == sem[t[1]][phase[t]] > 0

PermitKept(t) ==
  IF step[t] = "failing" THEN sem ELSE [sem EXCEPT ![t[1]][phase[t]] = @ + 1]
PermitBack(t) == [sem EXCEPT ![t[1]][phase[t]] = @ + 1]

SharedLock(t) == TRUE
MayLock(t) == lock[phase[t]] = Free

Unlocked(t, next) ==
  IF phase[t] \in MachineLocked THEN [lock EXCEPT ![phase[t]] = Free] ELSE lock

-----------------------------------------------------------------------------
(* A slot's thread.                                                        *)

(* What precedes the gate has passed, and the slot calls phase_gate; or it *)
(* has not (no hypothesis, a sandbox violation, a failed build or cosim),  *)
(* and the slot returns before it reaches the gate.                        *)
ReachGate(t) ==
  /\ run[t[1]] = "round"
  /\ phase[t] \in Phase /\ step[t] = "out"
  /\ \/ step' = [step EXCEPT ![t] = "acquiring"] /\ UNCHANGED phase
     \/ phase' = [phase EXCEPT ![t] = "end"] /\ UNCHANGED step
  /\ UNCHANGED <<run, rounds, sem, lock>>

(* phase_gate: sem.acquire() returns. *)
AcquireSemaphore(t) ==
  /\ step[t] = "acquiring" /\ MayAcquire(t)
  /\ sem' = [sem EXCEPT ![t[1]][phase[t]] = @ - 1]
  /\ step' = [step EXCEPT ![t] =
                IF phase[t] \in MachineLocked THEN "opening" ELSE "inside"]
  /\ UNCHANGED <<run, rounds, phase, lock>>

(* _machine_lock: open() of the lock file succeeds or raises. *)
OpenLockFile(t) ==
  /\ step[t] = "opening"
  /\ \E next \in {"flocking", "failing"} : step' = [step EXCEPT ![t] = next]
  /\ UNCHANGED <<run, rounds, phase, sem, lock>>

(* _machine_lock: the flock is granted. *)
GrantLock(t) ==
  /\ step[t] = "flocking" /\ MayLock(t)
  /\ lock' = [lock EXCEPT ![phase[t]] = t]
  /\ step' = [step EXCEPT ![t] = "inside"]
  /\ UNCHANGED <<run, rounds, phase, sem>>

(* The body returns ("leaving") or raises ("failing"); LOCK_UN either way. *)
LeaveBody(t) ==
  /\ step[t] = "inside"
  /\ \E next \in {"leaving", "failing"} :
       step' = [step EXCEPT ![t] = next] /\ lock' = Unlocked(t, next)
  /\ UNCHANGED <<run, rounds, phase, sem>>

(* phase_gate's finally: sem.release().  A slot whose gate passed goes on  *)
(* to the next phase; one that failed or raised is at its end.             *)
ReleaseSemaphore(t) ==
  /\ step[t] \in {"leaving", "failing"}
  /\ sem' = PermitBack(t)
  /\ step' = [step EXCEPT ![t] = "out"]
  /\ \/ phase' = [phase EXCEPT ![t] = "end"]
     \/ /\ step[t] = "leaving" /\ phase[t] = "formal"
        /\ phase' = [phase EXCEPT ![t] = "fpga"]
  /\ UNCHANGED <<run, rounds, lock>>

-----------------------------------------------------------------------------
(* A process's main thread.                                                *)

(* main, _run_baseline_retest: run_formal, run_cosim and run_fpga_eval in  *)
(* turn, with no gate around any of them; SystemExit when one fails.       *)
Retest(p) ==
  /\ \/ run[p] = "retest"        /\ run' = [run EXCEPT ![p] = "retest_formal"]
     \/ run[p] = "retest_formal" /\ run' = [run EXCEPT ![p] = "retest_cosim"]
     \/ run[p] = "retest_cosim"  /\ run' = [run EXCEPT ![p] = "retest_fpga"]
     \/ run[p] = "retest_fpga"   /\ run' = [run EXCEPT ![p] = "idle"]
     \/ /\ run[p] \in {"retest", "retest_formal", "retest_cosim", "retest_fpga"}
        /\ run' = [run EXCEPT ![p] = "exited"]
  /\ UNCHANGED <<rounds, slotVars>>

(* run_tournament_round submits one thread per slot. *)
StartRound(p) ==
  /\ run[p] = "idle" /\ rounds[p] > 0
  /\ run' = [run EXCEPT ![p] = "round"]
  /\ rounds' = [rounds EXCEPT ![p] = @ - 1]
  /\ phase' = [t \in Thread |-> IF t \in ThreadsOf(p) THEN "formal" ELSE phase[t]]
  /\ UNCHANGED <<step, sem, lock>>

(* Every slot has returned and the round is journalled; or one of them     *)
(* raised, and the run ends.                                               *)
EndRound(p) ==
  /\ run[p] = "round"
  /\ \A t \in ThreadsOf(p) : phase[t] = "end"
  /\ \E next \in {"idle", "exited"} : run' = [run EXCEPT ![p] = next]
  /\ UNCHANGED <<rounds, slotVars>>

Finish(p) ==
  /\ run[p] = "idle" /\ rounds[p] = 0
  /\ run' = [run EXCEPT ![p] = "exited"]
  /\ UNCHANGED <<rounds, slotVars>>

(* The process dies: its threads and semaphores are gone, and the kernel   *)
(* releases its flocks.                                                    *)
Kill(p) ==
  /\ run[p] \notin {"exited", "killed"}
  /\ run' = [run EXCEPT ![p] = "killed"]
  /\ phase' = [t \in Thread |-> IF t \in ThreadsOf(p) THEN "end" ELSE phase[t]]
  /\ step' = [t \in Thread |-> IF t \in ThreadsOf(p) THEN "out" ELSE step[t]]
  /\ sem' = [sem EXCEPT ![p] = PhaseCapacity]
  /\ lock' = [ph \in Phase |->
                IF lock[ph] \in ThreadsOf(p) THEN Free ELSE lock[ph]]
  /\ UNCHANGED rounds

AllStopped ==
  /\ \A p \in Proc : run[p] \in {"exited", "killed"}
  /\ UNCHANGED vars

ThreadStep(t) ==
  \/ ReachGate(t) \/ AcquireSemaphore(t) \/ OpenLockFile(t)
  \/ GrantLock(t) \/ LeaveBody(t) \/ ReleaseSemaphore(t)

MainStep(p) == Retest(p) \/ StartRound(p) \/ EndRound(p) \/ Finish(p)

Next ==
  \/ \E t \in Thread : ThreadStep(t)
  \/ \E p \in Proc : MainStep(p) \/ Kill(p)
  \/ AllStopped

Spec == Init /\ [][Next]_vars

(* Every subprocess of a phase has a timeout, so a thread that can move    *)
(* does; a kill never has to happen.                                       *)
Fairness ==
  /\ \A t \in Thread : WF_vars(ThreadStep(t))
  /\ \A p \in Proc : WF_vars(MainStep(p))

FairSpec == Spec /\ Fairness

-----------------------------------------------------------------------------

TypeOK ==
  /\ run \in [Proc -> Run]
  /\ rounds \in [Proc -> 0..MaxRounds]
  /\ phase \in [Thread -> Phase \cup {"end"}]
  /\ step \in [Thread -> Step]
  /\ sem \in [Proc -> [Phase -> 0..1]]
  /\ lock \in [Phase -> Thread \cup {Free}]

(* phase_gate serialises a machine-locked phase across the slots of every  *)
(* process on the host, whichever of them fail, raise or are killed.       *)
GatedMutex ==
  \A ph \in MachineLocked : \A t, u \in Thread :
    Inside(t, ph) /\ Inside(u, ph) => t = u

(* Within a process the semaphore admits one slot to either phase, machine *)
(* lock or not (PHASE_CAPACITY).                                           *)
ProcessMutex ==
  \A t, u \in Thread :
    /\ t[1] = u[1] /\ phase[t] = phase[u]
    /\ HasPermit(t) /\ HasPermit(u)
    => t = u

(* No permit is lost or minted: a semaphore is taken exactly while one of  *)
(* its process's slots is between acquire() and release().                 *)
PermitsAccounted ==
  \A p \in Proc, ph \in Phase :
    sem[p][ph] = 0 <=>
      \E t \in ThreadsOf(p) : phase[t] = ph /\ HasPermit(t)

(* The flock is held exactly while its holder runs the phase: never by a   *)
(* dead process, never by a thread that only waits.                        *)
LockFollowsHolder ==
  \A ph \in MachineLocked, t \in Thread : lock[ph] = t <=> Inside(t, ph)

(* Nobody waits on everybody: each process that is not killed gets through *)
(* all its rounds, however the gates of the others interleave.             *)
EveryRunEnds == \A p \in Proc : <>(run[p] \in {"exited", "killed"})

(* The gate around formal implements the abstract exclusion: what another  *)
(* process sees is one thread entering and leaving at a time.              *)
FormalThreads == {t \in Thread : Inside(t, "formal")}
Formal == INSTANCE Exclusive WITH active <- FormalThreads
FormalIsExclusive == Formal!Spec

===============================================================================
