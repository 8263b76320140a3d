------------------------------ MODULE FormalRun -------------------------------
(***************************************************************************)
(* The formal gate and the agents' self-checks: formal/run_all.sh, started *)
(* by run_formal() (tools/eval/formal.py) through run_pgroup()             *)
(* (tools/eval/_subprocess.py), or by an implementing agent on its own.    *)
(*                                                                         *)
(* Every invocation works in a directory of riscv-formal that is named by  *)
(* its PID, and sweeps the directories whose PID is not alive.  PIDs are   *)
(* reused, an agent's sandbox does not see the processes outside it, and a *)
(* run may hang, be killed at its time limit and leave workers behind.     *)
(***************************************************************************)
EXTENDS Integers, FiniteSets

CONSTANTS
  None,        \* no value
  Eval,        \* runs the harness starts, one at a time (the formal gate)
  SelfCheck,   \* runs an agent starts, each in a sandbox of its own
  Pid,         \* process ids
  Checks,      \* the checks genchecks.py may generate
  Ch1,         \* those on channel 1
  MinChecks,   \* EXPECTED_MIN_CHECKS
  Outcomes,    \* what a check may come to
  Nrets,       \* what core.yaml may give for nret
  Setups,      \* how agents and riscv-formal are set up
  MaxWorkers   \* bound: workers of a run at a time

Run == Eval \cup SelfCheck
Root == {"shared", "eval"}
Result == {"none", "pass", "preunsat", "fail"}
Nret == {"1", "2", "none", "other"}

ASSUME FormalAssumption ==
  /\ Eval \cap SelfCheck = {} /\ None \notin Run \cup Pid \cup {"passed"}
  /\ IsFiniteSet(Checks) /\ Ch1 \subseteq Checks
  /\ Outcomes \subseteq Result \ {"none"} /\ Nrets \subseteq Nret
  /\ MinChecks \in Nat \ {0} /\ MaxWorkers \in Nat \ {0}
  /\ Setups \subseteq [sandboxed : BOOLEAN, copy : BOOLEAN]

VARIABLES
  setup,       \* agents are sandboxed; there is a riscv-formal for evals only
  nret,        \* what core.yaml says
  pc,          \* where each script is
  pid,         \* its PID, until its parent has waited for it
  todo,        \* PIDs whose directory it still has to look at
  found,       \* the directory it found stale: its PID and who made it
  workers,     \* its workers (make and what make starts)
  ran,         \* a worker of it reported to its output
  tally,       \* what the script of an evaluation printed last
  owner,       \* for each directory, the run that staged it
  results,     \* the checks in it and their results
  harness,     \* where run_formal is with each evaluation
  victims,     \* the workers it is about to kill
  verdict,     \* what it returned
  generated,   \* history: checks each evaluation generated
  good         \* history: checks its own workers passed

world   == <<setup, nret>>
script  == <<pc, pid, tally>>
sweep   == <<todo, found>>
work    == <<workers, ran>>
storage == <<owner, results>>
gate    == <<harness, victims, verdict>>
history == <<generated, good>>
vars == <<world, script, sweep, work, storage, gate, history>>

(* Faulty variant: the worktree's link is left at the shared checkout. *)
SharedRoot(r) == "shared"

(* use_eval_riscv_formal: evaluations use the harness's own copy of        *)
(* riscv-formal where there is one.                                        *)
RootOf(r) == IF r \in Eval /\ setup.copy THEN "eval" ELSE "shared"
DirOf(r) == <<RootOf(r), pid[r]>>

Alive == {r \in Run : pc[r] \in {"reap", "stage", "generate", "make", "tally"}}

(* kill -0: a process that was not waited for still has its PID; from      *)
(* inside a sandbox every PID outside it looks dead.                       *)
Sees(r, p) ==
  \E x \in Run : pid[x] = p /\ (x = r \/ r \in Eval \/ ~setup.sandboxed)

(* The glob over <core>-<pid>. *)
Listing(r) == {p \in Pid : owner[<<RootOf(r), p>>] # None}

(* read_nret: anything but 1, 2 or nothing raises. *)
Accepted(n) == n \in {"1", "2", "none"}

Init ==
  /\ setup \in Setups /\ nret \in Nrets
  /\ pc = [r \in Run |-> "idle"]
  /\ pid = [r \in Run |-> None]
  /\ todo = [r \in Run |-> {}]
  /\ found = [r \in Run |-> None]
  /\ workers = [r \in Run |-> {}]
  /\ ran = [e \in Eval |-> FALSE]
  /\ tally = [e \in Eval |-> None]
  /\ owner = [d \in Root \X Pid |-> None]
  /\ results = [d \in Root \X Pid |-> None]
  /\ harness = [e \in Eval |-> "idle"]
  /\ victims = [e \in Eval |-> {}]
  /\ verdict = [e \in Eval |-> None]
  /\ generated = [e \in Eval |-> {}]
  /\ good = [e \in Eval |-> {}]

-----------------------------------------------------------------------------
(* The script.                                                             *)

Launch(r) ==
  /\ \E p \in Pid \ {pid[x] : x \in Run} : pid' = [pid EXCEPT ![r] = p]
  /\ pc' = [pc EXCEPT ![r] = "reap"]
  /\ todo' = [todo EXCEPT ![r] = Listing(r)]

(* The formal gate admits one evaluation at a time. *)
StartEval(e) ==
  /\ harness[e] = "idle" /\ Accepted(nret)
  /\ \A x \in Eval : harness[x] \in {"idle", "returned", "raised"}
  /\ Launch(e)
  /\ harness' = [harness EXCEPT ![e] = "waiting"]
  /\ UNCHANGED <<world, tally, found, work, storage, victims, verdict,
                 history>>

(* A ValueError of read_nret leaves run_formal. *)
EvalRaises(e) ==
  /\ harness[e] = "idle" /\ ~Accepted(nret)
  /\ harness' = [harness EXCEPT ![e] = "raised"]
  /\ UNCHANGED <<world, script, sweep, work, storage, victims, verdict,
                 history>>

StartSelfCheck(c) ==
  /\ pc[c] = "idle"
  /\ Launch(c)
  /\ UNCHANGED <<world, tally, found, work, storage, gate, history>>

Sweeping(r) ==
  \/ pc[r] = "reap"
  \/ (r \in Eval /\ harness[r] = "cleanup")

(* One turn of the reaper's loop: is there a process of that PID? *)
TestDir(r) ==
  /\ Sweeping(r) /\ found[r] = None
  /\ \E p \in todo[r] :
       /\ todo' = [todo EXCEPT ![r] = @ \ {p}]
       /\ found' = IF owner[<<RootOf(r), p>>] = None \/ Sees(r, p) THEN found
                   ELSE [found EXCEPT ![r] =
                           [pid |-> p, owner |-> owner[<<RootOf(r), p>>]]]
  /\ UNCHANGED <<world, script, work, storage, gate, history>>

(* rm -rf, by name. *)
RemoveDir(r) ==
  /\ Sweeping(r) /\ found[r] # None
  /\ owner' = [owner EXCEPT ![<<RootOf(r), found[r].pid>>] = None]
  /\ results' = [results EXCEPT ![<<RootOf(r), found[r].pid>>] = None]
  /\ found' = [found EXCEPT ![r] = None]
  /\ UNCHANGED <<world, script, todo, work, gate, history>>

Reaped(r) ==
  /\ pc[r] = "reap" /\ todo[r] = {} /\ found[r] = None
  /\ pc' = [pc EXCEPT ![r] = "stage"]
  /\ UNCHANGED <<world, pid, tally, sweep, work, storage, gate,
                 history>>

(* mkdir -p and the copies: a directory that is there is taken over. *)
Stage(r) ==
  /\ pc[r] = "stage"
  /\ owner' = [owner EXCEPT ![DirOf(r)] = r]
  /\ pc' = [pc EXCEPT ![r] = "generate"]
  /\ UNCHANGED <<world, pid, tally, sweep, work, results, gate,
                 history>>

(* A script that ends; a self-check's parent waits for it at once. *)
Exit(r, says) ==
  /\ pc' = [pc EXCEPT ![r] = "exited"]
  /\ tally' = [e \in Eval |-> IF e = r THEN says ELSE tally[e]]
  /\ pid' = IF r \in SelfCheck THEN [pid EXCEPT ![r] = None] ELSE pid

(* rm -rf checks, then genchecks.py. *)
Generate(r) ==
  /\ pc[r] = "generate" /\ owner[DirOf(r)] # None
  /\ \E new \in IF r \in Eval THEN SUBSET Checks ELSE {Checks} :
       /\ results' = [results EXCEPT ![DirOf(r)] = [c \in new |-> "none"]]
       /\ generated' = [e \in Eval |-> IF e = r THEN new ELSE generated[e]]
  /\ pc' = [pc EXCEPT ![r] = "make"]
  /\ workers' = [workers EXCEPT ![r] = {1}]
  /\ UNCHANGED <<world, pid, tally, sweep, ran, owner, gate, good>>

(* The directory is gone, or genchecks.py fails: the script ends, with no  *)
(* tally.                                                                  *)
GenerateFails(r) ==
  /\ pc[r] = "generate"
  /\ results' = IF owner[DirOf(r)] = None THEN results
                ELSE [results EXCEPT ![DirOf(r)] = None]
  /\ Exit(r, "setup")
  /\ UNCHANGED <<world, sweep, work, owner, gate, history>>

(* A worker starts another one while the tree is being killed; one that it *)
(* starts earlier is among the victims.                                    *)
Fork(e) ==
  /\ workers[e] # {} /\ harness[e] \in {"kill", "killroot"}
  /\ \E w \in (1..MaxWorkers) \ workers[e] :
       workers' = [workers EXCEPT ![e] = @ \cup {w}]
  /\ UNCHANGED <<world, script, sweep, ran, storage, gate, history>>

(* Faulty variant: a check without a result is not counted. *)
Forgiven(c, result) ==
  result \in {"pass", "none"} \/ (c \in Ch1 /\ result = "preunsat")

(* DONE (PASS, or vacuous on channel 1. *)
Passes(c, result) == result = "pass" \/ (c \in Ch1 /\ result = "preunsat")

(* A worker writes a result, where the directory its run made still is.    *)
(* What the checks of a self-check come to stays between it and its agent. *)
Report(e) ==
  /\ workers[e] # {} /\ pc[e] = "make"
  /\ owner[DirOf(e)] = e /\ results[DirOf(e)] # None
  /\ \E c \in DOMAIN results[DirOf(e)], result \in Outcomes :
       /\ results[DirOf(e)][c] = "none"
       /\ results' = [results EXCEPT ![DirOf(e)] = [@ EXCEPT ![c] = result]]
       /\ good' = IF Passes(c, result)
                  THEN [good EXCEPT ![e] = @ \cup {c}] ELSE good
  /\ ran' = [ran EXCEPT ![e] = TRUE]
  /\ UNCHANGED <<world, script, sweep, workers, owner, gate, generated>>

(* A worker ends, or dies. *)
WorkerEnds(r) ==
  /\ \E w \in workers[r] : workers' = [workers EXCEPT ![r] = @ \ {w}]
  /\ UNCHANGED <<world, script, sweep, ran, storage, gate, history>>

MakeEnds(r) ==
  /\ pc[r] = "make" /\ workers[r] = {}
  /\ pc' = [pc EXCEPT ![r] = "tally"]
  /\ UNCHANGED <<world, pid, tally, sweep, work, storage, gate,
                 history>>

(* The *.sby files the tally finds. *)
Listed(r) ==
  IF owner[DirOf(r)] # r \/ results[DirOf(r)] = None THEN {}
  ELSE DOMAIN results[DirOf(r)]

PassCount(r) ==
  Cardinality({c \in Listed(r) : Passes(c, results[DirOf(r)][c])})

Tally(r) ==
  /\ pc[r] = "tally"
  /\ Exit(r, IF Listed(r) = {} THEN "no_checks_generated"
             ELSE IF PassCount(r) < Cardinality(Listed(r)) THEN "failed"
             ELSE IF PassCount(r) < MinChecks THEN "too_few_checks_generated"
             ELSE "passed")
  /\ UNCHANGED <<world, sweep, work, storage, gate, history>>

(* The agent of a self-check is killed with its tree.  A worker that       *)
(* survives can change nothing of what the others read.                    *)
AgentKilled(c) ==
  /\ c \in Alive
  /\ pc' = [pc EXCEPT ![c] = "killed"]
  /\ pid' = [pid EXCEPT ![c] = None]
  /\ todo' = [todo EXCEPT ![c] = {}]
  /\ found' = [found EXCEPT ![c] = None]
  /\ workers' = [workers EXCEPT ![c] = {}]
  /\ UNCHANGED <<world, tally, ran, storage, gate, history>>

-----------------------------------------------------------------------------
(* run_formal and run_pgroup.                                              *)

(* _reclassify_no_checks_generated. *)
Classified(e) ==
  IF tally[e] = "no_checks_generated" /\ ran[e]
  THEN "make_failed_during_execution" ELSE tally[e]

(* communicate returns: the script ended and nobody holds its pipe. *)
EvalEnds(e) ==
  /\ harness[e] = "waiting" /\ pc[e] = "exited" /\ workers[e] = {}
  /\ verdict' = [verdict EXCEPT ![e] = Classified(e)]
  /\ pid' = [pid EXCEPT ![e] = None]
  /\ harness' = [harness EXCEPT ![e] = "cleanup"]
  /\ todo' = [todo EXCEPT ![e] = Listing(e)]
  /\ UNCHANGED <<world, pc, tally, found, work, storage, victims,
                 history>>

(* The time limit: the descendants are listed, ... *)
TimeOut(e) ==
  /\ harness[e] = "waiting"
  /\ victims' = [victims EXCEPT ![e] = workers[e]]
  /\ harness' = [harness EXCEPT ![e] = "kill"]
  /\ UNCHANGED <<world, script, sweep, work, storage, verdict, history>>

(* ... then killed, ... *)
KillTree(e) ==
  /\ harness[e] = "kill"
  /\ workers' = [workers EXCEPT ![e] = @ \ victims[e]]
  /\ victims' = [victims EXCEPT ![e] = {}]
  /\ harness' = [harness EXCEPT ![e] = "killroot"]
  /\ UNCHANGED <<world, script, sweep, ran, storage, verdict, history>>

(* ... then the script itself. *)
KillRoot(e) ==
  /\ harness[e] = "killroot"
  /\ pc' = [pc EXCEPT ![e] = IF e \in Alive THEN "killed" ELSE @]
  /\ todo' = [todo EXCEPT ![e] = {}]
  /\ found' = [found EXCEPT ![e] = None]
  /\ harness' = [harness EXCEPT ![e] = "drain"]
  /\ UNCHANGED <<world, pid, tally, work, storage, victims, verdict,
                 history>>

(* Faulty variant: the second communicate has no time limit. *)
DrainFully(e) ==
  /\ harness[e] = "drain" /\ workers[e] = {}
  /\ pid' = [pid EXCEPT ![e] = None]
  /\ verdict' = [verdict EXCEPT ![e] = "timeout"]
  /\ harness' = [harness EXCEPT ![e] = "cleanup"]
  /\ todo' = [todo EXCEPT ![e] = Listing(e)]
  /\ UNCHANGED <<world, pc, tally, found, work, storage, victims,
                 history>>

(* communicate(timeout=5): while a worker that survived holds the pipe the *)
(* script is not waited for.                                               *)
Drain(e) ==
  /\ harness[e] = "drain"
  /\ pid' = IF workers[e] = {} THEN [pid EXCEPT ![e] = None] ELSE pid
  /\ verdict' = [verdict EXCEPT ![e] = "timeout"]
  /\ harness' = [harness EXCEPT ![e] = "cleanup"]
  /\ todo' = [todo EXCEPT ![e] = Listing(e)]
  /\ UNCHANGED <<world, pc, tally, found, work, storage, victims,
                 history>>

(* _cleanup_formal_workdir is done and the verdict is out of its hands.  A *)
(* worker that survived can change nothing from here on.                   *)
EvalReturns(e) ==
  /\ harness[e] = "cleanup" /\ todo[e] = {} /\ found[e] = None
  /\ harness' = [harness EXCEPT ![e] = "returned"]
  /\ workers' = [workers EXCEPT ![e] = {}]
  /\ ran' = [ran EXCEPT ![e] = FALSE]
  /\ tally' = [tally EXCEPT ![e] = None]
  /\ verdict' = [verdict EXCEPT ![e] = None]
  /\ generated' = [generated EXCEPT ![e] = {}]
  /\ good' = [good EXCEPT ![e] = {}]
  /\ UNCHANGED <<world, pc, pid, sweep, storage, victims>>

(* A later Popen waits for a script that was left. *)
WaitForZombie(e) ==
  /\ harness[e] = "returned" /\ pid[e] # None
  /\ pid' = [pid EXCEPT ![e] = None]
  /\ UNCHANGED <<world, pc, tally, sweep, work, storage, gate,
                 history>>

-----------------------------------------------------------------------------
Script(r) ==
  \/ TestDir(r) \/ RemoveDir(r) \/ Reaped(r) \/ Stage(r) \/ Generate(r)
  \/ GenerateFails(r) \/ WorkerEnds(r) \/ MakeEnds(r) \/ Tally(r)

Harness(e) ==
  \/ StartEval(e) \/ EvalRaises(e) \/ Report(e)      \/ Fork(e)
  \/ EvalEnds(e)  \/ TimeOut(e)    \/ KillTree(e)    \/ KillRoot(e)
  \/ Drain(e)     \/ EvalReturns(e) \/ WaitForZombie(e)

Next ==
  \/ \E r \in Run : Script(r)
  \/ \E e \in Eval : Harness(e)
  \/ \E c \in SelfCheck : StartSelfCheck(c) \/ AgentKilled(c)

(* What the harness itself does next happens: its timer, its kills and its *)
(* sweep.  No step of the script or of a worker is taken for granted.      *)
HarnessProceeds(e) ==
  \/ TimeOut(e) \/ KillTree(e) \/ KillRoot(e) \/ Drain(e) \/ EvalReturns(e)
  \/ (harness[e] = "cleanup" /\ (TestDir(e) \/ RemoveDir(e)))

Spec == Init /\ [][Next]_vars /\ \A e \in Eval : WF_vars(HarnessProceeds(e))

-----------------------------------------------------------------------------
(* Properties.                                                             *)

Says == {"setup", "no_checks_generated", "failed",
         "too_few_checks_generated", "passed"}

(* Every variable has its type. *)
TypeOK ==
  /\ setup \in Setups /\ nret \in Nrets
  /\ pc \in [Run -> {"idle", "reap", "stage", "generate", "make", "tally",
                     "exited", "killed"}]
  /\ pid \in [Run -> Pid \cup {None}]
  /\ todo \in [Run -> SUBSET Pid]
  /\ found \in [Run -> [pid : Pid, owner : Run] \cup {None}]
  /\ workers \in [Run -> SUBSET (1..MaxWorkers)]
  /\ ran \in [Eval -> BOOLEAN]
  /\ owner \in [Root \X Pid -> Run \cup {None}]
  /\ results \in [Root \X Pid -> (UNION {[c -> Result] : c \in SUBSET Checks})
                                 \cup {None}]
  /\ harness \in [Eval -> {"idle", "waiting", "kill", "killroot", "drain",
                           "cleanup", "returned", "raised"}]
  /\ victims \in [Eval -> SUBSET (1..MaxWorkers)]
  /\ tally \in [Eval -> Says \cup {None}]
  /\ verdict \in [Eval -> Says \cup {"make_failed_during_execution",
                                     "timeout", None}]
  /\ generated \in [Eval -> SUBSET Checks] /\ good \in [Eval -> SUBSET Checks]

(* Self-checks that cannot see the harness's processes sweep the directory *)
(* that evaluations use.                                                   *)
Exposed == setup.sandboxed /\ ~setup.copy

(* No reaper, the script's or run_formal's, ever takes the directory of an *)
(* evaluation that is alive for stale, whoever has its PID before or after *)
(* it and whoever is killed meanwhile (run_all.sh: "Concurrent live runs   *)
(* are protected") - unless agents are sandboxed and share riscv-formal.   *)
LiveDirIsKept ==
  ~Exposed =>
  \A r \in Run, e \in Eval :
    found[r] # None /\ found[r].owner = e => e \notin Alive

(* An evaluation passes only on checks of its own: all it generated were   *)
(* run to a pass by its own workers, and they are enough, whatever other   *)
(* runs left under its PID and whoever removed its directory meanwhile.    *)
PassIsOwn ==
  \A e \in Eval : verdict[e] = "passed" =>
    good[e] = generated[e] /\ Cardinality(good[e]) >= MinChecks

(* Two processes never have the same PID. *)
PidsAreDistinct ==
  \A r, x \in Run : r # x /\ pid[r] # None => pid[r] # pid[x]

(* run_formal returns, although the script may hang and workers may        *)
(* survive the kill and hold its output.                                   *)
EvalsReturn ==
  \A e \in Eval : harness[e] = "waiting" ~> harness[e] = "returned"

===============================================================================
