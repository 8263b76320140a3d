---------------------------- MODULE FormalRunProofs ----------------------------
(***************************************************************************)
(* For any number of evaluations, self-checks, PIDs, checks and workers:   *)
(* the reapers spare the directory of every evaluation that is alive, and  *)
(* an evaluation passes on checks of its own only.                         *)
(***************************************************************************)
EXTENDS FormalRun, FiniteSetTheorems, TLAPS

States == {"idle", "reap", "stage", "generate", "make", "tally", "exited",
           "killed"}
Phases == {"idle", "waiting", "kill", "killroot", "drain", "cleanup",
           "returned", "raised"}

(* The part of the type invariant that the PIDs and reapers rest on. *)
Typed ==
  /\ setup \in Setups
  /\ pc \in [Run -> States] /\ harness \in [Eval -> Phases]
  /\ pid \in [Run -> Pid \cup {None}]
  /\ owner \in [Root \X Pid -> Run \cup {None}]
  /\ found \in [Run -> [pid : Pid, owner : Run] \cup {None}]
  /\ todo \in [Run -> SUBSET Pid]

(* A process has a PID, and the harness is waiting for it or killing it. *)
LiveHasPid ==
  /\ \A r \in Alive : pid[r] # None
  /\ \A e \in Eval :
       /\ e \in Alive => harness[e] \in {"waiting", "kill", "killroot"}
       /\ harness[e] = "idle" => pc[e] = "idle"

(* The directory of an evaluation bears its PID ... *)
OwnDir ==
  \A d \in Root \X Pid, e \in Eval : owner[d] = e =>
    /\ d[1] = RootOf(e) /\ harness[e] # "idle"
    /\ e \in Alive => d[2] = pid[e]

(* ... and whatever a reaper that sees it holds for stale is nobody's any  *)
(* more.                                                                   *)
FoundIsStale ==
  ~Exposed =>
  \A r \in Run, e \in Eval : found[r] # None /\ found[r].owner = e =>
    harness[e] # "idle" /\ e \notin Alive

(* The inductive invariant of the directories. *)
DirInv ==
  Typed /\ PidsAreDistinct /\ LiveHasPid /\ OwnDir /\ FoundIsStale

-----------------------------------------------------------------------------
(* Steps.                                                                  *)

LEMMA InitDirInv == Init => DirInv
<1> SUFFICES ASSUME Init PROVE DirInv
  OBVIOUS
<1> USE DEF Init
<1>1. Typed
  BY DEF Typed, States, Phases
<1>2. PidsAreDistinct /\ LiveHasPid /\ FoundIsStale
  BY DEF PidsAreDistinct, LiveHasPid, FoundIsStale, Exposed, Alive, Run
<1>3. OwnDir
  BY FormalAssumption DEF OwnDir, Run
<1> QED  BY <1>1, <1>2, <1>3 DEF DirInv

(* A PID is given to one process at a time. *)
LEMMA LaunchPreserves ==
  ASSUME DirInv, NEW r \in Run, Launch(r),
         pc[r] = "idle", UNCHANGED <<setup, owner, found>>,
         \/ r \in SelfCheck /\ UNCHANGED harness
         \/ /\ r \in Eval /\ harness[r] = "idle"
            /\ harness' = [harness EXCEPT ![r] = "waiting"]
  PROVE  DirInv'
<1> USE DEF DirInv
<1> PICK p \in Pid \ {pid[x] : x \in Run} : pid' = [pid EXCEPT ![r] = p]
  BY DEF Launch
<1>1. Typed'
  BY DEF Typed, Launch, Listing, States, Phases
<1>2. PidsAreDistinct'
  BY DEF Typed, PidsAreDistinct
<1>3. LiveHasPid'
  BY FormalAssumption DEF Typed, LiveHasPid, Alive, Launch, Run
<1>4. Alive' = Alive \cup {r}
  BY DEF Typed, Alive, Launch
<1>5. OwnDir'
  BY <1>4, FormalAssumption DEF Typed, OwnDir, RootOf, Run
<1>6. FoundIsStale'
  BY <1>4, FormalAssumption DEF Typed, FoundIsStale, Exposed, Run
<1> QED  BY <1>1, <1>2, <1>3, <1>5, <1>6

(* A script goes on, ends, or is killed; directories stay. *)
LEMMA ScriptGoesOn ==
  ASSUME DirInv, NEW r \in Run,
         UNCHANGED <<setup, owner, found, harness>>,
         todo' \in [Run -> SUBSET Pid],
         \E s \in States \ {"idle"} :
           /\ pc' = [pc EXCEPT ![r] = s]
           /\ \/ UNCHANGED pid /\ (r \in Alive \/ s \in {"exited", "killed"})
              \/ /\ pid' = [pid EXCEPT ![r] = None] /\ r \in SelfCheck
                 /\ s \in {"exited", "killed"},
         r \in Alive
  PROVE  DirInv'
<1> USE DEF DirInv
<1>1. Typed'
  BY DEF Typed
<1>2. PidsAreDistinct'
  BY DEF Typed, PidsAreDistinct
<1>3. Alive' \subseteq Alive /\ pc[r] # "idle"
  BY DEF Typed, Alive
<1>4. LiveHasPid'
  BY <1>3 DEF Typed, LiveHasPid, Alive
<1>5. OwnDir'
  BY <1>3, FormalAssumption DEF Typed, OwnDir, RootOf, Run
<1>6. FoundIsStale'
  BY <1>3 DEF Typed, FoundIsStale, Exposed
<1> QED  BY <1>1, <1>2, <1>4, <1>5, <1>6

(* kill -0 shows a reaper every evaluation that is alive in the directories *)
(* it sweeps: a sandboxed self-check sweeps others.                        *)
LEMMA ReaperSeesLive ==
  ASSUME DirInv, ~Exposed, NEW r \in Run, NEW e \in Eval, e \in Alive,
         NEW p \in Pid, owner[<<RootOf(r), p>>] = e
  PROVE  Sees(r, p)
<1> USE DEF DirInv
<1>1. RootOf(r) = RootOf(e) /\ pid[e] = p
  BY DEF OwnDir, RootOf, Root
<1>2. r \in Eval \/ ~setup.sandboxed
  BY <1>1, FormalAssumption DEF RootOf, Exposed, Typed
<1> QED  BY <1>1, <1>2 DEF Sees, Run

LEMMA SweepPreserves ==
  ASSUME DirInv, NEW r \in Run, TestDir(r) \/ RemoveDir(r)
  PROVE  DirInv'
<1> USE DEF DirInv, world, script, gate
<1>1. Alive' = Alive /\ pid' = pid /\ harness' = harness /\ setup' = setup
  BY DEF Alive, TestDir, RemoveDir
<1>2. LiveHasPid' /\ PidsAreDistinct'
  BY <1>1 DEF LiveHasPid, PidsAreDistinct, TestDir, RemoveDir
<1>3. CASE TestDir(r)
  <2> PICK p \in todo[r] :
        /\ todo' = [todo EXCEPT ![r] = @ \ {p}]
        /\ found' = IF owner[<<RootOf(r), p>>] = None \/ Sees(r, p) THEN found
                    ELSE [found EXCEPT ![r] =
                            [pid |-> p, owner |-> owner[<<RootOf(r), p>>]]]
    BY <1>3 DEF TestDir
  <2>1. p \in Pid /\ <<RootOf(r), p>> \in Root \X Pid
    BY DEF Typed, RootOf, Root
  <2>2. Typed'
    BY <1>3, <2>1 DEF Typed, TestDir, storage
  <2>3. OwnDir'
    BY <1>1, <1>3 DEF OwnDir, TestDir, storage, RootOf
  <2>4. FoundIsStale'
    BY <1>1, <2>1, ReaperSeesLive DEF Typed, OwnDir, FoundIsStale, Exposed
  <2> QED  BY <1>2, <2>2, <2>3, <2>4
<1>4. CASE RemoveDir(r)
  <2>1. Typed'
    BY <1>4, FormalAssumption DEF Typed, RemoveDir
  <2>2. OwnDir'
    BY <1>1, <1>4, FormalAssumption DEF Typed, OwnDir, RemoveDir, RootOf, Run
  <2>3. FoundIsStale'
    BY <1>1, <1>4, FormalAssumption DEF Typed, FoundIsStale, Exposed, RemoveDir
  <2> QED  BY <1>2, <2>1, <2>2, <2>3
<1> QED  BY <1>3, <1>4

LEMMA StagePreserves ==
  ASSUME DirInv, NEW r \in Run, Stage(r)
  PROVE  DirInv'
<1> USE DEF DirInv, Stage, world, sweep, work, gate
<1>1. r \in Alive /\ Alive' = Alive
  BY DEF Typed, Alive
<1>2. DirOf(r) \in Root \X Pid /\ DirOf(r) = <<RootOf(r), pid[r]>>
  BY <1>1 DEF Typed, LiveHasPid, DirOf, RootOf, Root
<1>3. Typed' /\ PidsAreDistinct' /\ LiveHasPid' /\ FoundIsStale'
  <2>1. Typed'
    BY <1>2 DEF Typed, States
  <2>2. PidsAreDistinct' /\ LiveHasPid' /\ FoundIsStale'
    BY <1>1 DEF Typed, PidsAreDistinct, LiveHasPid, FoundIsStale, Exposed
  <2> QED  BY <2>1, <2>2
<1>4. OwnDir'
  BY <1>1, <1>2 DEF Typed, LiveHasPid, OwnDir, RootOf
<1> QED  BY <1>3, <1>4

(* The harness goes on; a script it has waited for is not alive. *)
LEMMA HarnessGoesOn ==
  ASSUME DirInv, NEW e \in Eval, harness[e] # "idle",
         UNCHANGED <<setup, owner>>, todo' \in [Run -> SUBSET Pid],
         UNCHANGED found \/ found' = [found EXCEPT ![e] = None],
         \/ UNCHANGED pc /\ (e \notin Alive \/ harness'[e] = "kill"
                                            \/ harness'[e] = "killroot")
         \/ pc' = [pc EXCEPT ![e] = "killed"],
         \E h \in Phases \ {"idle"} : harness' = [harness EXCEPT ![e] = h],
         \/ UNCHANGED pid
         \/ e \notin Alive /\ pid' = [pid EXCEPT ![e] = None]
  PROVE  DirInv'
<1> USE DEF DirInv
<1>1. Typed'
  BY DEF Typed, States, Run
<1>2. Alive' \subseteq Alive /\ (e \in Alive' => pc' = pc)
  BY DEF Typed, Alive, Run
<1>3. PidsAreDistinct'
  BY DEF Typed, PidsAreDistinct, Run
<1>4. LiveHasPid'
  BY <1>2 DEF Typed, LiveHasPid, Alive, Run
<1>5. OwnDir'
  BY <1>2 DEF Typed, OwnDir, RootOf, Run
<1>6. FoundIsStale'
  BY <1>2 DEF Typed, FoundIsStale, Exposed, Run
<1> QED  BY <1>1, <1>3, <1>4, <1>5, <1>6

(* Every step of Next is one of these. *)
LEMMA NextDirInv == DirInv /\ [Next]_vars => DirInv'
<1> SUFFICES ASSUME DirInv, [Next]_vars PROVE DirInv'
  OBVIOUS
<1> USE DEF world, script, sweep, work, storage, gate, history
<1>0. DirInv => todo \in [Run -> SUBSET Pid]
  BY DEF DirInv, Typed
<1>1. ASSUME NEW r \in Run, Script(r) PROVE DirInv'
  <2>1. CASE TestDir(r) \/ RemoveDir(r)
    BY <2>1, SweepPreserves
  <2>2. CASE Reaped(r)
    BY <1>0, <2>2, ScriptGoesOn DEF Reaped, Alive, States
  <2>3. CASE Stage(r)
    BY <2>3, StagePreserves
  <2>4. CASE Generate(r)
    BY <1>0, <2>4, ScriptGoesOn DEF Generate, Alive, States
  <2>5. CASE GenerateFails(r)
    BY <1>0, <2>5, ScriptGoesOn DEF GenerateFails, Exit, Alive, States
  <2>6. CASE WorkerEnds(r)
    BY <2>6 DEF WorkerEnds, DirInv, Typed, PidsAreDistinct, LiveHasPid,
                OwnDir, FoundIsStale, Exposed, Alive, RootOf
  <2>7. CASE MakeEnds(r)
    BY <1>0, <2>7, ScriptGoesOn DEF MakeEnds, Alive, States
  <2>8. CASE Tally(r)
    BY <1>0, <2>8, ScriptGoesOn DEF Tally, Exit, Alive, States
  <2> QED  BY <1>1, <2>1, <2>2, <2>3, <2>4, <2>5, <2>6, <2>7, <2>8 DEF Script
<1>2. ASSUME NEW e \in Eval, Harness(e) PROVE DirInv'
  <2>0. DirInv /\ e \in Run /\ (e \in Alive => harness[e] # "cleanup"
                                              /\ harness[e] # "drain"
                                              /\ harness[e] # "returned")
    BY DEF DirInv, LiveHasPid, Run
  <2>1. CASE StartEval(e)
    <3>1. pc[e] = "idle" /\ Launch(e)
      BY <2>1 DEF StartEval, DirInv, LiveHasPid
    <3> QED  BY <2>0, <2>1, <3>1, LaunchPreserves DEF StartEval
  <2>2. CASE EvalRaises(e)
    BY <2>2 DEF EvalRaises, DirInv, Typed, Phases, PidsAreDistinct, LiveHasPid,
                OwnDir, FoundIsStale, Exposed, Alive, RootOf
  <2>3. CASE Report(e) \/ Fork(e)
    BY <2>3 DEF Report, Fork, DirInv, Typed, PidsAreDistinct, LiveHasPid,
                OwnDir, FoundIsStale, Exposed, Alive, RootOf
  <2>4. CASE EvalEnds(e)
    <3>1. e \notin Alive /\ todo' \in [Run -> SUBSET Pid]
      BY <1>0, <2>0, <2>4 DEF EvalEnds, Alive, Listing
    <3> QED  BY <2>4, <3>1, HarnessGoesOn DEF EvalEnds, Phases
  <2>5. CASE TimeOut(e)
    <3>1. harness'[e] = "kill" /\ harness[e] # "idle"
      BY <2>5 DEF TimeOut, DirInv, Typed
    <3> QED  BY <1>0, <2>5, <3>1, HarnessGoesOn DEF TimeOut, Phases
  <2>6. CASE KillTree(e)
    <3>1. harness'[e] = "killroot" /\ harness[e] # "idle"
      BY <2>6 DEF KillTree, DirInv, Typed
    <3> QED  BY <1>0, <2>6, <3>1, HarnessGoesOn DEF KillTree, Phases
  <2>7. CASE KillRoot(e)
    <3>1. todo' \in [Run -> SUBSET Pid]
      BY <1>0, <2>7 DEF KillRoot
    <3>2. \/ UNCHANGED pc /\ e \notin Alive
          \/ pc' = [pc EXCEPT ![e] = "killed"]
      BY <2>0, <2>7 DEF KillRoot, DirInv, Typed
    <3> QED  BY <2>7, <3>1, <3>2, HarnessGoesOn DEF KillRoot, Phases
  <2>8. CASE Drain(e)
    <3>1. e \notin Alive /\ todo' \in [Run -> SUBSET Pid]
      BY <1>0, <2>0, <2>8 DEF Drain, Listing
    <3>2. \/ UNCHANGED pid
          \/ e \notin Alive /\ pid' = [pid EXCEPT ![e] = None]
      BY <2>8, <3>1 DEF Drain
    <3> QED  BY <2>8, <3>1, <3>2, HarnessGoesOn DEF Drain, Phases
  <2>9. CASE EvalReturns(e)
    <3>1. e \notin Alive /\ harness[e] # "idle"
      BY <2>0, <2>9 DEF EvalReturns
    <3> QED  BY <1>0, <2>9, <3>1, HarnessGoesOn DEF EvalReturns, Phases
  <2>10. CASE WaitForZombie(e)
    <3>1. e \notin Alive /\ harness' = [harness EXCEPT ![e] = "returned"]
      BY <2>0, <2>10 DEF WaitForZombie, DirInv, Typed
    <3> QED  BY <1>0, <2>10, <3>1, HarnessGoesOn DEF WaitForZombie, Phases
  <2> QED  BY <1>2, <2>1, <2>2, <2>3, <2>4, <2>5, <2>6, <2>7, <2>8, <2>9, <2>10
           DEF Harness
<1>3. ASSUME NEW c \in SelfCheck, StartSelfCheck(c) \/ AgentKilled(c)
      PROVE  DirInv'
  <2>1. CASE StartSelfCheck(c)
    BY <2>1, LaunchPreserves DEF StartSelfCheck, Run
  <2>2. CASE AgentKilled(c)
    <3> DEFINE f == [found EXCEPT ![c] = None]
    <3>1. found' = f /\ Alive' \subseteq Alive
      BY <2>2 DEF AgentKilled, Alive, DirInv, Typed
    <3>2. Typed' /\ PidsAreDistinct'
      BY <2>2 DEF AgentKilled, DirInv, Typed, PidsAreDistinct, States
    <3>3. LiveHasPid'
      BY <2>2, FormalAssumption
      DEF AgentKilled, DirInv, Typed, LiveHasPid, Alive, Run
    <3>4. OwnDir'
      BY <2>2, <3>1, FormalAssumption
      DEF AgentKilled, DirInv, Typed, OwnDir, RootOf, Run
    <3>5. FoundIsStale'
      BY <2>2, <3>1, FormalAssumption
      DEF AgentKilled, DirInv, Typed, FoundIsStale, Exposed
    <3> QED  BY <3>2, <3>3, <3>4, <3>5 DEF DirInv
  <2> QED  BY <1>3, <2>1, <2>2
<1>4. CASE UNCHANGED vars
  BY <1>4 DEF vars, DirInv, Typed, PidsAreDistinct, LiveHasPid, OwnDir,
              FoundIsStale, Exposed, Alive, RootOf
<1> QED  BY <1>1, <1>2, <1>3, <1>4 DEF Next

LEMMA AlwaysDirInv == Spec => []DirInv
<1> QED  BY InitDirInv, NextDirInv, PTL DEF Spec

(* However many evaluations and self-checks run and whatever PIDs they     *)
(* get: the reapers of run_all.sh and of _cleanup_formal_workdir never     *)
(* take a live evaluation's directory for stale.                           *)
THEOREM FormalLiveDirIsKept == Spec => []LiveDirIsKept
<1>1. DirInv => LiveDirIsKept
  BY DEF DirInv, FoundIsStale, Exposed, LiveDirIsKept
<1> QED  BY <1>1, AlwaysDirInv, PTL

-----------------------------------------------------------------------------
(* The verdict.                                                            *)

Says0 == Says \cup {None}

Counted ==
  /\ ran \in [Eval -> BOOLEAN]
  /\ tally \in [Eval -> Says0]
  /\ verdict \in [Eval -> Says0 \cup {"make_failed_during_execution",
                                      "timeout"}]
  /\ generated \in [Eval -> SUBSET Checks] /\ good \in [Eval -> SUBSET Checks]
  /\ DOMAIN results = Root \X Pid

(* Until the script has generated its checks none of them has passed; then *)
(* the directory, where it is still the evaluation's own, lists what was   *)
(* generated and shows a pass only where a worker of it reported one.      *)
RunsOwnChecks ==
  \A e \in Eval :
    /\ pc[e] \in {"idle", "reap", "stage", "generate"} => good[e] = {}
    /\ good[e] \subseteq generated[e]
    /\ pc[e] \in {"make", "tally"} /\ owner[DirOf(e)] = e
         /\ results[DirOf(e)] # None =>
         /\ DOMAIN results[DirOf(e)] = generated[e]
         /\ \A c \in generated[e] :
              Passes(c, results[DirOf(e)][c]) => c \in good[e]

(* The script said passed when all of them had, and nothing changes that.  *)
TallyIsOwn ==
  \A e \in Eval :
    /\ tally[e] = "passed" =>
         /\ pc[e] = "exited" /\ good[e] = generated[e]
         /\ Cardinality(good[e]) >= MinChecks
    /\ verdict[e] = "passed" => tally[e] = "passed"

PassInv == DirInv /\ Counted /\ RunsOwnChecks /\ TallyIsOwn

LEMMA InitPassInv == Init => PassInv
<1>1. Init => Counted /\ RunsOwnChecks /\ TallyIsOwn
  BY FormalAssumption
  DEF Init, Counted, RunsOwnChecks, TallyIsOwn, Says0, Run
<1> QED  BY <1>1, InitDirInv DEF PassInv

(* A live run has its directory to itself. *)
LEMMA DirsAreDistinct ==
  ASSUME DirInv, NEW r \in Alive, NEW x \in Alive, r # x
  PROVE  DirOf(r) # DirOf(x) /\ DirOf(r) \in Root \X Pid
  BY DEF DirInv, Typed, PidsAreDistinct, LiveHasPid, DirOf, RootOf, Root, Alive

(* What the tally finds to have passed, passed. *)
LEMMA TallyCounts ==
  ASSUME PassInv, NEW e \in Eval, pc[e] = "tally",
         Listed(e) # {}, ~(PassCount(e) < Cardinality(Listed(e))),
         ~(PassCount(e) < MinChecks)
  PROVE  good[e] = generated[e] /\ Cardinality(good[e]) >= MinChecks
<1> DEFINE L == Listed(e)
           P == {c \in L : Passes(c, results[DirOf(e)][c])}
<1>1. /\ L = generated[e]
      /\ \A c \in generated[e] :
           Passes(c, results[DirOf(e)][c]) => c \in good[e]
      /\ good[e] \subseteq generated[e]
  BY DEF Listed, PassInv, RunsOwnChecks
<1>2. IsFiniteSet(L) /\ P \in SUBSET L
  <2>1. L \in SUBSET Checks
    BY <1>1 DEF PassInv, Counted
  <2> QED  BY <2>1, FormalAssumption, FS_Subset
<1>3. PassCount(e) = Cardinality(P)
  BY DEF PassCount
<1>4. Cardinality(P) \in Nat /\ Cardinality(L) \in Nat
  BY <1>2, FS_Subset, FS_CardinalityType
<1>5. P = L
  BY <1>2, <1>3, <1>4, FS_Subset
<1>6. good[e] = generated[e]
  BY <1>1, <1>5
<1>7. good[e] = P
  BY <1>1, <1>5, <1>6
<1>8. Cardinality(good[e]) = PassCount(e) /\ PassCount(e) \in Nat
  BY <1>3, <1>4, <1>7
<1> QED  BY <1>6, <1>8, FormalAssumption

(* Steps that leave the directories and the counts of every evaluation as  *)
(* they are, and steps that end a run.                                     *)
LEMMA OthersKeepCounts ==
  ASSUME PassInv, DirInv', UNCHANGED <<ran, tally, verdict, history, setup>>,
         DOMAIN results' = DOMAIN results,
         \A e \in Eval :
           /\ \/ pc'[e] = pc[e]
              \/ pc'[e] = "killed" /\ e \in Alive
              \/ pc'[e] = "reap" /\ pc[e] = "idle"
              \/ pc'[e] = "stage" /\ pc[e] = "reap"
              \/ pc'[e] = "generate" /\ pc[e] = "stage"
              \/ pc'[e] = "tally" /\ pc[e] = "make"
           /\ pc[e] \in {"make", "tally"} =>
                /\ pid'[e] = pid[e]
                /\ owner'[DirOf(e)] = e => owner[DirOf(e)] = e
                /\ owner'[DirOf(e)] = e =>
                     results'[DirOf(e)] \in {results[DirOf(e)], None}
  PROVE  PassInv'
<1> USE DEF history
<1>1. Counted'
  BY DEF PassInv, Counted
<1>2. TallyIsOwn'
  BY DEF PassInv, TallyIsOwn, Alive
<1>3. RunsOwnChecks'
  <2> SUFFICES ASSUME NEW e \in Eval
               PROVE  /\ (pc[e] \in {"idle", "reap", "stage", "generate"})' =>
                           good[e]' = {}
                      /\ (good[e] \subseteq generated[e])'
                      /\ (/\ pc[e] \in {"make", "tally"}
                          /\ owner[DirOf(e)] = e /\ results[DirOf(e)] # None)'
                         => /\ DOMAIN results'[DirOf(e)'] = generated'[e]
                            /\ \A c \in generated'[e] :
                                 Passes(c, results'[DirOf(e)'][c]) =>
                                   c \in good'[e]
    BY DEF RunsOwnChecks
  <2>1. CASE pc'[e] \notin {"make", "tally"}
    BY <2>1 DEF PassInv, RunsOwnChecks, Alive
  <2>2. CASE pc'[e] \in {"make", "tally"}
    <3>1. pc[e] \in {"make", "tally"}
      BY <2>2
    <3>2. DirOf(e)' = DirOf(e)
      BY <3>1 DEF DirOf, RootOf
    <3> QED  BY <2>2, <3>1, <3>2 DEF PassInv, RunsOwnChecks
  <2> QED  BY <2>1, <2>2
<1> QED  BY <1>1, <1>2, <1>3 DEF PassInv

LEMMA GeneratePreserves ==
  ASSUME PassInv, DirInv', NEW r \in Run, Generate(r)
  PROVE  PassInv'
<1> USE DEF world, sweep, gate
<1> DEFINE d == DirOf(r)
<1>1. r \in Alive /\ DirInv /\ d \in Root \X Pid
  BY DEF PassInv, Generate, Alive, DirInv, Typed, LiveHasPid, DirOf, RootOf,
         Root
<1> PICK new \in SUBSET Checks :
      /\ results' = [results EXCEPT ![d] = [c \in new |-> "none"]]
      /\ generated' = [e \in Eval |-> IF e = r THEN new ELSE generated[e]]
  BY DEF Generate
<1>2. Counted'
  BY DEF PassInv, Counted, Generate
<1>3. TallyIsOwn'
  BY DEF PassInv, TallyIsOwn, Generate, DirInv, Typed
<1>4. RunsOwnChecks'
  <2> SUFFICES ASSUME NEW e \in Eval
               PROVE  /\ (pc[e] \in {"idle", "reap", "stage", "generate"})' =>
                           good[e]' = {}
                      /\ (good[e] \subseteq generated[e])'
                      /\ (/\ pc[e] \in {"make", "tally"}
                          /\ owner[DirOf(e)] = e /\ results[DirOf(e)] # None)'
                         => /\ DOMAIN results'[DirOf(e)'] = generated'[e]
                            /\ \A c \in generated'[e] :
                                 Passes(c, results'[DirOf(e)'][c]) =>
                                   c \in good'[e]
    BY DEF RunsOwnChecks
  <2>0. DirOf(e)' = DirOf(e)
    BY DEF Generate, DirOf, RootOf
  <2>1. CASE e = r
    BY <1>1, <2>0, <2>1
    DEF PassInv, RunsOwnChecks, Counted, Generate, Passes, DirInv, Typed
  <2>2. CASE e # r
    <3>1. pc'[e] = pc[e] /\ generated'[e] = generated[e] /\ good' = good
          /\ owner' = owner
      BY <2>2 DEF Generate, DirInv, Typed, PassInv
    <3>2. CASE pc[e] \in {"make", "tally"}
      <4>1. DirOf(e) # d
        BY <1>1, <2>2, <3>2, DirsAreDistinct DEF Alive, Run
      <4>2. results'[DirOf(e)] = results[DirOf(e)]
        <5>1. DirOf(e) \in Root \X Pid
          BY <1>1, <3>2, DirsAreDistinct, <2>2 DEF Alive, Run
        <5> QED  BY <4>1, <5>1 DEF PassInv, Counted
      <4> QED  BY <2>0, <3>1, <4>2 DEF PassInv, RunsOwnChecks
    <3>3. CASE pc[e] \notin {"make", "tally"}
      BY <3>1, <3>3 DEF PassInv, RunsOwnChecks
    <3> QED  BY <3>2, <3>3
  <2> QED  BY <2>1, <2>2
<1> QED  BY <1>2, <1>3, <1>4 DEF PassInv

LEMMA ReportPreserves ==
  ASSUME PassInv, DirInv', NEW e \in Eval, Report(e)
  PROVE  PassInv'
<1> USE DEF world, script, sweep, gate
<1> DEFINE d == DirOf(e)
<1>1. e \in Alive /\ e \in Run /\ DirInv /\ d \in Root \X Pid
  BY DEF PassInv, Report, Alive, DirInv, Typed, LiveHasPid, DirOf, RootOf,
         Root, Run
<1> PICK c \in DOMAIN results[d], result \in Outcomes :
      /\ results[d][c] = "none"
      /\ results' = [results EXCEPT ![d] = [@ EXCEPT ![c] = result]]
      /\ good' = IF Passes(c, result)
                 THEN [good EXCEPT ![e] = @ \cup {c}] ELSE good
  BY DEF Report
<1>0. pc[e] = "make" /\ owner[d] = e /\ results[d] # None
  BY DEF Report
<1>2. c \in generated[e] /\ DOMAIN results[d] = generated[e]
  BY <1>0 DEF PassInv, RunsOwnChecks
<1>3. Counted'
  BY <1>2 DEF PassInv, Counted, Report
<1>4. TallyIsOwn'
  BY <1>0 DEF PassInv, TallyIsOwn, Report, Counted
<1>5. RunsOwnChecks'
  <2> SUFFICES ASSUME NEW x \in Eval
               PROVE  /\ pc[x] \in {"idle", "reap", "stage", "generate"} =>
                           good'[x] = {}
                      /\ good'[x] \subseteq generated[x]
                      /\ pc[x] \in {"make", "tally"} /\ owner[DirOf(x)] = x
                           /\ results'[DirOf(x)] # None =>
                         /\ DOMAIN results'[DirOf(x)] = generated[x]
                         /\ \A k \in generated[x] :
                              Passes(k, results'[DirOf(x)][k]) =>
                                k \in good'[x]
    <3>1. /\ UNCHANGED <<pc, owner, generated>>
          /\ \A x \in Eval : DirOf(x)' = DirOf(x)
      BY DEF Report, DirOf, RootOf
    <3> QED  BY <3>1 DEF RunsOwnChecks
  <2>1. CASE x = e
    <3>1. results'[d] = [results[d] EXCEPT ![c] = result]
      BY <1>1 DEF PassInv, Counted
    <3>2. DOMAIN results'[d] = generated[e]
      BY <1>2, <3>1
    <3>3. ASSUME NEW k \in generated[e], Passes(k, results'[d][k])
          PROVE  k \in good'[e]
      <4>1. CASE k = c
        BY <1>2, <3>1, <3>3, <4>1 DEF PassInv, Counted
      <4>2. CASE k # c
        <5>1. results'[d][k] = results[d][k]
          BY <1>2, <3>1, <4>2
        <5>2. k \in good[e]
          BY <1>0, <3>3, <5>1 DEF PassInv, RunsOwnChecks
        <5> QED  BY <5>2 DEF PassInv, Counted
      <4> QED  BY <4>1, <4>2
    <3>4. good'[e] \subseteq generated[e]
      BY <1>2 DEF PassInv, Counted, RunsOwnChecks
    <3> QED  BY <1>0, <2>1, <3>2, <3>3, <3>4
  <2>2. CASE x # e
    <3>1. good'[x] = good[x]
      BY <2>2 DEF PassInv, Counted
    <3>2. CASE pc[x] \in {"make", "tally"}
      <4>1. DirOf(x) # d
        BY <1>1, <2>2, <3>2, DirsAreDistinct DEF Alive, Run
      <4>2. DirOf(x) \in Root \X Pid
        BY <1>1, <2>2, <3>2, DirsAreDistinct DEF Alive, Run
      <4>3. results'[DirOf(x)] = results[DirOf(x)]
        BY <4>1, <4>2 DEF PassInv, Counted
      <4> QED  BY <3>1, <4>3 DEF PassInv, RunsOwnChecks
    <3>3. CASE pc[x] \notin {"make", "tally"}
      BY <3>1, <3>3 DEF PassInv, RunsOwnChecks
    <3> QED  BY <3>2, <3>3
  <2> QED  BY <2>1, <2>2
<1> QED  BY <1>3, <1>4, <1>5 DEF PassInv

(* Steps in which evaluations keep their place in the script, their        *)
(* directory and its results, or go where these do not matter.             *)
LEMMA CountsOf ==
  ASSUME PassInv, NEW e \in Eval,
         generated'[e] = generated[e] /\ good'[e] = good[e],
         UNCHANGED setup,
         \/ pc'[e] \notin {"idle", "reap", "stage", "generate", "make",
                           "tally"}
         \/ /\ pc'[e] = pc[e] /\ pid'[e] = pid[e]
            /\ owner'[DirOf(e)] = owner[DirOf(e)]
            /\ results'[DirOf(e)] = results[DirOf(e)]
         \/ pc'[e] = pc[e] /\ pc[e] \in {"idle", "reap", "stage", "generate"}
  PROVE  /\ pc'[e] \in {"idle", "reap", "stage", "generate"} => good'[e] = {}
         /\ good'[e] \subseteq generated'[e]
         /\ pc'[e] \in {"make", "tally"} /\ owner'[DirOf(e)'] = e
              /\ results'[DirOf(e)'] # None =>
              /\ DOMAIN results'[DirOf(e)'] = generated'[e]
              /\ \A c \in generated'[e] :
                   Passes(c, results'[DirOf(e)'][c]) => c \in good'[e]
<1>1. CASE pc'[e] \notin {"idle", "reap", "stage", "generate", "make", "tally"}
  BY <1>1 DEF PassInv, RunsOwnChecks
<1>2. CASE /\ pc'[e] = pc[e] /\ pid'[e] = pid[e]
           /\ owner'[DirOf(e)] = owner[DirOf(e)]
           /\ results'[DirOf(e)] = results[DirOf(e)]
  <2>1. DirOf(e)' = DirOf(e)
    BY <1>2 DEF DirOf, RootOf
  <2> QED  BY <1>2, <2>1 DEF PassInv, RunsOwnChecks
<1>3. CASE pc'[e] = pc[e] /\ pc[e] \in {"idle", "reap", "stage", "generate"}
  BY <1>3 DEF PassInv, RunsOwnChecks
<1> QED  BY <1>1, <1>2, <1>3

LEMMA ExitPreserves ==
  ASSUME PassInv, DirInv', NEW r \in Run, GenerateFails(r) \/ Tally(r)
  PROVE  PassInv'
<1> USE DEF world, sweep, work, gate, history
<1>1. r \in Alive /\ DirInv
  BY DEF PassInv, GenerateFails, Tally, Alive
<1>2. Counted'
  BY DEF PassInv, Counted, GenerateFails, Tally, Exit, Says0, Says, storage
<1>3. TallyIsOwn'
  <2>1. CASE GenerateFails(r)
    BY <2>1 DEF PassInv, TallyIsOwn, GenerateFails, Exit, DirInv, Typed
  <2>2. CASE Tally(r)
    <3> SUFFICES ASSUME NEW e \in Eval
                 PROVE  /\ tally'[e] = "passed" =>
                             /\ pc'[e] = "exited" /\ good[e] = generated[e]
                             /\ Cardinality(good[e]) >= MinChecks
                        /\ verdict[e] = "passed" => tally'[e] = "passed"
      BY <2>2 DEF Tally, TallyIsOwn
    <3>1. CASE e # r
      BY <2>2, <3>1 DEF PassInv, TallyIsOwn, Tally, Exit, DirInv, Typed
    <3>2. CASE e = r
      <4>1. verdict[e] # "passed"
        BY <2>2, <3>2 DEF PassInv, TallyIsOwn, Tally
      <4>2. pc'[e] = "exited"
        BY <2>2, <3>2 DEF PassInv, Tally, Exit, DirInv, Typed
      <4>3. tally'[e] = "passed" =>
              /\ Listed(e) # {} /\ ~(PassCount(e) < Cardinality(Listed(e)))
              /\ ~(PassCount(e) < MinChecks)
        BY <2>2, <3>2 DEF Tally, Exit
      <4> QED  BY <2>2, <3>2, <4>1, <4>2, <4>3, TallyCounts DEF Tally
    <3> QED  BY <3>1, <3>2
  <2> QED  BY <2>1, <2>2
<1>4. RunsOwnChecks'
  <2> SUFFICES ASSUME NEW e \in Eval
               PROVE  /\ generated'[e] = generated[e] /\ good'[e] = good[e]
                      /\ UNCHANGED setup
                      /\ \/ pc'[e] \notin {"idle", "reap", "stage", "generate",
                                           "make", "tally"}
                         \/ /\ pc'[e] = pc[e] /\ pid'[e] = pid[e]
                            /\ owner'[DirOf(e)] = owner[DirOf(e)]
                            /\ results'[DirOf(e)] = results[DirOf(e)]
                         \/ /\ pc'[e] = pc[e]
                            /\ pc[e] \in {"idle", "reap", "stage", "generate"}
    BY CountsOf DEF RunsOwnChecks
  <2>1. UNCHANGED <<setup, owner, generated, good>>
    BY DEF GenerateFails, Tally, storage
  <2>2. CASE e = r
    <3>1. pc'[e] = "exited"
      BY <2>2 DEF GenerateFails, Tally, Exit, DirInv, Typed, PassInv
    <3> QED  BY <2>1, <3>1
  <2>3. CASE e # r
    <3>1. pc'[e] = pc[e] /\ pid'[e] = pid[e]
      BY <1>1, <2>3, FormalAssumption
      DEF GenerateFails, Tally, Exit, DirInv, Typed, Run
    <3>2. CASE pc[e] \in {"make", "tally"}
      <4>1. DirOf(e) # DirOf(r) /\ DirOf(e) \in Root \X Pid
        BY <1>1, <2>3, <3>2, DirsAreDistinct DEF Alive, Run
      <4>2. results'[DirOf(e)] = results[DirOf(e)]
        BY <4>1 DEF GenerateFails, Tally, storage, PassInv, Counted
      <4> QED  BY <2>1, <3>1, <4>2
    <3>3. CASE pc[e] \notin {"make", "tally"}
      BY <2>1, <3>1, <3>3 DEF DirInv, Typed, States, PassInv, Run
    <3> QED  BY <3>2, <3>3
  <2> QED  BY <2>2, <2>3
<1> QED  BY <1>2, <1>3, <1>4 DEF PassInv

(* run_formal takes the script's word, when it has ended. *)
LEMMA VerdictPreserves ==
  ASSUME PassInv, DirInv', NEW e \in Eval,
         EvalEnds(e) \/ Drain(e) \/ EvalReturns(e)
  PROVE  PassInv'
<1> USE DEF world, work, storage, history
<1>0. e \notin Alive /\ e \in Run /\ DirInv
  BY DEF PassInv, DirInv, LiveHasPid, EvalEnds, Drain, EvalReturns, Alive, Run
<1>1. Counted'
  BY DEF PassInv, Counted, EvalEnds, Drain, EvalReturns, Classified, Says0
<1>2. TallyIsOwn'
  <2>1. CASE EvalEnds(e)
    BY <2>1, FormalAssumption
    DEF PassInv, Counted, TallyIsOwn, EvalEnds, Classified
  <2>2. CASE Drain(e)
    BY <2>2 DEF PassInv, Counted, TallyIsOwn, Drain
  <2>3. CASE EvalReturns(e)
    BY <2>3, FormalAssumption DEF PassInv, Counted, TallyIsOwn, EvalReturns
  <2> QED  BY <2>1, <2>2, <2>3
<1>3. RunsOwnChecks'
  <2>1. ASSUME NEW x \in Eval, x # e
        PROVE  /\ generated'[x] = generated[x] /\ good'[x] = good[x]
               /\ pc'[x] = pc[x] /\ pid'[x] = pid[x]
    BY <2>1
    DEF EvalEnds, Drain, EvalReturns, PassInv, Counted, DirInv, Typed, Run
  <2>2. UNCHANGED <<setup, owner, results, pc>>
    BY DEF EvalEnds, Drain, EvalReturns
  <2>3. pc[e] \notin {"make", "tally"}
    BY <1>0 DEF Alive
  <2>4. /\ good'[e] = good[e] \/ good'[e] = {}
        /\ good'[e] \subseteq generated'[e]
    BY DEF EvalEnds, Drain, EvalReturns, PassInv, Counted, RunsOwnChecks
  <2>5. ASSUME NEW x \in Eval, x # e PROVE DirOf(x)' = DirOf(x)
    BY <2>1, <2>2, <2>5 DEF DirOf, RootOf
  <2> QED  BY <2>1, <2>2, <2>3, <2>4, <2>5 DEF PassInv, RunsOwnChecks
<1> QED  BY <1>1, <1>2, <1>3 DEF PassInv

LEMMA NextPassInv == PassInv /\ [Next]_vars => PassInv'
<1> SUFFICES ASSUME PassInv, [Next]_vars PROVE PassInv'
  OBVIOUS
<1> USE DEF world, script, sweep, work, storage, gate, history
<1>0. DirInv' /\ DirInv
  BY NextDirInv DEF PassInv
<1>1. CASE UNCHANGED vars
  BY <1>0, <1>1 DEF vars, PassInv, Counted, RunsOwnChecks, TallyIsOwn,
                    DirOf, RootOf
<1>2. ASSUME NEW r \in Run, Script(r) PROVE PassInv'
  <2>1. CASE TestDir(r) \/ WorkerEnds(r)
    BY <1>0, <2>1, OthersKeepCounts DEF TestDir, WorkerEnds
  <2>2. CASE RemoveDir(r)
    BY <1>0, <2>2, FormalAssumption, OthersKeepCounts
    DEF RemoveDir, PassInv, Counted, DirInv, Typed, Run
  <2>3. CASE Reaped(r) \/ MakeEnds(r)
    BY <1>0, <2>3, OthersKeepCounts
    DEF Reaped, MakeEnds, PassInv, DirInv, Typed, Run
  <2>4. CASE Stage(r)
    <3>1. r \in Alive
      BY <2>4 DEF Stage, Alive
    <3>2. ASSUME NEW e \in Eval, pc[e] \in {"make", "tally"},
                 owner'[DirOf(e)] = e
          PROVE  owner[DirOf(e)] = e
      <4>1. DirOf(e) # DirOf(r)
        BY <1>0, <2>4, <3>1, <3>2, DirsAreDistinct DEF Stage, Alive, Run
      <4> QED  BY <1>0, <2>4, <3>2, <4>1 DEF Stage, DirInv, Typed
    <3>3. \A e \in Eval : pc'[e] # pc[e] =>
            pc'[e] = "generate" /\ pc[e] = "stage"
      BY <1>0, <2>4 DEF Stage, DirInv, Typed, Run
    <3> QED  BY <1>0, <2>4, <3>2, <3>3, OthersKeepCounts DEF Stage
  <2>5. CASE Generate(r)
    BY <1>0, <2>5, GeneratePreserves
  <2>6. CASE GenerateFails(r) \/ Tally(r)
    BY <1>0, <2>6, ExitPreserves
  <2> QED  BY <1>2, <2>1, <2>2, <2>3, <2>4, <2>5, <2>6 DEF Script
<1>3. ASSUME NEW e \in Eval, Harness(e) PROVE PassInv'
  <2>1. CASE StartEval(e)
    <3>1. pc[e] = "idle" /\ Launch(e)
      BY <1>0, <2>1 DEF StartEval, DirInv, LiveHasPid
    <3>2. \A x \in Eval :
            /\ pc'[x] # pc[x] => pc'[x] = "reap" /\ pc[x] = "idle"
            /\ pc[x] \in {"make", "tally"} => pid'[x] = pid[x]
      BY <1>0, <3>1 DEF Launch, DirInv, Typed, Run
    <3> QED  BY <1>0, <2>1, <3>2, OthersKeepCounts DEF StartEval
  <2>2. CASE EvalRaises(e) \/ Fork(e) \/ TimeOut(e) \/ KillTree(e)
    BY <1>0, <2>2 DEF EvalRaises, Fork, TimeOut, KillTree, PassInv,
                      Counted, RunsOwnChecks, TallyIsOwn, DirOf, RootOf
  <2>3. CASE Report(e)
    BY <1>0, <2>3, ReportPreserves
  <2>4. CASE EvalEnds(e) \/ Drain(e) \/ EvalReturns(e)
    BY <1>0, <2>4, VerdictPreserves
  <2>5. CASE KillRoot(e)
    BY <1>0, <2>5, OthersKeepCounts DEF KillRoot, PassInv, DirInv, Typed, Run
  <2>6. CASE WaitForZombie(e)
    <3>1. e \notin Alive
      BY <1>0, <2>6 DEF WaitForZombie, DirInv, LiveHasPid
    <3> QED  BY <1>0, <2>6, <3>1, OthersKeepCounts
             DEF WaitForZombie, PassInv, DirInv, Typed, Alive, Run
  <2> QED  BY <1>3, <2>1, <2>2, <2>3, <2>4, <2>5, <2>6 DEF Harness
<1>4. ASSUME NEW c \in SelfCheck, StartSelfCheck(c) PROVE PassInv'
  BY <1>0, <1>4, FormalAssumption, OthersKeepCounts
  DEF StartSelfCheck, Launch, PassInv, DirInv, Typed, Run
<1>5. ASSUME NEW c \in SelfCheck, AgentKilled(c) PROVE PassInv'
  BY <1>0, <1>5, FormalAssumption, OthersKeepCounts
  DEF AgentKilled, PassInv, DirInv, Typed, Run
<1> QED  BY <1>1, <1>2, <1>3, <1>4, <1>5 DEF Next

(* For any number of checks, runs and workers: run_formal reports a pass   *)
(* only when every check its own script generated was run to a pass by its *)
(* own workers, and there were EXPECTED_MIN_CHECKS of them.                *)
THEOREM FormalPassIsOwn == Spec => []PassIsOwn
<1>1. PassInv => PassIsOwn
  BY DEF PassInv, TallyIsOwn, PassIsOwn
<1> QED  BY <1>1, InitPassInv, NextPassInv, PTL DEF Spec

-----------------------------------------------------------------------------
(* Types.                                                                  *)

Results == UNION {[c -> Result] : c \in SUBSET Checks}

(* What the type invariant says beyond Typed and Counted. *)
Rest ==
  /\ nret \in Nrets
  /\ workers \in [Run -> SUBSET (1..MaxWorkers)]
  /\ victims \in [Eval -> SUBSET (1..MaxWorkers)]
  /\ results \in [Root \X Pid -> Results \cup {None}]

LEMMA ReportsAreResults ==
  ASSUME NEW f \in Results, NEW c \in DOMAIN f, NEW x \in Result
  PROVE  [f EXCEPT ![c] = x] \in Results
<1> PICK C \in SUBSET Checks : f \in [C -> Result]
  BY DEF Results
<1>1. [f EXCEPT ![c] = x] \in [C -> Result]
  OBVIOUS
<1> QED  BY <1>1 DEF Results

LEMMA NextRest == Rest /\ PassInv /\ [Next]_vars => Rest'
<1> SUFFICES ASSUME Rest, PassInv, [Next]_vars PROVE Rest'
  OBVIOUS
<1> USE DEF Rest, world, script, sweep, work, storage, gate, history
<1>1. CASE UNCHANGED vars
  BY <1>1 DEF vars
<1>2. ASSUME NEW r \in Run, Script(r) PROVE Rest'
  <2>1. CASE Generate(r)
    <3> PICK new \in SUBSET Checks :
          results' = [results EXCEPT ![DirOf(r)] = [c \in new |-> "none"]]
      BY <2>1 DEF Generate
    <3>1. [c \in new |-> "none"] \in Results
      <4>1. [c \in new |-> "none"] \in [new -> Result]
        BY DEF Result
      <4> QED  BY <4>1 DEF Results
    <3>2. workers' \in [Run -> SUBSET (1..MaxWorkers)]
      BY <2>1, FormalAssumption DEF Generate
    <3> QED  BY <2>1, <3>1, <3>2 DEF Generate
  <2>2. CASE ~Generate(r)
    BY <1>2, <2>2 DEF Script, TestDir, RemoveDir, Reaped, Stage, GenerateFails,
                      WorkerEnds, MakeEnds, Tally, Exit
  <2> QED  BY <2>1, <2>2
<1>3. ASSUME NEW e \in Eval, Harness(e) PROVE Rest'
  <2>1. CASE Report(e)
    <3> DEFINE d == DirOf(e)
    <3> PICK c \in DOMAIN results[d], x \in Outcomes :
          results' = [results EXCEPT ![d] = [@ EXCEPT ![c] = x]]
      BY <2>1 DEF Report
    <3>1. d \in Root \X Pid /\ results[d] # None
      BY <2>1 DEF Report, PassInv, DirInv, Typed, LiveHasPid, Alive, DirOf,
                  RootOf, Root, Run
    <3>2. [results[d] EXCEPT ![c] = x] \in Results
      BY <3>1, ReportsAreResults, FormalAssumption
    <3>3. results' = [results EXCEPT ![d] = [results[d] EXCEPT ![c] = x]]
      OBVIOUS
    <3>4. results' \in [Root \X Pid -> Results \cup {None}]
      BY <3>2, <3>3
    <3> QED  BY <2>1, <3>4 DEF Report
  <2>2. CASE StartEval(e)
    BY <2>2 DEF StartEval, Launch
  <2>3. CASE ~Report(e) /\ ~StartEval(e)
    BY <1>3, <2>3 DEF Harness, EvalRaises, Fork, EvalEnds, TimeOut, KillTree,
                      KillRoot, Drain, EvalReturns, WaitForZombie, Run
  <2> QED  BY <2>1, <2>2, <2>3
<1>4. ASSUME NEW c \in SelfCheck, StartSelfCheck(c) \/ AgentKilled(c)
      PROVE  Rest'
  BY <1>4 DEF StartSelfCheck, Launch, AgentKilled
<1> QED  BY <1>1, <1>2, <1>3, <1>4 DEF Next

(* Every variable keeps its type, whatever the reapers do to the           *)
(* directories that workers report in.                                     *)
THEOREM FormalTypeCorrect == Spec => []TypeOK
<1>1. Init => Rest
  BY DEF Init, Rest
<1>2. PassInv /\ Rest => TypeOK
  BY DEF PassInv, DirInv, Typed, Counted, Rest, TypeOK, Results, States,
         Phases, Says0
<1> QED  BY <1>1, <1>2, NextRest, InitPassInv, NextPassInv, PTL DEF Spec

===============================================================================
