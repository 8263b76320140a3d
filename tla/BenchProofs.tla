----------------------------- MODULE BenchProofs -----------------------------
(***************************************************************************)
(* For any matrix, any number of workers and any number of starts, kills   *)
(* and jobs that raise, a rep gets at most one row and none is passed over *)
(* without one, beside a sweeper too; the row of a launched rep tells of   *)
(* the attempt whose artifacts are in its rep directory, and the publisher *)
(* commits the artifacts of no other attempt, as long as no sweeper takes  *)
(* a clone away; and a sweeper takes none in use where no earlier attempt  *)
(* left a rep directory.                                                   *)
(***************************************************************************)
EXTENDS BenchPublisher, BenchSweeper, TLAPS

\* Where a job of this start is before its row is appended.
Open == {"queued", "fence", "running", "mkdir", "recover", "numbers", "log",
         "summarize", "bundle", "row"}

\* A job that may still append a row has none, neither of this start nor of
\* an earlier one.
OpenHasNoRow == \A j \in Jobs : pc[j] \in Open => RowsOf(j) = {}

\* A job that is through, but for its clone, has a row.
ThroughHasRow == \A j \in Jobs : pc[j] \in {"skip", "drop", "over"} => RowsOf(j) # {}

(* The inductive invariant of the rows alone, which holds whatever becomes  *)
(* of clones and rep directories.  OneRowPerRep needs OpenHasNoRow, which a *)
(* start establishes from the done set.                                     *)
RowInv == TypeOK /\ OneRowPerRep /\ OpenHasNoRow /\ ThroughHasRow

\* The attempt of job j is launched and at the label l.
At(j, l) == pc[j] = l /\ why[j] # "early"

\* What each step of run_one_job has prepared for the next one, as long as
\* nobody takes its clone away.
JobShape(j) ==
  /\ pc[j] # "idle" => starts # 0
  /\ pc[j] \in {"fence", "running", "mkdir", "recover", "numbers", "log",
                 "summarize", "bundle"} => clone[j] = starts
  /\ pc[j] \in {"running", "mkdir", "recover", "numbers", "log"} => "log" \in held[j]
  /\ pc[j] \in {"mkdir", "recover", "numbers"} /\ why[j] = "finished"
        => "numbers" \in held[j]
  /\ pc[j] \in {"log", "summarize"} /\ why[j] = "finished"
        => rep[<<j, "numbers">>] = starts
  /\ pc[j] \in {"summarize", "bundle"} \/ At(j, "row") => rep[<<j, "log">>] = starts
  /\ pc[j] = "bundle" \/ At(j, "row") => rep[<<j, "summary">>] = starts
  /\ pc[j] \in {"bundle", "row"} /\ why[j] = "finished" => stats[j] = starts

Shape == \A j \in Jobs : JobShape(j)

(* The inductive invariant of a matrix whose clones are left alone.  That   *)
(* later steps leave the artifacts of a row alone needs OpenHasNoRow; that  *)
(* the row is right when it is appended needs Shape.                        *)
IInv == RowInv /\ Shape /\ RowsFollowArtifacts /\ DoneRowsAreOwn

-----------------------------------------------------------------------------
(* Rows and the done set *)

\* Every row is final, so the done set is the set of jobs with a row.
LEMMA DoneIsRowed ==
  ASSUME TypeOK
  PROVE  \A j \in Jobs : j \in DoneSet <=> RowsOf(j) # {}
<1>1. \A m \in DOMAIN results : StatusOf(results[m].why) \in Terminal
  BY DEF TypeOK, Row, StatusOf, Terminal
<1> QED  BY <1>1 DEF DoneSet, RowsOf

LEMMA AppendedRows ==
  ASSUME TypeOK, NEW j \in Jobs, AppendRow(j)
  PROVE  /\ RowFor(j) \in Row
         /\ DOMAIN results' = DOMAIN results \cup {Len(results) + 1}
         /\ Len(results) + 1 \notin DOMAIN results
         /\ \A m \in DOMAIN results : results'[m] = results[m]
         /\ results'[Len(results) + 1] = RowFor(j)
<1>1. RowFor(j) \in Row
  BY DEF RowFor, Row, TypeOK
<1> QED  BY <1>1 DEF AppendRow, TypeOK

-----------------------------------------------------------------------------
(* Types *)

LEMMA RefreshedType ==
  ASSUME TypeOK, NEW j \in Jobs, NEW F, NEW a \in Attempts
  PROVE  Refreshed(j, F, a) \in [Jobs \X Files -> Attempts]
BY DEF Refreshed, TypeOK

LEMMA TypeInit == Init => TypeOK
BY StartsAssumption
   DEF Init, TypeOK, Attempts, Asleep, Ends, Contents

LEMMA TypeStep == TypeOK /\ [MatrixNext]_matrixVars => TypeOK'
<1> SUFFICES ASSUME TypeOK, [MatrixNext]_matrixVars PROVE TypeOK'
  OBVIOUS
<1> USE StartsAssumption DEF Attempts, Asleep, Working, Ends, Contents, Goto
<1>1. CASE StartRun
  BY <1>1 DEF StartRun, TypeOK
<1>2. CASE EndRun \/ Kill
  BY <1>2 DEF EndRun, Kill, RunnerGone, TypeOK
<1>3. ASSUME NEW j \in Jobs, JobStep(j) PROVE TypeOK'
  <2>1. CASE CloneFixture(j)
    BY <2>1 DEF CloneFixture, TypeOK
  <2>2. CASE CloneFails(j)
    BY <2>2 DEF CloneFails, TypeOK
  <2>3. CASE FenceFails(j)
    BY <2>3 DEF FenceFails, TypeOK
  <2>4. CASE Launch(j)
    BY <2>4 DEF Launch, MakeDir, TypeOK
  <2>5. CASE PeekCost(j)
    BY <2>5 DEF PeekCost, MakeDir, TypeOK
  <2>6. CASE RoundEnds(j)
    BY <2>6 DEF RoundEnds, TypeOK
  <2>7. CASE Finishes(j)
    BY <2>7 DEF Finishes, Leave, TypeOK
  <2>8. CASE Stops(j)
    BY <2>8 DEF Stops, Interruptions, Leave, TypeOK
  <2>9. CASE MkRepDir(j) \/ Recover(j)
    BY <2>9 DEF MkRepDir, Recover, TypeOK
  <2>10. CASE CopyNumbers(j)
    BY <2>10, RefreshedType DEF CopyNumbers, TypeOK
  <2>11. CASE CopyLog(j)
    <3>1. rep' \in [Jobs \X Files -> Attempts]
      BY <2>11, RefreshedType DEF CopyLog, TypeOK
    <3> QED  BY <2>11, <3>1 DEF CopyLog, MakeDir, TypeOK
  <2>12. CASE Summarize(j)
    BY <2>12, RefreshedType DEF Summarize, TypeOK, Files
  <2>13. CASE Bundle(j)
    <3>1. PICK written : rep' = Refreshed(j, written, clone[j])
      BY <2>13 DEF Bundle
    <3>2. rep' \in [Jobs \X Files -> Attempts]
      BY <3>1, RefreshedType DEF TypeOK
    <3> QED  BY <2>13, <3>2 DEF Bundle, TypeOK
  <2>14. CASE AppendRow(j)
    <3>1. RowFor(j) \in Row /\ results \in Seq(Row)
      BY <2>14, AppendedRows DEF TypeOK
    <3>2. results' \in Seq(Row)
      BY <2>14, <3>1 DEF AppendRow
    <3> QED  BY <2>14, <3>2 DEF AppendRow, TypeOK
  <2>15. CASE DropClone(j)
    <3>1. CASE UNCHANGED <<clone, held, aged>>
      BY <2>15, <3>1 DEF DropClone, TypeOK
    <3>2. CASE /\ clone' = [clone EXCEPT ![j] = 0]
               /\ held' = [held EXCEPT ![j] = {}]
               /\ aged' = aged \ {j}
      BY <2>15, <3>2 DEF DropClone, TypeOK
    <3> QED  BY <2>15, <3>1, <3>2 DEF DropClone
  <2>16. CASE Raises(j)
    <3>1. PICK F \in SUBSET held[j] : held' = [held EXCEPT ![j] = F]
      BY <2>16 DEF Raises
    <3>2. held' \in [Jobs -> SUBSET Contents]
      BY <3>1 DEF TypeOK
    <3> QED  BY <2>16, <3>2 DEF Raises, RunnerGone, TypeOK
  <2> QED  BY <1>3, <2>1, <2>2, <2>3, <2>4, <2>5, <2>6, <2>7, <2>8, <2>9, <2>10,
              <2>11, <2>12, <2>13, <2>14, <2>15, <2>16 DEF JobStep
<1>4. CASE UNCHANGED matrixVars
  BY <1>4 DEF matrixVars, TypeOK
<1> QED  BY <1>1, <1>2, <1>3, <1>4 DEF MatrixNext, RunnerStep

\* Every variable keeps to its type, through every start and every kill.
THEOREM TypeCorrect == MatrixSpec => []TypeOK
BY TypeInit, TypeStep, PTL DEF MatrixSpec

-----------------------------------------------------------------------------
(* The rows *)

\* A step that appends nothing keeps the invariant of the rows if no job
\* comes to be open, or through, by it.
LEMMA NothingAppended ==
  ASSUME RowInv, TypeOK', UNCHANGED results,
         \A j \in Jobs :
            /\ pc'[j] \in Open => pc[j] \in Open
            /\ pc'[j] \in {"skip", "drop", "over"} => pc[j] \in {"skip", "drop", "over"}
  PROVE  RowInv'
BY DEF RowInv, OneRowPerRep, OpenHasNoRow, ThroughHasRow, RowsOf

LEMMA StartRowInv ==
  ASSUME RowInv, TypeOK', StartRun
  PROVE  RowInv'
<1>1. UNCHANGED results
  BY DEF StartRun
<1>2. \A j \in Jobs : pc'[j] = IF RowsOf(j) # {} THEN "skip" ELSE "queued"
  BY DoneIsRowed DEF StartRun, RowInv
<1> QED  BY <1>1, <1>2 DEF RowInv, OneRowPerRep, OpenHasNoRow, ThroughHasRow, RowsOf, Open

\* One row more, of a job that had none.
LEMMA AppendRowInv ==
  ASSUME RowInv, TypeOK', NEW j \in Jobs, AppendRow(j)
  PROVE  RowInv'
<1> DEFINE last == Len(results) + 1
<1>1. /\ pc[j] = "row" /\ pc'[j] \in {"over", "drop"}
      /\ \A i \in Jobs \ {j} : pc'[i] = pc[i]
  BY DEF AppendRow, Goto, RowInv, TypeOK
<1>2. /\ DOMAIN results' = DOMAIN results \cup {last}
      /\ last \notin DOMAIN results
      /\ \A m \in DOMAIN results : results'[m] = results[m]
      /\ results'[last] = RowFor(j)
  BY AppendedRows DEF RowInv
<1>3. results'[last].job = j
  BY <1>2 DEF RowFor
<1>4. \A m \in DOMAIN results : results[m].job # j
  BY <1>1 DEF RowInv, OpenHasNoRow, Open, RowsOf
<1>5. OneRowPerRep'
  BY <1>2, <1>3, <1>4 DEF RowInv, OneRowPerRep
<1>6. OpenHasNoRow'
  <2> SUFFICES ASSUME NEW i \in Jobs, pc'[i] \in Open PROVE RowsOf(i)' = {}
    BY DEF OpenHasNoRow
  <2>1. i # j /\ pc[i] \in Open
    BY <1>1 DEF Open
  <2>2. \A m \in DOMAIN results : results[m].job # i
    BY <2>1 DEF RowInv, OpenHasNoRow, RowsOf
  <2> QED  BY <1>2, <1>3, <2>1, <2>2 DEF RowsOf
<1>7. ThroughHasRow'
  BY <1>1, <1>2, <1>3 DEF RowInv, ThroughHasRow, RowsOf
<1> QED  BY <1>5, <1>6, <1>7 DEF RowInv

\* The other steps of a job.
QuietStep(j) ==
  \/ CloneFixture(j) \/ CloneFails(j) \/ FenceFails(j) \/ Launch(j)
  \/ PeekCost(j) \/ RoundEnds(j) \/ Finishes(j) \/ Stops(j) \/ MkRepDir(j)
  \/ Recover(j) \/ CopyNumbers(j) \/ CopyLog(j) \/ Summarize(j) \/ Bundle(j)
  \/ DropClone(j) \/ Raises(j)

LEMMA QuietMoves ==
  ASSUME TypeOK, NEW j \in Jobs, QuietStep(j)
  PROVE  /\ UNCHANGED <<starts, results>>
         /\ \/ /\ pc[j] \in Open /\ pc'[j] \in (Open \ {"queued"}) \cup {"raised"}
               /\ \A i \in Jobs \ {j} : pc'[i] = pc[i]
            \/ /\ pc[j] = "drop" /\ pc'[j] = "over"
               /\ \A i \in Jobs \ {j} : pc'[i] = pc[i]
            \/ /\ pc[j] \in Open
               /\ \A i \in Jobs : pc'[i] = "idle"
<1> USE DEF TypeOK, Goto, Open
<1>1. CASE CloneFixture(j) \/ CloneFails(j) \/ FenceFails(j) \/ Launch(j)
  BY <1>1 DEF CloneFixture, CloneFails, FenceFails, Launch
<1>2. CASE PeekCost(j) \/ RoundEnds(j) \/ Finishes(j) \/ Stops(j)
  BY <1>2 DEF PeekCost, RoundEnds, Finishes, Stops, Leave
<1>3. CASE MkRepDir(j) \/ Recover(j) \/ CopyNumbers(j) \/ CopyLog(j)
  BY <1>3 DEF MkRepDir, Recover, CopyNumbers, CopyLog
<1>4. CASE Summarize(j) \/ Bundle(j) \/ DropClone(j)
  BY <1>4 DEF Summarize, Bundle, DropClone
<1>5. CASE Raises(j)
  BY <1>5 DEF Raises, RunnerGone, Working
<1> QED  BY <1>1, <1>2, <1>3, <1>4, <1>5 DEF QuietStep

LEMMA JobSteps ==
  ASSUME NEW j \in Jobs
  PROVE  JobStep(j) <=> QuietStep(j) \/ AppendRow(j)
BY DEF JobStep, QuietStep

LEMMA RowInit == Init => RowInv
<1> SUFFICES ASSUME Init PROVE RowInv
  OBVIOUS
<1>1. TypeOK
  BY TypeInit
<1>2. DOMAIN results = {} /\ \A j \in Jobs : pc[j] = "idle"
  BY DEF Init
<1> QED  BY <1>1, <1>2 DEF RowInv, OneRowPerRep, OpenHasNoRow, ThroughHasRow, RowsOf, Open

LEMMA RowStep == RowInv /\ [MatrixNext]_matrixVars => RowInv'
<1> SUFFICES ASSUME RowInv, [MatrixNext]_matrixVars PROVE RowInv'
  OBVIOUS
<1>1. TypeOK'
  BY TypeStep DEF RowInv
<1>2. CASE StartRun
  BY <1>1, <1>2, StartRowInv
<1>3. CASE EndRun \/ Kill
  <2>1. UNCHANGED results /\ \A j \in Jobs : pc'[j] = "idle"
    BY <1>3 DEF EndRun, Kill, RunnerGone
  <2> QED  BY <1>1, <2>1, NothingAppended DEF Open
<1>4. ASSUME NEW j \in Jobs, QuietStep(j) PROVE RowInv'
  <2>1. TypeOK
    BY DEF RowInv
  <2> QED  BY <1>1, <1>4, <2>1, QuietMoves, NothingAppended DEF Open
<1>5. ASSUME NEW j \in Jobs, AppendRow(j) PROVE RowInv'
  BY <1>1, <1>5, AppendRowInv
<1>6. CASE UNCHANGED matrixVars
  BY <1>1, <1>6, NothingAppended DEF matrixVars
<1> QED  BY <1>2, <1>3, <1>4, <1>5, <1>6, JobSteps DEF MatrixNext, RunnerStep

\* A rep gets at most one row, however often the runner is killed and started
\* and its jobs raise.
THEOREM MatrixIsIdempotent == MatrixSpec => []OneRowPerRep
<1>1. RowInv => OneRowPerRep
  BY DEF RowInv
<1> QED  BY <1>1, RowInit, RowStep, PTL DEF MatrixSpec

\* A job that a start skips, or is through with, has its row: the done set
\* (load_done_set) holds no rep that was killed or raised before its row.
THEOREM MatrixForgetsNone == MatrixSpec => []NoneForgotten
<1>1. RowInv => NoneForgotten
  BY DEF RowInv, ThroughHasRow, NoneForgotten
<1> QED  BY <1>1, RowInit, RowStep, PTL DEF MatrixSpec

-----------------------------------------------------------------------------
(* The artifacts, as long as the clones are left alone *)

RowsRight == RowsFollowArtifacts /\ DoneRowsAreOwn

\* The rows that are there stay right while the artifacts of their reps are
\* left alone.
LEMMA RowsStayRight ==
  ASSUME IInv, UNCHANGED results,
         \A j \in Jobs, f \in Files :
            RowsOf(j) # {} => rep'[<<j, f>>] = rep[<<j, f>>]
  PROVE  RowsRight'
<1>1. DoneRowsAreOwn'
  BY DEF IInv, DoneRowsAreOwn
<1>2. ASSUME NEW m \in DOMAIN results
      PROVE  \A f \in Files : rep'[<<results[m].job, f>>] = rep[<<results[m].job, f>>]
  <2>1. results[m] \in Row
    BY DEF IInv, RowInv, TypeOK
  <2>2. results[m].job \in Jobs /\ m \in RowsOf(results[m].job)
    BY <2>1 DEF RowsOf, Row
  <2> QED  BY <2>2
<1>3. RowsFollowArtifacts'
  BY <1>2 DEF IInv, RowsFollowArtifacts, Files
<1> QED  BY <1>1, <1>3 DEF RowsRight

\* A step of one job leaves the shape of the others.
LEMMA OthersKeepShape ==
  ASSUME IInv, NEW i \in Jobs, UNCHANGED starts,
         pc'[i] = pc[i], clone'[i] = clone[i], held'[i] = held[i],
         why'[i] = why[i], stats'[i] = stats[i],
         \A f \in Files : rep'[<<i, f>>] = rep[<<i, f>>]
  PROVE  JobShape(i)'
BY DEF IInv, Shape, JobShape, At, Files

LEMMA InitIInv == Init => IInv
<1> SUFFICES ASSUME Init PROVE IInv
  OBVIOUS
<1>1. RowInv
  BY RowInit
<1>2. RowsFollowArtifacts /\ DoneRowsAreOwn
  BY DEF Init, RowsFollowArtifacts, DoneRowsAreOwn
<1>3. Shape
  BY DEF Init, Shape, JobShape, At
<1> QED  BY <1>1, <1>2, <1>3 DEF IInv

LEMMA StartIInv ==
  ASSUME IInv, RowInv', StartRun
  PROVE  IInv'
<1>1. RowsRight'
  BY RowsStayRight DEF StartRun
<1>2. Shape'
  <2>1. starts' # 0
    BY DEF StartRun, IInv, RowInv, TypeOK, Attempts
  <2> QED  BY <2>1 DEF StartRun, Shape, JobShape, At
<1> QED  BY <1>1, <1>2 DEF IInv, RowsRight

LEMMA GoneIInv ==
  ASSUME IInv, RowInv', RunnerGone, UNCHANGED <<rep, results>>
  PROVE  IInv'
<1>1. RowsRight'
  BY RowsStayRight
<1>2. Shape'
  BY DEF RunnerGone, Shape, JobShape, At
<1> QED  BY <1>1, <1>2 DEF IInv, RowsRight

\* Steps that touch neither the rows nor the rep directory.
EarlyStep(j) ==
  \/ CloneFixture(j) \/ CloneFails(j) \/ FenceFails(j) \/ Launch(j)
  \/ PeekCost(j) \/ RoundEnds(j) \/ Finishes(j) \/ Stops(j) \/ MkRepDir(j)
  \/ Recover(j)

LEMMA EarlyStepIInv ==
  ASSUME IInv, RowInv', NEW j \in Jobs, EarlyStep(j)
  PROVE  IInv'
<1>1. /\ UNCHANGED <<starts, rep, results>>
      /\ \A i \in Jobs \ {j} : pc'[i] = pc[i]
  BY DEF EarlyStep, CloneFixture, CloneFails, FenceFails, Launch, PeekCost,
     RoundEnds, Finishes, Stops, Leave, MkRepDir, Recover, Goto, IInv, RowInv, TypeOK
<1>2. \A i \in Jobs \ {j} : clone'[i] = clone[i] /\ held'[i] = held[i]
  BY DEF EarlyStep, CloneFixture, CloneFails, FenceFails, Launch, MakeDir, PeekCost,
     RoundEnds, Finishes, Stops, Leave, MkRepDir, Recover, IInv, RowInv, TypeOK
<1>3. \A i \in Jobs \ {j} : why'[i] = why[i] /\ stats'[i] = stats[i]
  BY DEF EarlyStep, CloneFixture, CloneFails, FenceFails, Launch, PeekCost,
     RoundEnds, Finishes, Stops, Leave, MkRepDir, Recover, IInv, RowInv, TypeOK
<1>4. RowsRight'
  BY <1>1, RowsStayRight
<1>5. JobShape(j)
  BY DEF IInv, Shape
<1>6. JobShape(j)'
  <2> USE <1>5 DEF IInv, RowInv, TypeOK, JobShape, At, Goto
  <2>1. CASE CloneFixture(j)
    BY <2>1 DEF CloneFixture
  <2>2. CASE CloneFails(j)
    BY <2>2 DEF CloneFails
  <2>3. CASE FenceFails(j)
    BY <2>3 DEF FenceFails
  <2>4. CASE Launch(j)
    BY <2>4 DEF Launch, MakeDir
  <2>5. CASE PeekCost(j)
    BY <2>5 DEF PeekCost
  <2>6. CASE RoundEnds(j)
    BY <2>6 DEF RoundEnds
  <2>7. CASE Finishes(j)
    BY <2>7 DEF Finishes, Leave
  <2>8. CASE Stops(j)
    BY <2>8 DEF Stops, Interruptions, Leave
  <2>9. CASE MkRepDir(j)
    BY <2>9 DEF MkRepDir
  <2>10. CASE Recover(j)
    BY <2>10 DEF Recover
  <2> QED  BY <2>1, <2>2, <2>3, <2>4, <2>5, <2>6, <2>7, <2>8, <2>9, <2>10 DEF EarlyStep
<1>7. Shape'
  <2>1. ASSUME NEW i \in Jobs \ {j} PROVE JobShape(i)'
    BY <1>1, <1>2, <1>3, OthersKeepShape
  <2> QED  BY <1>6, <2>1 DEF Shape
<1> QED  BY <1>4, <1>7 DEF IInv, RowsRight

\* Steps that write files of the rep directory: their job has no row yet.
FileStep(j) == CopyNumbers(j) \/ CopyLog(j) \/ Summarize(j) \/ Bundle(j)

LEMMA FileStepIInv ==
  ASSUME IInv, RowInv', NEW j \in Jobs, FileStep(j)
  PROVE  IInv'
<1>1. /\ UNCHANGED <<starts, held, why, results>>
      /\ pc[j] \in {"numbers", "log", "summarize", "bundle"}
      /\ \A i \in Jobs \ {j} : pc'[i] = pc[i] /\ stats'[i] = stats[i]
  BY DEF FileStep, CopyNumbers, CopyLog, Summarize, Bundle, Goto, IInv, RowInv, TypeOK
<1>2. JobShape(j)
  BY DEF IInv, Shape
<1>3. clone[j] = starts /\ starts # 0 /\ starts \in Attempts /\ UNCHANGED clone
  <2>1. clone[j] = starts /\ starts # 0 /\ starts \in Attempts
    BY <1>1, <1>2 DEF JobShape, IInv, RowInv, TypeOK
  <2>2. [clone EXCEPT ![j] = IF @ = 0 THEN starts ELSE @] = clone
    BY <2>1 DEF IInv, RowInv, TypeOK
  <2> QED  BY <2>1, <2>2 DEF FileStep, CopyNumbers, CopyLog, MakeDir, Summarize, Bundle
<1>4. \E F : rep' = Refreshed(j, F, starts)
  BY <1>3 DEF FileStep, CopyNumbers, CopyLog, Summarize, Bundle
<1>5. PICK F : rep' = Refreshed(j, F, starts)
  BY <1>4
<1>6. \A i \in Jobs \ {j}, f \in Files : rep'[<<i, f>>] = rep[<<i, f>>]
  BY <1>5 DEF Refreshed
<1>7. RowsOf(j) = {}
  BY <1>1 DEF IInv, RowInv, OpenHasNoRow, Open
<1>8. RowsRight'
  BY <1>1, <1>6, <1>7, RowsStayRight
<1>9. JobShape(j)'
  <2> USE <1>1, <1>2, <1>3 DEF JobShape, At, Files
  <2>1. CASE CopyNumbers(j)
    <3>1. rep' = Refreshed(j, held[j] \cap {"numbers"}, starts)
      BY <2>1 DEF CopyNumbers, Copied
    <3>2. \A f \in Files : rep'[<<j, f>>] =
            IF f \in held[j] \cap {"numbers"} THEN starts ELSE rep[<<j, f>>]
      BY <3>1 DEF Refreshed
    <3>3. pc'[j] = "log" /\ pc[j] = "numbers"
      BY <2>1 DEF CopyNumbers, Goto, IInv, RowInv, TypeOK
    <3> QED  BY <3>2, <3>3
  <2>2. CASE CopyLog(j)
    <3>1. rep' = Refreshed(j, held[j] \cap {"log"}, starts)
      BY <2>2 DEF CopyLog, Copied
    <3>2. \A f \in Files : rep'[<<j, f>>] =
            IF f \in held[j] \cap {"log"} THEN starts ELSE rep[<<j, f>>]
      BY <3>1 DEF Refreshed
    <3>3. pc'[j] = "summarize" /\ pc[j] = "log"
      BY <2>2 DEF CopyLog, Goto, IInv, RowInv, TypeOK
    <3> QED  BY <3>2, <3>3
  <2>3. CASE Summarize(j)
    <3>1. rep' = Refreshed(j, {"summary"}, starts)
      BY <2>3 DEF Summarize
    <3>2. \A f \in Files : rep'[<<j, f>>] =
            IF f \in {"summary"} THEN starts ELSE rep[<<j, f>>]
      BY <3>1 DEF Refreshed
    <3>3. /\ pc'[j] = "bundle" /\ pc[j] = "summarize"
          /\ stats'[j] = rep[<<j, "numbers">>]
      BY <2>3 DEF Summarize, Goto, IInv, RowInv, TypeOK
    <3> QED  BY <3>2, <3>3
  <2>4. CASE Bundle(j)
    <3>1. PICK written \in {{}, {"bundle"}} : rep' = Refreshed(j, written, starts)
      BY <2>4 DEF Bundle
    <3>2. \A f \in Files : f # "bundle" => rep'[<<j, f>>] = rep[<<j, f>>]
      BY <3>1 DEF Refreshed
    <3>3. pc'[j] = "row" /\ pc[j] = "bundle" /\ UNCHANGED stats
      BY <2>4 DEF Bundle, Goto, IInv, RowInv, TypeOK
    <3> QED  BY <3>2, <3>3
  <2> QED  BY <2>1, <2>2, <2>3, <2>4 DEF FileStep
<1>10. Shape'
  <2>1. ASSUME NEW i \in Jobs \ {j} PROVE JobShape(i)'
    BY <1>1, <1>3, <1>6, OthersKeepShape
  <2> QED  BY <1>9, <2>1 DEF Shape
<1> QED  BY <1>8, <1>10 DEF IInv, RowsRight

LEMMA DropIInv ==
  ASSUME IInv, RowInv', NEW j \in Jobs, DropClone(j)
  PROVE  IInv'
<1>1. /\ UNCHANGED <<starts, rep, why, stats, results>>
      /\ pc'[j] = "over" /\ pc[j] = "drop"
      /\ \A i \in Jobs \ {j} :
            pc'[i] = pc[i] /\ clone'[i] = clone[i] /\ held'[i] = held[i]
  BY DEF DropClone, Goto, IInv, RowInv, TypeOK
<1>2. RowsRight'
  BY <1>1, RowsStayRight
<1>3. JobShape(j)'
  BY <1>1 DEF IInv, Shape, JobShape, At
<1>4. ASSUME NEW i \in Jobs \ {j} PROVE JobShape(i)'
  BY <1>1, OthersKeepShape
<1> QED  BY <1>2, <1>3, <1>4 DEF IInv, RowsRight, Shape

LEMMA RaiseIInv ==
  ASSUME IInv, RowInv', NEW j \in Jobs, Raises(j)
  PROVE  IInv'
<1>1. CASE RunnerGone
  BY <1>1, GoneIInv DEF Raises
<1>2. CASE Goto(j, "raised")
  <2>1. /\ UNCHANGED <<starts, clone, rep, why, stats, results>>
        /\ pc'[j] = "raised" /\ pc[j] # "idle"
        /\ \A i \in Jobs \ {j} : pc'[i] = pc[i] /\ held'[i] = held[i]
    BY <1>2 DEF Raises, Goto, IInv, RowInv, TypeOK, Working
  <2>2. RowsRight'
    BY <2>1, RowsStayRight
  <2>3. JobShape(j)'
    BY <2>1 DEF IInv, Shape, JobShape, At
  <2>4. ASSUME NEW i \in Jobs \ {j} PROVE JobShape(i)'
    BY <2>1, OthersKeepShape
  <2> QED  BY <2>2, <2>3, <2>4 DEF IInv, RowsRight, Shape
<1> QED  BY <1>1, <1>2 DEF Raises

LEMMA AppendIInv ==
  ASSUME IInv, RowInv', NEW j \in Jobs, AppendRow(j)
  PROVE  IInv'
<1> DEFINE last == Len(results) + 1
<1>1. /\ UNCHANGED <<starts, clone, held, rep, why, stats>>
      /\ pc[j] = "row" /\ pc'[j] \in {"over", "drop"}
      /\ \A i \in Jobs \ {j} : pc'[i] = pc[i]
  BY DEF AppendRow, Goto, IInv, RowInv, TypeOK
<1>2. /\ DOMAIN results' = DOMAIN results \cup {last}
      /\ \A m \in DOMAIN results : results'[m] = results[m]
      /\ results'[last] = RowFor(j)
  BY AppendedRows DEF IInv, RowInv
<1>3. /\ results'[last].job = j
      /\ results'[last].by = starts
      /\ results'[last].why = why[j]
      /\ results'[last].stats = stats[j]
  BY <1>2 DEF RowFor
<1>4. JobShape(j)
  BY DEF IInv, Shape
<1>5. RowsFollowArtifacts'
  <2>1. why[j] # "early" =>
          rep[<<j, "summary">>] = starts /\ rep[<<j, "log">>] = starts
    BY <1>1, <1>4 DEF JobShape, At
  <2> QED  BY <1>1, <1>2, <1>3, <2>1 DEF IInv, RowsFollowArtifacts
<1>6. DoneRowsAreOwn'
  <2>1. why[j] = "finished" => stats[j] = starts
    BY <1>1, <1>4 DEF JobShape
  <2> QED  BY <1>2, <1>3, <2>1 DEF IInv, DoneRowsAreOwn
<1>7. JobShape(j)'
  BY <1>1, <1>4 DEF JobShape, At
<1>8. ASSUME NEW i \in Jobs \ {j} PROVE JobShape(i)'
  BY <1>1, OthersKeepShape
<1> QED  BY <1>5, <1>6, <1>7, <1>8 DEF IInv, Shape

LEMMA StepIInv == IInv /\ [MatrixNext]_matrixVars => IInv'
<1> SUFFICES ASSUME IInv, [MatrixNext]_matrixVars PROVE IInv'
  OBVIOUS
<1>1. RowInv'
  BY RowStep DEF IInv
<1>2. CASE StartRun
  BY <1>1, <1>2, StartIInv
<1>3. CASE EndRun \/ Kill
  BY <1>1, <1>3, GoneIInv DEF EndRun, Kill
<1>4. ASSUME NEW j \in Jobs, JobStep(j) PROVE IInv'
  BY <1>1, <1>4, EarlyStepIInv, FileStepIInv, AppendIInv, DropIInv, RaiseIInv
     DEF JobStep, EarlyStep, FileStep
<1>5. CASE UNCHANGED matrixVars
  <2>1. RowsRight'
    BY <1>5, RowsStayRight DEF matrixVars
  <2>2. Shape'
    BY <1>5, OthersKeepShape DEF matrixVars, Shape
  <2> QED  BY <1>1, <2>1, <2>2 DEF IInv, RowsRight
<1> QED  BY <1>2, <1>3, <1>4, <1>5 DEF MatrixNext, RunnerStep

\* The summary and the log in a rep directory are, from its row on, those of
\* the attempt in the row.
THEOREM ArtifactsComeFirst == MatrixSpec => []RowsFollowArtifacts
<1>1. IInv => RowsFollowArtifacts
  BY DEF IInv
<1> QED  BY <1>1, InitIInv, StepIInv, PTL DEF MatrixSpec

\* A row that says "done" reports the numbers of its own attempt.
THEOREM DoneIsOwn == MatrixSpec => []DoneRowsAreOwn
<1>1. IInv => DoneRowsAreOwn
  BY DEF IInv
<1> QED  BY <1>1, InitIInv, StepIInv, PTL DEF MatrixSpec

-----------------------------------------------------------------------------
(* The publisher *)

\* What the publisher knows: the committed file is a prefix, the reps it is
\* about to publish have rows.
PublisherShape ==
  /\ watcher \in {"poll", "render", "commit", "push", "gone"}
  /\ pending \subseteq Jobs
  /\ headRep \in [Jobs -> Attempts]
  /\ head \in 0..Len(results)
  /\ watcher \in {"render", "commit"} => \A j \in pending : RowsOf(j) # {}

(* PublishedIsFinal is not inductive alone: that the summary taken for a    *)
(* pending rep is the one in its row is RowsFollowArtifacts of the runner.  *)
PublisherIInv == IInv /\ PublisherShape /\ PublishedIsFinal

LEMMA PublisherInit == InitPublisher => PublisherIInv
<1> SUFFICES ASSUME InitPublisher PROVE PublisherIInv
  OBVIOUS
<1>1. IInv
  BY InitIInv DEF InitPublisher
<1>2. PublisherShape
  BY StartsAssumption DEF InitPublisher, Init, PublisherShape, Attempts
<1>3. PublishedIsFinal
  BY DEF InitPublisher, PublishedIsFinal
<1> QED  BY <1>1, <1>2, <1>3 DEF PublisherIInv

\* The runner only appends rows.
LEMMA RunnerAppends ==
  ASSUME TypeOK, [MatrixNext]_matrixVars
  PROVE  /\ Len(results') \in Nat /\ Len(results) <= Len(results')
         /\ \A m \in DOMAIN results : m \in DOMAIN results' /\ results'[m] = results[m]
<1>1. CASE UNCHANGED results
  BY <1>1 DEF TypeOK
<1>2. ASSUME NEW j \in Jobs, AppendRow(j)
      PROVE  /\ Len(results') \in Nat /\ Len(results) <= Len(results')
             /\ \A m \in DOMAIN results :
                  m \in DOMAIN results' /\ results'[m] = results[m]
  <2>1. results' \in Seq(Row)
    BY TypeStep DEF TypeOK
  <2>2. results \in Seq(Row) /\ RowFor(j) \in Row
    BY <1>2, AppendedRows DEF TypeOK
  <2> QED  BY <1>2, <2>1, <2>2 DEF AppendRow
<1>3. \/ UNCHANGED results
      \/ \E j \in Jobs : AppendRow(j)
  <2>1. \A j \in Jobs : QuietStep(j) => UNCHANGED results
    BY QuietMoves
  <2> QED  BY <2>1, JobSteps DEF MatrixNext, RunnerStep, StartRun, EndRun, Kill, matrixVars
<1> QED  BY <1>1, <1>2, <1>3

LEMMA PublisherRunnerStep ==
  ASSUME PublisherIInv, [MatrixNext]_matrixVars, UNCHANGED watcherVars
  PROVE  PublisherIInv'
<1>1. IInv'
  BY StepIInv DEF PublisherIInv
<1>2. /\ Len(results') \in Nat /\ Len(results) <= Len(results')
      /\ \A m \in DOMAIN results : m \in DOMAIN results' /\ results'[m] = results[m]
  BY RunnerAppends DEF PublisherIInv, IInv, RowInv
<1>3. Len(results) \in Nat /\ DOMAIN results = 1..Len(results)
  BY DEF PublisherIInv, IInv, RowInv, TypeOK
<1>4. \A j \in Jobs : RowsOf(j) # {} => RowsOf(j)' # {}
  BY <1>2 DEF RowsOf
<1>5. PublisherShape'
  BY <1>2, <1>3, <1>4 DEF PublisherIInv, PublisherShape, watcherVars
<1>6. PublishedIsFinal'
  <2>1. \A m \in 1..head : m \in DOMAIN results
    BY <1>3 DEF PublisherIInv, PublisherShape
  <2> QED  BY <1>2, <2>1 DEF PublisherIInv, PublishedIsFinal, watcherVars
<1> QED  BY <1>1, <1>5, <1>6 DEF PublisherIInv

LEMMA PublisherCommit ==
  ASSUME PublisherIInv, CommitRows
  PROVE  PublishedIsFinal'
<1>1. Len(results) \in Nat /\ DOMAIN results = 1..Len(results)
  BY DEF PublisherIInv, IInv, RowInv, TypeOK
<1>2. /\ UNCHANGED results /\ head' = Len(results) /\ head \in 0..Len(results)
      /\ headRep' = [j \in Jobs |->
            IF j \in pending THEN rep[<<j, "summary">>] ELSE headRep[j]]
  BY DEF CommitRows, matrixVars, PublisherIInv, PublisherShape
<1>3. ASSUME NEW j \in Jobs, headRep'[j] # 0
      PROVE  \E m \in 1..Len(results) :
               /\ results[m].job = j
               /\ results[m].why # "early" => results[m].by = headRep'[j]
  <2>1. CASE j \in pending
    <3>1. RowsOf(j) # {}
      BY <2>1 DEF CommitRows, PublisherIInv, PublisherShape
    <3>2. PICK m \in DOMAIN results : results[m].job = j
      BY <3>1 DEF RowsOf
    <3>3. results[m].why # "early" => results[m].by = rep[<<j, "summary">>]
      BY <3>2 DEF PublisherIInv, IInv, RowsFollowArtifacts
    <3> QED  BY <1>1, <1>2, <2>1, <3>2, <3>3
  <2>2. CASE j \notin pending
    <3>1. headRep[j] # 0 /\ headRep'[j] = headRep[j]
      BY <1>2, <1>3, <2>2
    <3>2. PICK m \in 1..head :
            /\ results[m].job = j
            /\ results[m].why # "early" => results[m].by = headRep[j]
      BY <3>1 DEF PublisherIInv, PublishedIsFinal
    <3> QED  BY <1>1, <1>2, <3>1, <3>2
  <2> QED  BY <2>1, <2>2
<1> QED  BY <1>2, <1>3 DEF PublishedIsFinal

LEMMA PublisherStep == PublisherIInv /\ [Next]_vars => PublisherIInv'
<1> SUFFICES ASSUME PublisherIInv, [Next]_vars PROVE PublisherIInv'
  OBVIOUS
<1>1. CASE MatrixNext /\ UNCHANGED watcherVars
  BY <1>1, PublisherRunnerStep
<1>2. CASE UNCHANGED vars
  BY <1>2, PublisherRunnerStep DEF vars, watcherVars, matrixVars
<1>3. CASE WatcherStep \/ RenderFails \/ CommitFails \/ PushFails
  <2>1. UNCHANGED matrixVars
    BY <1>3 DEF WatcherStep, ReadRows, StageRows, CommitRows, PushHead,
       WatcherEnds, RenderFails, CommitFails, PushFails, Defer
  <2>2. IInv'
    BY <2>1, StepIInv DEF PublisherIInv
  <2>3. Len(results) \in Nat /\ \A j \in Jobs : RowsOf(j)' = RowsOf(j)
    BY <2>1 DEF matrixVars, RowsOf, PublisherIInv, IInv, RowInv, TypeOK
  <2>4. CASE ReadRows
    <3>1. PublisherShape'
      BY <2>1, <2>3, <2>4
         DEF ReadRows, PendingReps, PublisherIInv, PublisherShape, matrixVars
    <3>2. PublishedIsFinal'
      BY <2>1, <2>4 DEF ReadRows, PublisherIInv, PublishedIsFinal, matrixVars
    <3> QED  BY <2>2, <3>1, <3>2 DEF PublisherIInv
  <2>5. CASE CommitRows
    <3>1. headRep' \in [Jobs -> Attempts]
      BY <2>5 DEF CommitRows, PublisherIInv, PublisherShape, IInv, RowInv, TypeOK, Files
    <3>2. PublisherShape'
      BY <2>1, <2>3, <2>5, <3>1
         DEF CommitRows, PublisherIInv, PublisherShape, matrixVars
    <3> QED  BY <2>2, <2>5, <3>2, PublisherCommit DEF PublisherIInv
  <2>6. CASE \/ StageRows \/ PushHead \/ WatcherEnds
             \/ RenderFails \/ CommitFails \/ PushFails
    <3>1. /\ UNCHANGED <<pending, head, headRep>>
          /\ \/ watcher' \in {"poll", "gone"}
             \/ watcher = "render" /\ watcher' = "commit"
      BY <2>6 DEF StageRows, PushHead, WatcherEnds, RenderFails, CommitFails,
         PushFails, Defer
    <3>2. PublisherShape'
      BY <2>1, <2>3, <3>1 DEF PublisherIInv, PublisherShape, matrixVars
    <3>3. PublishedIsFinal'
      BY <2>1, <3>1 DEF PublisherIInv, PublishedIsFinal, matrixVars
    <3> QED  BY <2>2, <3>2, <3>3 DEF PublisherIInv
  <2> QED  BY <1>3, <2>4, <2>5, <2>6 DEF WatcherStep
<1> QED  BY <1>1, <1>2, <1>3 DEF Next

\* What is committed for a rep is the summary of the attempt in its row.
THEOREM PublishesFinalReps == Spec => []PublishedIsFinal
<1>1. PublisherIInv => PublishedIsFinal
  BY DEF PublisherIInv
<1> QED  BY <1>1, PublisherInit, PublisherStep, PTL DEF Spec

\* The runner is the runner, publisher or not: its rows stay one per rep.
THEOREM PublisherRunsMatrix == Spec => MatrixSpec
<1>1. InitPublisher => Init
  BY DEF InitPublisher
<1>2. [Next]_vars => [MatrixNext]_matrixVars
  <2>1. ASSUME WatcherStep \/ RenderFails \/ CommitFails \/ PushFails
        PROVE  UNCHANGED matrixVars
    BY <2>1 DEF WatcherStep, ReadRows, StageRows, CommitRows, PushHead,
       WatcherEnds, RenderFails, CommitFails, PushFails, Defer
  <2> QED  BY <2>1 DEF Next, vars, matrixVars
<1> QED  BY <1>1, <1>2, PTL DEF Spec, MatrixSpec
-----------------------------------------------------------------------------
(* The sweeper *)

\* The sweeper leaves the rows alone, and where the jobs are.
LEMMA SweeperTypes ==
  ASSUME TypeOK,
         \/ \E j \in Jobs : CloneAges(j) \/ ArchiveClone(j) \/ DeleteClone(j)
         \/ ListClones
  PROVE  TypeOK' /\ UNCHANGED <<starts, pc, repDir, results>>
<1>1. ASSUME NEW j \in Jobs, ArchiveClone(j)
      PROVE  TypeOK' /\ UNCHANGED <<starts, pc, repDir, results>>
  <2>1. PICK F : rep' = Refreshed(j, F, clone[j])
    BY <1>1 DEF ArchiveClone
  <2>2. rep' \in [Jobs \X Files -> Attempts]
    BY <2>1, RefreshedType DEF TypeOK
  <2> QED  BY <1>1, <2>2 DEF ArchiveClone, TypeOK
<1>2. ASSUME NEW j \in Jobs, DeleteClone(j)
      PROVE  TypeOK' /\ UNCHANGED <<starts, pc, repDir, results>>
  BY <1>2, StartsAssumption DEF DeleteClone, TypeOK, Attempts
<1>3. ASSUME NEW j \in Jobs, CloneAges(j)
      PROVE  TypeOK' /\ UNCHANGED <<starts, pc, repDir, results>>
  BY <1>3 DEF CloneAges, TypeOK
<1>4. CASE ListClones
  BY <1>4 DEF ListClones, matrixVars, TypeOK
<1> QED  BY <1>1, <1>2, <1>3, <1>4

LEMMA SweeperRowStep == RowInv /\ [SweeperNext]_allVars => RowInv'
<1> SUFFICES ASSUME RowInv, [SweeperNext]_allVars PROVE RowInv'
  OBVIOUS
<1>1. CASE MatrixNext \/ UNCHANGED allVars
  BY <1>1, RowStep DEF allVars, matrixVars
<1>2. CASE \/ \E j \in Jobs : CloneAges(j) \/ ArchiveClone(j) \/ DeleteClone(j)
           \/ ListClones
  <2>1. TypeOK
    BY DEF RowInv
  <2>2. TypeOK' /\ UNCHANGED <<starts, pc, repDir, results>>
    BY <1>2, <2>1, SweeperTypes
  <2> QED  BY <2>2, NothingAppended
<1> QED  BY <1>1, <1>2 DEF SweeperNext

LEMMA SweeperRowInv == SweeperSpec => []RowInv
<1>1. InitSweeper => RowInv
  BY RowInit DEF InitSweeper
<1> QED  BY <1>1, SweeperRowStep, PTL DEF SweeperSpec

\* Whatever a sweeper takes away while the matrix runs, and however often the
\* runner dies of it and is started again, a rep gets at most one row.
THEOREM SweptMatrixIsIdempotent == SweeperSpec => []OneRowPerRep
<1>1. RowInv => OneRowPerRep
  BY DEF RowInv
<1> QED  BY <1>1, SweeperRowInv, PTL

\* And no rep is passed over: one whose clone was taken away under it raises
\* without a row and is left to the next start.
THEOREM SweptMatrixForgetsNone == SweeperSpec => []NoneForgotten
<1>1. RowInv => NoneForgotten
  BY DEF RowInv, ThroughHasRow, NoneForgotten
<1> QED  BY <1>1, SweeperRowInv, PTL

(* LiveCloneIsKept rests on when a rep directory comes into being: in a     *)
(* first start it is not there before its run is over, and no clone without *)
(* one is ever listed.                                                      *)
SweepInv ==
  /\ starts = 0 => repDir = {} /\ \A j \in Jobs : pc[j] = "idle"
  /\ starts <= 1 => \A j \in Jobs : pc[j] \in {"queued", "fence", "running"} => j \notin repDir
  /\ \A j \in Jobs : pc[j] \in {"fence", "running"} /\ j \notin repDir =>
        clone[j] = starts /\ "git" \in held[j]
  /\ listed \subseteq repDir /\ target \subseteq repDir

\* The job's own part of a step of the runner.
LEMMA JobSweepInv ==
  ASSUME TypeOK, SweepInv, NEW j \in Jobs, JobStep(j)
  PROVE  /\ UNCHANGED starts /\ starts # 0
         /\ \A i \in Jobs : pc'[i] \in {"queued", "fence", "running"} =>
               /\ pc[i] \in {"queued", "fence", "running"}
               /\ i \in repDir' => i \in repDir
               /\ pc'[i] \in {"fence", "running"} /\ i \notin repDir' =>
                     clone'[i] = starts /\ "git" \in held'[i]
         /\ repDir \subseteq repDir'
<1> USE DEF TypeOK, SweepInv, Goto
<1>1. pc[j] # "idle" /\ starts # 0
  <2>1. QuietStep(j) => pc[j] # "idle"
    BY QuietMoves DEF Open
  <2> QED  BY <2>1, JobSteps DEF AppendRow
<1>2. CASE CloneFixture(j) \/ CloneFails(j) \/ FenceFails(j)
  BY <1>1, <1>2 DEF CloneFixture, CloneFails, FenceFails
<1>3. CASE Launch(j) \/ PeekCost(j)
  BY <1>1, <1>3 DEF Launch, PeekCost, MakeDir
<1>4. CASE RoundEnds(j)
  BY <1>1, <1>4 DEF RoundEnds
<1>5. CASE Finishes(j) \/ Stops(j)
  BY <1>1, <1>5 DEF Finishes, Stops, Leave
<1>6. CASE MkRepDir(j) \/ Recover(j)
  BY <1>1, <1>6 DEF MkRepDir, Recover
<1>7. CASE CopyNumbers(j) \/ CopyLog(j) \/ Summarize(j) \/ Bundle(j)
  BY <1>1, <1>7 DEF CopyNumbers, CopyLog, MakeDir, Summarize, Bundle
<1>8. CASE AppendRow(j) \/ DropClone(j)
  BY <1>1, <1>8 DEF AppendRow, DropClone
<1>9. CASE Raises(j)
  BY <1>1, <1>9 DEF Raises, RunnerGone
<1> QED  BY <1>2, <1>3, <1>4, <1>5, <1>6, <1>7, <1>8, <1>9 DEF JobStep

\* The runner's part of SweepInv.
LEMMA MatrixSweepInv ==
  ASSUME TypeOK, SweepInv, MatrixNext, UNCHANGED sweeperVars
  PROVE  SweepInv'
<1>1. CASE StartRun
  BY <1>1 DEF StartRun, TypeOK, SweepInv, sweeperVars, Attempts
<1>2. CASE EndRun \/ Kill
  BY <1>2 DEF EndRun, Kill, RunnerGone, SweepInv, sweeperVars
<1>3. ASSUME NEW j \in Jobs, JobStep(j) PROVE SweepInv'
  <2> USE <1>3, JobSweepInv DEF SweepInv, sweeperVars
  <2>1. (starts = 0 => repDir = {} /\ \A i \in Jobs : pc[i] = "idle")'
    OBVIOUS
  <2>2. (starts <= 1 => \A i \in Jobs :
            pc[i] \in {"queued", "fence", "running"} => i \notin repDir)'
    OBVIOUS
  <2>3. (\A i \in Jobs : pc[i] \in {"fence", "running"} /\ i \notin repDir =>
            clone[i] = starts /\ "git" \in held[i])'
    OBVIOUS
  <2>4. (listed \subseteq repDir /\ target \subseteq repDir)'
    OBVIOUS
  <2> QED  BY <2>1, <2>2, <2>3, <2>4
<1> QED  BY <1>1, <1>2, <1>3 DEF MatrixNext, RunnerStep

LEMMA SweeperSweepInv ==
  ASSUME TypeOK, SweepInv, [SweeperNext]_allVars
  PROVE  SweepInv'
<1> USE DEF SweepInv
<1>1. CASE MatrixNext /\ UNCHANGED sweeperVars
  BY <1>1, MatrixSweepInv
<1>2. CASE UNCHANGED <<starts, pc, clone, held, repDir, listed, target>>
  BY <1>2
<1>3. CASE ListClones
  BY <1>3 DEF ListClones, matrixVars, StaleClones
<1>4. ASSUME NEW j \in Jobs, ArchiveClone(j) PROVE SweepInv'
  <2>1. target' \subseteq repDir /\ listed' \subseteq repDir
    BY <1>4 DEF ArchiveClone
  <2>2. UNCHANGED <<starts, pc, clone, held, repDir>>
    BY <1>4 DEF ArchiveClone
  <2> QED  BY <2>1, <2>2
<1>5. ASSUME NEW j \in Jobs, DeleteClone(j) PROVE SweepInv'
  <2>1. j \in repDir /\ UNCHANGED <<starts, pc, repDir, listed>> /\ target' = {}
    BY <1>5 DEF DeleteClone
  <2>2. \A i \in Jobs \ {j} : clone'[i] = clone[i] /\ held'[i] = held[i]
    BY <1>5 DEF DeleteClone, TypeOK
  <2> QED  BY <2>1, <2>2
<1> QED  BY <1>1, <1>2, <1>3, <1>4, <1>5
         DEF SweeperNext, CloneAges, sweeperVars, allVars

\* The sweeper never takes the clone of a job whose orchestrator is running,
\* in a first start or as long as no attempt has left a rep directory
\* (find_stale_clones asks for one).
THEOREM SweeperKeepsLiveClones == SweeperSpec => []LiveCloneIsKept
<1>1. InitSweeper => SweepInv
  BY DEF InitSweeper, Init, SweepInv
<1>2. RowInv /\ SweepInv /\ [SweeperNext]_allVars => SweepInv'
  BY SweeperSweepInv DEF RowInv
<1>3. SweepInv => LiveCloneIsKept
  BY DEF SweepInv, LiveCloneIsKept
<1> QED  BY <1>1, <1>2, <1>3, SweeperRowInv, PTL DEF SweeperSpec
=============================================================================
