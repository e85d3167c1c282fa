-------------------------- MODULE EvaluationProofs ---------------------------
(***************************************************************************)
(* Proofs about a benchmark run and its evaluation: the run itself         *)
(* (BenchmarkRun), for any number of pairs and of cancellations; the       *)
(* container that executes a candidate's code (Sandbox), for any number of *)
(* cancellations; and the evaluators, the summary and the exporter that    *)
(* share the run's directory (EvaluationRuns), for any number of results   *)
(* and evaluators.                                                         *)
(***************************************************************************)
EXTENDS MCEvaluation, FiniteSetTheorems, TLAPS

-----------------------------------------------------------------------------
(* The run.                                                                *)

\* Before the first call there is one job at most, the start; its abandoned
\* thread is alone with the artifacts for good.
StartAlone ==
    /\ pc = "new" => status = "none"
    /\ pc \in {"new", "refused", "call", "calling"} => jobs = {}
    /\ pc = "starting" =>
          /\ \A j \in jobs : j.operation = Start
          /\ reply # "none" => jobs = {}
          /\ reply = "ok" => manifest /\ status = "running"
    /\ pc \in {"aborting", "returned"} => \A j \in jobs : j.operation # Start
    /\ \A j \in jobs : j.operation = Start =>
          /\ status = "none"
          /\ j.phase = "manifested" => manifest
          /\ \A k \in jobs : k.operation = Start
          /\ \A p \in Pairs : called[p] = 0

\* While the runner awaits a result or the completion, that job is the only
\* one, and its end is what the reply says.
AwaitedAlone ==
    /\ pc = "recording" =>
          /\ awaited = Record(pos)
          /\ \A j \in jobs : j.operation = Record(pos)
          /\ reply # "none" => jobs = {}
          /\ reply = "none" => results[pos] = 0
          /\ reply = "ok" => results[pos] = 1
          /\ reply = "failed" => results[pos] = 0
    /\ pc = "completing" =>
          /\ awaited = Finish("completed")
          /\ \A j \in jobs : j.operation = Finish("completed")
          /\ reply # "none" => jobs = {}

\* The pairs before the current one are called and recorded, those after it
\* untouched.
Progress ==
    /\ pc \in {"new", "starting", "refused"} => pos = 1
    /\ pc \in {"call", "calling", "recording"} => pos \in Pairs
    /\ pc = "completing" => pos = N + 1
    /\ \A p \in Pairs :
          /\ p < pos => called[p] = 1 /\ results[p] = 1
          /\ p > pos => called[p] = 0
          /\ results[p] <= called[p] /\ called[p] <= 1
    /\ pos \in Pairs =>
          /\ pc \in {"new", "refused", "starting", "call"} => called[pos] = 0
          /\ pc \in {"calling", "recording"} => called[pos] = 1
          /\ pc \in {"call", "calling"} => results[pos] = 0

\* A result in flight is the current pair's, called and not yet on disk, and
\* there is one; a completion in flight or on disk means all pairs are done.
InFlight ==
    /\ \A j \in jobs : j.operation.op = "record" =>
          /\ j.operation.pair = pos
          /\ pos \in Pairs
          /\ called[pos] = 1
          /\ results[pos] = 0
    /\ \A j, k \in jobs : j.operation = k.operation => j = k
    /\ \A j \in jobs : j.operation = Finish("completed") => pos = N + 1
    /\ status = "completed" => pos = N + 1

\* Storage exists once the loop has been entered.
Stored ==
    /\ pc \in {"call", "calling", "recording", "completing", "aborting",
               "returned"} => manifest /\ status # "none"
    /\ (\E p \in Pairs : called[p] > 0) => manifest /\ status # "none"

Inv ==
    /\ TypeOK
    /\ StartAlone
    /\ AwaitedAlone
    /\ Progress
    /\ InFlight
    /\ Stored

-----------------------------------------------------------------------------
Jobs == [operation : Operations, phase : Phases]

\* Operations are told apart by their name and their pair.
LEMMA OperationFacts ==
    /\ {Start, Finish("completed"), Finish("aborted")} \subseteq Operations
    /\ \A p \in Pairs :
          Record(p) \in Operations /\ Record(p).op = "record" /\ Record(p).pair = p
    /\ Start.op = "start"
    /\ Finish("completed").op = "completed"
    /\ Finish("aborted").op = "aborted"
    /\ \A o \in Operations :
          /\ o.op \in {"start", "record", "completed", "aborted"}
          /\ o.op = "start" => o = Start
          /\ o.op = "completed" => o = Finish("completed")
          /\ o.op = "aborted" => o = Finish("aborted")
          /\ o.op = "record" => o.pair \in Pairs /\ o = Record(o.pair)
<1>1. {Start, Finish("completed"), Finish("aborted")} \subseteq Operations
  BY DEF Operations
<1>2. \A p \in Pairs : Record(p) \in Operations
  BY DEF Operations
<1>3. \A p : Record(p).op = "record" /\ Record(p).pair = p
  BY DEF Record
<1>4. /\ Start.op = "start"
      /\ Finish("completed").op = "completed"
      /\ Finish("aborted").op = "aborted"
  BY DEF Start, Finish
<1>5. ASSUME NEW o \in Operations
      PROVE  \/ o = Start \/ o = Finish("completed") \/ o = Finish("aborted")
             \/ \E p \in Pairs : o = Record(p)
  BY DEF Operations
<1>6. ASSUME NEW o \in Operations
      PROVE  /\ o.op \in {"start", "record", "completed", "aborted"}
             /\ o.op = "start" => o = Start
             /\ o.op = "completed" => o = Finish("completed")
             /\ o.op = "aborted" => o = Finish("aborted")
             /\ o.op = "record" => o.pair \in Pairs /\ o = Record(o.pair)
  BY <1>3, <1>4, <1>5
<1> QED
  BY <1>1, <1>2, <1>3, <1>4, <1>6

\* What a job is made of, and that taking it up keeps its operation.
LEMMA JobFacts ==
    /\ \A o \in Operations :
          Job(o) \in Jobs /\ Job(o).operation = o /\ Job(o).phase = "queued"
    /\ \A j \in Jobs, f \in Phases :
          /\ [j EXCEPT !.phase = f] \in Jobs
          /\ [j EXCEPT !.phase = f].operation = j.operation
          /\ [j EXCEPT !.phase = f].phase = f
  BY DEF Job, Jobs, Phases

\* The invariant holds at first.
LEMMA InitInv == Init => Inv
<1> SUFFICES ASSUME Init PROVE Inv
  OBVIOUS
<1> USE PairsAssumption DEF Init, Pairs
<1>1. TypeOK
  <2>1. results \in [1..N -> Nat] /\ called \in [1..N -> Nat]
    OBVIOUS
  <2>2. cancels \in 0..MaxCancels /\ pos \in 1..(N + 1)
    BY CancelsAssumption
  <2> QED
    BY <2>1, <2>2 DEF TypeOK
<1>2. StartAlone
  BY DEF StartAlone
<1>3. AwaitedAlone
  BY DEF AwaitedAlone
<1>4. Progress
  BY DEF Progress
<1>5. InFlight
  BY DEF InFlight
<1>6. Stored
  BY DEF Stored
<1> QED
  BY <1>1, <1>2, <1>3, <1>4, <1>5, <1>6 DEF Inv

\* Every step keeps the invariant.
LEMMA NextInv == Inv /\ [Next]_vars => Inv'
<1> SUFFICES ASSUME Inv, [Next]_vars PROVE Inv'
  OBVIOUS
<1> USE PairsAssumption, OperationFacts, JobFacts DEF Pairs, Jobs
<1>0. TypeOK /\ StartAlone /\ AwaitedAlone /\ Progress /\ InFlight /\ Stored
  BY DEF Inv
<1>1. CASE Refuse
  <2>1. TypeOK'
    BY <1>0, <1>1 DEF TypeOK, Ended, Refuse, disk, history
  <2>2. StartAlone'
    BY <1>0, <1>1 DEF StartAlone, Refuse
  <2>3. AwaitedAlone'
    BY <1>0, <1>1 DEF AwaitedAlone, Refuse
  <2>4. Progress'
    BY <1>0, <1>1 DEF Progress, Refuse, disk
  <2>5. InFlight'
    BY <1>0, <1>1 DEF InFlight, Refuse, disk
  <2>6. Stored'
    BY <1>0, <1>1 DEF Stored, Refuse, disk
  <2> QED
    BY <2>1, <2>2, <2>3, <2>4, <2>5, <2>6 DEF Inv
<1>2. CASE Submit
  <2>1. TypeOK'
    BY <1>0, <1>2 DEF TypeOK, Submit, Await, disk, history
  <2>2. StartAlone'
    BY <1>0, <1>2 DEF StartAlone, Progress, Submit, Await, disk
  <2>3. AwaitedAlone'
    BY <1>0, <1>2 DEF AwaitedAlone, Submit
  <2>4. Progress'
    BY <1>0, <1>2 DEF Progress, Submit, disk
  <2>5. InFlight'
    BY <1>0, <1>2 DEF InFlight, StartAlone, Submit, Await, disk
  <2>6. Stored'
    BY <1>0, <1>2 DEF Stored, Submit, disk
  <2> QED
    BY <2>1, <2>2, <2>3, <2>4, <2>5, <2>6 DEF Inv
<1>3. CASE StartReturns
  <2>1. TypeOK'
    BY <1>0, <1>3 DEF TypeOK, Ended, StartReturns, StartRaises, disk
  <2>2. StartAlone'
    BY <1>0, <1>3 DEF StartAlone, StartReturns, StartRaises
  <2>3. AwaitedAlone'
    BY <1>0, <1>3 DEF AwaitedAlone, StartReturns, StartRaises
  <2>4. Progress'
    BY <1>0, <1>3 DEF Progress, TypeOK, StartReturns, StartRaises, disk
  <2>5. InFlight'
    BY <1>0, <1>3 DEF InFlight, StartReturns, StartRaises, disk
  <2>6. Stored'
    BY <1>0, <1>3 DEF Stored, StartAlone, StartReturns, StartRaises, disk
  <2> QED
    BY <2>1, <2>2, <2>3, <2>4, <2>5, <2>6 DEF Inv
<1>4. CASE Generate
  <2>1. TypeOK'
    BY <1>0, <1>4 DEF TypeOK, Progress, Generate, disk, history
  <2>2. StartAlone'
    BY <1>0, <1>4 DEF StartAlone, Generate
  <2>3. AwaitedAlone'
    BY <1>0, <1>4 DEF AwaitedAlone, Generate
  <2>4. Progress'
    BY <1>0, <1>4 DEF Progress, TypeOK, Generate, disk
  <2>5. InFlight'
    BY <1>0, <1>4 DEF InFlight, StartAlone, Generate, disk
  <2>6. Stored'
    BY <1>0, <1>4 DEF Stored, Generate, disk
  <2> QED
    BY <2>1, <2>2, <2>3, <2>4, <2>5, <2>6 DEF Inv
<1>5. CASE CallAnswered
  <2>1. TypeOK'
    BY <1>0, <1>5 DEF TypeOK, Progress, CallAnswered, Await, disk, history
  <2>2. StartAlone'
    BY <1>0, <1>5 DEF StartAlone, Progress, CallAnswered, Await
  <2>3. AwaitedAlone'
    BY <1>0, <1>5
       DEF AwaitedAlone, StartAlone, Progress, CallAnswered, Await, disk
  <2>4. Progress'
    BY <1>0, <1>5 DEF Progress, CallAnswered, disk
  <2>5. InFlight'
    BY <1>0, <1>5
       DEF InFlight, StartAlone, Progress, CallAnswered, Await, disk
  <2>6. Stored'
    BY <1>0, <1>5 DEF Stored, CallAnswered, disk
  <2> QED
    BY <2>1, <2>2, <2>3, <2>4, <2>5, <2>6 DEF Inv
<1>6. CASE CallDeadlineExceeded
  <2>1. TypeOK'
    BY <1>0, <1>6 DEF TypeOK, CallDeadlineExceeded, AbortBecause, Await, disk
  <2>2. StartAlone'
    BY <1>0, <1>6 DEF StartAlone, CallDeadlineExceeded, AbortBecause, Await
  <2>3. AwaitedAlone'
    BY <1>0, <1>6 DEF AwaitedAlone, CallDeadlineExceeded, AbortBecause
  <2>4. Progress'
    BY <1>0, <1>6 DEF Progress, CallDeadlineExceeded, AbortBecause, disk
  <2>5. InFlight'
    BY <1>0, <1>6
       DEF InFlight, StartAlone, CallDeadlineExceeded, AbortBecause, Await,
           disk
  <2>6. Stored'
    BY <1>0, <1>6 DEF Stored, CallDeadlineExceeded, disk
  <2> QED
    BY <2>1, <2>2, <2>3, <2>4, <2>5, <2>6 DEF Inv
<1>7. CASE RecordReturns
  <2>1. TypeOK'
    BY <1>0, <1>7
       DEF TypeOK, Progress, RecordReturns, NextPair, RecordFails,
           AbortBecause, Await, disk
  <2>2. StartAlone'
    BY <1>0, <1>7
       DEF StartAlone, AwaitedAlone, RecordReturns, NextPair, RecordFails,
           AbortBecause, Await
  <2>3. AwaitedAlone'
    BY <1>0, <1>7
       DEF AwaitedAlone, RecordReturns, NextPair, RecordFails, AbortBecause,
           Await
  <2>4. Progress'
    BY <1>0, <1>7
       DEF Progress, TypeOK, AwaitedAlone, RecordReturns, NextPair,
           RecordFails, AbortBecause, disk
  <2>5. InFlight'
    BY <1>0, <1>7
       DEF InFlight, AwaitedAlone, Progress, RecordReturns, NextPair,
           RecordFails, AbortBecause, Await, disk
  <2>6. Stored'
    BY <1>0, <1>7 DEF Stored, RecordReturns, disk
  <2> QED
    BY <2>1, <2>2, <2>3, <2>4, <2>5, <2>6 DEF Inv
<1>8. CASE CompletedReturns
  <2>1. TypeOK'
    BY <1>0, <1>8
       DEF TypeOK, Ended, CompletedReturns, AbortBecause, Await, disk
  <2>2. StartAlone'
    BY <1>0, <1>8
       DEF StartAlone, AwaitedAlone, CompletedReturns, AbortBecause, Await
  <2>3. AwaitedAlone'
    BY <1>0, <1>8 DEF AwaitedAlone, CompletedReturns, AbortBecause
  <2>4. Progress'
    BY <1>0, <1>8 DEF Progress, CompletedReturns, AbortBecause, disk
  <2>5. InFlight'
    BY <1>0, <1>8
       DEF InFlight, AwaitedAlone, CompletedReturns, AbortBecause, Await, disk
  <2>6. Stored'
    BY <1>0, <1>8 DEF Stored, CompletedReturns, disk
  <2> QED
    BY <2>1, <2>2, <2>3, <2>4, <2>5, <2>6 DEF Inv
<1>9. CASE AbortedReturns
  <2>1. TypeOK'
    BY <1>0, <1>9 DEF TypeOK, Ended, AbortedReturns, disk, history
  <2>2. StartAlone'
    BY <1>0, <1>9 DEF StartAlone, AbortedReturns
  <2>3. AwaitedAlone'
    BY <1>0, <1>9 DEF AwaitedAlone, AbortedReturns
  <2>4. Progress'
    BY <1>0, <1>9 DEF Progress, AbortedReturns, disk
  <2>5. InFlight'
    BY <1>0, <1>9 DEF InFlight, AbortedReturns, disk
  <2>6. Stored'
    BY <1>0, <1>9 DEF Stored, AbortedReturns, disk
  <2> QED
    BY <2>1, <2>2, <2>3, <2>4, <2>5, <2>6 DEF Inv
<1>10. CASE Cancel
  <2>1. TypeOK'
    BY <1>0, <1>10, CancelsAssumption
       DEF TypeOK, Ended, Cancel, CancelRaises, CancelCalling, CancelAwait,
           Withdraw, AbortBecause, Await, disk
  <2>2. StartAlone'
    BY <1>0, <1>10
       DEF StartAlone, Progress, Cancel, CancelRaises, CancelCalling,
           CancelAwait, Withdraw, AbortBecause, Await, disk
  <2>3. AwaitedAlone'
    BY <1>0, <1>10
       DEF AwaitedAlone, Cancel, CancelRaises, CancelCalling, CancelAwait,
           AbortBecause
  <2>4. Progress'
    BY <1>0, <1>10
       DEF Progress, Cancel, CancelRaises, CancelCalling, CancelAwait,
           AbortBecause, disk
  <2>5. InFlight'
    BY <1>0, <1>10
       DEF InFlight, StartAlone, AwaitedAlone, Progress, Cancel, CancelRaises,
           CancelCalling, CancelAwait, Withdraw, AbortBecause, Await, disk
  <2>6. Stored'
    BY <1>0, <1>10 DEF Stored, Cancel, CancelRaises, disk
  <2> QED
    BY <2>1, <2>2, <2>3, <2>4, <2>5, <2>6 DEF Inv
<1>11. ASSUME NEW j \in jobs, Take(j) PROVE Inv'
  <2>1. TypeOK'
    <3>1. jobs' \subseteq Jobs
      BY <1>0, <1>11 DEF TypeOK, Phases, Take
    <3> QED
      BY <1>0, <1>11, <3>1 DEF TypeOK, Take, disk, history, runner
  <2>2. StartAlone'
    BY <1>0, <1>11 DEF StartAlone, TypeOK, Take, disk, runner
  <2>3. AwaitedAlone'
    BY <1>0, <1>11 DEF AwaitedAlone, TypeOK, Take, disk, runner
  <2>4. Progress'
    BY <1>0, <1>11 DEF Progress, Take, disk, runner
  <2>5. InFlight'
    BY <1>0, <1>11 DEF InFlight, TypeOK, Take, disk, runner
  <2>6. Stored'
    BY <1>0, <1>11 DEF Stored, Take, disk, runner
  <2> QED
    BY <2>1, <2>2, <2>3, <2>4, <2>5, <2>6 DEF Inv
<1>12. ASSUME NEW j \in jobs, WriteManifest(j) PROVE Inv'
  <2>1. TypeOK'
    BY <1>0, <1>12 DEF TypeOK, Phases, WriteManifest, history, runner
  <2>2. StartAlone'
    BY <1>0, <1>12 DEF StartAlone, TypeOK, WriteManifest, runner
  <2>3. AwaitedAlone'
    BY <1>0, <1>12 DEF AwaitedAlone, TypeOK, WriteManifest, runner
  <2>4. Progress'
    BY <1>0, <1>12 DEF Progress, WriteManifest, runner
  <2>5. InFlight'
    <3> DEFINE taken == [j EXCEPT !.phase = "manifested"]
    <3>1. taken.operation = Start /\ jobs' = (jobs \ {j}) \union {taken}
      BY <1>0, <1>12 DEF TypeOK, Phases, WriteManifest
    <3> HIDE DEF taken
    <3>2. \A k \in jobs \ {j} : k.operation # Start
      BY <1>0, <1>12 DEF InFlight, WriteManifest
    <3> QED
      BY <1>0, <1>12, <3>1, <3>2 DEF InFlight, WriteManifest, runner
  <2>6. Stored'
    BY <1>0, <1>12 DEF Stored, WriteManifest, runner
  <2> QED
    BY <2>1, <2>2, <2>3, <2>4, <2>5, <2>6 DEF Inv
<1>13. ASSUME NEW j \in jobs, WriteRunning(j) PROVE Inv'
  <2>1. TypeOK'
    BY <1>0, <1>13 DEF TypeOK, WriteRunning, Report, history
  <2>2. StartAlone'
    BY <1>0, <1>13 DEF StartAlone, InFlight, WriteRunning
  <2>3. AwaitedAlone'
    BY <1>0, <1>13 DEF AwaitedAlone, Progress, WriteRunning
  <2>4. Progress'
    BY <1>0, <1>13 DEF Progress, WriteRunning
  <2>5. InFlight'
    BY <1>0, <1>13 DEF InFlight, WriteRunning
  <2>6. Stored'
    BY <1>0, <1>13 DEF Stored, WriteRunning
  <2> QED
    BY <2>1, <2>2, <2>3, <2>4, <2>5, <2>6 DEF Inv
<1>14. ASSUME NEW j \in jobs, WriteResult(j) PROVE Inv'
  <2>1. TypeOK'
    BY <1>0, <1>14 DEF TypeOK, WriteResult, Report, history
  <2>2. StartAlone'
    BY <1>0, <1>14 DEF StartAlone, WriteResult
  <2>3. AwaitedAlone'
    BY <1>0, <1>14 DEF AwaitedAlone, TypeOK, InFlight, WriteResult, Report
  <2>4. Progress'
    BY <1>0, <1>14 DEF Progress, StartAlone, InFlight, WriteResult
  <2>5. InFlight'
    BY <1>0, <1>14 DEF InFlight, TypeOK, WriteResult
  <2>6. Stored'
    BY <1>0, <1>14 DEF Stored, WriteResult
  <2> QED
    BY <2>1, <2>2, <2>3, <2>4, <2>5, <2>6 DEF Inv
<1>15. ASSUME NEW j \in jobs, WriteStatus(j) PROVE Inv'
  <2>1. TypeOK'
    BY <1>0, <1>15 DEF TypeOK, WriteStatus, Report, history
  <2>2. StartAlone'
    BY <1>0, <1>15 DEF StartAlone, WriteStatus
  <2>3. AwaitedAlone'
    BY <1>0, <1>15 DEF AwaitedAlone, Progress, InFlight, WriteStatus
  <2>4. Progress'
    BY <1>0, <1>15 DEF Progress, WriteStatus
  <2>5. InFlight'
    BY <1>0, <1>15 DEF InFlight, TypeOK, WriteStatus
  <2>6. Stored'
    BY <1>0, <1>15 DEF Stored, WriteStatus
  <2> QED
    BY <2>1, <2>2, <2>3, <2>4, <2>5, <2>6 DEF Inv
<1>16. ASSUME NEW j \in jobs, WriteFails(j) PROVE Inv'
  <2>1. TypeOK'
    BY <1>0, <1>16 DEF TypeOK, WriteFails, Report, disk
  <2>2. StartAlone'
    BY <1>0, <1>16 DEF StartAlone, InFlight, WriteFails, Report
  <2>3. AwaitedAlone'
    BY <1>0, <1>16 DEF AwaitedAlone, InFlight, WriteFails, Report, disk
  <2>4. Progress'
    BY <1>0, <1>16 DEF Progress, WriteFails, disk
  <2>5. InFlight'
    BY <1>0, <1>16 DEF InFlight, WriteFails, disk
  <2>6. Stored'
    BY <1>0, <1>16 DEF Stored, WriteFails, disk
  <2> QED
    BY <2>1, <2>2, <2>3, <2>4, <2>5, <2>6 DEF Inv
<1>17. CASE Crash
  <2>1. TypeOK'
    BY <1>0, <1>17 DEF TypeOK, Ended, Crash, disk, history
  <2>2. StartAlone'
    BY <1>0, <1>17 DEF StartAlone, Crash
  <2>3. AwaitedAlone'
    BY <1>0, <1>17 DEF AwaitedAlone, Crash
  <2>4. Progress'
    BY <1>0, <1>17 DEF Progress, Crash, disk
  <2>5. InFlight'
    BY <1>0, <1>17 DEF InFlight, Crash, disk
  <2>6. Stored'
    BY <1>0, <1>17 DEF Stored, Crash, disk
  <2> QED
    BY <2>1, <2>2, <2>3, <2>4, <2>5, <2>6 DEF Inv
<1>18. CASE UNCHANGED vars
  BY <1>0, <1>18
     DEF Inv, TypeOK, StartAlone, AwaitedAlone, Progress, InFlight,
                  Stored, vars, runner, disk, history
<1> QED
  BY <1>1, <1>2, <1>3, <1>4, <1>5, <1>6, <1>7, <1>8, <1>9, <1>10,
     <1>11, <1>12, <1>13, <1>14, <1>15, <1>16, <1>17, <1>18
     DEF Next, Runner, Workers, Worker, Done

\* The invariant holds in every state of every run.
THEOREM Invariance == Spec => []Inv
<1>1. Init => Inv
  BY InitInv
<1>2. Inv /\ [Next]_vars => Inv'
  BY NextInv
<1> QED
  BY <1>1, <1>2, PTL DEF Spec

-----------------------------------------------------------------------------
\* Type correctness for any number of pairs and of cancellations.
THEOREM TypeCorrect == Spec => []TypeOK
<1>1. Inv => TypeOK
  BY DEF Inv
<1> QED
  BY <1>1, Invariance, PTL

\* A run marked as completed has called every pair once and holds exactly one
\* result of each (runner.py 118-157).
THEOREM CompletedSound == Spec => []CompletedMeansAllPairs
<1>1. Inv => CompletedMeansAllPairs
  BY PairsAssumption
     DEF Inv, Progress, InFlight, CompletedMeansAllPairs, Pairs
<1> QED
  BY <1>1, Invariance, PTL

\* At most one paid answer is ever missing from the disk, the last one
\* (runner.py 155-156).
THEOREM LossBounded == Spec => []AtMostOneLost
<1>1. Inv => AtMostOneLost
  BY PairsAssumption
     DEF Inv, TypeOK, Progress, AtMostOneLost, Pairs
<1> QED
  BY <1>1, Invariance, PTL

\* Nothing is called before the manifest and the status exist (runner.py 117).
THEOREM StorageFirst == Spec => []StorageBeforeCalls
<1>1. Inv => StorageBeforeCalls
  BY DEF Inv, Stored, StorageBeforeCalls
<1> QED
  BY <1>1, Invariance, PTL

\* No step, not even of an abandoned thread, turns a marked run back into a
\* running one (repository.py 40-45, runner.py 117).
THEOREM StatusForward == Spec => NeverRunningAgain
<1>1. Inv /\ [Next]_vars =>
         [status # "none" /\ status # "running" => status' # "running"]_vars
  <2> SUFFICES ASSUME Inv, Next, status # "none", status # "running"
               PROVE  status' # "running"
    BY DEF vars, disk
  <2>1. ASSUME NEW j \in jobs, Worker(j) PROVE status' # "running"
    <3>1. j.operation # Start
      BY DEF Inv, StartAlone
    <3>2. ~WriteRunning(j)
      BY <3>1 DEF WriteRunning
    <3> QED
      BY <2>1, <3>2
         DEF Worker, Take, WriteManifest, WriteResult, WriteStatus, WriteFails,
             disk
  <2>2. ASSUME Runner \/ Cancel \/ Crash \/ Done PROVE status' = status
    BY <2>2
       DEF Runner, Refuse, Submit, StartReturns, Generate, CallAnswered,
           CallDeadlineExceeded, RecordReturns, CompletedReturns,
           AbortedReturns, Cancel, Crash, Done, vars, disk
  <2> QED
    BY <2>1, <2>2 DEF Next, Workers
<1> QED
  BY <1>1, Invariance, PTL DEF Spec, NeverRunningAgain

-----------------------------------------------------------------------------
\* A failure that the runner has seen is a failed write; a job it has seen
\* succeed is on disk; the handler's cancellation counts as one; and what has
\* been raised was marked first.
Marking ==
    /\ reply = "failed" => diskFailed
    /\ pc = "completing" /\ reply = "ok" => status = "completed"
    /\ pc = "returned" => jobs = {} /\ status = "completed"
    /\ pc = "aborting" =>
          /\ awaited = Finish("aborted")
          /\ reply = "ok" => status \in {"completed", "aborted"}
    /\ cause = "cancelled" => cancels >= 1
    /\ /\ pc = "raised" /\ ~diskFailed
       /\ cancels = 0 \/ (cancels = 1 /\ cause = "cancelled")
       /\ \E p \in Pairs : called[p] > 0
       => status \in {"completed", "aborted"}

\* A step of the runner or of its canceller keeps the marking.
LEMMA RunnerMarks == Inv /\ Marking /\ (Runner \/ Cancel \/ Crash) => Marking'
<1> SUFFICES ASSUME Inv, Marking, Runner \/ Cancel \/ Crash PROVE Marking'
  OBVIOUS
<1>0. TypeOK /\ StartAlone /\ AwaitedAlone /\ Progress
  BY DEF Inv
<1>1. CASE Refuse \/ Submit \/ Generate \/ CallAnswered
  BY <1>1 DEF Marking, Refuse, Submit, Generate, CallAnswered, Await, disk, history
<1>2. CASE StartReturns
  BY <1>2 DEF Marking, StartReturns, StartRaises, disk
<1>3. CASE CallDeadlineExceeded
  BY <1>3 DEF Marking, CallDeadlineExceeded, AbortBecause, Await, disk
<1>4. CASE RecordReturns
  BY <1>4 DEF Marking, RecordReturns, NextPair, RecordFails, AbortBecause, Await, disk
<1>5. CASE CompletedReturns
  BY <1>0, <1>5 DEF Marking, AwaitedAlone, CompletedReturns, AbortBecause, Await, disk
<1>6. CASE AbortedReturns
  BY <1>0, <1>6 DEF Marking, TypeOK, AbortedReturns, disk, history
<1>7. CASE Cancel
  <2>1. cancels \in Nat /\ cancels' = cancels + 1
    BY <1>0, <1>7, CancelsAssumption DEF TypeOK, Cancel
  <2>2. CASE pc = "starting"
    <3>1. \A p \in Pairs : called[p] = 0
      BY <1>0, <2>2, PairsAssumption DEF Progress, TypeOK, Pairs
    <3> QED
      BY <1>7, <2>1, <2>2, <3>1 DEF Marking, Cancel, CancelRaises, disk
  <2>3. CASE pc = "aborting"
    BY <1>7, <2>1, <2>3 DEF Marking, Cancel, CancelRaises, disk
  <2>4. CASE pc \in {"calling", "recording", "completing"}
    BY <1>7, <2>1, <2>4
       DEF Marking, Cancel, CancelCalling, CancelAwait, AbortBecause, Await, disk
  <2> QED
    BY <1>7, <2>2, <2>3, <2>4 DEF Cancel
<1>8. CASE Crash
  BY <1>8 DEF Marking, Crash, disk, history
<1> QED
  BY <1>1, <1>2, <1>3, <1>4, <1>5, <1>6, <1>7, <1>8 DEF Runner

\* A step of a worker, awaited or abandoned, keeps the marking.
LEMMA WorkerMarks == ASSUME Inv, Marking, NEW j \in jobs, Worker(j) PROVE Marking'
<1>0. TypeOK /\ StartAlone /\ AwaitedAlone
  BY DEF Inv
<1>1. j.operation \in Operations /\ pc # "returned"
  BY <1>0 DEF Marking, TypeOK
<1>2. CASE Take(j) \/ WriteManifest(j)
  BY <1>1, <1>2 DEF Marking, Take, WriteManifest, runner, disk, history
<1>3. CASE WriteRunning(j)
  BY <1>0, <1>1, <1>3, OperationFacts
     DEF Marking, StartAlone, AwaitedAlone, WriteRunning, Report, history
<1>4. CASE WriteResult(j)
  BY <1>0, <1>1, <1>4, OperationFacts
     DEF Marking, AwaitedAlone, WriteResult, Report, history
<1>5. CASE WriteStatus(j)
  BY <1>0, <1>1, <1>5, OperationFacts
     DEF Marking, AwaitedAlone, WriteStatus, Report, history
<1>6. CASE WriteFails(j)
  BY <1>0, <1>1, <1>6, OperationFacts
     DEF Marking, AwaitedAlone, WriteFails, Report, disk
<1> QED
  BY <1>2, <1>3, <1>4, <1>5, <1>6 DEF Worker

\* status.json exists before the first paid call, and a run that ended in order,
\* a cancelled one too, is marked as what it was (runner.py 117, 157-161).
THEOREM StatusTrue == Spec => []StatusTellsTheRun
<1>1. Init => Marking
  BY DEF Init, Marking
<1>2. Inv /\ Marking /\ [Next]_vars => Marking'
  <2> SUFFICES ASSUME Inv, Marking, [Next]_vars PROVE Marking'
    OBVIOUS
  <2>1. CASE UNCHANGED vars
    BY <2>1 DEF Marking, vars, runner, disk, history
  <2> QED
    BY <2>1, RunnerMarks, WorkerMarks DEF Next, Workers, Done
<1>3. Inv /\ Marking => StatusTellsTheRun
  BY DEF Inv, Stored, Marking, StatusTellsTheRun, StorageBeforeCalls, OrderlyEndIsMarked
<1> QED
  BY <1>1, <1>2, <1>3, Invariance, PTL DEF Spec

-----------------------------------------------------------------------------
(* The parts of MCEvaluation.                                              *)

\* A behaviour of MCEvaluation moves one component and leaves the others alone,
\* so it is a behaviour of each.
LEMMA PartsAreComponents ==
    PartsSpec => Spec /\ Docker!Spec /\ Evaluation!Spec
<1>1. PartsInit => Init /\ Docker!Init /\ Evaluation!Init
  BY DEF PartsInit
<1>2. [PartsNext]_allVars => [Next]_vars
  BY DEF PartsNext, Moves, allVars
<1>3. [PartsNext]_allVars => [Docker!Next]_(Docker!vars)
  BY DEF PartsNext, Moves, allVars, sandbox, Docker!vars, Docker!docker
<1>4. [PartsNext]_allVars => [Evaluation!Next]_(Evaluation!vars)
  BY DEF PartsNext, Moves, allVars, evaluation, Evaluation!vars
<1> QED
  BY <1>1, <1>2, <1>3, <1>4, PTL DEF PartsSpec, Spec, Docker!Spec, Evaluation!Spec

-----------------------------------------------------------------------------
(* The container.                                                          *)

\* Only a client that runs starts a container, and none runs once evaluate has
\* left its wait; an exit code other than a failure to start is a program's.
Attended ==
    /\ sandboxPc \notin {"spawn", "wait"} => client # "running"
    /\ client = "none" => container # "running" /\ code = "none"
    /\ container = "running" => ran
    /\ code \in Docker!Endings => ran

SandboxInv == Docker!TypeOK /\ Attended /\ Docker!OutcomeIsHonest

\* Every step of the coroutine, of docker and of a cancellation keeps it.
LEMMA SandboxStep == SandboxInv /\ [Docker!Next]_(Docker!vars) => SandboxInv'
<1> SUFFICES ASSUME SandboxInv, [Docker!Next]_(Docker!vars) PROVE SandboxInv'
  OBVIOUS
<1> USE DockerAssumption
    DEF SandboxInv, Attended, Docker!TypeOK, Docker!OutcomeIsHonest, Docker!Scored,
        Docker!NoContainerLeft, Docker!ScoredMeansRan, Docker!Endings,
        Docker!StartFailures, Docker!docker, Docker!SandboxAssumption
<1>1. CASE Docker!Fork
  BY <1>1 DEF Docker!Fork
<1>2. CASE Docker!ContainerStarts
  BY <1>2 DEF Docker!ContainerStarts
<1>3. CASE Docker!StartFails
  BY <1>3 DEF Docker!StartFails
<1>4. CASE Docker!ContainerEnds
  BY <1>4 DEF Docker!ContainerEnds
<1>5. CASE Docker!Reap
  BY <1>5 DEF Docker!Reap
<1>6. CASE Docker!OrphanEnds
  <2> USE <1>6 DEF Docker!OrphanEnds
  <2>a. rmFailed' \in BOOLEAN /\ orphan' \in BOOLEAN /\ ran' \in BOOLEAN
    <3>1. rmFailed' = (rmFailed \/ container' = "running")
      OBVIOUS
    <3>2. rmFailed' \in BOOLEAN
      BY <3>1, Zenon
    <3> QED
      BY <3>2
  <2>b. container' \in {"absent", "running", "gone"}
    OBVIOUS
  <2>1. Docker!TypeOK'
    BY <2>a, <2>b
  <2>2. Attended' /\ Docker!ScoredMeansRan'
    OBVIOUS
  <2>3. Docker!NoContainerLeft'
    OBVIOUS
  <2> QED
    BY <2>1, <2>2, <2>3
<1>7. CASE Docker!SpawnFails
  BY <1>7 DEF Docker!SpawnFails
<1>8. CASE Docker!Spawned
  BY <1>8 DEF Docker!Spawned
<1>9. CASE Docker!Communicated
  BY <1>9 DEF Docker!Communicated
<1>10. CASE Docker!WaitTimeout
  BY <1>10 DEF Docker!WaitTimeout, Docker!KillThen, Docker!Kill
<1>11. CASE Docker!WaitFails
  BY <1>11 DEF Docker!WaitFails, Docker!KillThen, Docker!Kill
<1>12. CASE Docker!ReapReturns
  BY <1>12 DEF Docker!ReapReturns
<1>13. CASE Docker!Removed
  BY <1>13 DEF Docker!Removed, Docker!Leave, Docker!Classify
<1>14. CASE Docker!RemoveFails
  BY <1>14 DEF Docker!RemoveFails, Docker!Leave, Docker!Classify
<1>15. CASE Docker!Cancel
  <2> USE <1>15 DEF Docker!Cancel
  <2>1. CASE sandboxPc = "spawn"
    BY <2>1 DEF Docker!CancelSpawn, Docker!Kill
  <2>2. CASE sandboxPc = "wait"
    BY <2>2 DEF Docker!CancelWait, Docker!KillThen, Docker!Kill
  <2>3. CASE sandboxPc = "reap"
    BY <2>3 DEF Docker!Leave, Docker!Classify
  <2>4. CASE sandboxPc \in {"handler", "finally"}
    <3> USE <2>4 DEF Docker!Leave, Docker!Classify
    <3>a. interrupts' \in 0 .. MaxInterrupts
      OBVIOUS
    <3>b. hit' \subseteq {"spawn", "wait", "reap", "handler", "finally"}
      OBVIOUS
    <3>c. /\ sandboxPc' \in {"finally", "done"} /\ after' = "cancelled"
          /\ verdict' \in {verdict, "raised"}
      OBVIOUS
    <3>d. orphan' \in BOOLEAN /\ ran' \in BOOLEAN /\ rmFailed' \in BOOLEAN
      OBVIOUS
    <3>e. UNCHANGED <<client, code, container>>
      OBVIOUS
    <3>1. Docker!TypeOK'
      BY <3>a, <3>b, <3>c, <3>d, <3>e
    <3>2. Attended' /\ Docker!OutcomeIsHonest'
      OBVIOUS
    <3> QED
      BY <3>1, <3>2
  <2> QED
    BY <2>1, <2>2, <2>3, <2>4
<1>16. CASE UNCHANGED Docker!vars
  BY <1>16 DEF Docker!vars
<1> QED
  BY <1>1, <1>2, <1>3, <1>4, <1>5, <1>6, <1>7, <1>8, <1>9, <1>10, <1>11, <1>12,
     <1>13, <1>14, <1>15, <1>16
     DEF Docker!Next, Docker!Coroutine, Docker!Timed, Docker!Environment, Docker!Done

\* SandboxInv holds in every state of an evaluation in the sandbox.
LEMMA SandboxInvariant == PartsSpec => []SandboxInv
<1>1. Docker!Init => SandboxInv
  <2> SUFFICES ASSUME Docker!Init PROVE SandboxInv
    OBVIOUS
  <2>1. interrupts \in 0 .. MaxInterrupts
    BY DockerAssumption DEF Docker!Init, Docker!SandboxAssumption
  <2>2. Docker!TypeOK
    BY <2>1 DEF Docker!Init, Docker!TypeOK, Docker!Scored
  <2>3. Attended /\ Docker!OutcomeIsHonest
    BY DEF Docker!Init, Attended, Docker!OutcomeIsHonest, Docker!NoContainerLeft,
           Docker!ScoredMeansRan, Docker!Scored, Docker!Endings
  <2> QED
    BY <2>2, <2>3 DEF SandboxInv
<1> QED
  BY PartsAreComponents, SandboxStep, <1>1, PTL DEF Docker!Spec

\* Whatever the candidate, the docker client and the daemon do and however often
\* evaluate is cancelled, no container runs on after an end whose removals
\* succeeded and that was not cancelled in the two unguarded places, and what is
\* scored was run (evaluation/sandbox.py).
THEOREM OutcomeHonest == PartsSpec => []OutcomeIsHonest
  BY SandboxInvariant, PTL DEF SandboxInv, OutcomeIsHonest

-----------------------------------------------------------------------------
(* The run's directory.                                                    *)

Verdicts == {"yes", "no", "none"}
Statuses ==
    {"evaluated", "partial", "requires_functional_execution", "requires_semantic_judge"}
Evaluations ==
    [by : Evaluators, status : Statuses, acceptable : Verdicts, call : BOOLEAN, cost : 0..1]
MaybeEvaluations == Evaluations \cup {Evaluation!None}

Shapes ==
    /\ run \in {"running", "completed", "aborted"}
    /\ stored \in [Results -> Kinds \cup {"none"}]
    /\ evaluator \in [Evaluators -> {"idle", "refused", "evaluating", "saving", "done",
                                     "failed", "stopped"}]
    /\ made \in [Evaluators -> [Results -> MaybeEvaluations]]
    /\ spent \in [Evaluators -> Nat] /\ lost \in [Evaluators -> Nat]
    /\ written \in [Evaluators -> SUBSET Results]
    /\ files \in [Results -> MaybeEvaluations]
    /\ reader \in [stage : {"idle", "reading", "refused", "done"},
                   listed : SUBSET Results, read : [Results -> MaybeEvaluations]]

\* An evaluator judges nothing before the run is completed, and writes nothing
\* before it has judged everything.
Course ==
    \A e \in Evaluators :
        /\ evaluator[e] \notin {"idle", "refused"} => run = "completed"
        /\ evaluator[e] \in {"idle", "refused"} =>
              \A r \in Results : made[e][r] = Evaluation!None
        /\ evaluator[e] \in {"saving", "done"} \/ written[e] # {} =>
              \A r \in Results : made[e][r] # Evaluation!None
        /\ evaluator[e] \in {"idle", "refused", "evaluating", "failed"} => written[e] = {}
        /\ evaluator[e] = "done" => written[e] = Results /\ summary # Evaluation!None

\* What an evaluator made of a result is its own, gives a verdict exactly when
\* it says so, and none on a response that never arrived.
Justified ==
    \A e \in Evaluators, r \in Results : made[e][r] # Evaluation!None =>
        /\ made[e][r].by = e
        /\ (made[e][r].status = "evaluated") <=> (made[e][r].acceptable # "none")
        /\ stored[r] \in Evaluation!Failed => made[e][r].acceptable = "none"

\* The results whose judge reported what it charged.
Charged(e) == {r \in Results : made[e][r] # Evaluation!None /\ made[e][r].cost = 1}

Accounts == \A e \in Evaluators : spent[e] = lost[e] + Cardinality(Charged(e))

\* A file holds what one of its writers made, and the summary that of an
\* evaluator that has written them all.
OnDisk ==
    /\ \A r \in Results : files[r] # Evaluation!None =>
          \E e \in Evaluators : r \in written[e] /\ files[r] = made[e][r]
    /\ \A e \in Evaluators : \A r \in written[e] : files[r] # Evaluation!None
    /\ summary # Evaluation!None =>
          \E e \in Evaluators : evaluator[e] = "done" /\ summary = Evaluation!aggregate(e)

\* What the exporter has read was written by an evaluator, and so was what it
\* has exported.
Exported ==
    /\ \A r \in Results : reader.read[r] # Evaluation!None =>
          \E e \in Evaluators : written[e] # {} /\ reader.read[r] = made[e][r]
    /\ \A r \in Results : dataset[r] # Evaluation!None =>
          dataset[r].by \in Evaluators /\ written[dataset[r].by] # {}
    /\ Evaluation!LabelsAreEarned

DirectoryInv == Shapes /\ Course /\ Justified /\ Accounts /\ OnDisk /\ Exported

\* EvaluationRuns counts with the same FiniteSets.
LEMMA SameCounting ==
    /\ \A S : Evaluation!IsFiniteSet(S) <=> IsFiniteSet(S)
    /\ \A S : Evaluation!Cardinality(S) = Cardinality(S)
<1>1. \A S : Evaluation!IsFiniteSet(S) <=> IsFiniteSet(S)
  BY DEF Evaluation!IsFiniteSet, IsFiniteSet
<1>2. \A S : Evaluation!Cardinality(S) = Cardinality(S)
  BY DEF Evaluation!Cardinality, Cardinality
<1> QED
  BY <1>1, <1>2

\* A summary that is no longer written keeps telling what it told.
LEMMA AggregateKept ==
    ASSUME NEW e \in Evaluators, made'[e] = made[e], stored' = stored
    PROVE  Evaluation!aggregate(e)' = Evaluation!aggregate(e)
  BY DEF Evaluation!aggregate, Evaluation!Evaluated

\* What the exporter has and what is on disk stay justified when the verdicts of
\* those who have written, and the results, do not change.
LEMMA VerdictsKept ==
    ASSUME DirectoryInv, stored' = stored,
           \A e \in Evaluators : written[e] # {} => written'[e] # {} /\ made'[e] = made[e],
           UNCHANGED <<reader, dataset>>
    PROVE  Exported'
  BY DEF DirectoryInv, Exported, Evaluation!LabelsAreEarned

\* The runner stores results and ends the run before anybody judges.
LEMMA RunSteps ==
    ASSUME DirectoryInv,
           \/ \E r \in Results : Evaluation!StoreResult(r)
           \/ Evaluation!FinishRun
    PROVE  DirectoryInv'
<1>1. /\ UNCHANGED <<evaluator, made, spent, lost, written, files, summary, reader, dataset>>
      /\ run = "running" /\ run' \in {"running", "completed", "aborted"}
      /\ stored' \in [Results -> Kinds \cup {"none"}]
  BY DEF DirectoryInv, Shapes, Evaluation!StoreResult, Evaluation!FinishRun, Evaluation!disk
<1>2. /\ \A e \in Evaluators :
            evaluator[e] \in {"idle", "refused"} /\ written[e] = {}
            /\ \A r \in Results : made[e][r] = Evaluation!None
  BY <1>1 DEF DirectoryInv, Shapes, Course
<1>3. Shapes'
  BY <1>1 DEF DirectoryInv, Shapes
<1>4. Course' /\ Justified'
  BY <1>1, <1>2 DEF DirectoryInv, Course, Justified
<1>5. Accounts'
  BY <1>1 DEF DirectoryInv, Accounts, Charged
<1>6. OnDisk'
  <2>1. summary = Evaluation!None
    BY <1>2 DEF DirectoryInv, OnDisk
  <2> QED
    BY <1>1, <2>1 DEF DirectoryInv, OnDisk
<1>7. Exported'
  BY <1>1, <1>2 DEF DirectoryInv, Exported, Evaluation!LabelsAreEarned
<1> QED
  BY <1>3, <1>4, <1>5, <1>6, <1>7 DEF DirectoryInv

\* An evaluator loads the run, gives up, dies or starts to save: only its own
\* position changes.
LEMMA CourseSteps ==
    ASSUME DirectoryInv, NEW e \in Evaluators,
           \/ Evaluation!Load(e) \/ Evaluation!Stop(e) \/ Evaluation!StartSaving(e)
           \/ \E r \in Results : Evaluation!AbortEvaluation(e, r)
    PROVE  DirectoryInv'
<1>1. UNCHANGED <<run, stored, made, spent, lost, written, files, summary, reader, dataset>>
  BY DEF Evaluation!Load, Evaluation!Stop, Evaluation!StartSaving,
         Evaluation!AbortEvaluation, Evaluation!inputs, Evaluation!disk
<1>2. PICK place \in {"evaluating", "refused", "saving", "stopped", "failed"} :
        evaluator' = [evaluator EXCEPT ![e] = place]
  BY DEF Evaluation!Load, Evaluation!Stop, Evaluation!StartSaving, Evaluation!AbortEvaluation
<1>3. evaluator[e] # "done"
  BY DEF Evaluation!Load, Evaluation!Stop, Evaluation!StartSaving,
         Evaluation!AbortEvaluation, Evaluation!NextResult
<1>4. Shapes'
  BY <1>1, <1>2 DEF DirectoryInv, Shapes
<1>5. Course'
  BY <1>1 DEF DirectoryInv, Shapes, Course, Evaluation!Load, Evaluation!Stop,
              Evaluation!StartSaving, Evaluation!AbortEvaluation, Evaluation!NextResult,
              Evaluation!Loadable
<1>6. Justified' /\ Accounts'
  BY <1>1 DEF DirectoryInv, Justified, Accounts, Charged
<1>7. OnDisk'
  <2>1. ASSUME summary' # Evaluation!None
        PROVE  \E d \in Evaluators : evaluator'[d] = "done" /\ summary' = Evaluation!aggregate(d)'
    <3>1. PICK d \in Evaluators : evaluator[d] = "done" /\ summary = Evaluation!aggregate(d)
      BY <1>1, <2>1 DEF DirectoryInv, OnDisk
    <3>2. evaluator'[d] = "done"
      BY <1>2, <1>3, <3>1 DEF DirectoryInv, Shapes
    <3>3. Evaluation!aggregate(d)' = Evaluation!aggregate(d)
      BY <1>1, AggregateKept
    <3> QED
      BY <1>1, <3>1, <3>2, <3>3
  <2> QED
    BY <1>1, <2>1 DEF DirectoryInv, OnDisk
<1>8. Exported'
  BY <1>1, VerdictsKept
<1> QED
  BY <1>4, <1>5, <1>6, <1>7, <1>8 DEF DirectoryInv

\* The results whose judge charged can be counted.
LEMMA ChargedIsFinite ==
    ASSUME NEW e \in Evaluators
    PROVE  IsFiniteSet(Charged(e)) /\ Cardinality(Charged(e)) \in Nat
<1>1. IsFiniteSet(Results)
  BY DirectoryAssumption, SameCounting DEF Evaluation!EvaluationAssumption
<1>2. Charged(e) \in SUBSET Results
  BY DEF Charged
<1>3. IsFiniteSet(Charged(e))
  BY <1>1, <1>2, FS_Subset
<1> QED
  BY <1>3, FS_CardinalityType

\* A result is judged: its evaluator has written nothing yet.
LEMMA KeepStep ==
    ASSUME DirectoryInv, NEW e \in Evaluators, NEW r \in Results,
           Evaluation!NextResult(e, r),
           NEW how \in Statuses, NEW acceptable \in Verdicts, NEW call \in BOOLEAN,
           NEW cost \in 0..1, NEW charged \in 0..1, NEW forgone \in 0..1,
           charged = cost + forgone,
           (how = "evaluated") <=> (acceptable # "none"),
           stored[r] \in Evaluation!Failed => acceptable = "none",
           Evaluation!Keep(e, r, Evaluation!Record(e, how, acceptable, call, cost), charged, forgone)
    PROVE  DirectoryInv'
<1> DEFINE record == Evaluation!Record(e, how, acceptable, call, cost)
<1>1. /\ record \in Evaluations /\ record # Evaluation!None /\ record.by = e
      /\ record.status = how /\ record.acceptable = acceptable /\ record.cost = cost
  <2>1. record \in Evaluations
    BY Zenon DEF Evaluation!Record, Evaluations
  <2>2. record # Evaluation!None
    <3>1. "cost" \in DOMAIN record
      BY DEF Evaluation!Record
    <3>2. "cost" \notin DOMAIN Evaluation!None
      BY DEF Evaluation!None
    <3> QED
      BY <3>1, <3>2
  <2>3. /\ record.by = e /\ record.status = how /\ record.acceptable = acceptable
        /\ record.cost = cost
    BY DEF Evaluation!Record
  <2> QED
    BY <2>1, <2>2, <2>3
<1>2. /\ made' = [made EXCEPT ![e][r] = record]
      /\ spent' = [spent EXCEPT ![e] = @ + charged]
      /\ lost' = [lost EXCEPT ![e] = @ + forgone]
      /\ UNCHANGED <<run, stored, evaluator, written, files, summary, reader, dataset>>
  BY <1>1 DEF Evaluation!Keep, Evaluation!inputs, Evaluation!disk
<1> HIDE DEF record
<1>3. /\ evaluator[e] = "evaluating" /\ written[e] = {} /\ made[e][r] = Evaluation!None
  BY DEF DirectoryInv, Course, Evaluation!NextResult
<1>4. /\ \A d \in Evaluators : d # e => made'[d] = made[d]
      /\ \A q \in Results : q # r => made'[e][q] = made[e][q]
      /\ made'[e][r] = record
  BY <1>2 DEF DirectoryInv, Shapes
<1>5. Shapes'
  <2>1. made' \in [Evaluators -> [Results -> MaybeEvaluations]]
    BY <1>1, <1>2 DEF DirectoryInv, Shapes, MaybeEvaluations
  <2>2. spent' \in [Evaluators -> Nat] /\ lost' \in [Evaluators -> Nat]
    BY <1>2 DEF DirectoryInv, Shapes
  <2> QED
    BY <1>2, <2>1, <2>2 DEF DirectoryInv, Shapes
<1>6. Course'
  BY <1>1, <1>2, <1>3, <1>4 DEF DirectoryInv, Course
<1>7. Justified'
  BY <1>1, <1>2, <1>4 DEF DirectoryInv, Justified
<1>8. Accounts'
  <2> SUFFICES ASSUME NEW d \in Evaluators
               PROVE  spent'[d] = lost'[d] + Cardinality(Charged(d)')
    BY DEF Accounts
  <2>1. CASE d # e
    <3>1. Charged(d)' = Charged(d)
      BY <1>4, <2>1 DEF Charged
    <3> QED
      BY <1>2, <2>1, <3>1 DEF DirectoryInv, Shapes, Accounts
  <2>2. CASE d = e
    <3>1. IsFiniteSet(Charged(e)) /\ Cardinality(Charged(e)) \in Nat
      BY ChargedIsFinite
    <3>2. r \notin Charged(e)
      BY <1>3 DEF Charged
    <3>3. Charged(e)' = IF cost = 1 THEN Charged(e) \cup {r} ELSE Charged(e)
      BY <1>1, <1>3, <1>4 DEF Charged
    <3>4. Cardinality(Charged(e)') = Cardinality(Charged(e)) + cost
      <4>1. Cardinality(Charged(e) \cup {r}) = Cardinality(Charged(e)) + 1
        BY <3>1, <3>2, FS_AddElement
      <4> QED
        BY <3>1, <3>3, <4>1
    <3>5. spent[e] = lost[e] + Cardinality(Charged(e)) /\ lost[e] \in Nat /\ spent[e] \in Nat
      BY DEF DirectoryInv, Shapes, Accounts
    <3>6. spent'[e] = spent[e] + charged /\ lost'[e] = lost[e] + forgone
      BY <1>2 DEF DirectoryInv, Shapes
    <3> QED
      BY <2>2, <3>1, <3>4, <3>5, <3>6
  <2> QED
    BY <2>1, <2>2
<1>9. OnDisk'
  <2>1. ASSUME summary' # Evaluation!None
        PROVE  \E d \in Evaluators : evaluator'[d] = "done" /\ summary' = Evaluation!aggregate(d)'
    <3>1. PICK d \in Evaluators : evaluator[d] = "done" /\ summary = Evaluation!aggregate(d)
      BY <1>2, <2>1 DEF DirectoryInv, OnDisk
    <3>2. Evaluation!aggregate(d)' = Evaluation!aggregate(d)
      BY <1>2, <1>3, <1>4, <3>1, AggregateKept
    <3> QED
      BY <1>2, <3>1, <3>2
  <2>2. ASSUME NEW q \in Results, files'[q] # Evaluation!None
        PROVE  \E d \in Evaluators : q \in written'[d] /\ files'[q] = made'[d][q]
    BY <1>2, <1>3, <1>4, <2>2 DEF DirectoryInv, OnDisk
  <2>3. \A d \in Evaluators : \A q \in written'[d] : files'[q] # Evaluation!None
    BY <1>2 DEF DirectoryInv, OnDisk
  <2> QED
    BY <2>1, <2>2, <2>3 DEF OnDisk
<1>10. Exported'
  BY <1>2, <1>3, <1>4, VerdictsKept
<1> QED
  BY <1>5, <1>6, <1>7, <1>8, <1>9, <1>10 DEF DirectoryInv

\* save replaces an evaluation file by what its evaluator made.
LEMMA FileStep ==
    ASSUME DirectoryInv, NEW e \in Evaluators, NEW r \in Results,
           Evaluation!WriteEvaluation(e, r)
    PROVE  DirectoryInv'
<1>1. /\ evaluator[e] = "saving"
      /\ files' = [files EXCEPT ![r] = made[e][r]]
      /\ written' = [written EXCEPT ![e] = @ \cup {r}]
      /\ UNCHANGED <<run, stored, evaluator, made, spent, lost, summary, reader, dataset>>
  BY DEF Evaluation!WriteEvaluation, Evaluation!inputs
<1>2. /\ \A d \in Evaluators : d # e => written'[d] = written[d]
      /\ written'[e] = written[e] \cup {r}
      /\ \A q \in Results : q # r => files'[q] = files[q]
      /\ files'[r] = made[e][r]
  BY <1>1 DEF DirectoryInv, Shapes
<1>3. \A q \in Results : made[e][q] # Evaluation!None
  BY <1>1 DEF DirectoryInv, Course
<1>4. Shapes'
  BY <1>1 DEF DirectoryInv, Shapes
<1>5. Course'
  BY <1>1, <1>2, <1>3 DEF DirectoryInv, Course, Shapes
<1>6. Justified' /\ Accounts'
  BY <1>1 DEF DirectoryInv, Justified, Accounts, Charged
<1>7. OnDisk'
  <2>1. ASSUME summary' # Evaluation!None
        PROVE  \E d \in Evaluators : evaluator'[d] = "done" /\ summary' = Evaluation!aggregate(d)'
    <3>1. PICK d \in Evaluators : evaluator[d] = "done" /\ summary = Evaluation!aggregate(d)
      BY <1>1, <2>1 DEF DirectoryInv, OnDisk
    <3>2. Evaluation!aggregate(d)' = Evaluation!aggregate(d)
      BY <1>1, AggregateKept
    <3> QED
      BY <1>1, <3>1, <3>2
  <2>2. ASSUME NEW q \in Results, files'[q] # Evaluation!None
        PROVE  \E d \in Evaluators : q \in written'[d] /\ files'[q] = made'[d][q]
    BY <1>1, <1>2, <2>2 DEF DirectoryInv, OnDisk
  <2>3. \A d \in Evaluators : \A q \in written'[d] : files'[q] # Evaluation!None
    BY <1>2, <1>3 DEF DirectoryInv, Shapes, OnDisk
  <2> QED
    BY <2>1, <2>2, <2>3 DEF OnDisk
<1>8. Exported'
  BY <1>1, <1>2, VerdictsKept
<1> QED
  BY <1>4, <1>5, <1>6, <1>7, <1>8 DEF DirectoryInv

\* save writes the summary once it has replaced every file.
LEMMA SummaryStep ==
    ASSUME DirectoryInv, NEW e \in Evaluators, Evaluation!WriteSummary(e)
    PROVE  DirectoryInv'
<1>1. /\ evaluator[e] = "saving" /\ written[e] = Results
      /\ summary' = Evaluation!aggregate(e)
      /\ evaluator' = [evaluator EXCEPT ![e] = "done"]
      /\ UNCHANGED <<run, stored, made, spent, lost, written, files, reader, dataset>>
  BY DEF Evaluation!WriteSummary, Evaluation!inputs
<1>2. evaluator'[e] = "done" /\ \A d \in Evaluators : d # e => evaluator'[d] = evaluator[d]
  BY <1>1 DEF DirectoryInv, Shapes
<1>3. summary' # Evaluation!None
  <2>1. "judge" \in DOMAIN Evaluation!aggregate(e)
    BY DEF Evaluation!aggregate
  <2>2. "judge" \notin DOMAIN Evaluation!None
    BY DEF Evaluation!None
  <2> QED
    BY <1>1, <2>1, <2>2
<1>4. Shapes'
  BY <1>1 DEF DirectoryInv, Shapes
<1>5. Course'
  BY <1>1, <1>2, <1>3 DEF DirectoryInv, Course
<1>6. Justified' /\ Accounts'
  BY <1>1 DEF DirectoryInv, Justified, Accounts, Charged
<1>7. OnDisk'
  <2>1. Evaluation!aggregate(e)' = Evaluation!aggregate(e)
    BY <1>1, AggregateKept
  <2> QED
    BY <1>1, <1>2, <2>1 DEF DirectoryInv, OnDisk
<1>8. Exported'
  BY <1>1, VerdictsKept
<1> QED
  BY <1>4, <1>5, <1>6, <1>7, <1>8 DEF DirectoryInv

\* The exporter lists and reads the files, and refuses or writes the dataset.
LEMMA ExportSteps ==
    ASSUME DirectoryInv,
           \/ Evaluation!StartExport \/ Evaluation!ExportRefused \/ Evaluation!WriteDataset
           \/ \E r \in Results : Evaluation!ReadEvaluation(r)
    PROVE  DirectoryInv'
<1>1. UNCHANGED <<run, stored, evaluator, made, spent, lost, written, files, summary>>
  BY DEF Evaluation!StartExport, Evaluation!ExportRefused, Evaluation!WriteDataset,
         Evaluation!ReadEvaluation, Evaluation!inputs, Evaluation!disk
<1>2. Course' /\ Justified' /\ Accounts'
  BY <1>1 DEF DirectoryInv, Course, Justified, Accounts, Charged
<1>3. OnDisk'
  <2>1. \A e \in Evaluators : Evaluation!aggregate(e)' = Evaluation!aggregate(e)
    BY <1>1, AggregateKept
  <2> QED
    BY <1>1, <2>1 DEF DirectoryInv, OnDisk
<1>4. CASE Evaluation!StartExport \/ Evaluation!ExportRefused
  <2>1. dataset' = dataset /\ reader'.read = reader.read /\ Shapes'
    <3>1. CASE Evaluation!StartExport
      BY <1>1, <3>1 DEF DirectoryInv, Shapes, Evaluation!StartExport
    <3>2. CASE Evaluation!ExportRefused
      BY <1>1, <3>2 DEF DirectoryInv, Shapes, Evaluation!ExportRefused
    <3> QED
      BY <1>4, <3>1, <3>2
  <2>2. Exported'
    BY <1>1, <2>1 DEF DirectoryInv, Exported, Evaluation!LabelsAreEarned
  <2> QED
    BY <1>2, <1>3, <2>1, <2>2 DEF DirectoryInv
<1>5. CASE \E r \in Results : Evaluation!ReadEvaluation(r)
  <2>1. PICK r \in Results : Evaluation!ReadEvaluation(r)
    BY <1>5
  <2>2. dataset' = dataset /\ reader' = [reader EXCEPT !.read[r] = files[r]]
    BY <2>1 DEF Evaluation!ReadEvaluation
  <2>3. Shapes'
    BY <1>1, <2>2 DEF DirectoryInv, Shapes
  <2>4. reader'.read = [reader.read EXCEPT ![r] = files[r]]
    BY <2>2 DEF DirectoryInv, Shapes
  <2>5. Exported'
    <3>1. ASSUME NEW q \in Results, reader'.read[q] # Evaluation!None
          PROVE  \E e \in Evaluators : written'[e] # {} /\ reader'.read[q] = made'[e][q]
      <4>1. CASE q = r
        <5>1. reader'.read[r] = files[r]
          BY <2>4 DEF DirectoryInv, Shapes
        <5> QED
          BY <1>1, <3>1, <4>1, <5>1 DEF DirectoryInv, OnDisk
      <4>2. CASE q # r
        <5>1. reader'.read[q] = reader.read[q]
          BY <2>4, <4>2 DEF DirectoryInv, Shapes
        <5> QED
          BY <1>1, <3>1, <5>1 DEF DirectoryInv, Exported
      <4> QED
        BY <4>1, <4>2
    <3> QED
      BY <1>1, <2>2, <3>1 DEF DirectoryInv, Exported, Evaluation!LabelsAreEarned
  <2> QED
    BY <1>2, <1>3, <2>3, <2>5 DEF DirectoryInv
<1>6. CASE Evaluation!WriteDataset
  <2>1. /\ dataset' = [r \in Results |-> Evaluation!Row(r)]
        /\ reader' = [reader EXCEPT !.stage = "done"]
        /\ \A r \in Results : reader.read[r] # Evaluation!None
    BY <1>6 DEF Evaluation!WriteDataset, Evaluation!Unread
  <2>2. Shapes' /\ reader'.read = reader.read
    BY <1>1, <2>1 DEF DirectoryInv, Shapes
  <2>3. ASSUME NEW r \in Results
        PROVE  /\ dataset'[r].by \in Evaluators /\ written'[dataset'[r].by] # {}
               /\ IF dataset'[r].label = "missing"
                  THEN stored'[r] \in Evaluation!Failed
                       \/ made'[dataset'[r].by][r].acceptable = "none"
                  ELSE stored'[r] \notin Evaluation!Failed
                       /\ made'[dataset'[r].by][r].acceptable = dataset'[r].label
    <3>1. PICK e \in Evaluators : written[e] # {} /\ reader.read[r] = made[e][r]
      BY <2>1 DEF DirectoryInv, Exported
    <3>2. /\ made[e][r].by = e
          /\ (made[e][r].status = "evaluated") <=> (made[e][r].acceptable # "none")
      BY <2>1, <3>1 DEF DirectoryInv, Justified
    <3>3. dataset'[r] = Evaluation!Row(r)
      BY <2>1
    <3>4. /\ dataset'[r].by = e
          /\ dataset'[r].label = IF stored[r] \in Evaluation!Failed THEN "missing"
                                 ELSE IF made[e][r].status # "evaluated" THEN "missing"
                                 ELSE made[e][r].acceptable
      BY <3>1, <3>2, <3>3 DEF Evaluation!Row
    <3>5. stored'[r] = stored[r] /\ made'[e][r] = made[e][r] /\ written'[e] # {}
      BY <1>1, <3>1
    <3>6. CASE dataset'[r].label = "missing"
      <4>1. made[e][r].acceptable \in Verdicts
        BY <2>1, <3>1 DEF DirectoryInv, Shapes, MaybeEvaluations, Evaluations
      <4>2. stored[r] \in Evaluation!Failed \/ made[e][r].acceptable = "none"
        BY <3>2, <3>4, <3>6, <4>1 DEF Verdicts
      <4> QED
        BY <3>4, <3>5, <3>6, <4>2
    <3>7. CASE dataset'[r].label # "missing"
      BY <3>4, <3>5, <3>7
    <3> QED
      BY <3>6, <3>7
  <2>4. Exported'
    <3>1. ASSUME NEW r \in Results, reader'.read[r] # Evaluation!None
          PROVE  \E e \in Evaluators : written'[e] # {} /\ reader'.read[r] = made'[e][r]
      BY <1>1, <2>2, <3>1 DEF DirectoryInv, Exported
    <3> QED
      BY <2>3, <3>1 DEF Exported, Evaluation!LabelsAreEarned
  <2> QED
    BY <1>2, <1>3, <2>2, <2>4 DEF DirectoryInv
<1> QED
  BY <1>4, <1>5, <1>6

\* Whatever an evaluator makes of a result, with or without a judge and a sandbox.
LEMMA JudgeSteps ==
    ASSUME DirectoryInv, NEW e \in Evaluators, NEW r \in Results,
           \/ Evaluation!CallFailure(e, r) \/ Evaluation!ScoreDirectly(e, r)
           \/ Evaluation!ScoreFunctionally(e, r) \/ Evaluation!JudgeUnequipped(e, r)
           \/ Evaluation!Judge(e, r)
    PROVE  DirectoryInv'
<1> DEFINE Kept(how, acceptable, call, cost, charged, forgone) ==
      Evaluation!Keep(e, r, Evaluation!Record(e, how, acceptable, call, cost), charged, forgone)
<1>1. Evaluation!NextResult(e, r)
  BY DEF Evaluation!CallFailure, Evaluation!ScoreDirectly, Evaluation!ScoreFunctionally,
         Evaluation!JudgeUnequipped, Evaluation!Judge
<1>2. \A how \in Statuses, call \in BOOLEAN, cost, charged, forgone \in 0..1 :
         how # "evaluated" /\ charged = cost + forgone
         /\ Kept(how, "none", call, cost, charged, forgone) => DirectoryInv'
  <2> SUFFICES ASSUME NEW how \in Statuses, NEW call \in BOOLEAN, NEW cost \in 0..1,
                      NEW charged \in 0..1, NEW forgone \in 0..1,
                      how # "evaluated", charged = cost + forgone,
                      Kept(how, "none", call, cost, charged, forgone)
               PROVE  DirectoryInv'
    OBVIOUS
  <2>1. PICK acceptable \in Verdicts :
          acceptable = "none" /\ Kept(how, acceptable, call, cost, charged, forgone)
    BY Zenon DEF Verdicts
  <2> QED
    BY <1>1, <2>1, KeepStep
<1>3. stored[r] \notin Evaluation!Failed =>
      \A v \in {"yes", "no"}, call \in BOOLEAN, cost \in 0..1 :
         Kept("evaluated", v, call, cost, cost, 0) => DirectoryInv'
  <2> SUFFICES ASSUME stored[r] \notin Evaluation!Failed, NEW v \in {"yes", "no"},
                      NEW call \in BOOLEAN, NEW cost \in 0..1,
                      Kept("evaluated", v, call, cost, cost, 0)
               PROVE  DirectoryInv'
    OBVIOUS
  <2>1. PICK how \in Statuses : how = "evaluated" /\ Kept(how, v, call, cost, cost, 0)
    BY Zenon DEF Statuses
  <2>2. cost = cost + 0 /\ v \in Verdicts /\ v # "none"
    BY DEF Verdicts
  <2> QED
    BY <1>1, <2>1, <2>2, KeepStep
<1> HIDE DEF Kept
<1>4. 0 \in 0..1 /\ 1 \in 0..1 /\ 0 = 0 + 0 /\ 1 = 1 + 0 /\ \A c \in 0..1 : c = 0 + c
  OBVIOUS
<1>5. CASE Evaluation!CallFailure(e, r)
  <2>1. Kept("partial", "none", FALSE, 0, 0, 0)
    BY <1>5 DEF Kept, Evaluation!CallFailure
  <2> QED
    BY <1>2, <1>4, <2>1, Zenon DEF Statuses
<1>6. CASE Evaluation!ScoreDirectly(e, r)
  <2>1. PICK v \in {"yes", "no"} : Kept("evaluated", v, FALSE, 0, 0, 0)
    BY <1>6 DEF Kept, Evaluation!ScoreDirectly
  <2>2. stored[r] \notin Evaluation!Failed
    BY <1>6 DEF Evaluation!ScoreDirectly, Evaluation!Failed
  <2> QED
    BY <1>3, <1>4, <2>1, <2>2, Zenon
<1>7. CASE Evaluation!ScoreFunctionally(e, r)
  <2>1. \/ Kept("requires_functional_execution", "none", FALSE, 0, 0, 0)
        \/ \E v \in {"yes", "no"} : Kept("evaluated", v, FALSE, 0, 0, 0)
    BY <1>7 DEF Kept, Evaluation!ScoreFunctionally
  <2>2. stored[r] \notin Evaluation!Failed
    BY <1>7 DEF Evaluation!ScoreFunctionally, Evaluation!Failed
  <2>3. CASE Kept("requires_functional_execution", "none", FALSE, 0, 0, 0)
    BY <1>2, <1>4, <2>3, Zenon DEF Statuses
  <2>4. CASE \E v \in {"yes", "no"} : Kept("evaluated", v, FALSE, 0, 0, 0)
    BY <1>3, <1>4, <2>2, <2>4, Zenon
  <2> QED
    BY <2>1, <2>3, <2>4
<1>8. CASE Evaluation!JudgeUnequipped(e, r)
  <2>1. Kept("requires_semantic_judge", "none", FALSE, 0, 0, 0)
    BY <1>8 DEF Kept, Evaluation!JudgeUnequipped
  <2> QED
    BY <1>2, <1>4, <2>1, Zenon DEF Statuses
<1>9. CASE Evaluation!Judge(e, r)
  <2>1. \/ \E v \in {"yes", "no"} : Kept("evaluated", v, TRUE, 1, 1, 0)
        \/ Kept("requires_semantic_judge", "none", TRUE, 1, 1, 0)
        \/ \E c \in 0..1 : Kept("requires_semantic_judge", "none", TRUE, 0, c, c)
    BY <1>9 DEF Kept, Evaluation!Judge
  <2>2. stored[r] \notin Evaluation!Failed
    BY <1>9 DEF Evaluation!Judge, Evaluation!Failed
  <2>3. CASE \E v \in {"yes", "no"} : Kept("evaluated", v, TRUE, 1, 1, 0)
    BY <1>3, <1>4, <2>2, <2>3, Zenon
  <2>4. CASE Kept("requires_semantic_judge", "none", TRUE, 1, 1, 0)
    BY <1>2, <1>4, <2>4, Zenon DEF Statuses
  <2>5. CASE \E c \in 0..1 : Kept("requires_semantic_judge", "none", TRUE, 0, c, c)
    BY <1>2, <1>4, <2>5, Zenon DEF Statuses
  <2> QED
    BY <2>1, <2>3, <2>4, <2>5
<1> QED
  BY <1>5, <1>6, <1>7, <1>8, <1>9

\* DirectoryInv holds whatever the runner, the evaluators and the exporter do.
LEMMA DirectoryInvariant == PartsSpec => []DirectoryInv
<1>1. Evaluation!Init => DirectoryInv
  <2> SUFFICES ASSUME Evaluation!Init PROVE DirectoryInv
    OBVIOUS
  <2>1. Shapes /\ Course
    BY DEF Evaluation!Init, Shapes, Course, MaybeEvaluations
  <2>2. Justified /\ OnDisk /\ Exported
    BY DEF Evaluation!Init, Justified, OnDisk, Exported, Evaluation!LabelsAreEarned
  <2>3. \A e \in Evaluators : Charged(e) = {}
    BY DEF Evaluation!Init, Charged
  <2>4. Cardinality({}) = 0
    BY FS_EmptySet
  <2>5. \A e \in Evaluators : spent[e] = 0 /\ lost[e] = 0
    BY DEF Evaluation!Init
  <2>6. Accounts
    BY <2>3, <2>4, <2>5 DEF Accounts
  <2> QED
    BY <2>1, <2>2, <2>6 DEF DirectoryInv
<1>2. DirectoryInv /\ [Evaluation!Next]_(Evaluation!vars) => DirectoryInv'
  <2> SUFFICES ASSUME DirectoryInv, [Evaluation!Next]_(Evaluation!vars) PROVE DirectoryInv'
    OBVIOUS
  <2>1. CASE (\E r \in Results : Evaluation!StoreResult(r)) \/ Evaluation!FinishRun
    BY <2>1, RunSteps
  <2>2. CASE \E e \in Evaluators :
               \/ Evaluation!Load(e) \/ Evaluation!Stop(e)
               \/ \E r \in Results : Evaluation!AbortEvaluation(e, r)
    BY <2>2, CourseSteps
  <2>3. CASE \E e \in Evaluators : Evaluation!Evaluate(e)
    <3>1. PICK e \in Evaluators : Evaluation!Evaluate(e)
      BY <2>3
    <3>2. CASE Evaluation!StartSaving(e)
      BY <3>2, CourseSteps
    <3>3. CASE Evaluation!WriteSummary(e)
      BY <3>3, SummaryStep
    <3>4. CASE \E r \in Results : Evaluation!WriteEvaluation(e, r)
      BY <3>4, FileStep
    <3>5. CASE \E r \in Results :
                 \/ Evaluation!CallFailure(e, r) \/ Evaluation!ScoreDirectly(e, r)
                 \/ Evaluation!ScoreFunctionally(e, r) \/ Evaluation!JudgeUnequipped(e, r)
                 \/ Evaluation!Judge(e, r)
      BY <3>5, JudgeSteps
    <3> QED
      BY <3>1, <3>2, <3>3, <3>4, <3>5 DEF Evaluation!Evaluate
  <2>4. CASE \/ Evaluation!StartExport \/ Evaluation!ExportRefused \/ Evaluation!WriteDataset
             \/ \E r \in Results : Evaluation!ReadEvaluation(r)
    BY <2>4, ExportSteps
  <2>5. CASE UNCHANGED Evaluation!vars
    <3>1. \A e \in Evaluators : Evaluation!aggregate(e)' = Evaluation!aggregate(e)
      BY <2>5, AggregateKept DEF Evaluation!vars
    <3>2. OnDisk'
      BY <2>5, <3>1 DEF DirectoryInv, OnDisk, Evaluation!vars
    <3> QED
      BY <2>5, <3>2
         DEF DirectoryInv, Shapes, Course, Justified, Accounts, Charged, Exported,
             Evaluation!LabelsAreEarned, Evaluation!vars
  <2> QED
    BY <2>1, <2>2, <2>3, <2>4, <2>5 DEF Evaluation!Next
<1> QED
  BY PartsAreComponents, <1>1, <1>2, PTL DEF Evaluation!Spec

\* The summary, the files and the exported labels tell what was judged and what
\* was spent, for any number of results and of evaluators that share the
\* directory and stop anywhere (evaluation/service.py, repository.py,
\* aggregation.py; benchmarks/routing_export.py).
THEOREM EvaluationsSound == PartsSpec => []EvaluationsAreSound
<1>1. DirectoryInv => EvaluationsAreSound
  <2> SUFFICES ASSUME DirectoryInv PROVE EvaluationsAreSound
    OBVIOUS
  <2>1. Results # {} /\ IsFiniteSet(Results)
    BY DirectoryAssumption, SameCounting DEF Evaluation!EvaluationAssumption
  <2>2. Evaluation!UndisturbedIsConsistent
    <3> SUFFICES ASSUME NEW e \in Evaluators, evaluator[e] = "done",
                        \A d \in Evaluators \ {e} : written[d] = {}
                 PROVE  summary.by = e /\ \A r \in Results : files[r] = made[e][r]
      BY DEF Evaluation!UndisturbedIsConsistent
    <3>1. PICK d \in Evaluators : evaluator[d] = "done" /\ summary = Evaluation!aggregate(d)
      BY DEF DirectoryInv, Course, OnDisk
    <3>2. d = e
      BY <2>1, <3>1 DEF DirectoryInv, Course
    <3>3. summary.by = e
      BY <3>1, <3>2 DEF Evaluation!aggregate
    <3>4. \A r \in Results : files[r] = made[e][r]
      BY DEF DirectoryInv, Course, OnDisk
    <3> QED
      BY <3>3, <3>4
  <2>3. ASSUME summary # Evaluation!None
        PROVE  /\ Evaluation!SummaryFollowsFiles
               /\ Evaluation!RateIsOverJudged
               /\ Evaluation!SpendingIsReported
    <3>1. PICK e \in Evaluators : evaluator[e] = "done" /\ summary = Evaluation!aggregate(e)
      BY <2>3 DEF DirectoryInv, OnDisk
    <3> DEFINE judged == {r \in Results : made[e][r].acceptable # "none"}
               accepted == {r \in judged : made[e][r].acceptable = "yes"}
    <3>2. written[e] = Results /\ \A r \in Results : made[e][r] # Evaluation!None
      BY <3>1 DEF DirectoryInv, Course
    <3>3. Evaluation!Evaluated(e) = judged
      BY <3>2 DEF DirectoryInv, Justified, Evaluation!Evaluated
    <3>4. /\ summary.by = e
          /\ summary.fully = Cardinality(judged)
          /\ summary.incomplete = Cardinality(Results \ judged)
          /\ summary.acceptable = Cardinality(accepted)
      BY <3>1, <3>3, SameCounting DEF Evaluation!aggregate
    <3>5. /\ IsFiniteSet(judged) /\ Cardinality(judged) \in Nat
          /\ Cardinality(accepted) <= Cardinality(judged)
          /\ Cardinality(judged) + Cardinality(Results \ judged) = Cardinality(Results)
      <4>1. judged \in SUBSET Results /\ accepted \in SUBSET judged
            /\ Results \cap judged = judged
        OBVIOUS
      <4>2. IsFiniteSet(judged)
        BY <2>1, <4>1, FS_Subset
      <4>3. /\ Cardinality(judged) \in Nat /\ Cardinality(Results) \in Nat
        BY <2>1, <4>2, FS_CardinalityType
      <4>4. Cardinality(accepted) <= Cardinality(judged)
        BY <4>1, <4>2, FS_Subset
      <4>5. Cardinality(Results \ judged) = Cardinality(Results) - Cardinality(judged)
        BY <2>1, <4>1, FS_Difference
      <4> QED
        BY <4>2, <4>3, <4>4, <4>5
    <3>6. Evaluation!SummaryFollowsFiles
      BY <3>2, <3>4 DEF DirectoryInv, OnDisk, Evaluation!SummaryFollowsFiles
    <3>7. Evaluation!RateIsOverJudged
      BY <3>4, <3>5, SameCounting DEF Evaluation!RateIsOverJudged
    <3>8. Evaluation!SpendingIsReported
      <4>1. summary.judge = Cardinality(Charged(e))
        <5>1. summary.judge = Evaluation!Total([r \in Results |-> made[e][r].cost])
          BY <3>1 DEF Evaluation!aggregate
        <5>2. {r \in DOMAIN [q \in Results |-> made[e][q].cost] :
                  [q \in Results |-> made[e][q].cost][r] = 1} = Charged(e)
          BY <3>2 DEF Charged
        <5> QED
          BY <5>1, <5>2, SameCounting DEF Evaluation!Total
      <4>2. summary.candidate = Cardinality({r \in Results : stored[r] # "failed_unpriced"})
        <5>1. summary.candidate
                = Evaluation!Total([r \in Results |-> Evaluation!KnownCost(stored[r])])
          BY <3>1 DEF Evaluation!aggregate
        <5>2. {r \in DOMAIN [q \in Results |-> Evaluation!KnownCost(stored[q])] :
                  [q \in Results |-> Evaluation!KnownCost(stored[q])][r] = 1}
                = {r \in Results : stored[r] # "failed_unpriced"}
          BY DEF Evaluation!KnownCost
        <5> QED
          BY <5>1, <5>2, SameCounting DEF Evaluation!Total
      <4>3. Cardinality(Charged(e)) + lost[e] = spent[e]
        BY ChargedIsFinite DEF DirectoryInv, Shapes, Accounts
      <4>4. /\ Cardinality({r \in Results : stored[r] \notin Evaluation!Failed})
                 <= Cardinality({r \in Results : stored[r] # "failed_unpriced"})
            /\ Cardinality({r \in Results : stored[r] # "failed_unpriced"}) \in Nat
        <5> DEFINE priced == {r \in Results : stored[r] # "failed_unpriced"}
                   answered == {r \in Results : stored[r] \notin Evaluation!Failed}
        <5>1. priced \in SUBSET Results /\ answered \in SUBSET priced
          BY DEF Evaluation!Failed
        <5>2. IsFiniteSet(priced)
          BY <2>1, <5>1, FS_Subset
        <5> HIDE DEF priced, answered
        <5>3. Cardinality(answered) <= Cardinality(priced) /\ Cardinality(priced) \in Nat
          BY <5>1, <5>2, FS_Subset, FS_CardinalityType
        <5> QED
          BY <5>3 DEF priced, answered
      <4>5. summary.candidate <= Cardinality({r \in Results : stored[r] # "failed_unpriced"})
        BY <4>2, <4>4
      <4> QED
        BY <3>4, <4>1, <4>2, <4>3, <4>4, <4>5, SameCounting, Zenon
           DEF Evaluation!SpendingIsReported
    <3> QED
      BY <3>6, <3>7, <3>8
  <2>4. Evaluation!LabelsAreEarned
    BY DEF DirectoryInv, Exported
  <2>5. CASE summary = Evaluation!None
    BY <2>2, <2>4, <2>5
       DEF EvaluationsAreSound, Evaluation!EvaluationsAreSound,
           Evaluation!SummaryFollowsFiles, Evaluation!RateIsOverJudged,
           Evaluation!SpendingIsReported
  <2> QED
    BY <2>2, <2>3, <2>4, <2>5 DEF EvaluationsAreSound, Evaluation!EvaluationsAreSound
<1> QED
  BY DirectoryInvariant, <1>1, PTL

\* The run, the container and the directory keep their types: no evaluator gets
\* past a run that is not completed, and none loses more than it spent.
THEOREM PartsTyped == PartsSpec => []PartsTypeOK
<1>1. DirectoryInv => Evaluation!TypeOK
  <2> SUFFICES ASSUME DirectoryInv PROVE Evaluation!TypeOK
    OBVIOUS
  <2>1. ASSUME NEW e \in Evaluators
        PROVE  /\ lost[e] \in 0..spent[e] /\ written[e] \subseteq Results
               /\ evaluator[e] # "idle" /\ evaluator[e] # "refused" => run = "completed"
    <3>1. lost[e] \in Nat /\ spent[e] = lost[e] + Cardinality(Charged(e))
          /\ Cardinality(Charged(e)) \in Nat
      BY ChargedIsFinite DEF DirectoryInv, Shapes, Accounts
    <3>2. lost[e] \in 0..spent[e]
      BY <3>1
    <3> QED
      BY <3>2 DEF DirectoryInv, Shapes, Course
  <2>2. ASSUME NEW r \in Results, files[r] # Evaluation!None
        PROVE  (files[r].status = "evaluated") <=> (files[r].acceptable # "none")
    <3>1. PICK e \in Evaluators : files[r] = made[e][r]
      BY <2>2 DEF DirectoryInv, OnDisk
    <3> QED
      BY <2>2, <3>1 DEF DirectoryInv, Justified
  <2> QED
    BY <2>1, <2>2 DEF DirectoryInv, Shapes, Evaluation!TypeOK
<1>2. SandboxInv => Docker!TypeOK
  BY DEF SandboxInv
<1> QED
  BY PartsAreComponents, TypeCorrect, SandboxInvariant, DirectoryInvariant, <1>1, <1>2, PTL
     DEF PartsTypeOK
=============================================================================
