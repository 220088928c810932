---------------------------- MODULE HandoffProofs ----------------------------
(***************************************************************************)
(* Theorems about Handoff, for any sessions, prompts and crashes.          *)
(***************************************************************************)
EXTENDS Handoff, TLAPS

\* The server has no more than was fired, and one prompt less while a job has yet
\* to post; the answers follow the prompts.
Counts ==
  \A s \in Sessions :
    /\ answers[s] <= received[s] /\ received[s] <= fired[s]
    /\ pc[s] \in {"truncate", "write", "post"} => received[s] < fired[s]

\* What a process that is down has left, and the file and the outcome at each step
\* of a job.
JobShape ==
  \A s \in Sessions :
    /\ ~up => jobs[s] = "none" /\ pc[s] = "idle"
    /\ pc[s] \in {"truncate2", "write2"} => jobs[s] \in {"done", "error"}
    /\ pc[s] \in {"write", "write2"} => file[s] = "torn"
    /\ ~failed[s] /\ pc[s] \in {"post", "posted", "truncate2"} => file[s] = "running"
    /\ ~failed[s] /\ prompt[s] # 0 => file[s] # "none"
    /\ s \in unread => jobs[s] = "none"

\* Of a session with one prompt the server has got the job's, and what says done
\* of it, in memory, on file or in the hands of a check, follows its answer.
FirstPrompt ==
  \A s \in Sessions : fired[s] <= 1 =>
    /\ prompt[s] = received[s]
    /\ "done" \in {jobs[s], file[s], check[s].job} => Answered(s)

IInv == /\ TypeOK /\ Counts /\ JobShape /\ FirstPrompt
        /\ RunningHasRunner /\ FileAgrees /\ DoneIsAnswered

\* Nothing has been fired.
LEMMA InitIInv == Init => IInv
<1> SUFFICES ASSUME Init PROVE IInv
  OBVIOUS
<1>0. \A s \in Sessions : check[s] = NoCheck
  BY DEF Init
<1>1. TypeOK
  BY HandoffAssumption DEF Init, TypeOK, NoCheck, Status
<1>2. Counts /\ JobShape /\ RunningHasRunner /\ FileAgrees
  BY DEF Init, Counts, JobShape, RunningHasRunner, FileAgrees, Loaded
<1>3. FirstPrompt /\ DoneIsAnswered
  BY <1>0 DEF Init, FirstPrompt, DoneIsAnswered, NoCheck
<1>4. QED
  BY <1>1, <1>2, <1>3 DEF IInv

\* Submit, run and its saves keep the types.
LEMMA NextType == ASSUME IInv, [Next]_vars PROVE TypeOK'
<1> USE HandoffAssumption
<1>a. TypeOK /\ Counts /\ JobShape /\ RunningHasRunner
  BY DEF IInv
<1>1. CASE UNCHANGED vars
  BY <1>a, <1>1 DEF TypeOK, vars, server
<1>2. ASSUME NEW s \in Sessions, Submit(s) PROVE TypeOK'
  BY <1>a, <1>2 DEF TypeOK, Submit, Set, server, Status
<1>3. ASSUME NEW s \in Sessions, SaveTruncates(s) PROVE TypeOK'
  BY <1>a, <1>3 DEF TypeOK, SaveTruncates, AfterSave, Set, server
<1>4. ASSUME NEW s \in Sessions, SaveWrites(s) PROVE TypeOK'
  <2>1. jobs[s] \in Status \ {"unknown"}
    BY <1>a, <1>4 DEF TypeOK, JobShape, RunningHasRunner, SaveWrites, Status
  <2>2. QED
    BY <1>a, <1>4, <2>1 DEF TypeOK, SaveWrites, AfterSave, Set, server
<1>5. ASSUME NEW s \in Sessions, Post(s) PROVE TypeOK'
  <2>1. received[s] + 1 \in 0..MaxPrompts
    BY <1>a, <1>5 DEF TypeOK, Counts, Post
  <2>2. QED
    BY <1>a, <1>5, <2>1 DEF TypeOK, Post, Set
<1>6. ASSUME NEW s \in Sessions, RunRecords(s) PROVE TypeOK'
  BY <1>a, <1>6 DEF TypeOK, RunRecords, Set, server, Status
<1>7. ASSUME NEW s \in Sessions, ServerAnswers(s) \/ ServerFinishes(s) \/ ServerContinues(s) PROVE TypeOK'
  <2>1. ServerAnswers(s) => answers[s] + 1 \in 0..MaxPrompts
    BY <1>a DEF TypeOK, ServerAnswers
  <2>2. ASSUME NEW f \in {"no", "part", "whole"}, finished' = Set(finished, s, f)
        PROVE  finished' \in [Sessions -> {"no", "part", "whole"}]
    BY <1>a, <2>2 DEF TypeOK, Set
  <2>3. finished' \in [Sessions -> {"no", "part", "whole"}]
    BY <1>7, <2>2 DEF ServerAnswers, ServerFinishes, ServerContinues
  <2>4. QED
    BY <1>a, <1>7, <2>1, <2>3 DEF TypeOK, ServerAnswers, ServerFinishes, ServerContinues, Set
<1>8. ASSUME NEW s \in Sessions, CheckReads(s) PROVE TypeOK'
  BY <1>a, <1>8 DEF TypeOK, CheckReads, Set, NoCheck, server, Status
<1>9. ASSUME NEW s \in Sessions, CheckTells(s) PROVE TypeOK'
  <2> DEFINE Told(f) == [check[s] EXCEPT !.pc = "told", !.status = CheckStatus(s, f), !.early = Early(s)]
  <2>1. PICK f \in {IsFinished(s), FALSE} : check' = [check EXCEPT ![s] = Told(f)]
    BY <1>9 DEF CheckTells
  <2>2. CheckStatus(s, f) \in Status \cup {"none"} /\ Early(s) \in BOOLEAN
    BY <1>a DEF TypeOK, CheckStatus, SessionStatus, Status, Early
  <2>a. check[s] \in [pc : {"idle", "read", "told"}, job : Status \cup {"none"},
                      status : Status \cup {"none"}, early : BOOLEAN]
    BY <1>a DEF TypeOK
  <2>3. Told(f) \in [pc : {"idle", "read", "told"}, job : Status \cup {"none"},
                     status : Status \cup {"none"}, early : BOOLEAN]
    BY <2>2, <2>a
  <2>4. check' \in [Sessions -> [pc : {"idle", "read", "told"}, job : Status \cup {"none"},
                                 status : Status \cup {"none"}, early : BOOLEAN]]
    BY <1>a, <2>1, <2>3 DEF TypeOK
  <2>5. QED
    BY <1>a, <1>9, <2>4 DEF TypeOK, CheckTells, server
<1>13. ASSUME NEW s \in Sessions, CheckFails(s) PROVE TypeOK'
  BY <1>a, <1>13 DEF TypeOK, CheckFails, Set, NoCheck, server
<1>10. CASE Crash
  <2>1. NoCheck \in [pc : {"idle", "read", "told"}, job : Status \cup {"none"},
                     status : Status \cup {"none"}, early : BOOLEAN]
    BY DEF NoCheck
  <2>2. crashes' \in 0..MaxCrashes
    BY <1>a, <1>10 DEF TypeOK, Crash
  <2>3. QED
    BY <1>a, <1>10, <2>1, <2>2 DEF TypeOK, Crash, server
<1>11. CASE NewManager
  BY <1>a, <1>11 DEF TypeOK, NewManager, Loaded, server, Status
<1>12. QED
  BY <1>1, <1>2, <1>3, <1>4, <1>5, <1>6, <1>7, <1>8, <1>9, <1>10, <1>11, <1>13 DEF Next, Handle

\* Every step keeps what relates the job, its goroutine, the file and the server.
LEMMA NextJob ==
  ASSUME IInv, [Next]_vars
  PROVE  Counts' /\ JobShape' /\ RunningHasRunner' /\ FileAgrees'
<1> DEFINE Job == Counts /\ JobShape /\ RunningHasRunner /\ FileAgrees
<1> SUFFICES Job'
  OBVIOUS
<1>a. TypeOK /\ Counts /\ JobShape /\ RunningHasRunner /\ FileAgrees
  BY DEF IInv
<1>b. CASE UNCHANGED <<up, jobs, file, pc, fired, server, prompt, failed, unread>>
  BY <1>a, <1>b DEF Counts, JobShape, RunningHasRunner, FileAgrees, server
<1>1. CASE UNCHANGED vars
  BY <1>b, <1>1 DEF vars
<1>2. ASSUME NEW s \in Sessions, Submit(s) PROVE Job'
  BY <1>a, <1>2 DEF TypeOK, Counts, JobShape, RunningHasRunner, FileAgrees, Submit, Set, server
<1>3. ASSUME NEW s \in Sessions, SaveTruncates(s) PROVE Job'
  BY <1>a, <1>3 DEF TypeOK, Counts, JobShape, RunningHasRunner, FileAgrees, SaveTruncates,
     AfterSave, Set, server
<1>4. ASSUME NEW s \in Sessions, SaveWrites(s) PROVE Job'
  BY <1>a, <1>4 DEF TypeOK, Counts, JobShape, RunningHasRunner, FileAgrees, SaveWrites,
     AfterSave, Set, server, Loaded
<1>5. ASSUME NEW s \in Sessions, Post(s) PROVE Job'
  BY <1>a, <1>5 DEF TypeOK, Counts, JobShape, RunningHasRunner, FileAgrees, Post, Set
<1>6. ASSUME NEW s \in Sessions, RunRecords(s) PROVE Job'
  BY <1>a, <1>6 DEF TypeOK, Counts, JobShape, RunningHasRunner, FileAgrees, RunRecords, Answered, Set, server
<1>7. ASSUME NEW s \in Sessions, ServerAnswers(s) \/ ServerFinishes(s) \/ ServerContinues(s) PROVE Job'
  BY <1>a, <1>7 DEF TypeOK, Counts, JobShape, RunningHasRunner, FileAgrees, ServerAnswers,
     ServerFinishes, ServerContinues, Set
<1>8. ASSUME NEW s \in Sessions, CheckReads(s) \/ CheckTells(s) \/ CheckFails(s) PROVE Job'
  BY <1>b, <1>8 DEF CheckReads, CheckTells, CheckFails
<1>9. CASE Crash
  BY <1>a, <1>9 DEF TypeOK, Counts, JobShape, RunningHasRunner, FileAgrees, Crash, server
<1>10. CASE NewManager
  BY <1>a, <1>10 DEF TypeOK, Counts, JobShape, RunningHasRunner, FileAgrees, NewManager, Loaded,
     server
<1>11. QED
  BY <1>1, <1>2, <1>3, <1>4, <1>5, <1>6, <1>7, <1>8, <1>9, <1>10 DEF Next, Handle

\* Every step keeps what says done of a first prompt.
LEMMA NextDone == ASSUME IInv, [Next]_vars PROVE FirstPrompt' /\ DoneIsAnswered'
<1> DEFINE First == FirstPrompt /\ DoneIsAnswered
<1> SUFFICES First'
  OBVIOUS
<1>a. TypeOK /\ Counts /\ JobShape /\ RunningHasRunner /\ FirstPrompt /\ DoneIsAnswered
  BY DEF IInv
<1>1. CASE UNCHANGED vars
  BY <1>a, <1>1 DEF vars, server, FirstPrompt, DoneIsAnswered, Answered
<1>2. ASSUME NEW s \in Sessions, Submit(s) PROVE First'
  BY <1>a, <1>2 DEF TypeOK, Counts, FirstPrompt, DoneIsAnswered, Answered, Submit, Set, server
<1>3. ASSUME NEW s \in Sessions, SaveTruncates(s) \/ SaveWrites(s) PROVE First'
  BY <1>a, <1>3 DEF TypeOK, FirstPrompt, DoneIsAnswered, Answered, SaveTruncates, SaveWrites,
     Set, server
<1>4. ASSUME NEW s \in Sessions, Post(s) PROVE First'
  <2>1. /\ UNCHANGED <<jobs, file, fired, answers, finished, check>>
        /\ \A t \in Sessions \ {s} : prompt'[t] = prompt[t] /\ received'[t] = received[t]
        /\ \/ prompt'[s] = received'[s]
           \/ prompt'[s] = prompt[s] /\ received'[s] = received[s]
    BY <1>a, <1>4 DEF TypeOK, Post, Set
  <2>a. received[s] \in Nat /\ fired[s] \in Nat
    BY <1>a DEF TypeOK
  <2>b. received[s] < fired[s]
    BY <1>a, <1>4 DEF Counts, Post
  <2>2. fired[s] <= 1 => received[s] = 0
    BY <2>a, <2>b
  <2>3. fired[s] <= 1 => "done" \notin {jobs[s], file[s], check[s].job}
    BY <1>a, <2>2 DEF FirstPrompt, Answered
  <2>4. QED
    BY <1>a, <2>1, <2>3 DEF FirstPrompt, DoneIsAnswered, Answered
<1>5. ASSUME NEW s \in Sessions, RunRecords(s) PROVE First'
  BY <1>a, <1>5 DEF TypeOK, FirstPrompt, DoneIsAnswered, Answered, RunRecords, Set, server
<1>6. ASSUME NEW s \in Sessions, ServerAnswers(s) \/ ServerFinishes(s) \/ ServerContinues(s) PROVE First'
  <2>1. /\ UNCHANGED <<jobs, file, fired, received, check, prompt>>
        /\ \A t \in Sessions \ {s} : answers'[t] = answers[t] /\ finished'[t] = finished[t]
        /\ \/ answers'[s] = answers[s] + 1 /\ answers[s] < received[s]
           \/ answers'[s] = answers[s] /\ finished[s] # "whole"
    BY <1>a, <1>6 DEF TypeOK, ServerAnswers, ServerFinishes, ServerContinues, Set
  <2>a. answers[s] \in Nat /\ received[s] \in Nat /\ prompt[s] \in Nat
    BY <1>a DEF TypeOK
  <2>2. fired[s] <= 1 /\ Answered(s) => Answered(s)'
    BY <2>1, <2>a DEF Answered
  <2>3. \A t \in Sessions \ {s} : Answered(t) => Answered(t)'
    BY <2>1 DEF Answered
  <2>4. QED
    BY <1>a, <2>1, <2>2, <2>3 DEF FirstPrompt, DoneIsAnswered
<1>7. ASSUME NEW s \in Sessions, CheckReads(s) PROVE First'
  <2>1. check'[s].job = jobs[s] /\ check'[s].status = "none"
    BY <1>a, <1>7 DEF TypeOK, CheckReads, Set, NoCheck
  <2>2. \A t \in Sessions \ {s} : check'[t] = check[t]
    BY <1>a, <1>7 DEF TypeOK, CheckReads, Set
  <2>3. UNCHANGED <<jobs, file, fired, server, prompt>>
    BY <1>7 DEF CheckReads
  <2>4. QED
    BY <1>a, <2>1, <2>2, <2>3 DEF FirstPrompt, DoneIsAnswered, Answered, server
<1>8. ASSUME NEW s \in Sessions, CheckTells(s) PROVE First'
  <2>1. PICK f \in {IsFinished(s), FALSE} :
          /\ check'[s].job = check[s].job /\ check'[s].status = CheckStatus(s, f)
          /\ check'[s].early = Early(s)
          /\ \A t \in Sessions \ {s} : check'[t] = check[t]
          /\ UNCHANGED <<jobs, file, fired, server, prompt>>
    <3>1. PICK f \in {IsFinished(s), FALSE} :
            check' = [check EXCEPT ![s] = [check[s] EXCEPT !.pc = "told",
                                             !.status = CheckStatus(s, f), !.early = Early(s)]]
      BY <1>8 DEF CheckTells
    <3>2. check \in [Sessions -> [pc : {"idle", "read", "told"}, job : Status \cup {"none"},
                                  status : Status \cup {"none"}, early : BOOLEAN]]
      BY <1>a DEF TypeOK
    <3>3. UNCHANGED <<jobs, file, fired, server, prompt>>
      BY <1>8 DEF CheckTells
    <3>4. QED
      BY <3>1, <3>2, <3>3
  <2>2. fired[s] <= 1 /\ CheckStatus(s, f) = "done" => Answered(s) \/ finished[s] = "part"
    <3>1. ASSUME fired[s] <= 1, IsFinished(s) PROVE Answered(s) \/ finished[s] = "part"
      <4>1. /\ answers[s] \in Nat /\ received[s] \in Nat /\ fired[s] \in Nat
            /\ finished[s] \in {"no", "part", "whole"}
        BY <1>a DEF TypeOK
      <4>2. answers[s] = 1 /\ received[s] = 1
        BY <1>a, <3>1, <4>1 DEF Counts, IsFinished
      <4>3. QED
        BY <1>a, <3>1, <4>1, <4>2 DEF FirstPrompt, IsFinished, Answered
    <3>2. CheckStatus(s, f) = "done" => IsFinished(s) \/ check[s].job = "done"
      BY DEF CheckStatus, SessionStatus
    <3>3. QED
      BY <1>a, <3>1, <3>2 DEF FirstPrompt
  <2>3. QED
    BY <1>a, <2>1, <2>2 DEF FirstPrompt, DoneIsAnswered, Answered, Early, server
<1>12. ASSUME NEW s \in Sessions, CheckFails(s) PROVE First'
  <2>1. check'[s].job = "none" /\ check'[s].status = "none"
    BY <1>a, <1>12 DEF TypeOK, CheckFails, Set, NoCheck
  <2>2. \A t \in Sessions \ {s} : check'[t] = check[t]
    BY <1>a, <1>12 DEF TypeOK, CheckFails, Set
  <2>3. UNCHANGED <<jobs, file, fired, server, prompt>>
    BY <1>12 DEF CheckFails
  <2>4. QED
    BY <1>a, <2>1, <2>2, <2>3 DEF FirstPrompt, DoneIsAnswered, Answered, server
<1>9. CASE Crash
  <2>1. \A s \in Sessions : check'[s].job = "none" /\ check'[s].status = "none" /\ jobs'[s] = "none"
    BY <1>9 DEF Crash, NoCheck
  <2>2. QED
    BY <1>a, <1>9, <2>1 DEF Crash, FirstPrompt, DoneIsAnswered, Answered, server
<1>10. CASE NewManager
  BY <1>a, <1>10 DEF NewManager, Loaded, FirstPrompt, DoneIsAnswered, Answered, server
<1>11. QED
  BY <1>1, <1>2, <1>3, <1>4, <1>5, <1>6, <1>7, <1>8, <1>9, <1>10, <1>12 DEF Next, Handle

\* The invariant holds throughout.
LEMMA SpecIInv == Spec => []IInv
<1>1. IInv /\ [Next]_vars => IInv'
  BY NextType, NextJob, NextDone DEF IInv
<1>2. QED
  BY InitIInv, <1>1, PTL DEF Spec

\* However often the process crashes, between any two steps of a save: a prompt
\* the server may have got is on file, and a resting job has in memory what it has on
\* file, a job that a crash left running being in doubt; but for saves that failed,
\* a file that a crash tore, and one that NewManager could not read.
THEOREM JobsSurviveCrashes == Spec => [](TypeOK /\ FileAgrees)
<1>1. IInv => TypeOK /\ FileAgrees
  BY DEF IInv
<1>2. QED
  BY SpecIInv, <1>1, PTL

\* A session is refused as busy only while a goroutine works on its job.
THEOREM RunningJobsHaveRunners == Spec => []RunningHasRunner
<1>1. IInv => RunningHasRunner
  BY DEF IInv
<1>2. QED
  BY SpecIInv, <1>1, PTL

\* handoff_check says done of a first prompt only after its answer.
THEOREM FirstDoneIsAnswered == Spec => []DoneIsAnswered
<1>1. IInv => DoneIsAnswered
  BY DEF IInv
<1>2. QED
  BY SpecIInv, <1>1, PTL
=============================================================================
