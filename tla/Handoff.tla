------------------------------- MODULE Handoff -------------------------------
(***************************************************************************)
(* The jobs of opencode-handoff-mcp: internal/tools/opencode/manager.go,   *)
(* and handoff_check in tools.go.                                          *)
(*                                                                         *)
(* A job is a prompt fired at an opencode session.  Submit puts it in the  *)
(* map under the manager's lock, then saves it, then starts run, which     *)
(* posts the prompt and, under the job's lock, records the outcome and     *)
(* saves it again.  The process may crash between any two steps, also in   *)
(* the middle of a save (os.WriteFile truncates, then writes), and         *)
(* restarts from the files.  The opencode server outlives it.              *)
(***************************************************************************)
EXTENDS Naturals

CONSTANTS
  Sessions,    \* opencode sessions
  MaxPrompts,  \* bound: prompts fired at a session
  MaxCrashes   \* bound: crashes of the process

ASSUME HandoffAssumption == MaxPrompts \in Nat /\ MaxCrashes \in Nat

VARIABLES
  up,       \* the process runs
  crashes,
  jobs,     \* Manager.jobs: the status of the job of each session, or "none"
  file,     \* the job file: "none", "torn" or the status it holds
  pc,       \* the goroutine of the job: Submit from the lock on, then run
  fired,    \* prompts accepted by Submit
  \* The opencode server, per session.
  received, \* prompts it has got
  answers,  \* the prompt its last assistant message belongs to
  finished, \* that message: "no", "part" (finished, but the answer goes on), "whole"
  \* handoff_check.
  check,    \* where it is, the snapshot of the job it took and what it told
  \* History, read by properties only.
  prompt,   \* the job's prompt as the server counts them; 0 if it did not get it
  failed,   \* saves of the job's current status that failed
  unread    \* sessions whose file this process could not read when it started

server == <<received, answers, finished>>
vars == <<up, crashes, jobs, file, pc, fired, server, check, prompt, failed, unread>>

Status == {"running", "done", "error", "unknown"}
NoCheck == [pc |-> "idle", job |-> "none", status |-> "none", early |-> FALSE]

\* The type of every variable.
TypeOK ==
  /\ up \in BOOLEAN /\ crashes \in 0..MaxCrashes
  /\ jobs \in [Sessions -> Status \cup {"none"}]
  /\ file \in [Sessions -> (Status \ {"unknown"}) \cup {"none", "torn"}]
  /\ pc \in [Sessions -> {"idle", "truncate", "write", "post", "posted", "truncate2", "write2"}]
  /\ fired \in [Sessions -> 0..MaxPrompts]
  /\ received \in [Sessions -> 0..MaxPrompts]
  /\ answers \in [Sessions -> 0..MaxPrompts]
  /\ finished \in [Sessions -> {"no", "part", "whole"}]
  /\ check \in [Sessions -> [pc : {"idle", "read", "told"}, job : Status \cup {"none"},
                             status : Status \cup {"none"}, early : BOOLEAN]]
  /\ prompt \in [Sessions -> 0..MaxPrompts]
  /\ failed \in [Sessions -> BOOLEAN] /\ unread \subseteq Sessions

Init ==
  /\ up = TRUE /\ crashes = 0
  /\ jobs = [s \in Sessions |-> "none"] /\ file = [s \in Sessions |-> "none"]
  /\ pc = [s \in Sessions |-> "idle"] /\ fired = [s \in Sessions |-> 0]
  /\ received = [s \in Sessions |-> 0] /\ answers = [s \in Sessions |-> 0]
  /\ finished = [s \in Sessions |-> "no"]
  /\ check = [s \in Sessions |-> NoCheck]
  /\ prompt = [s \in Sessions |-> 0]
  /\ failed = [s \in Sessions |-> FALSE] /\ unread = {}

Set(f, s, v) == [f EXCEPT ![s] = v]

-----------------------------------------------------------------------------
(* Submit and run.                                                         *)

\* The job's lock is held from the outcome to the end of its save.
JobLocked(s) == pc[s] \in {"truncate2", "write2"}

\* Mutant: the prompt is posted first and the job saved with its outcome only.
SubmitUnsaved(s) ==
  /\ up /\ fired[s] < MaxPrompts /\ ~JobLocked(s) /\ jobs[s] # "running"
  /\ jobs' = Set(jobs, s, "running") /\ pc' = Set(pc, s, "post")
  /\ fired' = Set(fired, s, fired[s] + 1)
  /\ prompt' = Set(prompt, s, 0) /\ failed' = Set(failed, s, FALSE)
  /\ unread' = unread \ {s}
  /\ UNCHANGED <<up, crashes, file, server, check>>

\* Refused while the session's job is running; any other job is replaced.
Submit(s) ==
  /\ up /\ fired[s] < MaxPrompts /\ ~JobLocked(s) /\ jobs[s] # "running"
  /\ jobs' = Set(jobs, s, "running") /\ pc' = Set(pc, s, "truncate")
  /\ fired' = Set(fired, s, fired[s] + 1)
  /\ prompt' = Set(prompt, s, 0) /\ failed' = Set(failed, s, FALSE)
  /\ unread' = unread \ {s}
  /\ UNCHANGED <<up, crashes, file, server, check>>

AfterSave(s) == IF pc[s] \in {"truncate", "write"} THEN "post" ELSE "idle"

\* saveJob: the directory or the open fails, which is only logged; or the file
\* is truncated and the record follows.
SaveTruncates(s) ==
  /\ pc[s] \in {"truncate", "truncate2"}
  /\ \/ /\ file' = Set(file, s, "torn") /\ UNCHANGED failed
        /\ pc' = Set(pc, s, IF pc[s] = "truncate" THEN "write" ELSE "write2")
     \/ /\ failed' = Set(failed, s, TRUE) /\ UNCHANGED file
        /\ pc' = Set(pc, s, AfterSave(s))
  /\ UNCHANGED <<up, crashes, jobs, fired, server, check, prompt, unread>>

SaveWrites(s) ==
  /\ pc[s] \in {"write", "write2"}
  /\ \/ file' = Set(file, s, jobs[s]) /\ UNCHANGED failed
     \/ failed' = Set(failed, s, TRUE) /\ UNCHANGED file
  /\ pc' = Set(pc, s, AfterSave(s))
  /\ UNCHANGED <<up, crashes, jobs, fired, server, check, prompt, unread>>

\* The server gets the prompt; or the request fails before it does.
Post(s) ==
  /\ pc[s] = "post"
  /\ \/ /\ received' = Set(received, s, received[s] + 1)
        /\ prompt' = Set(prompt, s, received[s] + 1)
     \/ UNCHANGED <<received, prompt>>
  /\ pc' = Set(pc, s, "posted")
  /\ UNCHANGED <<up, crashes, jobs, file, fired, answers, finished, check, failed, unread>>

\* The job's prompt has been answered to the end.
Answered(s) == prompt[s] # 0 /\ (answers[s] > prompt[s] \/ (answers[s] = prompt[s] /\ finished[s] = "whole"))

\* client.Prompt returns: with the finished message, or with an error at any time.
RunRecords(s) ==
  /\ pc[s] = "posted"
  /\ \/ /\ Answered(s)
        /\ jobs' = Set(jobs, s, "done")
     \/ jobs' = Set(jobs, s, "error")
  /\ pc' = Set(pc, s, "truncate2")
  /\ UNCHANGED <<up, crashes, file, fired, server, check, prompt, failed, unread>>

-----------------------------------------------------------------------------
(* The opencode server: it answers the prompts of a session in order, each *)
(* with one assistant message or several.                                  *)

ServerAnswers(s) ==
  /\ answers[s] < received[s] /\ (answers[s] = 0 \/ finished[s] = "whole")
  /\ answers' = Set(answers, s, answers[s] + 1) /\ finished' = Set(finished, s, "no")
  /\ UNCHANGED <<up, crashes, jobs, file, pc, fired, received, check, prompt, failed, unread>>

\* The message ends, and with it the answer; or another follows it.
ServerFinishes(s) ==
  /\ answers[s] > 0 /\ finished[s] = "no"
  /\ \E f \in {"part", "whole"} : finished' = Set(finished, s, f)
  /\ UNCHANGED <<up, crashes, jobs, file, pc, fired, received, answers, check, prompt, failed, unread>>

ServerContinues(s) ==
  /\ finished[s] = "part"
  /\ finished' = Set(finished, s, "no")
  /\ UNCHANGED <<up, crashes, jobs, file, pc, fired, received, answers, check, prompt, failed, unread>>

-----------------------------------------------------------------------------
(* handoff_check.                                                          *)

CheckReads(s) ==
  /\ up /\ check[s].pc # "read" /\ ~JobLocked(s)
  /\ check' = Set(check, s, [NoCheck EXCEPT !.pc = "read", !.job = jobs[s]])
  /\ UNCHANGED <<up, crashes, jobs, file, pc, fired, server, prompt, failed, unread>>

\* Mutant: a message that has begun is taken for a finished one.
IsFinishedEver(s) == answers[s] > 0

\* isSessionFinishedJSON: the last assistant message has a finish reason, whichever
\* it is, so also when the answer goes on.
IsFinished(s) == answers[s] > 0 /\ finished[s] # "no"

\* sessionStatus.
SessionStatus(isFinished) == IF isFinished THEN "done" ELSE "running"

\* doCheck: what it reports, with the job it read before the messages.
CheckStatus(s, isFinished) ==
  IF check[s].job \in {"none", "running", "unknown"} \/ isFinished
  THEN SessionStatus(isFinished) ELSE check[s].job

\* The answer to the job's prompt is not complete, nor is its last message (history).
Early(s) == check[s].job # "none" /\ ~Answered(s) /\ finished[s] # "part"

\* checkSession gets the messages, or the context only: isFinished is then false.
CheckTells(s) ==
  /\ up /\ check[s].pc = "read"
  /\ \E isFinished \in {IsFinished(s), FALSE} :
       check' = [check EXCEPT ![s].pc = "told", ![s].status = CheckStatus(s, isFinished),
                              ![s].early = Early(s)]
  /\ UNCHANGED <<up, crashes, jobs, file, pc, fired, server, prompt, failed, unread>>

\* It gets neither: an error, and no status.
CheckFails(s) ==
  /\ up /\ check[s].pc = "read"
  /\ check' = Set(check, s, NoCheck)
  /\ UNCHANGED <<up, crashes, jobs, file, pc, fired, server, prompt, failed, unread>>

-----------------------------------------------------------------------------
(* Crash and restart.                                                      *)

Crash ==
  /\ up /\ crashes < MaxCrashes
  /\ up' = FALSE /\ crashes' = crashes + 1
  /\ jobs' = [s \in Sessions |-> "none"] /\ pc' = [s \in Sessions |-> "idle"]
  /\ check' = [s \in Sessions |-> NoCheck] /\ unread' = {}
  /\ UNCHANGED <<file, fired, server, prompt, failed>>

\* Mutant: a job is loaded with the status it has.
LoadedAsIs(f) == IF f = "torn" THEN "none" ELSE f

\* loadJobs, of one file that it has read: one that cannot be parsed is skipped, and
\* a job that was running is in doubt.  (So the code and its inline comment; the
\* comment above loadJobs says that such a job is marked as error.)
Loaded(f) == IF f = "torn" THEN "none" ELSE IF f = "running" THEN "unknown" ELSE f

\* ReadDir or some ReadFile may fail, which is only logged: those jobs are not loaded.
NewManager ==
  /\ ~up /\ up' = TRUE
  /\ unread' \in SUBSET {s \in Sessions : file[s] # "none"}
  /\ jobs' = [s \in Sessions |-> IF s \in unread' THEN "none" ELSE Loaded(file[s])]
  /\ UNCHANGED <<crashes, file, pc, fired, server, check, prompt, failed>>

-----------------------------------------------------------------------------
Handle(s) ==
  \/ Submit(s) \/ SaveTruncates(s) \/ SaveWrites(s) \/ Post(s) \/ RunRecords(s)
  \/ ServerAnswers(s) \/ ServerFinishes(s) \/ ServerContinues(s)
  \/ CheckReads(s) \/ CheckTells(s) \/ CheckFails(s)

Next == (\E s \in Sessions : Handle(s)) \/ Crash \/ NewManager

Spec == Init /\ [][Next]_vars

-----------------------------------------------------------------------------
(* Properties.                                                             *)

\* No session is locked out: Submit refuses a session only while a goroutine of
\* this process is at work on its job, whatever crashes there were before.
RunningHasRunner == \A s \in Sessions : jobs[s] = "running" <=> pc[s] \notin {"idle", "truncate2", "write2"}

\* The file tells the truth: a prompt the server may have got is on record, so
\* that after a crash its job is loaded; and a session whose job is at rest has in
\* memory what it has on file, where a job that a crash left running is in doubt
\* (unknown: see Loaded).  The exceptions are saves that failed, a file a crash
\* tore, and a file that NewManager could not read, which is skipped: its job is not
\* in memory until the session's next prompt, and the file is left as it is.
FileAgrees ==
  \A s \in Sessions : ~failed[s] =>
    /\ pc[s] \in {"post", "posted"} \/ (~up /\ prompt[s] # 0) => file[s] # "none"
    /\ up /\ pc[s] = "idle" /\ file[s] # "torn" =>
         jobs[s] = IF s \in unread THEN "none" ELSE IF file[s] = "running" THEN "unknown" ELSE file[s]

\* handoff_check says done of a job only when the answer to its prompt is complete,
\* also when the job failed or was in doubt after a crash and the messages decide.
\* Two things doCheck does not ask limit this: which prompt the last answer belongs
\* to, so it holds of the first prompt of a session; and whether a message with a
\* finish reason is the last of its answer, so a check may say done between two
\* messages of one.
DoneIsAnswered ==
  \A s \in Sessions : check[s].status = "done" /\ fired[s] <= 1 => ~check[s].early
=============================================================================
