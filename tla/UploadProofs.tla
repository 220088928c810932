---------------------------- MODULE UploadProofs ----------------------------
(***************************************************************************)
(* Theorems about TransferJob and Upload: what a transfer reports and      *)
(* leaves behind, and that the pipelined copy is the copy of TransferJob,  *)
(* for any number of workers and chunks.                                   *)
(***************************************************************************)
EXTENDS Upload, FiniteSetTheorems, TLAPS

-----------------------------------------------------------------------------
(* The job.  This part of the invariant reads the variables of TransferJob *)
(* only, so that both specifications share its proof.                      *)

Early == {"none", "source", "client", "closer", "open"}
Late == {"cause", "finish", "done"}

\* Until a request is taken there is no job, and the loop aborts none; the
\* reader of one that was not taken, or was refused, is closed.
Requests ==
  /\ caller = "calling" => pc = "none"
  /\ caller # "calling" /\ pc = "none" => source # "open"
  /\ loop.pc \in {"abort", "cancel"} => pc # "none"

\* A client is given to the loop to close after it has been made.
Clients ==
  /\ closer \/ closing => pc \notin {"none", "source", "client", "closer"}
  /\ pc \in {"none", "source", "client"} => sftp = "none"

\* A file to upload is opened by the transfer.
Sources ==
  /\ pc \in {"none", "source"} /\ kind = "upload" => source = "none"
  /\ ~IsUpload => source = "none"

\* Which steps the kinds have, and which of them has a temporary file.
KindSteps ==
  /\ pc \in {"source", "remove"} => IsUpload
  /\ pc = "close" => kind # "sink"
  /\ pc \in Early \/ kind # "download" => tmp = "none"

\* Where the bytes are: what is closed or renamed is whole.
Bytes ==
  /\ ~IsUpload => dest # "partial"
  /\ pc = "copy" /\ IsUpload => dest \in {"partial", "whole"}
  /\ pc = "close" => IF IsUpload THEN dest = "whole" ELSE tmp = "whole"

\* Errors: there is none before the copy has ended, a removal has one, and a
\* transfer that ends without one has delivered or was aborted.
Errors ==
  /\ pc \in Early \cup {"copy", "close"} => err = "none"
  /\ pc = "remove" => err # "none"
  /\ pc \in {"cleanup"} \cup Late /\ err = "none" => dest = "whole" \/ aborted
  /\ pc = "done" => status = IF err = "none" THEN "completed"
                             ELSE IF err = "transfer canceled" THEN "canceled" ELSE "failed"
  /\ status \in {"completed", "failed", "canceled"} => pc = "done"

\* After the deferred calls nothing is held.
Released == pc \in Late => sftp # "open" /\ source # "open" /\ tmp = "none"

\* While a job runs its context has the cause that was recorded first, and the
\* error is that cause, or one of the transfer's own.
FirstCause ==
  /\ pc = "none" => jctx = "none" /\ first = "none"
  /\ Running => first = jctx
  /\ err \in {"none", "io", first}

JobInv == /\ TypeOK /\ Requests /\ Clients /\ Sources /\ KindSteps /\ Bytes
          /\ Errors /\ Released /\ FirstCause

-----------------------------------------------------------------------------
(* The copy.                                                               *)

Busy == {w \in Slots : worker[w].pc \in {"write", "count"}}
Counting == {w \in Slots : worker[w].pc = "count"}
Landed == {k \in 1..Chunks : remote[k] # Absent}
Reading == reader.pc \in {"read", "send"}

PipeType ==
  /\ reader \in [pc : {"free", "read", "send", "exited"}, buf : Slots \cup {NoBuf},
                 end : {"more", "eof", "io"}]
  /\ worker \in [Slots -> [pc : {"receive", "write", "count", "exited"}, buf : Slots \cup {NoBuf},
                           off : 0..Chunks]]
  /\ free \subseteq Slots
  /\ data \in [Slots -> 0..Chunks]
  /\ off \in 0..Chunks
  /\ gerr \in Causes \cup {"io"}
  /\ remote \in [1..Chunks -> 0..Absent]
  /\ bytes \in Nat

\* Outside of the copy its variables are as they were before it.
AtRest ==
  ~Copying =>
    /\ reader = NewReader /\ worker = [w \in Slots |-> NewWorker]
    /\ free = Slots /\ data = [b \in Slots |-> 0]
    /\ off = 0 /\ gerr = "none" /\ remote = Empty

\* A buffer is in the channel, with the reader or with one worker.
Buffers ==
  /\ Reading => reader.buf \in Slots \ free
  /\ \A w \in Busy : /\ worker[w].buf \in Slots \ free
                     /\ Reading => worker[w].buf # reader.buf
  /\ \A v, w \in Busy : worker[v].buf = worker[w].buf => v = w

\* Workers write at different offsets, of those that were handed over, and where
\* nothing is yet; what they write is the chunk of that offset, or the copy fails.
Writes ==
  /\ \A w \in Busy : worker[w].off \in 1..off
  /\ \A v, w \in Busy : worker[v].off = worker[w].off => v = w
  /\ \A w \in Busy : worker[w].pc = "write" =>
       /\ remote[worker[w].off] = Absent
       /\ data[worker[w].buf] = worker[w].off \/ gerr # "none"

\* What the reader is about to hand over is the next chunk.
Sends ==
  reader.pc = "send" =>
    /\ off < Chunks
    /\ reader.end = "io" \/ data[reader.buf] = off + 1
    /\ reader.end = "eof" => off + 1 = Chunks

\* Every chunk that was handed over is written or with a worker, unless there is
\* an error; later offsets are empty, and a reader ends early only with an error.
Handed ==
  /\ \A k \in 1..Chunks : k > off => remote[k] = Absent
  /\ gerr = "none" =>
       /\ \A k \in 1..off : remote[k] = k \/ \E w \in Busy : worker[w].pc = "write" /\ worker[w].off = k
       /\ reader.pc = "exited" => off = Chunks

\* The error is one that the copy of TransferJob may return; the destination is
\* not whole before the copy has returned.
Outcome ==
  /\ gerr \in {"none", "io", jctx}
  /\ Copying => dest = "partial"

\* What is counted are the chunks that landed, but for the workers about to count.
Counted ==
  /\ pc \in Early => bytes = 0
  /\ Copying => bytes + Cardinality(Counting) = Cardinality(Landed)
  /\ IsUpload /\ pc \in {"close", "cleanup"} \cup Late /\ err = "none" /\ ~aborted => bytes = Chunks

PipeInv == PipeType /\ AtRest /\ Buffers /\ Writes /\ Sends /\ Handed /\ Outcome /\ Counted

IInv == JobInv /\ PipeInv

-----------------------------------------------------------------------------
(* The job's steps.                                                        *)

\* Before the call there is no job.
LEMMA InitJob == Init => JobInv
<1> SUFFICES ASSUME Init PROVE JobInv
  OBVIOUS
<1>1. WorldType /\ ContextType /\ FlagType
  BY KindsAssumption DEF Init, WorldType, ContextType, FlagType, Causes
<1>2. LoopType /\ FileType
  BY DEF Init, LoopType, FileType, Causes, IdleLoop
<1>3. StepType /\ StatusType
  BY DEF Init, StepType, StatusType, Causes
<1>4. Requests /\ Clients /\ Sources
  BY DEF Init, Requests, Clients, Sources, IsUpload, IdleLoop
<1>5. KindSteps /\ Bytes
  BY DEF Init, KindSteps, Bytes, IsUpload
<1>6. Errors /\ Released
  BY DEF Init, Errors, Early, Late, Released
<1>7. FirstCause
  BY DEF Init, FirstCause, Running
<1>8. QED
  BY <1>1, <1>2, <1>3, <1>4, <1>5, <1>6, <1>7 DEF JobInv, TypeOK

\* The caller gives up, stops waiting or is answered.
LEMMA CallerStep == ASSUME JobInv, Caller PROVE JobInv'
<1> USE DEF JobInv, TypeOK
<1> USE DEF Caller, GivesUp, StopsWaiting, Answered, job, run
<1>1. WorldType'
  BY DEF WorldType
<1>2. ContextType'
  BY DEF ContextType, Causes, LoopType
<1>3. FlagType'
  BY DEF FlagType
<1>4. LoopType'
  BY DEF LoopType, Causes
<1>5. FileType'
  BY DEF FileType
<1>6. StepType'
  BY DEF StepType, Causes, ContextType
<1>7. StatusType'
  BY DEF StatusType, StepType
<1>8. Requests'
  BY DEF Requests, LoopType
<1>9. Clients'
  BY DEF Clients, FlagType, Requests
<1>10. Sources'
  BY DEF Sources, IsUpload, Requests
<1>11. KindSteps'
  BY DEF KindSteps, IsUpload, Early, Requests, WorldType, AllKinds
<1>12. Bytes'
  BY DEF Bytes, KindSteps, IsUpload, Early, FileType
<1>13. Errors'
  BY DEF Errors, Early, Late, StatusType, Requests, Bytes, IsUpload, KindSteps, Clients, StepType
<1>14. Released'
  BY DEF Released, Late, Requests, Clients, KindSteps, Early, Sources, IsUpload, FileType
<1>15. FirstCause'
  BY DEF FirstCause, Running, Requests, ContextType, StepType
<1>16. QED
  BY <1>1, <1>2, <1>3, <1>4, <1>5, <1>6, <1>7, <1>8, <1>9, <1>10, <1>11, <1>12, <1>13, <1>14,
         <1>15

\* The connection fails, or the goroutine that closes the client does.
LEMMA LinkStep == ASSUME JobInv, CloserCloses \/ LinkFails PROVE JobInv'
<1> USE DEF JobInv, TypeOK
<1> USE DEF CloserCloses, LinkFails, world, job, run
<1>1. WorldType'
  BY DEF WorldType
<1>2. ContextType'
  BY DEF ContextType, Causes, LoopType
<1>3. FlagType'
  BY DEF FlagType
<1>4. LoopType'
  BY DEF LoopType, Causes
<1>5. FileType'
  BY DEF FileType
<1>6. StepType'
  BY DEF StepType, Causes, ContextType
<1>7. StatusType'
  BY DEF StatusType, StepType
<1>8. Requests'
  BY DEF Requests, LoopType
<1>9. Clients'
  BY DEF Clients, FlagType, Requests
<1>10. Sources'
  BY DEF Sources, IsUpload, Requests
<1>11. KindSteps'
  BY DEF KindSteps, IsUpload, Early, Requests, WorldType, AllKinds
<1>12. Bytes'
  BY DEF Bytes, KindSteps, IsUpload, Early, FileType
<1>13. Errors'
  BY DEF Errors, Early, Late, StatusType, Requests, Bytes, IsUpload, KindSteps, Clients, StepType
<1>14. Released'
  BY DEF Released, Late, Requests, Clients, KindSteps, Early, Sources, IsUpload, FileType
<1>15. FirstCause'
  BY DEF FirstCause, Running, Requests, ContextType, StepType
<1>16. QED
  BY <1>1, <1>2, <1>3, <1>4, <1>5, <1>6, <1>7, <1>8, <1>9, <1>10, <1>11, <1>12, <1>13, <1>14,
         <1>15

\* The event loop starts, aborts or drops the job.
LEMMA LoopStep == ASSUME JobInv, Loop PROVE JobInv'
<1> USE DEF JobInv, TypeOK
<1>1. ContextType'
  <2>1. CASE HandleUpload
    BY <2>1 DEF HandleUpload, LeavesRest, Start, Inherited, ContextType, Causes
  <2>2. CASE HandleDownload
    BY <2>2 DEF HandleDownload, LeavesRest, Start, Inherited, ContextType, Causes
  <2>3. CASE HandleCancel
    BY <2>3 DEF HandleCancel, job, LeavesRest, ContextType, LoopType, Causes, Cancelled
  <2>4. CASE WatcherDrops
    BY <2>4 DEF WatcherDrops, HandleClose, job, LeavesRest, ContextType, LoopType, Causes,
           Cancelled
  <2>5. CASE UserCloses
    BY <2>5 DEF UserCloses, HandleClose, job, LeavesRest, ContextType, LoopType, Causes, Cancelled
  <2>6. CASE Abort
    BY <2>6 DEF Abort, job, LeavesRest, ContextType, LoopType, Causes, Cancelled
  <2>7. CASE AbortCancels
    BY <2>7 DEF AbortCancels, job, LeavesRest, ContextType, LoopType, Causes, Cancelled
  <2>8. CASE CloseConnection
    BY <2>8 DEF CloseConnection, IdleLoop, job, LeavesRest, ContextType, LoopType, Causes,
           Cancelled
  <2>9. CASE Shutdown
    BY <2>9 DEF Shutdown, IdleLoop, job, LeavesRest, ContextType, LoopType, Causes, Cancelled
  <2>10. CASE PoolEnds
    BY <2>10 DEF PoolEnds, ContextType, Causes, Cancelled
  <2>11. QED
    BY <2>1, <2>2, <2>3, <2>4, <2>5, <2>6, <2>7, <2>8, <2>9, <2>10 DEF Loop
<1>2. LoopType'
  <2>1. CASE HandleUpload
    BY <2>1 DEF HandleUpload, LeavesRest, ContextType, LoopType, Causes
  <2>2. CASE HandleDownload
    BY <2>2 DEF HandleDownload, LeavesRest, ContextType, LoopType, Causes
  <2>3. CASE HandleCancel
    BY <2>3 DEF HandleCancel, ContextType, LoopType, Causes
  <2>4. CASE WatcherDrops
    BY <2>4 DEF WatcherDrops, HandleClose, ContextType, LoopType, Causes
  <2>5. CASE UserCloses
    BY <2>5 DEF UserCloses, HandleClose, ContextType, LoopType, Causes
  <2>6. CASE Abort
    BY <2>6 DEF Abort, ContextType, LoopType, Causes
  <2>7. CASE AbortCancels
    BY <2>7 DEF AbortCancels, ContextType, LoopType, Causes
  <2>8. CASE CloseConnection
    BY <2>8 DEF CloseConnection, IdleLoop, ContextType, LoopType, Causes
  <2>9. CASE Shutdown
    BY <2>9 DEF Shutdown, IdleLoop, ContextType, LoopType, Causes
  <2>10. CASE PoolEnds
    BY <2>10 DEF PoolEnds, LoopType
  <2>11. QED
    BY <2>1, <2>2, <2>3, <2>4, <2>5, <2>6, <2>7, <2>8, <2>9, <2>10 DEF Loop
<1>3. Requests'
  <2>1. CASE HandleUpload
    BY <2>1 DEF HandleUpload, LeavesRest, TakesRequest, Start, LoopType, Requests, run, world,
           Running
  <2>2. CASE HandleDownload
    BY <2>2 DEF HandleDownload, LeavesRest, TakesRequest, Start, LoopType, Requests, run, world,
           Running, Sources, IsUpload
  <2>3. CASE HandleCancel
    BY <2>3 DEF HandleCancel, TakesRequest, Start, LeavesRest, LoopType, Requests, run, world,
           Running
  <2>4. CASE WatcherDrops
    BY <2>4 DEF WatcherDrops, HandleClose, TakesRequest, Start, LeavesRest, LoopType, Requests,
           run, world, Running
  <2>5. CASE UserCloses
    BY <2>5 DEF UserCloses, HandleClose, TakesRequest, Start, LeavesRest, LoopType, Requests, run,
           world, Running
  <2>6. CASE Abort
    BY <2>6 DEF Abort, TakesRequest, Start, LeavesRest, LoopType, Requests, run, world, Running
  <2>7. CASE AbortCancels
    BY <2>7 DEF AbortCancels, TakesRequest, Start, LeavesRest, LoopType, Requests, run, world,
           Running
  <2>8. CASE CloseConnection
    BY <2>8 DEF CloseConnection, IdleLoop, TakesRequest, Start, LeavesRest, LoopType, Requests,
           run, world, Running
  <2>9. CASE Shutdown
    BY <2>9 DEF Shutdown, IdleLoop, TakesRequest, Start, LeavesRest, LoopType, Requests, run,
           world, Running
  <2>10. CASE PoolEnds
    BY <2>10 DEF PoolEnds, Requests, run
  <2>11. QED
    BY <2>1, <2>2, <2>3, <2>4, <2>5, <2>6, <2>7, <2>8, <2>9, <2>10 DEF Loop
<1> USE DEF Loop, HandleUpload, HandleDownload, HandleCancel, WatcherDrops, UserCloses, Abort,
       AbortCancels, CloseConnection, PoolEnds, Shutdown, HandleClose, TakesRequest, Start, LeavesRest,
       Inherited, Cancelled, IdleLoop, Running, world, job, run
<1>4. WorldType'
  BY DEF WorldType
<1>5. FlagType'
  BY DEF FlagType
<1>6. FileType'
  BY DEF FileType
<1>7. StepType'
  BY DEF StepType, Causes, ContextType
<1>8. StatusType'
  BY DEF StatusType, StepType
<1>9. Clients'
  <2>1. (closer \/ closing => pc \notin {"none", "source", "client", "closer"})'
    BY DEF Clients, Requests, FlagType
  <2>2. (pc \in {"none", "source", "client"} => sftp = "none")'
    BY DEF Clients, Requests, FlagType
  <2>3. QED
    BY <2>1, <2>2 DEF Clients
<1>10. Sources'
  BY DEF Sources, IsUpload, Requests
<1>11. KindSteps'
  BY DEF KindSteps, IsUpload, Early, Requests, WorldType, AllKinds
<1>12. Bytes'
  BY DEF Bytes, KindSteps, IsUpload, Early, FileType
<1>13. Errors'
  BY DEF Errors, Early, Late, StatusType, Requests, Bytes, IsUpload, KindSteps, Clients, StepType
<1>14. Released'
  BY DEF Released, Late, Requests, Clients, KindSteps, Early, Sources, IsUpload, FileType
<1>15. FirstCause'
  BY DEF FirstCause, Requests, ContextType, StepType
<1>16. QED
  BY <1>4, <1>1, <1>5, <1>2, <1>6, <1>7, <1>8, <1>3, <1>9, <1>10, <1>11, <1>12, <1>13, <1>14,
         <1>15

\* The transfer goroutine does anything but the copy of an upload.
LEMMA TransferStep == ASSUME JobInv, TransferButCopy PROVE JobInv'
<1> USE DEF JobInv, TypeOK
<1> USE DEF TransferButCopy, OpenSource, NewClient, SetCloser, CreateRemote, OpenRemote,
       CopyToFile, CopyToSink, CloseRemote, RenameFile, RemoveRemote, Cleanup, FinishReadsCause,
       Finish, Goto, Fail, LeavesJob, CopyFails, Answers, Fails, Cancelled, world, job, run
<1>1. WorldType'
  BY DEF WorldType
<1>2. ContextType'
  BY DEF ContextType, Causes, LoopType
<1>3. FlagType'
  BY DEF FlagType
<1>4. LoopType'
  BY DEF LoopType, Causes
<1>5. FileType'
  BY DEF FileType
<1>6. StepType'
  BY DEF StepType, Causes, ContextType
<1>7. StatusType'
  BY DEF StatusType, StepType
<1>8. Requests'
  BY DEF Requests, LoopType
<1>9. Clients'
  <2>1. (closer \/ closing => pc \notin {"none", "source", "client", "closer"})'
    BY DEF Clients, Requests, FlagType
  <2>2. (pc \in {"none", "source", "client"} => sftp = "none")'
    BY DEF Clients, Requests, FlagType
  <2>3. QED
    BY <2>1, <2>2 DEF Clients
<1>10. Sources'
  BY DEF Sources, IsUpload, Requests
<1>11. KindSteps'
  BY DEF KindSteps, IsUpload, Early, Requests, WorldType, AllKinds
<1>12. Bytes'
  BY DEF Bytes, KindSteps, IsUpload, Early, FileType
<1>13. Errors'
  BY DEF Errors, Early, Late, StatusType, Requests, Bytes, IsUpload, KindSteps, Clients, StepType
<1>14. Released'
  BY DEF Released, Late, Requests, Clients, KindSteps, Early, Sources, IsUpload, FileType
<1>15. FirstCause'
  BY DEF FirstCause, Running, Requests, ContextType, StepType
<1>16. QED
  BY <1>1, <1>2, <1>3, <1>4, <1>5, <1>6, <1>7, <1>8, <1>9, <1>10, <1>11, <1>12, <1>13, <1>14,
         <1>15

\* A step of the copy of an upload, whatever the copy consists of: it goes on,
\* returns nil with the whole file in place, or returns an error.
CopyStep ==
  /\ pc = "copy" /\ IsUpload /\ dest' \in {"partial", "whole"}
  /\ \/ pc' = "copy" /\ UNCHANGED err
     \/ pc' = "close" /\ UNCHANGED err /\ dest' = "whole"
     \/ pc' = "remove" /\ err' \in {"io", jctx} \ {"none"}
  /\ UNCHANGED <<source, sftp, tmp>> /\ LeavesJob

\* Whatever a copy does, the job around it stays in order.
LEMMA CopyStepJob == ASSUME JobInv, CopyStep PROVE JobInv'
<1> USE DEF JobInv, TypeOK, CopyStep, LeavesJob, job
<1>1. WorldType'
  BY DEF WorldType
<1>2. ContextType'
  BY DEF ContextType
<1>3. FlagType'
  BY DEF FlagType
<1>4. LoopType'
  BY DEF LoopType
<1>5. FileType'
  BY DEF FileType
<1>6. StepType'
  BY DEF StepType, ContextType
<1>7. StatusType'
  BY DEF StatusType, StepType
<1>8. Requests'
  BY DEF Requests, LoopType
<1>9. Clients'
  BY DEF Clients, FlagType
<1>10. Sources'
  BY DEF Sources, IsUpload
<1>11. KindSteps'
  BY DEF KindSteps, IsUpload, Early
<1>12. Bytes'
  BY DEF Bytes, IsUpload
<1>13. Errors'
  BY DEF Errors, Early, Late, StatusType
<1>14. Released'
  BY DEF Released, Late
<1>15. FirstCause'
  BY DEF FirstCause, Running, ContextType
<1>16. QED
  BY <1>1, <1>2, <1>3, <1>4, <1>5, <1>6, <1>7, <1>8, <1>9, <1>10, <1>11, <1>12, <1>13, <1>14,
         <1>15

\* Every step of the caller, the loop, the connection and the rest of the
\* transfer does too.
LEMMA JobStep == ASSUME JobInv, NextButCopy PROVE JobInv'
  BY CallerStep, LinkStep, LoopStep, TransferStep DEF NextButCopy

\* So does a step of nobody.
LEMMA JobStutter == ASSUME JobInv, UNCHANGED vars PROVE JobInv'
<1> USE DEF JobInv, TypeOK, vars, world, job, run
<1>1. WorldType' /\ ContextType'
  BY DEF WorldType, ContextType
<1>2. FlagType' /\ LoopType'
  BY DEF FlagType, LoopType
<1>3. FileType' /\ StepType' /\ StatusType'
  BY DEF FileType, StepType, StatusType
<1>4. Requests' /\ Clients' /\ Sources'
  BY DEF Requests, Clients, Sources, IsUpload
<1>5. KindSteps' /\ Bytes'
  BY DEF KindSteps, Bytes, IsUpload
<1>6. Errors' /\ Released' /\ FirstCause'
  BY DEF Errors, Released, FirstCause, Running
<1>7. QED
  BY <1>1, <1>2, <1>3, <1>4, <1>5, <1>6

\* What the invariant says of a transfer that is over.
LEMMA JobOutcome == JobInv => CompletedIsWhole /\ FirstCauseWins /\ LeavesNothing
<1> SUFFICES ASSUME JobInv PROVE CompletedIsWhole /\ FirstCauseWins /\ LeavesNothing
  OBVIOUS
<1> USE DEF JobInv
<1>1. CompletedIsWhole
  BY DEF CompletedIsWhole, Errors, Late
<1>2. FirstCauseWins
  BY DEF FirstCauseWins, Errors, FirstCause
<1>3. LeavesNothing
  BY DEF LeavesNothing, Released, Bytes, Late, Requests
<1>4. QED
  BY <1>1, <1>2, <1>3

\* The invariant holds throughout, of the abstract job.
LEMMA JobInvariant == Spec => []JobInv
<1>1. JobInv /\ [Next]_vars => JobInv'
  <2> SUFFICES ASSUME JobInv, [Next]_vars PROVE JobInv'
    OBVIOUS
  <2>1. CASE LastChunkLands
    <3>1. CopyStep
      BY <2>1 DEF LastChunkLands, CopyStep
    <3>2. QED
      BY <3>1, CopyStepJob
  <2>2. CASE CopyToRemote
    <3>1. CopyStep
      BY <2>2 DEF CopyToRemote, CopyStep, Goto, Fail, JobInv, Bytes
    <3>2. QED
      BY <3>1, CopyStepJob
  <2>3. QED
    BY <2>1, <2>2, JobStep, JobStutter DEF Next
<1>2. QED
  BY InitJob, <1>1, PTL DEF Spec

\* A transfer reports completed only with everything in place, unless it was
\* aborted, whatever its caller, the loop and the connection do meanwhile.
THEOREM CompletedTransfersAreWhole == Spec => [](TypeOK /\ CompletedIsWhole)
<1>1. JobInv => TypeOK /\ CompletedIsWhole
  BY JobOutcome DEF JobInv
<1>2. QED
  BY JobInvariant, <1>1, PTL

\* A transfer that is over names what ended it first, although a cancel, the end
\* of the session and the failing requests race for it.
THEOREM TransfersNameTheFirstCause == Spec => []FirstCauseWins
  BY JobInvariant, JobOutcome, PTL

\* However it ends, a transfer has released its client, its source and its
\* temporary file, and leaves no part of a download.
THEOREM TransfersReleaseEverything == Spec => []LeavesNothing
  BY JobInvariant, JobOutcome, PTL

\* An open client of a job that is not aborted is where abortCause finds it.
Reachable ==
  AbortUnblocks /\ (sftp = "open" /\ ~aborted => closer \/ pc \in {"closer", "cleanup"})

\* Neither a step of the job nor one of its copy leaves an aborted transfer with a
\* client that nobody closes.
LEMMA ReachableStep ==
  ASSUME JobInv, Reachable, NextButCopy \/ CopyStep \/ UNCHANGED vars
  PROVE  Reachable'
<1> USE DEF Reachable, AbortUnblocks
<1>a. TypeOK /\ Clients /\ Released
  BY DEF JobInv
<1>1. CASE UNCHANGED vars
  BY <1>1 DEF vars, world, job, run
<1>2. CASE Caller \/ CloserCloses \/ LinkFails
  BY <1>2 DEF Caller, GivesUp, StopsWaiting, Answered, CloserCloses, LinkFails, job, run, world
<1>3. CASE CopyStep
  BY <1>3 DEF CopyStep, LeavesJob, job
<1>4. CASE HandleUpload \/ HandleDownload \/ HandleCancel
  <2>1. /\ UNCHANGED <<sctx, link, aborted, sftp, closing, closer>>
        /\ loop' = loop \/ loop.pc = "idle"
        /\ pc' = pc \/ pc = "none"
    BY <1>4, <1>a DEF HandleUpload, HandleDownload, HandleCancel, TakesRequest, Start, LeavesRest,
       TypeOK, StatusType, Clients, Requests, JobInv, job, run, world
  <2>2. QED
    BY <1>4, <1>a, <2>1 DEF Clients
<1>5. CASE WatcherDrops \/ UserCloses
  <2>1. PICK cause : HandleClose(cause)
    BY <1>5 DEF WatcherDrops, UserCloses
  <2>2. UNCHANGED <<link, aborted, sftp, closing, closer, pc>>
    BY <2>1 DEF HandleClose, run, world
  <2>3. \E p \in {"abort", "drop"} : loop' = [pc |-> p, cause |-> cause, close |-> TRUE]
    BY <2>1 DEF HandleClose
  <2>4. QED
    BY <2>2, <2>3
<1>6. CASE Abort
  <2>1. UNCHANGED <<link, sctx, sftp, pc>>
    BY <1>6 DEF Abort, run, world
  <2>2. loop.pc = "abort" /\ loop'.close = loop.close /\ (loop.close => loop'.pc \in {"cancel", "drop"})
    BY <1>6, <1>a DEF Abort, TypeOK, LoopType
  <2>3. \/ aborted /\ UNCHANGED <<aborted, closer, closing>>
        \/ ~aborted /\ aborted' /\ closing' = (closing \/ closer)
    BY <1>6 DEF Abort
  <2>4. QED
    BY <2>1, <2>2, <2>3
<1>7. CASE AbortCancels \/ CloseConnection
  BY <1>7, <1>a DEF AbortCancels, CloseConnection, TypeOK, LoopType, job, run, world
<1>8. CASE PoolEnds \/ Shutdown
  BY <1>8 DEF PoolEnds, Shutdown, job, run
<1>9. CASE OpenSource \/ NewClient \/ SetCloser
  BY <1>9, <1>a DEF OpenSource, NewClient, SetCloser, Goto, Fail, LeavesJob, Clients, job
<1>10. CASE CreateRemote \/ OpenRemote \/ CopyToFile \/ CopyToSink \/ CloseRemote \/ RenameFile \/ RemoveRemote
  BY <1>10 DEF CreateRemote, OpenRemote, CopyToFile, CopyToSink, CopyFails, CloseRemote, RenameFile,
     RemoveRemote, Goto, Fail, LeavesJob, job
<1>11. CASE Cleanup \/ FinishReadsCause \/ Finish
  BY <1>11, <1>a DEF Cleanup, FinishReadsCause, Finish, Goto, LeavesJob, Released, Late, job, world
<1>12. QED
  BY <1>1, <1>2, <1>3, <1>4, <1>5, <1>6, <1>7, <1>8, <1>9, <1>10, <1>11
     DEF NextButCopy, Loop, TransferButCopy

\* However a cancel, a close or a lost connection races the steps of a transfer,
\* what would block the transfer is closed, or about to be.
THEOREM AbortedTransfersAreUnblocked == Spec => []AbortUnblocks
<1>1. Init => Reachable
  BY DEF Init, Reachable, AbortUnblocks
<1>2. JobInv /\ Reachable /\ [Next]_vars => Reachable'
  <2>1. JobInv /\ LastChunkLands => CopyStep
    BY DEF LastChunkLands, CopyStep
  <2>2. JobInv /\ CopyToRemote => CopyStep
    BY DEF CopyToRemote, CopyStep, Goto, Fail, JobInv, Bytes
  <2>3. QED
    BY <2>1, <2>2, ReachableStep DEF Next
<1>3. Reachable => AbortUnblocks
  BY DEF Reachable
<1>4. QED
  BY JobInvariant, <1>1, <1>2, <1>3, PTL DEF Spec

-----------------------------------------------------------------------------
(* The copy's steps.  Each leaves the variables of the job alone.          *)

PipeStep == Copying /\ UNCHANGED vars

\* Nothing of the copy has happened.
LEMMA InitPipe == UploadInit => PipeInv
<1> SUFFICES ASSUME UploadInit PROVE PipeInv
  OBVIOUS
<1> USE DEF UploadInit
<1>1. PipeType
  BY UploadAssumption DEF PipeType, NewReader, NewWorker, Empty, Absent, Causes
<1>2. AtRest /\ Outcome
  BY DEF AtRest, Outcome, Init, Copying
<1>3. Busy = {} /\ ~Reading /\ reader.pc = "free"
  BY DEF Busy, Reading, NewWorker, NewReader
<1>4. Buffers /\ Writes /\ Sends
  BY <1>3 DEF Buffers, Writes, Sends
<1>5. Handed
  BY <1>3, UploadAssumption DEF Handed, Empty
<1>6. Counted
  BY DEF Counted, Init, Copying, Late
<1>7. QED
  BY <1>1, <1>2, <1>4, <1>5, <1>6 DEF PipeInv

\* A step of the copy leaves the outcome and the rest of the job's state as it is.
LEMMA PipeStepFrame ==
  ASSUME PipeInv, PipeStep
  PROVE  /\ Copying' /\ AtRest' /\ UNCHANGED <<pc, kind, dest, jctx, err, aborted>>
         /\ (Outcome' <=> gerr' \in {"none", "io", jctx})
         /\ (Counted' <=> bytes' + Cardinality(Counting') = Cardinality(Landed'))
<1>1. UNCHANGED <<pc, kind, dest, jctx, err, aborted>>
  BY DEF PipeStep, vars, world, job, run
<1>2. Copying' /\ pc = "copy"
  BY <1>1 DEF PipeStep, Copying, IsUpload
<1>3. AtRest'
  BY <1>2 DEF AtRest
<1>4. Outcome' <=> gerr' \in {"none", "io", jctx}
  BY <1>1, <1>2 DEF PipeInv, Outcome, PipeStep
<1>5. Counted' <=> bytes' + Cardinality(Counting') = Cardinality(Landed')
  BY <1>1, <1>2 DEF Counted, Early, Late
<1>6. QED
  BY <1>1, <1>2, <1>3, <1>4, <1>5

\* The sets that are counted are finite.
LEMMA FiniteSides ==
  ASSUME PipeInv
  PROVE  /\ IsFiniteSet(Counting) /\ IsFiniteSet(Landed)
         /\ Cardinality(Counting) \in Nat /\ Cardinality(Landed) \in Nat
<1>1. IsFiniteSet(1..Chunks) /\ IsFiniteSet(Slots)
  BY FS_Interval, UploadAssumption
<1>2. Counting \subseteq Slots /\ Landed \subseteq 1..Chunks
  BY DEF Counting, Landed
<1>3. IsFiniteSet(Counting) /\ IsFiniteSet(Landed)
  BY <1>1, <1>2, FS_Subset
<1>4. QED
  BY <1>3, FS_CardinalityType

\* An error that a step returns is one of the copy's.
LEMMA ReturnsError ==
  ASSUME PipeInv, NEW e \in {"io", jctx}, e # "none" \/ gerr # "none", jctx \in Causes, Returns(e)
  PROVE  gerr' # "none" /\ gerr' \in {"io", jctx} /\ gerr' \in Causes \cup {"io"}
  BY DEF Returns, PipeInv, PipeType, Outcome, Causes

\* The reader takes a buffer that nobody else has.
LEMMA TakeBufferStep == ASSUME IInv, TakeBuffer PROVE PipeInv'
<1> USE DEF IInv, PipeInv
<1>1. PICK b \in free : /\ free' = free \ {b} /\ reader' = [reader EXCEPT !.pc = "read", !.buf = b]
                        /\ UNCHANGED <<vars, worker, data, off, gerr, remote, bytes>>
  BY DEF TakeBuffer, AnyOf
<1>2. PipeStep
  BY <1>1 DEF TakeBuffer, PipeStep
<1>3. PipeType'
  BY <1>1 DEF PipeType
<1>4. reader'.pc = "read" /\ reader'.buf = b
  BY <1>1 DEF PipeType
<1>5. UNCHANGED <<Busy, Counting, Landed>>
  BY <1>1 DEF Busy, Counting, Landed
<1>6. Buffers'
  BY <1>1, <1>4, <1>5 DEF Buffers, Reading, PipeType
<1>7. Writes' /\ Sends' /\ Handed'
  BY <1>1, <1>4, <1>5 DEF Writes, Sends, Handed
<1>8. AtRest' /\ Outcome' /\ Counted'
  BY <1>1, <1>2, <1>5, PipeStepFrame DEF Outcome, Counted, PipeStep
<1>9. QED
  BY <1>3, <1>6, <1>7, <1>8

\* It fills the buffer with the next chunk.
LEMMA ReadChunkStep == ASSUME IInv, ReadChunk PROVE PipeInv'
<1> USE DEF IInv, PipeInv
<1>1. /\ reader.pc = "read" /\ UNCHANGED <<vars, worker, free, off, gerr, remote, bytes>>
      /\ PipeStep
  BY DEF ReadChunk, PipeStep
<1>n. off \in Nat /\ Chunks \in Nat
  BY UploadAssumption DEF PipeType
<1>2. UNCHANGED <<Busy, Counting, Landed>>
  BY <1>1 DEF Busy, Counting, Landed
<1>3. AtRest' /\ Outcome' /\ Counted'
  BY <1>1, <1>2, PipeStepFrame DEF Outcome, Counted, PipeStep
<1>4. CASE off < Chunks /\ data' = [data EXCEPT ![reader.buf] = off + 1]
           /\ \E end \in {"more"} \cup IF off + 1 = Chunks THEN {"eof"} ELSE {} :
                reader' = [reader EXCEPT !.pc = "send", !.end = end]
  <2>1. PICK end \in {"more", "eof"} : /\ end = "eof" => off + 1 = Chunks
                                       /\ reader' = [reader EXCEPT !.pc = "send", !.end = end]
    BY <1>4
  <2>2. reader'.pc = "send" /\ reader'.buf = reader.buf /\ reader'.end = end
    BY <2>1 DEF PipeType
  <2>3. reader.buf \in Slots /\ off + 1 \in 0..Chunks
    BY <1>1, <1>4, <1>n DEF Buffers, Reading
  <2>4. PipeType'
    BY <1>1, <1>4, <2>1, <2>3 DEF PipeType
  <2>5. \A w \in Busy : data'[worker[w].buf] = data[worker[w].buf]
    BY <1>1, <1>4 DEF Buffers, Reading, PipeType
  <2>6. Buffers' /\ Writes'
    BY <1>1, <1>2, <2>2, <2>5 DEF Buffers, Writes, Reading
  <2>7. Sends'
    BY <1>1, <1>4, <1>n, <2>1, <2>2, <2>3 DEF Sends, PipeType
  <2>8. Handed'
    BY <1>1, <1>2, <2>2 DEF Handed
  <2>9. QED
    BY <1>3, <2>4, <2>6, <2>7, <2>8
<1>5. CASE off = Chunks /\ reader' = ReaderExits /\ UNCHANGED data
  <2>1. reader'.pc = "exited"
    BY <1>5 DEF ReaderExits, NewReader
  <2>2. PipeType'
    BY <1>1, <1>5 DEF PipeType, ReaderExits, NewReader
  <2>3. Buffers' /\ Writes' /\ Sends' /\ Handed'
    BY <1>1, <1>2, <1>5, <2>1 DEF Buffers, Writes, Sends, Handed, Reading
  <2>4. QED
    BY <1>3, <2>2, <2>3
<1>6. QED
  BY <1>4, <1>5 DEF ReadChunk

\* A read that fails ends the reader, at once or after what it did read.
LEMMA ReadFailsStep == ASSUME IInv, ReadFails PROVE PipeInv'
<1> USE DEF IInv, PipeInv
<1>1. /\ reader.pc = "read" /\ UNCHANGED <<vars, worker, free, off, remote, bytes>>
      /\ PipeStep /\ jctx \in Causes
  BY DEF ReadFails, PipeStep, JobInv, TypeOK, ContextType
<1>2. UNCHANGED <<Busy, Counting, Landed>>
  BY <1>1 DEF Busy, Counting, Landed
<1>3. AtRest' /\ Counted'
  BY <1>1, <1>2, PipeStepFrame DEF Counted, PipeStep
<1>4. CASE reader' = ReaderExits /\ Returns("io") /\ UNCHANGED data
  <2>1. reader'.pc = "exited"
    BY <1>4 DEF ReaderExits, NewReader
  <2>2. gerr' # "none" /\ gerr' \in {"io", jctx} /\ gerr' \in Causes \cup {"io"}
    BY <1>1, <1>4, ReturnsError
  <2>3. PipeType'
    BY <1>1, <1>4, <2>2 DEF PipeType, ReaderExits, NewReader
  <2>4. Buffers' /\ Writes' /\ Sends' /\ Handed'
    BY <1>1, <1>2, <1>4, <2>1, <2>2 DEF Buffers, Writes, Sends, Handed, Reading
  <2>5. Outcome'
    BY <1>1, <2>2, PipeStepFrame
  <2>6. QED
    BY <1>3, <2>3, <2>4, <2>5
<1>5. CASE /\ off < Chunks /\ data' = [data EXCEPT ![reader.buf] = 0]
           /\ reader' = [reader EXCEPT !.pc = "send", !.end = "io"] /\ UNCHANGED gerr
  <2>1. reader'.pc = "send" /\ reader'.buf = reader.buf /\ reader'.end = "io"
    BY <1>5 DEF PipeType
  <2>2. PipeType'
    <3>1. 0 \in 0..Chunks
      BY UploadAssumption
    <3>2. data' \in [Slots -> 0..Chunks]
      BY <1>5, <3>1 DEF PipeType
    <3>3. reader' \in [pc : {"free", "read", "send", "exited"}, buf : Slots \cup {NoBuf},
                       end : {"more", "eof", "io"}]
      BY <1>5 DEF PipeType
    <3>4. QED
      BY <1>1, <1>5, <3>2, <3>3 DEF PipeType
  <2>3. \A w \in Busy : data'[worker[w].buf] = data[worker[w].buf]
    BY <1>1, <1>5 DEF Buffers, Reading, PipeType
  <2>4. Buffers' /\ Writes'
    BY <1>1, <1>2, <1>5, <2>1, <2>3 DEF Buffers, Writes, Reading
  <2>5. Sends' /\ Handed'
    BY <1>1, <1>2, <1>5, <2>1 DEF Sends, Handed
  <2>6. Outcome'
    BY <1>1, <1>5, PipeStepFrame DEF Outcome
  <2>7. QED
    BY <1>3, <2>2, <2>4, <2>5, <2>6
<1>6. QED
  BY <1>4, <1>5 DEF ReadFails

\* The reader gives up when its context is done, which is then the error.
LEMMA ReaderStopsStep == ASSUME IInv, ReaderStops PROVE PipeInv'
<1> USE DEF IInv, PipeInv
<1>1. /\ UNCHANGED <<vars, worker, free, data, off, remote, bytes>>
      /\ reader' = ReaderExits /\ PipeStep /\ jctx \in Causes
  BY DEF ReaderStops, PipeStep, JobInv, TypeOK, ContextType
<1>2. UNCHANGED <<Busy, Counting, Landed>> /\ reader'.pc = "exited"
  BY <1>1 DEF Busy, Counting, Landed, ReaderExits, NewReader
<1>3. gerr' # "none" /\ gerr' \in {"io", jctx} /\ gerr' \in Causes \cup {"io"}
  BY <1>1, ReturnsError DEF ReaderStops, CtxDone
<1>4. PipeType'
  BY <1>1, <1>3 DEF PipeType, ReaderExits, NewReader
<1>5. Buffers' /\ Writes' /\ Sends' /\ Handed'
  BY <1>1, <1>2, <1>3 DEF Buffers, Writes, Sends, Handed, Reading
<1>6. AtRest' /\ Outcome' /\ Counted'
  BY <1>1, <1>2, <1>3, PipeStepFrame DEF Counted, PipeStep
<1>7. QED
  BY <1>4, <1>5, <1>6

\* A buffer goes from the reader to one worker, with an offset nobody else
\* writes at.
LEMMA SendStep == ASSUME IInv, Send PROVE PipeInv'
<1> USE DEF IInv, PipeInv
<1> DEFINE task == [pc |-> "write", buf |-> reader.buf, off |-> off + 1]
<1>1. PICK w \in Receivers : worker' = [worker EXCEPT ![w] = task]
  BY DEF Send, AnyOf
<1>2. /\ reader.pc = "send" /\ off' = off + 1 /\ PipeStep /\ jctx \in Causes
      /\ reader' = IF reader.end = "more" THEN NewReader ELSE ReaderExits
      /\ UNCHANGED <<vars, free, data, remote, bytes>>
  BY DEF Send, PipeStep, JobInv, TypeOK, ContextType
<1>3. /\ off \in Nat /\ Chunks \in Nat /\ off + 1 \in 0..Chunks /\ off < Chunks
      /\ reader.buf \in Slots \ free
  BY <1>2, UploadAssumption DEF PipeType, Sends, Buffers, Reading
<1>4. /\ w \in Slots /\ worker[w].pc = "receive" /\ worker'[w] = task
      /\ \A v \in Slots \ {w} : worker'[v] = worker[v]
  BY <1>1 DEF Receivers, PipeType
<1>5. w \notin Busy /\ Busy' = Busy \cup {w} /\ Counting' = Counting /\ Landed' = Landed
  BY <1>2, <1>4 DEF Busy, Counting, Landed
<1>6. \A v \in Busy : v \in Slots /\ v # w /\ worker'[v] = worker[v]
  BY <1>4, <1>5 DEF Busy
<1>7. \/ gerr' = gerr /\ reader.end # "io"
      \/ gerr' # "none" /\ gerr' \in {"io", jctx} /\ gerr' \in Causes \cup {"io"}
  <2>1. CASE reader.end = "io"
    BY <1>2, <2>1, ReturnsError DEF Send
  <2>2. CASE reader.end # "io"
    BY <2>2 DEF Send
  <2>3. QED
    BY <2>1, <2>2
<1>8. PipeType'
  <2>1. task \in [pc : {"receive", "write", "count", "exited"}, buf : Slots \cup {NoBuf}, off : 0..Chunks]
    BY <1>3
  <2>2. worker' \in [Slots -> [pc : {"receive", "write", "count", "exited"}, buf : Slots \cup {NoBuf},
                               off : 0..Chunks]]
    BY <1>1, <2>1 DEF PipeType, Receivers
  <2>3. reader' \in [pc : {"free", "read", "send", "exited"}, buf : Slots \cup {NoBuf},
                     end : {"more", "eof", "io"}]
    BY <1>2 DEF NewReader, ReaderExits
  <2>4. QED
    BY <1>2, <1>3, <1>7, <2>2, <2>3 DEF PipeType
<1>9. /\ reader'.pc \in {"free", "exited"} /\ ~Reading'
      /\ reader'.pc = "exited" => reader.end # "more"
  BY <1>2 DEF NewReader, ReaderExits, Reading
<1>10. Buffers'
  <2>1. \A v \in Busy : worker[v].buf \in Slots \ free /\ worker[v].buf # reader.buf
    BY <1>2 DEF Buffers, Reading
  <2>2. QED
    BY <1>2, <1>3, <1>4, <1>5, <1>6, <1>9, <2>1 DEF Buffers
<1>11. Writes'
  <2>1. remote[off + 1] = Absent
    BY <1>3 DEF Handed
  <2>2. data[reader.buf] = off + 1 \/ gerr' # "none"
    BY <1>2, <1>7 DEF Sends
  <2>3. \A v \in Busy : worker[v].off \in 1..off
    BY DEF Writes
  <2>4. \A v \in Busy' : worker'[v].off \in 1..off'
    BY <1>2, <1>3, <1>4, <1>5, <1>6, <2>3
  <2>5. \A u, v \in Busy' : worker'[u].off = worker'[v].off => u = v
    BY <1>3, <1>4, <1>5, <1>6, <2>3 DEF Writes
  <2>6. \A v \in Busy' : worker'[v].pc = "write" =>
          remote'[worker'[v].off] = Absent /\ (data'[worker'[v].buf] = worker'[v].off \/ gerr' # "none")
    BY <1>2, <1>4, <1>5, <1>6, <1>7, <2>1, <2>2 DEF Writes
  <2>7. QED
    BY <2>4, <2>5, <2>6 DEF Writes, Absent
<1>12. Sends'
  BY <1>9 DEF Sends
<1>13. Handed'
  <2>1. \A k \in 1..Chunks : k > off' => remote'[k] = Absent
    BY <1>2, <1>3 DEF Handed
  <2>2. ASSUME gerr' = "none", NEW k \in 1..off'
        PROVE  remote'[k] = k \/ \E v \in Busy' : worker'[v].pc = "write" /\ worker'[v].off = k
    <3>1. CASE k = off + 1
      BY <1>4, <1>5, <3>1
    <3>2. CASE k # off + 1
      <4>1. k \in 1..off /\ gerr = "none"
        BY <1>2, <1>3, <1>7, <2>2, <3>2
      <4>2. remote[k] = k \/ \E v \in Busy : worker[v].pc = "write" /\ worker[v].off = k
        BY <4>1 DEF Handed
      <4>3. QED
        BY <1>2, <1>5, <1>6, <4>2
    <3>3. QED
      BY <3>1, <3>2
  <2>3. gerr' = "none" /\ reader'.pc = "exited" => off' = Chunks
    <3>1. reader.end \in {"more", "eof", "io"}
      BY DEF PipeType
    <3>2. QED
      BY <1>2, <1>7, <1>9, <3>1 DEF Sends
  <2>4. QED
    BY <2>1, <2>2, <2>3 DEF Handed, Absent
<1>14. AtRest' /\ Outcome' /\ Counted'
  BY <1>2, <1>5, <1>7, PipeStepFrame DEF Counted, PipeStep, Outcome
<1>15. QED
  BY <1>8, <1>10, <1>11, <1>12, <1>13, <1>14

\* An acknowledged write puts the chunk of its offset in place.
LEMMA WriteAtStep == ASSUME IInv, NEW w \in Slots, WriteAt(w) PROVE PipeInv'
<1> USE DEF IInv, PipeInv
<1> DEFINE o == worker[w].off
           x == data[worker[w].buf]
<1>1. /\ worker[w].pc = "write" /\ PipeStep /\ remote' = [remote EXCEPT ![o] = x]
      /\ worker' = [worker EXCEPT ![w] = [worker[w] EXCEPT !.pc = "count"]]
      /\ UNCHANGED <<vars, reader, free, data, off, gerr, bytes>>
  BY DEF WriteAt, PipeStep
<1>2. w \in Busy
  BY <1>1 DEF Busy
<1>3. Chunks \in Nat /\ off \in 0..Chunks /\ o \in 1..off /\ o \in 1..Chunks
  BY <1>2, UploadAssumption DEF PipeType, Writes
<1>4. x \in 0..Chunks /\ x # Absent /\ x \in 0..Absent /\ remote[o] = Absent /\ (gerr = "none" => x = o)
  BY <1>1, <1>2, <1>3 DEF PipeType, Buffers, Writes, Absent
<1>5. worker'[w] = [worker[w] EXCEPT !.pc = "count"] /\ \A v \in Slots \ {w} : worker'[v] = worker[v]
  BY <1>1 DEF PipeType
<1>6. worker'[w].pc = "count" /\ worker'[w].off = o /\ worker'[w].buf = worker[w].buf
  BY <1>5 DEF PipeType
<1>7. Busy' = Busy /\ Counting' = Counting \cup {w} /\ w \notin Counting
  BY <1>1, <1>2, <1>5, <1>6 DEF Busy, Counting
<1>8. remote'[o] = x /\ \A k \in 1..Chunks : k # o => remote'[k] = remote[k]
  BY <1>1, <1>3 DEF PipeType
<1>9. Landed' = Landed \cup {o} /\ o \notin Landed
  BY <1>3, <1>4, <1>8 DEF Landed, Absent
<1>10. PipeType'
  <2>1. worker' \in [Slots -> [pc : {"receive", "write", "count", "exited"}, buf : Slots \cup {NoBuf},
                               off : 0..Chunks]]
    BY <1>1 DEF PipeType
  <2>2. remote' \in [1..Chunks -> 0..Absent]
    BY <1>1, <1>4 DEF PipeType
  <2>3. QED
    BY <1>1, <2>1, <2>2 DEF PipeType, Absent
<1>11. \A v \in Busy : worker'[v].buf = worker[v].buf /\ worker'[v].off = worker[v].off
  BY <1>5, <1>6 DEF Busy
<1>12. Buffers'
  BY <1>1, <1>7, <1>11 DEF Buffers, Reading
<1>13. Writes'
  <2>1. \A v \in Busy : worker'[v].pc = "write" => v # w /\ worker'[v] = worker[v] /\ worker[v].off # o
    BY <1>2, <1>5, <1>6 DEF Writes, Busy
  <2>2. \A v \in Busy : worker[v].off \in 1..Chunks
    BY <1>3 DEF Writes
  <2>3. QED
    BY <1>1, <1>7, <1>8, <1>11, <2>1, <2>2 DEF Writes, Absent
<1>14. Sends'
  BY <1>1 DEF Sends
<1>15. Handed'
  <2>1. \A k \in 1..Chunks : k > off' => remote'[k] = Absent
    BY <1>1, <1>3, <1>8 DEF Handed
  <2>2. ASSUME gerr' = "none", NEW k \in 1..off'
        PROVE  remote'[k] = k \/ \E v \in Busy' : worker'[v].pc = "write" /\ worker'[v].off = k
    <3>1. CASE k = o
      BY <1>1, <1>4, <1>8, <2>2, <3>1
    <3>2. CASE k # o
      <4>1. k \in 1..Chunks /\ k \in 1..off
        BY <1>1, <1>3
      <4>2. remote[k] = k \/ \E v \in Busy : worker[v].pc = "write" /\ worker[v].off = k
        BY <1>1, <2>2, <4>1 DEF Handed
      <4>3. QED
        BY <1>5, <1>7, <1>8, <3>2, <4>1, <4>2 DEF Busy
    <3>3. QED
      BY <3>1, <3>2
  <2>3. QED
    BY <1>1, <2>1, <2>2 DEF Handed, Absent
<1>16. Counted'
  <2>1. Cardinality(Counting') = Cardinality(Counting) + 1 /\ Cardinality(Landed') = Cardinality(Landed) + 1
    BY <1>7, <1>9, FiniteSides, FS_AddElement
  <2>2. bytes + Cardinality(Counting) = Cardinality(Landed)
    BY <1>1 DEF Counted, PipeStep
  <2>3. QED
    BY <1>1, <2>1, <2>2, FiniteSides, PipeStepFrame DEF PipeType
<1>17. AtRest' /\ Outcome'
  BY <1>1, PipeStepFrame DEF Outcome
<1>18. QED
  BY <1>10, <1>12, <1>13, <1>14, <1>15, <1>16, <1>17

\* A write that fails is the error of the copy, unless there was one.
LEMMA WriteFailsStep == ASSUME IInv, NEW w \in Slots, WriteFails(w) PROVE PipeInv'
<1> USE DEF IInv, PipeInv
<1>1. /\ worker[w].pc = "write" /\ PipeStep /\ jctx \in Causes
      /\ worker' = [worker EXCEPT ![w] = [NewWorker EXCEPT !.pc = "exited"]]
      /\ UNCHANGED <<vars, reader, free, data, off, remote, bytes>>
  BY DEF WriteFails, WorkerExits, PipeStep, JobInv, TypeOK, ContextType
<1>2. gerr' # "none" /\ gerr' \in {"io", jctx} /\ gerr' \in Causes \cup {"io"}
  BY <1>1, ReturnsError DEF WriteFails
<1>3. worker'[w].pc = "exited" /\ \A v \in Slots \ {w} : worker'[v] = worker[v]
  BY <1>1 DEF PipeType, NewWorker
<1>4. Busy' = Busy \ {w} /\ Counting' = Counting /\ Landed' = Landed
  BY <1>1, <1>3 DEF Busy, Counting, Landed
<1>5. \A v \in Busy' : v \in Busy /\ worker'[v] = worker[v]
  BY <1>3, <1>4 DEF Busy
<1>6. PipeType'
  <2>1. [NewWorker EXCEPT !.pc = "exited"] \in
          [pc : {"receive", "write", "count", "exited"}, buf : Slots \cup {NoBuf}, off : 0..Chunks]
    BY UploadAssumption DEF NewWorker
  <2>2. worker' \in [Slots -> [pc : {"receive", "write", "count", "exited"}, buf : Slots \cup {NoBuf},
                               off : 0..Chunks]]
    BY <1>1, <2>1 DEF PipeType
  <2>3. QED
    BY <1>1, <1>2, <2>2 DEF PipeType, Absent
<1>7. Buffers' /\ Writes'
  <2>1. Buffers'
    BY <1>1, <1>5 DEF Buffers, Reading
  <2>2. Writes'
    BY <1>1, <1>2, <1>5 DEF Writes, Absent
  <2>3. QED
    BY <2>1, <2>2
<1>8. Sends' /\ Handed'
  BY <1>1, <1>2 DEF Sends, Handed, Absent
<1>9. AtRest' /\ Outcome' /\ Counted'
  BY <1>1, <1>2, <1>4, PipeStepFrame DEF Counted, PipeStep
<1>10. QED
  BY <1>6, <1>7, <1>8, <1>9

\* The chunk is counted and the buffer goes back to the channel.
LEMMA CountStep == ASSUME IInv, NEW w \in Slots, Count(w) PROVE PipeInv'
<1> USE DEF IInv, PipeInv
<1> DEFINE b == worker[w].buf
<1>1. /\ worker[w].pc = "count" /\ PipeStep /\ worker' = [worker EXCEPT ![w] = NewWorker]
      /\ bytes' = bytes + 1 /\ free' = free \cup {b} /\ data' = [data EXCEPT ![b] = 0]
      /\ UNCHANGED <<vars, reader, off, gerr, remote>>
  BY DEF Count, PipeStep
<1>2. w \in Busy /\ w \in Counting
  BY <1>1 DEF Busy, Counting
<1>3. b \in Slots \ free
  BY <1>2 DEF Buffers
<1>4. worker'[w].pc = "receive" /\ \A v \in Slots \ {w} : worker'[v] = worker[v]
  BY <1>1 DEF PipeType, NewWorker
<1>5. Busy' = Busy \ {w} /\ Counting' = Counting \ {w} /\ Landed' = Landed
  BY <1>1, <1>4 DEF Busy, Counting, Landed
<1>6. \A v \in Busy' : v \in Busy /\ worker'[v] = worker[v] /\ worker[v].buf # b
  BY <1>2, <1>4, <1>5 DEF Busy, Buffers
<1>7. \A c \in Slots : c # b => data'[c] = data[c]
  BY <1>1 DEF PipeType
<1>8. PipeType'
  <2>1. 0 \in 0..Chunks /\ NewWorker \in
          [pc : {"receive", "write", "count", "exited"}, buf : Slots \cup {NoBuf}, off : 0..Chunks]
    BY UploadAssumption DEF NewWorker
  <2>2. worker' \in [Slots -> [pc : {"receive", "write", "count", "exited"}, buf : Slots \cup {NoBuf},
                               off : 0..Chunks]]
    BY <1>1, <2>1 DEF PipeType
  <2>3. data' \in [Slots -> 0..Chunks] /\ free' \subseteq Slots /\ bytes' \in Nat
    BY <1>1, <1>3, <2>1 DEF PipeType
  <2>4. QED
    BY <1>1, <2>2, <2>3 DEF PipeType, Absent
<1>9. Reading => reader.buf # b /\ reader.buf \in Slots \ free
  BY <1>2 DEF Buffers
<1>10. Buffers'
  BY <1>1, <1>3, <1>6, <1>9 DEF Buffers, Reading
<1>11. Writes'
  <2>1. \A v \in Busy' : data'[worker[v].buf] = data[worker[v].buf]
    BY <1>6, <1>7 DEF Buffers
  <2>2. QED
    BY <1>1, <1>6, <2>1 DEF Writes, Absent
<1>12. Sends'
  BY <1>1, <1>7, <1>9 DEF Sends, Reading
<1>13. Handed'
  <2>1. \A v \in Busy : worker[v].pc = "write" => v \in Busy' /\ worker'[v] = worker[v]
    BY <1>1, <1>4, <1>5 DEF Busy
  <2>2. QED
    BY <1>1, <2>1 DEF Handed, Absent
<1>14. Counted'
  <2>1. Cardinality(Counting') = Cardinality(Counting) - 1
    BY <1>2, <1>5, FiniteSides, FS_RemoveElement
  <2>2. bytes + Cardinality(Counting) = Cardinality(Landed) /\ bytes \in Nat
    BY <1>1 DEF Counted, PipeStep, PipeType
  <2>3. QED
    BY <1>1, <1>5, <2>1, <2>2, FiniteSides, PipeStepFrame
<1>15. AtRest' /\ Outcome'
  BY <1>1, PipeStepFrame DEF Outcome
<1>16. QED
  BY <1>8, <1>10, <1>11, <1>12, <1>13, <1>14, <1>15

\* A worker leaves once the reader has closed the channel.
LEMMA WorkClosedStep == ASSUME IInv, NEW w \in Slots, WorkClosed(w) PROVE PipeInv'
<1> USE DEF IInv, PipeInv
<1>1. /\ worker[w].pc = "receive" /\ PipeStep
      /\ worker' = [worker EXCEPT ![w] = [NewWorker EXCEPT !.pc = "exited"]]
      /\ UNCHANGED <<vars, reader, free, data, off, gerr, remote, bytes>>
  BY DEF WorkClosed, WorkerExits, PipeStep
<1>2. worker'[w].pc = "exited" /\ \A v \in Slots \ {w} : worker'[v] = worker[v]
  BY <1>1 DEF PipeType, NewWorker
<1>3. Busy' = Busy /\ Counting' = Counting /\ Landed' = Landed
  BY <1>1, <1>2 DEF Busy, Counting, Landed
<1>4. /\ \A v \in Busy : worker'[v] = worker[v]
      /\ \A v \in Busy' : v \in Busy /\ worker'[v] = worker[v]
  BY <1>1, <1>2, <1>3 DEF Busy
<1>5. PipeType'
  <2>1. [NewWorker EXCEPT !.pc = "exited"] \in
          [pc : {"receive", "write", "count", "exited"}, buf : Slots \cup {NoBuf}, off : 0..Chunks]
    BY UploadAssumption DEF NewWorker
  <2>2. worker' \in [Slots -> [pc : {"receive", "write", "count", "exited"}, buf : Slots \cup {NoBuf},
                               off : 0..Chunks]]
    BY <1>1, <2>1 DEF PipeType
  <2>3. QED
    BY <1>1, <2>2 DEF PipeType, Absent
<1>6. Buffers' /\ Writes'
  <2>1. Buffers'
    BY <1>1, <1>4 DEF Buffers, Reading
  <2>2. Writes'
    BY <1>1, <1>4 DEF Writes, Absent
  <2>3. QED
    BY <2>1, <2>2
<1>7. Sends' /\ Handed'
  BY <1>1, <1>3, <1>4 DEF Sends, Handed, Absent
<1>8. AtRest' /\ Outcome' /\ Counted'
  BY <1>1, <1>3, PipeStepFrame DEF Counted, PipeStep, Outcome
<1>9. QED
  BY <1>5, <1>6, <1>7, <1>8

\* When all goroutines have returned without an error the file is whole, and all
\* of it was counted.
LEMMA CopyReturnsWhole ==
  ASSUME IInv, Copying, reader.pc = "exited", \A w \in Slots : worker[w].pc = "exited", gerr = "none"
  PROVE  remote = Source /\ bytes = Chunks
<1> USE DEF IInv, PipeInv
<1>1. Busy = {} /\ Counting = {}
  BY DEF Busy, Counting
<1>2. off = Chunks /\ Chunks \in Nat
  BY UploadAssumption DEF Handed
<1>3. \A k \in 1..Chunks : remote[k] = k
  BY <1>1, <1>2 DEF Handed
<1>4. remote = Source
  BY <1>3 DEF PipeType, Source
<1>5. Landed = 1..Chunks
  BY <1>2, <1>3 DEF Landed, Absent
<1>6. Cardinality(Landed) = Chunks /\ Cardinality(Counting) = 0
  BY <1>1, <1>2, <1>5, FS_Interval, FS_EmptySet
<1>7. bytes = Chunks
  BY <1>2, <1>6 DEF Counted, PipeType
<1>8. QED
  BY <1>4, <1>7

\* Wait returns nil only with every chunk in place, and otherwise the first
\* error.
LEMMA WaitStep == ASSUME IInv, Wait PROVE PipeInv' /\ JobInv'
<1> USE DEF IInv, PipeInv
<1>1. /\ reader' = NewReader /\ worker' = [w \in Slots |-> NewWorker] /\ free' = Slots
      /\ data' = [b \in Slots |-> 0] /\ off' = 0 /\ gerr' = "none" /\ remote' = Empty
      /\ UNCHANGED bytes
  BY DEF Wait
<1>2. Copying /\ pc' \in {"close", "remove"} /\ kind' = kind /\ ~Copying'
  BY DEF Wait, Goto, Fail, Copying, LeavesJob
<1>3. PipeType'
  <2>1. Chunks \in Nat /\ 0 \in 0..Chunks /\ Absent \in 0..Absent
    BY UploadAssumption DEF Absent
  <2>2. remote' \in [1..Chunks -> 0..Absent] /\ data' \in [Slots -> 0..Chunks]
    BY <1>1, <2>1 DEF Empty
  <2>3. worker' \in [Slots -> [pc : {"receive", "write", "count", "exited"}, buf : Slots \cup {NoBuf},
                               off : 0..Chunks]]
    BY <1>1, <2>1 DEF NewWorker
  <2>4. QED
    BY <1>1, <2>1, <2>2, <2>3 DEF PipeType, NewReader, Absent, Causes
<1>4. AtRest' /\ Outcome'
  BY <1>1, <1>2 DEF AtRest, Outcome
<1>5. Busy' = {} /\ ~Reading' /\ reader'.pc = "free"
  BY <1>1 DEF Busy, Reading, NewWorker, NewReader
<1>6. Buffers' /\ Writes' /\ Sends'
  BY <1>5 DEF Buffers, Writes, Sends
<1>7. Handed'
  BY <1>1, <1>5, UploadAssumption DEF Handed, Empty, Absent
<1>8. err = "none" /\ dest = "partial"
  BY <1>2 DEF Outcome, JobInv, Errors, Copying
<1>9. \/ gerr = "none" /\ pc' = "close" /\ err' = err /\ bytes = Chunks /\ dest' = "whole"
      \/ gerr # "none" /\ pc' = "remove" /\ err' = gerr /\ dest' \in {"partial", "whole"}
  BY <1>8, CopyReturnsWhole DEF Wait, Goto, Fail
<1>10. Counted'
  BY <1>1, <1>2, <1>9 DEF Counted, Early, Late
<1>11. CopyStep
  BY <1>9 DEF CopyStep, Wait, Copying, Outcome
<1>12. QED
  BY <1>3, <1>4, <1>6, <1>7, <1>10, <1>11, CopyStepJob

-----------------------------------------------------------------------------
(* The rest of the job, while the copy does nothing.                       *)

\* What a step outside of the copy does to it: nothing while it runs, it starts
\* it, or it happens before or after it.
LEMMA OutsideCopy ==
  ASSUME JobInv, NextButCopy
  PROVE  /\ Copying => Copying' /\ dest' = dest /\ jctx \in {"none", jctx'}
         /\ Copying' /\ ~Copying => pc = "open" /\ dest' = "partial"
         /\ pc' \in Early => pc \in Early
<1> USE DEF JobInv, Copying, IsUpload, Early
<1>1. CASE Caller
  BY <1>1 DEF Caller, GivesUp, StopsWaiting, Answered, job, run
<1>2. CASE CloserCloses \/ LinkFails
  BY <1>2 DEF CloserCloses, LinkFails, world, job, run
<1>3. CASE Loop
  BY <1>3 DEF Loop, HandleUpload, HandleDownload, HandleCancel, WatcherDrops, UserCloses, Abort,
         AbortCancels, CloseConnection, PoolEnds, Shutdown, HandleClose, TakesRequest, Start, LeavesRest,
         Cancelled, world, job, run, Requests
<1>4. CASE TransferButCopy
  BY <1>4 DEF TransferButCopy, OpenSource, NewClient, SetCloser, CreateRemote, OpenRemote,
         CopyToFile, CopyToSink, CloseRemote, RenameFile, RemoveRemote, Cleanup, FinishReadsCause,
         Finish, Goto, Fail, LeavesJob, CopyFails, Cancelled, world, job, run
<1>5. QED
  BY <1>1, <1>2, <1>3, <1>4 DEF NextButCopy

\* An upload gets past its copy without an error only by it, unless it is aborted.
LEMMA PastTheCopy ==
  ASSUME JobInv, NextButCopy, IsUpload', pc' \in {"close", "cleanup"} \cup Late, err' = "none", ~aborted'
  PROVE  IsUpload /\ pc \in {"close", "cleanup"} \cup Late /\ err = "none" /\ ~aborted
<1> USE DEF JobInv, IsUpload, Late
<1>1. CASE Caller
  BY <1>1 DEF Caller, GivesUp, StopsWaiting, Answered, job, run
<1>2. CASE CloserCloses \/ LinkFails
  BY <1>2 DEF CloserCloses, LinkFails, world, job, run
<1>3. CASE Loop
  <2>1. CASE HandleUpload \/ HandleDownload
    BY <1>3, <2>1 DEF HandleUpload, HandleDownload, TakesRequest, Start, LeavesRest, job, run,
       Requests
  <2>2. CASE Abort
    BY <2>2 DEF Abort, world, run
  <2>3. CASE HandleCancel \/ AbortCancels \/ CloseConnection \/ PoolEnds \/ Shutdown \/ WatcherDrops \/ UserCloses
    <3>1. UNCHANGED <<kind, pc, err, aborted>>
      BY <2>3 DEF HandleCancel, AbortCancels, CloseConnection, PoolEnds, Shutdown, WatcherDrops, UserCloses,
             HandleClose, world, job, run
    <3>2. QED
      BY <3>1
  <2>4. QED
    BY <1>3, <2>1, <2>2, <2>3 DEF Loop
<1>4. CASE TransferButCopy
  BY <1>4 DEF TransferButCopy, OpenSource, NewClient, SetCloser, CreateRemote, OpenRemote,
         CopyToFile, CopyToSink, CloseRemote, RenameFile, RemoveRemote, Cleanup, FinishReadsCause,
         Finish, Goto, Fail, LeavesJob, CopyFails, Cancelled, world, job, run, Errors
<1>5. QED
  BY <1>1, <1>2, <1>3, <1>4 DEF NextButCopy

\* Where nothing is counted, nothing has landed.
LEMMA NothingLanded ==
  ASSUME worker = [w \in Slots |-> NewWorker], remote = Empty
  PROVE  Cardinality(Counting) = 0 /\ Cardinality(Landed) = 0
<1>1. Counting = {} /\ Landed = {}
  BY UploadAssumption DEF Counting, Landed, NewWorker, Empty, Absent
<1>2. QED
  BY <1>1, FS_EmptySet

\* Steps outside of the copy leave the pipeline at rest.
LEMMA OutsideStep == ASSUME IInv, NextButCopy, UNCHANGED pipe PROVE PipeInv'
<1> USE DEF IInv, PipeInv
<1>1. UNCHANGED <<reader, worker, free, data, off, gerr, remote, bytes>>
  BY DEF pipe
<1>2. UNCHANGED <<Busy, Counting, Landed, Reading>>
  BY <1>1 DEF Busy, Counting, Landed, Reading
<1>3. PipeType' /\ Sends'
  BY <1>1 DEF PipeType, Sends, Absent
<1>4. Buffers' /\ Handed'
  BY <1>1, <1>2 DEF Buffers, Handed, Absent
<1>5. Writes'
  BY <1>1, <1>2 DEF Writes, Absent
<1>6. AtRest'
  BY <1>1, OutsideCopy DEF AtRest
<1>7. Outcome'
  BY <1>1, OutsideCopy DEF Outcome, AtRest
<1>8. pc' \in Early => bytes' = 0
  BY <1>1, OutsideCopy DEF Counted
<1>9. Copying' => bytes' + Cardinality(Counting') = Cardinality(Landed')
  <2>1. CASE Copying
    BY <1>1, <1>2, <2>1 DEF Counted
  <2>2. CASE Copying' /\ ~Copying
    BY <1>1, <1>2, <2>2, OutsideCopy, NothingLanded DEF Counted, AtRest, Early
  <2>3. QED
    BY <2>1, <2>2
<1>10. (IsUpload /\ pc \in {"close", "cleanup"} \cup Late /\ err = "none" /\ ~aborted => bytes = Chunks)'
  BY <1>1, PastTheCopy DEF Counted
<1>11. QED
  BY <1>3, <1>4, <1>5, <1>6, <1>7, <1>8, <1>9, <1>10 DEF Counted

\* So does a step of nobody.
LEMMA PipeStutter == ASSUME PipeInv, UNCHANGED uvars PROVE PipeInv'
<1> USE DEF PipeInv
<1>1. UNCHANGED <<reader, worker, free, data, off, gerr, remote, bytes, pc, kind, dest, jctx, err, aborted>>
  BY DEF uvars, pipe, vars, world, job, run
<1>2. UNCHANGED <<Busy, Counting, Landed, Reading, Copying, IsUpload>>
  BY <1>1 DEF Busy, Counting, Landed, Reading, Copying, IsUpload
<1>3. PipeType' /\ Sends' /\ AtRest'
  BY <1>1, <1>2 DEF PipeType, Sends, AtRest, Absent
<1>4. Buffers' /\ Handed'
  BY <1>1, <1>2 DEF Buffers, Handed, Absent
<1>5. Writes' /\ Outcome'
  BY <1>1, <1>2 DEF Writes, Outcome, Absent
<1>6. Counted'
  BY <1>1, <1>2 DEF Counted
<1>7. QED
  BY <1>3, <1>4, <1>5, <1>6

\* Every step of Upload keeps both parts.
LEMMA UploadStep == ASSUME IInv, [UploadNext]_uvars PROVE IInv'
<1>1. CASE UNCHANGED uvars
  BY <1>1, PipeStutter, JobStutter DEF uvars, IInv
<1>2. CASE NextButCopy /\ UNCHANGED pipe
  BY <1>2, OutsideStep, JobStep DEF IInv
<1>3. CASE Wait
  BY <1>3, WaitStep DEF IInv
<1>4. CASE Reads
  <2>1. PipeInv'
    BY <1>4, TakeBufferStep, ReadChunkStep, ReadFailsStep, ReaderStopsStep, SendStep DEF Reads
  <2>2. UNCHANGED vars
    BY <1>4 DEF Reads, TakeBuffer, ReadChunk, ReadFails, ReaderStops, Send
  <2>3. QED
    BY <2>1, <2>2, JobStutter DEF IInv
<1>5. ASSUME NEW w \in Slots, Works(w) PROVE IInv'
  <2>1. PipeInv'
    BY <1>5, WriteAtStep, WriteFailsStep, CountStep, WorkClosedStep DEF Works
  <2>2. UNCHANGED vars
    BY <1>5 DEF Works, WriteAt, WriteFails, Count, WorkClosed
  <2>3. QED
    BY <2>1, <2>2, JobStutter DEF IInv
<1>6. QED
  BY <1>1, <1>2, <1>3, <1>4, <1>5 DEF UploadNext

\* So they hold in every reachable state.
LEMMA UploadInvariant == UploadSpec => []IInv
<1>1. UploadInit => IInv
  BY InitJob, InitPipe DEF UploadInit, IInv
<1>2. IInv /\ [UploadNext]_uvars => IInv'
  BY UploadStep
<1>3. QED
  BY <1>1, <1>2, PTL DEF UploadSpec

\* An upload through the pipeline, or any other transfer beside it, reports
\* completed only with everything in place and leaves nothing behind.
THEOREM PipelinedTransfersEndWell == UploadSpec => [](CompletedIsWhole /\ FirstCauseWins /\ LeavesNothing)
<1>1. IInv => CompletedIsWhole /\ FirstCauseWins /\ LeavesNothing
  BY JobOutcome DEF IInv
<1>2. QED
  BY UploadInvariant, <1>1, PTL

\* What a caller reads never runs ahead of what the server has acknowledged, and
\* a completed upload has counted every chunk, for any number of workers.
THEOREM BytesAreAcknowledged == UploadSpec => []CountsAcknowledged
<1>1. IInv => CountsAcknowledged
  <2> SUFFICES ASSUME IInv PROVE CountsAcknowledged
    OBVIOUS
  <2> USE DEF IInv, PipeInv
  <2>1. Copying => bytes <= Cardinality(Landed)
    BY FiniteSides DEF Counted, PipeType
  <2>2. IsUpload /\ status = "completed" /\ ~aborted => bytes = Chunks
    <3>1. status = "completed" => pc = "done" /\ err = "none"
      BY DEF JobInv, Errors
    <3>2. QED
      BY <3>1 DEF Counted, Late
  <2>3. QED
    BY <2>1, <2>2 DEF CountsAcknowledged, Landed
<1>2. QED
  BY UploadInvariant, <1>1, PTL

\* While the copy goes well every worker is there, and every buffer is in the
\* channel, with the reader or with a worker.
Accounted ==
  gerr = "none" /\ reader.pc # "exited" =>
    /\ \A w \in Slots : worker[w].pc # "exited"
    /\ \A b \in Slots \ free : (Reading /\ reader.buf = b) \/ \E w \in Busy : worker[w].buf = b

\* No step of the copy loses a buffer or a worker without ending the copy.
LEMMA AccountedStep == ASSUME IInv, Accounted, [UploadNext]_uvars PROVE Accounted'
<1> SUFFICES ASSUME gerr' = "none", reader'.pc # "exited"
             PROVE  /\ \A w \in Slots : worker'[w].pc # "exited"
                    /\ \A b \in Slots \ free' : (Reading' /\ reader'.buf = b) \/ \E w \in Busy' : worker'[w].buf = b
  BY DEF Accounted
<1> USE DEF Accounted
<1>a. PipeType /\ Buffers
  BY DEF IInv, PipeInv
<1>1. CASE UNCHANGED uvars \/ (NextButCopy /\ UNCHANGED pipe)
  BY <1>1 DEF uvars, pipe, Reading, Busy
<1>2. CASE Wait
  BY <1>2 DEF Wait, NewReader, NewWorker
<1>3. CASE TakeBuffer
  <2>1. PICK b \in free : free' = free \ {b} /\ reader' = [reader EXCEPT !.pc = "read", !.buf = b]
    BY <1>3 DEF TakeBuffer, AnyOf
  <2>2. UNCHANGED <<worker, gerr>> /\ reader.pc = "free"
    BY <1>3 DEF TakeBuffer
  <2>3. QED
    BY <1>a, <2>1, <2>2 DEF PipeType, Reading, Busy
<1>4. CASE ReadChunk
  <2>1. /\ UNCHANGED <<worker, gerr, free>> /\ reader.pc = "read"
        /\ reader'.pc = "send" /\ reader'.buf = reader.buf
    BY <1>4, <1>a DEF ReadChunk, ReaderExits, NewReader, PipeType
  <2>2. QED
    BY <2>1 DEF Reading, Busy
<1>5. CASE ReadFails
  <2>1. /\ UNCHANGED <<worker, gerr, free>> /\ reader.pc = "read"
        /\ reader'.pc = "send" /\ reader'.buf = reader.buf
    BY <1>5, <1>a DEF ReadFails, ReaderExits, NewReader, PipeType
  <2>2. QED
    BY <2>1 DEF Reading, Busy
<1>6. CASE ReaderStops
  BY <1>6 DEF ReaderStops, ReaderExits, NewReader
<1>7. CASE Send
  <2> DEFINE task == [pc |-> "write", buf |-> reader.buf, off |-> off + 1]
  <2>1. PICK w \in Receivers : worker' = [worker EXCEPT ![w] = task]
    BY <1>7 DEF Send, AnyOf
  <2>2. /\ w \in Slots /\ worker[w].pc = "receive" /\ worker'[w] = task
        /\ \A v \in Slots \ {w} : worker'[v] = worker[v]
    BY <1>a, <2>1 DEF Receivers, PipeType
  <2>3. gerr = "none" /\ reader.pc = "send" /\ UNCHANGED free
    BY <1>7 DEF Send, Returns
  <2>4. \A v \in Busy : v # w /\ v \in Busy' /\ worker'[v] = worker[v]
    BY <2>2 DEF Busy
  <2>5. w \in Busy' /\ worker'[w].buf = reader.buf
    BY <2>2 DEF Busy
  <2>6. QED
    BY <2>2, <2>3, <2>4, <2>5
<1>8. ASSUME NEW w \in Slots, WriteAt(w)
      PROVE  /\ \A v \in Slots : worker'[v].pc # "exited"
             /\ \A b \in Slots \ free' : (Reading' /\ reader'.buf = b) \/ \E v \in Busy' : worker'[v].buf = b
  <2>1. /\ worker[w].pc = "write" /\ worker'[w].pc = "count" /\ worker'[w].buf = worker[w].buf
        /\ \A v \in Slots \ {w} : worker'[v] = worker[v]
        /\ UNCHANGED <<reader, free, gerr>>
    BY <1>8, <1>a DEF WriteAt, PipeType
  <2>2. \A v \in Busy : v \in Busy' /\ worker'[v].buf = worker[v].buf
    BY <2>1 DEF Busy
  <2>3. QED
    BY <2>1, <2>2 DEF Reading
<1>9. ASSUME NEW w \in Slots, WriteFails(w) PROVE FALSE
  BY <1>9 DEF WriteFails, Returns
<1>10. ASSUME NEW w \in Slots, Count(w)
       PROVE  /\ \A v \in Slots : worker'[v].pc # "exited"
              /\ \A b \in Slots \ free' : (Reading' /\ reader'.buf = b) \/ \E v \in Busy' : worker'[v].buf = b
  <2>1. /\ worker'[w].pc = "receive" /\ free' = free \cup {worker[w].buf}
        /\ \A v \in Slots \ {w} : worker'[v] = worker[v]
        /\ UNCHANGED <<reader, gerr>>
    BY <1>10, <1>a DEF Count, PipeType, NewWorker
  <2>2. \A v \in Busy \ {w} : v \in Busy' /\ worker'[v].buf = worker[v].buf
    BY <2>1 DEF Busy
  <2>3. QED
    BY <2>1, <2>2 DEF Reading
<1>11. ASSUME NEW w \in Slots, WorkClosed(w) PROVE FALSE
  BY <1>11 DEF WorkClosed
<1>12. QED
  BY <1>1, <1>2, <1>3, <1>4, <1>5, <1>6, <1>7, <1>8, <1>9, <1>10, <1>11 DEF UploadNext, Reads, Works

\* The pipeline cannot wait for itself, for any number of workers and chunks and
\* whatever fails; and an aborted upload is unblocked as the job of TransferJob is.
THEOREM PipelineNeverJams == UploadSpec => [](PipelineMoves /\ AbortUnblocks)
<1>1. UploadInit => Accounted /\ Reachable
  <2>1. UploadInit => Accounted
    BY DEF UploadInit, Accounted, NewWorker
  <2>2. UploadInit => Reachable
    BY DEF UploadInit, Init, Reachable, AbortUnblocks
  <2>3. QED
    BY <2>1, <2>2
<1>2. IInv /\ Accounted /\ [UploadNext]_uvars => Accounted'
  BY AccountedStep
<1>3. IInv /\ Reachable /\ [UploadNext]_uvars => Reachable'
  <2> SUFFICES ASSUME IInv, Reachable, [UploadNext]_uvars PROVE Reachable'
    OBVIOUS
  <2>1. CASE UNCHANGED vars \/ NextButCopy
    BY <2>1, ReachableStep DEF IInv
  <2>2. CASE Wait
    <3>1. UNCHANGED <<sftp, sctx, aborted, closer, closing, link, loop>> /\ pc = "copy" /\ pc' \in {"close", "remove"}
      BY <2>2 DEF Wait, Copying, Goto, Fail, LeavesJob, job
    <3>2. QED
      BY <3>1 DEF Reachable, AbortUnblocks
  <2>3. CASE Reads \/ \E w \in Slots : Works(w)
    <3>1. UNCHANGED vars
      BY <2>3 DEF Reads, TakeBuffer, ReadChunk, ReadFails, ReaderStops, Send, Works, WriteAt, WriteFails,
         Count, WorkClosed
    <3>2. QED
      BY <2>1, <3>1
  <2>4. QED
    BY <2>1, <2>2, <2>3 DEF UploadNext, uvars
<1>4. IInv /\ Accounted => PipelineMoves
  <2> SUFFICES ASSUME IInv, Accounted, ~CtxDone, Busy = {}
               PROVE  /\ reader.pc = "free" => free # {}
                      /\ reader.pc = "send" => Receivers # {}
    BY DEF PipelineMoves, Busy
  <2>1. PICK w \in Slots : TRUE
    BY UploadAssumption
  <2>2. gerr = "none" /\ PipeType
    BY DEF CtxDone, IInv, PipeInv
  <2>3. reader.pc \in {"free", "send"} => worker[w].pc = "receive"
    BY <2>2 DEF Accounted, Busy, PipeType
  <2>4. reader.pc = "free" => free # {}
    BY <2>2 DEF Accounted, Reading
  <2>5. QED
    BY <2>3, <2>4 DEF Receivers
<1>5. Reachable => AbortUnblocks
  BY DEF Reachable
<1>6. QED
  BY UploadInvariant, <1>1, <1>2, <1>3, <1>4, <1>5, PTL DEF UploadSpec

-----------------------------------------------------------------------------
(* The pipelined copy implements the copy of TransferJob.                  *)

\* A file is not whole while one of its offsets is empty.
LEMMA EmptyIsNotSource == \A k \in 1..Chunks : remote[k] = Absent => remote # Source
  BY UploadAssumption DEF Source, Absent

\* Outside of the copy the mapped destination is the destination.
LEMMA BarAtRest == ASSUME IInv, ~Copying PROVE remote = Empty /\ remote # Source /\ DestBar = dest
<1>1. remote = Empty
  BY DEF IInv, PipeInv, AtRest
<1>2. Chunks \in Nat /\ 1 \in 1..Chunks
  BY UploadAssumption
<1>3. remote[1] = Absent
  BY <1>1, <1>2 DEF Empty
<1>4. QED
  BY <1>1, <1>2, <1>3, EmptyIsNotSource DEF DestBar

\* A step that leaves the file and the step of the goroutine alone shows nothing
\* of the file.
LEMMA BarUnchanged ==
  ASSUME UNCHANGED <<dest, kind, remote>>, pc' = pc
  PROVE  DestBar' = DestBar
  BY DEF DestBar, Copying, IsUpload, Source

\* The caller's and the connection's steps are theirs in TransferJob.
LEMMA CallerImplements ==
  ASSUME IInv, Caller \/ CloserCloses \/ LinkFails, UNCHANGED pipe PROVE Job!Next
<1>1. DestBar' = DestBar
  BY BarUnchanged DEF pipe, Caller, GivesUp, StopsWaiting, Answered, CloserCloses, LinkFails,
     world, run
<1>2. CASE Caller
  BY <1>1, <1>2 DEF Caller, GivesUp, StopsWaiting, Answered, Job!Next, Job!NextButCopy, Job!Caller,
         Job!GivesUp, Job!StopsWaiting, Job!Answered, job, run, Job!job, Job!run
<1>3. CASE CloserCloses
  BY <1>1, <1>3 DEF CloserCloses, Job!Next, Job!NextButCopy, Job!CloserCloses, world, job,
         Job!world, Job!job
<1>4. CASE LinkFails
  BY <1>1, <1>4 DEF LinkFails, Job!Next, Job!NextButCopy, Job!LinkFails, job, run, Job!job, Job!run
<1>5. QED
  BY <1>2, <1>3, <1>4

\* So are the loop's.
LEMMA LoopImplements == ASSUME IInv, Loop, UNCHANGED pipe PROVE Job!Next
<1>1. Job!Loop => Job!Next
  BY DEF Job!Next, Job!NextButCopy
<1>2. CASE HandleUpload \/ HandleDownload
  <2>1. pc = "none" /\ pc' \in {"none", "source", "client"}
    BY <1>2 DEF HandleUpload, HandleDownload, TakesRequest, Start, IInv, JobInv, Requests
  <2>2. ~Copying /\ ~Copying'
    BY <2>1 DEF Copying
  <2>3. DestBar = dest /\ DestBar' = dest' /\ dest' = dest
    BY <1>2, <2>2 DEF DestBar, HandleUpload, HandleDownload, LeavesRest
  <2>4. Job!HandleUpload \/ Job!HandleDownload
    BY <1>2, <2>3 DEF HandleUpload, HandleDownload, TakesRequest, Start, Inherited, LeavesRest,
           Job!HandleUpload, Job!HandleDownload, Job!TakesRequest, Job!Start, Job!Inherited, Job!LeavesRest
  <2>5. QED
    BY <1>1, <2>4 DEF Job!Loop
<1>3. CASE ~(HandleUpload \/ HandleDownload)
  <2>1. DestBar' = DestBar
    BY <1>3, BarUnchanged DEF pipe, Loop, HandleCancel, WatcherDrops, UserCloses, HandleClose,
       Abort,
           AbortCancels, CloseConnection, PoolEnds, Shutdown, world, run
  <2>2. CASE HandleCancel
    BY <1>1, <2>1, <2>2 DEF HandleCancel, Job!HandleCancel, Job!Loop, world, job, run, Job!world,
       Job!job, Job!run
  <2>3. CASE WatcherDrops
    BY <1>1, <2>1, <2>3 DEF WatcherDrops, HandleClose, Job!WatcherDrops, Job!HandleClose, Job!Loop,
           Cancelled, Running, Job!Cancelled, Job!Running, world, run, Job!world, Job!run
  <2>4. CASE UserCloses
    BY <1>1, <2>1, <2>4 DEF UserCloses, HandleClose, Job!UserCloses, Job!HandleClose, Job!Loop,
           Cancelled, Running, Job!Cancelled, Job!Running, world, run, Job!world, Job!run
  <2>5. CASE Abort
    BY <1>1, <2>1, <2>5 DEF Abort, Job!Abort, Job!Loop, world, run, Job!world, Job!run
  <2>6. CASE AbortCancels
    BY <1>1, <2>1, <2>6 DEF AbortCancels, Job!AbortCancels, Job!Loop, Cancelled, Running,
           Job!Cancelled, Job!Running, world, run, Job!world, Job!run
  <2>7. CASE CloseConnection
    BY <1>1, <2>1, <2>7 DEF CloseConnection, Job!CloseConnection, Job!Loop, IdleLoop, Job!IdleLoop,
           job, run, Job!job, Job!run
  <2>8. CASE Shutdown
    BY <1>1, <2>1, <2>8 DEF Shutdown, Job!Shutdown, Job!Loop, IdleLoop, Job!IdleLoop, Cancelled,
           Job!Cancelled, job, run, Job!job, Job!run
  <2>9. CASE PoolEnds
    BY <1>1, <2>1, <2>9 DEF PoolEnds, Job!PoolEnds, Job!Loop, Cancelled, Running, Job!Cancelled,
           Job!Running, run, Job!run
  <2>10. QED
    BY <1>3, <2>2, <2>3, <2>4, <2>5, <2>6, <2>7, <2>8, <2>9 DEF Loop
<1>4. QED
  BY <1>2, <1>3

\* So are the transfer's, but for the copy.
LEMMA TransferImplements == ASSUME IInv, TransferButCopy, UNCHANGED pipe PROVE Job!Next
<1>1. ~Copying
  BY DEF Copying, IsUpload, TransferButCopy, OpenSource, NewClient, SetCloser, CreateRemote,
     OpenRemote,
         CopyToFile, CopyToSink, CloseRemote, RenameFile, RemoveRemote, Cleanup, FinishReadsCause, Finish
<1>2. DestBar = dest /\ DestBar' = dest'
  BY <1>1, BarAtRest DEF pipe, DestBar, Source
<1>3. Job!TransferButCopy => Job!Next
  BY DEF Job!Next, Job!NextButCopy
<1> USE DEF LeavesJob, Job!LeavesJob, Goto, Job!Goto, Fail, Job!Fail, job, Job!job, Answers, Job!Answers,
            Fails, Job!Fails, IsUpload, Job!IsUpload, Job!TransferButCopy
<1>4. CASE OpenSource
  BY <1>2, <1>3, <1>4 DEF OpenSource, Job!OpenSource
<1>5. CASE NewClient
  BY <1>2, <1>3, <1>5 DEF NewClient, Job!NewClient
<1>6. CASE SetCloser
  BY <1>2, <1>3, <1>6 DEF SetCloser, Job!SetCloser
<1>7. CASE CreateRemote
  BY <1>2, <1>3, <1>7 DEF CreateRemote, Job!CreateRemote
<1>8. CASE OpenRemote
  BY <1>2, <1>3, <1>8 DEF OpenRemote, Job!OpenRemote
<1>9. CASE CopyToFile
  BY <1>2, <1>3, <1>9 DEF CopyToFile, Job!CopyToFile, CopyFails, Job!CopyFails
<1>10. CASE CopyToSink
  BY <1>2, <1>3, <1>10 DEF CopyToSink, Job!CopyToSink, CopyFails, Job!CopyFails
<1>11. CASE CloseRemote
  BY <1>2, <1>3, <1>11 DEF CloseRemote, Job!CloseRemote
<1>12. CASE RenameFile
  BY <1>2, <1>3, <1>12 DEF RenameFile, Job!RenameFile
<1>13. CASE RemoveRemote
  BY <1>2, <1>3, <1>13 DEF RemoveRemote, Job!RemoveRemote
<1>14. CASE Cleanup
  BY <1>2, <1>3, <1>14 DEF Cleanup, Job!Cleanup
<1>15. CASE FinishReadsCause
  BY <1>2, <1>3, <1>15 DEF FinishReadsCause, Job!FinishReadsCause
<1>16. CASE Finish
  BY <1>2, <1>3, <1>16 DEF Finish, Job!Finish, Cancelled, Job!Cancelled, world, Job!world
<1>17. QED
  BY <1>4, <1>5, <1>6, <1>7, <1>8, <1>9, <1>10, <1>11, <1>12, <1>13, <1>14, <1>15, <1>16
     DEF TransferButCopy

\* A step that lands no chunk is a stuttering step.
LEMMA BarStutters == ASSUME UNCHANGED <<vars, remote>> PROVE UNCHANGED Job!vars
<1>1. UNCHANGED <<dest, kind, remote>> /\ pc' = pc
  BY DEF vars, world, run
<1>2. DestBar' = DestBar
  BY <1>1, BarUnchanged
<1>3. QED
  BY <1>2 DEF vars, world, job, run, Job!vars, Job!world, Job!job, Job!run

\* The write that completes the file is the one step of the copy that shows.
LEMMA WriteAtImplements == ASSUME IInv, NEW w \in Slots, WriteAt(w) PROVE [Job!Next]_Job!vars
<1>1. Copying /\ worker[w].pc = "write" /\ Answers /\ UNCHANGED vars
  BY DEF WriteAt
<1>2. UNCHANGED <<world, sctx, job, run, loop, closing, first>>
  BY <1>1 DEF vars
<1>3. w \in Busy /\ dest = "partial" /\ dest' = dest /\ Copying'
  BY <1>1, <1>2 DEF Busy, IInv, PipeInv, Outcome, Copying, IsUpload, run, world
<1>4. worker[w].off \in 1..Chunks /\ remote[worker[w].off] = Absent
  BY <1>1, <1>3, UploadAssumption DEF IInv, PipeInv, PipeType, Writes
<1>5. DestBar = "partial"
  BY <1>3, <1>4, EmptyIsNotSource DEF DestBar
<1>6. CASE remote' = Source
  <2>1. DestBar' = "whole"
    BY <1>3, <1>6 DEF DestBar, Source
  <2>2. Job!LastChunkLands
    BY <1>1, <1>2, <1>5, <2>1 DEF Copying, IsUpload, Answers, world, job, run, Job!LastChunkLands,
           Job!IsUpload, Job!Answers, Job!LeavesJob, Job!job
  <2>3. QED
    BY <2>2 DEF Job!Next
<1>7. CASE remote' # Source
  <2>1. DestBar' = DestBar
    BY <1>3, <1>5, <1>7 DEF DestBar, Source
  <2>2. QED
    BY <1>2, <2>1 DEF world, job, run, Job!vars, Job!world, Job!job, Job!run
<1>8. QED
  BY <1>6, <1>7

\* Wait is the end of the copy, or its failure.
LEMMA WaitImplements == ASSUME IInv, Wait PROVE Job!Next
<1>1. /\ Copying /\ ~Copying' /\ LeavesJob /\ UNCHANGED <<source, sftp, tmp>>
      /\ reader.pc = "exited" /\ \A w \in Slots : worker[w].pc = "exited"
      /\ dest' = DestBar
  BY DEF Wait, Copying, Goto, Fail, LeavesJob, DestBar
<1>2. DestBar' = DestBar
  BY <1>1 DEF DestBar
<1>3. \/ gerr = "none" /\ Goto("close") /\ UNCHANGED err
      \/ gerr # "none" /\ Fail(gerr, "remove")
  BY DEF Wait
<1>4. gerr = "none" => DestBar = "whole"
  BY <1>1, CopyReturnsWhole DEF DestBar
<1>5. gerr # "none" => gerr \in {"io", jctx} \ {"none"}
  BY DEF IInv, PipeInv, Outcome
<1>6. Job!CopyToRemote
  BY <1>1, <1>2, <1>3, <1>4, <1>5 DEF Copying, IsUpload, LeavesJob, Goto, Fail, job,
     Job!CopyToRemote, Job!IsUpload, Job!LeavesJob, Job!Goto, Job!Fail, Job!job
<1>7. QED
  BY <1>6 DEF Job!Next

\* The pipelined copy is the two-step copy of TransferJob: seen through DestBar,
\* every behaviour of copyToRemote's goroutines is one of a copy that returns nil
\* only with the whole file written, and an error only with no writer left.
THEOREM UploadImplementsJob == UploadSpec => ImplementsJob
<1>1. UploadInit => Job!Init
  <2> SUFFICES ASSUME UploadInit PROVE Job!Init
    OBVIOUS
  <2>1. DestBar = dest
    BY DEF UploadInit, Init, DestBar, Copying
  <2>2. QED
    BY <2>1 DEF UploadInit, Init, Job!Init, IdleLoop, Job!IdleLoop
<1>2. IInv /\ [UploadNext]_uvars => [Job!Next]_Job!vars
  <2> SUFFICES ASSUME IInv, [UploadNext]_uvars PROVE [Job!Next]_Job!vars
    OBVIOUS
  <2>1. CASE UNCHANGED uvars
    BY <2>1, BarStutters DEF uvars, pipe
  <2>2. CASE NextButCopy /\ UNCHANGED pipe
    BY <2>2, CallerImplements, LoopImplements, TransferImplements DEF NextButCopy
  <2>3. CASE Reads
    BY <2>3, BarStutters DEF Reads, TakeBuffer, ReadChunk, ReadFails, ReaderStops, Send
  <2>4. CASE Wait
    BY <2>4, WaitImplements
  <2>5. ASSUME NEW w \in Slots, Works(w) PROVE [Job!Next]_Job!vars
    <3>1. CASE WriteAt(w)
      BY <3>1, WriteAtImplements
    <3>2. CASE WriteFails(w) \/ Count(w) \/ WorkClosed(w)
      BY <3>2, BarStutters DEF WriteFails, Count, WorkClosed
    <3>3. QED
      BY <2>5, <3>1, <3>2 DEF Works
  <2>6. QED
    BY <2>1, <2>2, <2>3, <2>4, <2>5 DEF UploadNext
<1>3. QED
  BY <1>1, <1>2, UploadInvariant, PTL DEF UploadSpec, ImplementsJob, Job!Spec

=============================================================================
