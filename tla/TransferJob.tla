----------------------------- MODULE TransferJob -----------------------------
(***************************************************************************)
(* One upload or download of the ssh session pool: the goroutine that runs *)
(* it, the pool's event loop that starts, cancels and closes it, the       *)
(* caller that handed a reader over, and the connection, which may stall   *)
(* or die under it.                                                        *)
(*                                                                         *)
(* What decides the outcome is spread over three places: the cancellation  *)
(* causes of the session's and the job's context, of which the first       *)
(* stays; the flag aborted with the SFTP client that has to be closed to   *)
(* unblock the transfer, under job.mu; and the error the transfer returns. *)
(***************************************************************************)
EXTENDS Naturals

CONSTANTS
  Kinds,    \* which transfers to consider
  Probed    \* the server is an OpenSSH, which the keepalive probes
AllKinds == {"upload", "source", "download", "sink"}
ASSUME KindsAssumption == Kinds \subseteq AllKinds /\ Probed \in BOOLEAN

VARIABLES
  kind,     \* upload of a file or of a reader; download to a file or to a store
  caller,   \* of the tool: "calling", "sent", "over"
  source,   \* the reader an upload reads: "none", "open", "closed"
  ended,    \* the pool's context is done
  sctx,     \* the cause a session that left the pool was cancelled with, or "none"
  jctx,     \* the same of the job's context
  aborted,  \* job.aborted
  closer,   \* job.closer is set
  sftp,     \* the SFTP client: "none", "open", "closed"
  link,     \* the connection: "up", "stalled", "dead"
  dest,     \* what is at the destination: "none", "partial", "whole"
  tmp,      \* a download's temporary file, likewise
  pc,       \* the transfer goroutine
  err,      \* the error it is returning
  status,   \* job.Status
  loop,     \* the event loop: what it is doing, and for which cause
  closing,  \* a goroutine the loop started is to close the SFTP client
  first     \* history: the first cause a handler recorded for the job

world  == <<kind, caller, source, link, ended>>
job    == <<jctx, aborted, closer>>
run    == <<sftp, dest, tmp, pc, err, status>>
vars   == <<world, sctx, job, run, loop, closing, first>>

Causes == {"none", "canceled", "transfer canceled", "session closed", "connection lost"}
IsUpload == kind \in {"upload", "source"}
Running == pc \notin {"none", "done"}

\* The type of every variable; a job has a status from its start.
WorldType ==
  /\ kind \in AllKinds
  /\ caller \in {"calling", "sent", "over"}
  /\ source \in {"none", "open", "closed"}
  /\ link \in {"up", "stalled", "dead"}
  /\ ended \in BOOLEAN
ContextType == sctx \in Causes /\ jctx \in Causes /\ first \in Causes
FlagType == aborted \in BOOLEAN /\ closer \in BOOLEAN /\ closing \in BOOLEAN
LoopType == loop \in [pc : {"idle", "abort", "cancel", "drop", "exited"}, cause : Causes, close : BOOLEAN]
FileType ==
  /\ sftp \in {"none", "open", "closed"}
  /\ dest \in {"none", "partial", "whole"} /\ tmp \in {"none", "partial", "whole"}
StepType ==
  /\ pc \in {"none", "source", "client", "closer", "open", "copy", "close", "remove",
             "cleanup", "cause", "finish", "done"}
  /\ err \in Causes \cup {"io"}
StatusType ==
  /\ status \in {"none", "running", "completed", "failed", "canceled"}
  /\ status = "none" <=> pc = "none"

TypeOK == WorldType /\ ContextType /\ FlagType /\ LoopType /\ FileType /\ StepType /\ StatusType

IdleLoop == [pc |-> "idle", cause |-> "none", close |-> FALSE]

Init ==
  /\ kind \in Kinds
  /\ caller = "calling"
  /\ source = IF kind = "source" THEN "open" ELSE "none"
  /\ ended = FALSE /\ sctx = "none" /\ jctx = "none" /\ first = "none"
  /\ aborted = FALSE /\ closer = FALSE /\ closing = FALSE
  /\ sftp = "none" /\ link = "up" /\ dest = "none" /\ tmp = "none"
  /\ pc = "none" /\ err = "none" /\ status = "none"
  /\ loop = IdleLoop

\* A context keeps the first cause it is cancelled with.
Cancelled(ctx, cause) == IF ctx = "none" THEN cause ELSE ctx

-----------------------------------------------------------------------------
(* The caller: send, then wait for the answer, both until its context ends *)

\* Pool.send did not get the request to the loop.
GivesUp ==
  /\ caller = "calling"
  /\ caller' = "over"
  /\ source' = IF source = "open" THEN "closed" ELSE source
  /\ UNCHANGED <<kind, link, ended, sctx, job, run, loop, closing, first>>

\* The answer was not awaited; UploadFrom closes its reader here too.
StopsWaiting ==
  /\ caller = "sent"
  /\ caller' = "over"
  /\ source' = IF kind = "source" THEN "closed" ELSE source
  /\ UNCHANGED <<kind, link, ended, sctx, job, run, loop, closing, first>>

Answered ==
  /\ caller = "sent" /\ caller' = "over"
  /\ UNCHANGED <<kind, source, link, ended, sctx, job, run, loop, closing, first>>

-----------------------------------------------------------------------------
(* The event loop.                                                         *)

\* A session that is still in the pool has the pool's context, done or not.
Inherited == IF ended THEN "canceled" ELSE "none"

\* newTransferJob, under the session's context, and its goroutine.
Start(p) ==
  /\ pc' = p /\ status' = "running"
  /\ jctx' = Inherited /\ first' = Inherited
  /\ UNCHANGED source
TakesRequest(kinds) == loop.pc = "idle" /\ caller = "calling" /\ kind \in kinds /\ caller' = "sent"
LeavesRest == UNCHANGED <<kind, link, ended, sctx, aborted, closer, sftp, dest, tmp, err, loop, closing>>

\* A job starts; or the session is not there, or the path is refused, and the
\* pool closes the reader it owns.
HandleUpload ==
  /\ TakesRequest({"upload", "source"})
  /\ \/ sctx = "none" /\ Start("source")
     \/ /\ sctx # "none" \/ kind = "upload"
        /\ source' = IF source = "open" THEN "closed" ELSE source
        /\ UNCHANGED <<pc, status, jctx, first>>
  /\ LeavesRest

HandleDownload ==
  /\ TakesRequest({"download", "sink"})
  /\ \/ sctx = "none" /\ Start("client")
     \/ (sctx # "none" \/ kind = "download") /\ UNCHANGED <<source, pc, status, jctx, first>>
  /\ LeavesRest

\* handleUploadCancel, handleDownloadCancel: the job is found by its ID, also
\* when its session is gone or it has ended.
HandleCancel ==
  /\ loop.pc = "idle" /\ pc # "none"
  /\ loop' = [pc |-> "abort", cause |-> "transfer canceled", close |-> FALSE]
  /\ UNCHANGED <<world, sctx, job, run, closing, first>>

\* handleClose: the session's context is cancelled, which reaches the job's,
\* then the job is aborted if it has not ended, then the connection closed.
HandleClose(cause) ==
  /\ loop.pc = "idle" /\ sctx = "none"
  /\ sctx' = cause
  /\ jctx' = IF pc = "none" THEN jctx ELSE Cancelled(jctx, cause)
  /\ loop' = [pc |-> IF Running THEN "abort" ELSE "drop", cause |-> cause, close |-> TRUE]
  /\ first' = IF Running /\ first = "none" THEN cause ELSE first
  /\ UNCHANGED <<world, aborted, closer, run, closing>>

\* Mutant: a keepalive probe waits for its answer without a bound.
WatcherWaits == link = "dead" /\ HandleClose("connection lost")

\* watchSession: c.Wait returned, or a probe failed or timed out. Servers other
\* than OpenSSH are not probed.
WatcherDrops ==
  /\ link = "dead" \/ (link = "stalled" /\ Probed)
  /\ HandleClose("connection lost")
UserCloses == HandleClose("session closed")

\* abortCause, under job.mu.
Abort ==
  /\ loop.pc = "abort"
  /\ \/ /\ aborted
        /\ loop' = [loop EXCEPT !.pc = IF loop.close THEN "drop" ELSE "idle"]
        /\ UNCHANGED <<aborted, closer, closing>>
     \/ /\ ~aborted
        /\ aborted' = TRUE
        /\ closer' = FALSE
        /\ closing' = (closing \/ closer)
        /\ loop' = [loop EXCEPT !.pc = "cancel"]
  /\ UNCHANGED <<world, sctx, jctx, run, first>>

\* abortCause, after the lock: the context is cancelled; the caller of
\* abortCause then closes the client in a goroutine.
AbortCancels ==
  /\ loop.pc = "cancel"
  /\ jctx' = Cancelled(jctx, loop.cause)
  /\ first' = IF Running /\ first = "none" THEN loop.cause ELSE first
  /\ loop' = [loop EXCEPT !.pc = IF loop.close THEN "drop" ELSE "idle"]
  /\ UNCHANGED <<world, sctx, aborted, closer, run, closing>>

\* The end of handleClose: the client is closed and the session forgotten.
CloseConnection ==
  /\ loop.pc = "drop"
  /\ link' = "dead"
  /\ loop' = IdleLoop
  /\ UNCHANGED <<kind, caller, source, ended, sctx, job, run, closing, first>>

\* The pool's context ends, whatever the loop is doing: every session's and
\* job's context with it, without a cause of its own.
PoolEnds ==
  /\ ~ended /\ ended' = TRUE
  /\ jctx' = IF pc = "none" THEN jctx ELSE Cancelled(jctx, "canceled")
  /\ first' = IF Running /\ first = "none" THEN "canceled" ELSE first
  /\ UNCHANGED <<kind, caller, source, link, sctx, aborted, closer, run, loop, closing>>

\* RunLoop comes to see it, after any requests its select picks before: it
\* closes the connections and returns.  Requests that come later are not taken.
Shutdown ==
  /\ loop.pc = "idle" /\ ended
  /\ sctx' = Cancelled(sctx, "canceled")
  /\ link' = "dead"
  /\ loop' = [IdleLoop EXCEPT !.pc = "exited"]
  /\ UNCHANGED <<kind, caller, source, ended, job, run, closing, first>>

\* closer.Close() in its goroutine; on a stalled connection it may block.
CloserCloses ==
  /\ closing
  /\ closing' = FALSE
  /\ sftp' = "closed"
  /\ UNCHANGED <<world, sctx, job, dest, tmp, pc, err, status, loop, first>>

-----------------------------------------------------------------------------
(* The connection.                                                         *)

LinkFails ==
  /\ link = "up" \/ link = "stalled"
  /\ link' \in {"stalled", "dead"} \ {link}
  /\ UNCHANGED <<kind, caller, source, ended, sctx, job, run, loop, closing, first>>

\* A request to the server is answered, or fails; on a stalled connection it
\* does neither until the client is closed.
Answers == link = "up" /\ sftp = "open"
Fails   == link # "stalled" \/ sftp = "closed"

-----------------------------------------------------------------------------
(* The transfer goroutine: upload and download.                            *)

Goto(p) == pc' = p
Fail(e, p) == err' = e /\ pc' = p
LeavesJob == UNCHANGED <<kind, caller, link, ended, sctx, job, status, loop, closing, first>>

\* uploadSource.
OpenSource ==
  /\ pc = "source"
  /\ \/ kind = "source" /\ Goto("client") /\ UNCHANGED <<source, err>>
     \/ kind = "upload" /\ source' = "open" /\ Goto("client") /\ UNCHANGED err
     \/ kind = "upload" /\ Fail("io", "cause") /\ UNCHANGED source
  /\ UNCHANGED <<sftp, dest, tmp>> /\ LeavesJob

\* sftp.NewClient.
NewClient ==
  /\ pc = "client"
  /\ \/ link = "up" /\ sftp' = "open" /\ Goto("closer") /\ UNCHANGED err
     \/ link # "stalled" /\ Fail("io", "cleanup") /\ UNCHANGED sftp
  /\ UNCHANGED <<source, dest, tmp>> /\ LeavesJob

\* Mutant: the client is not closed when the job turns out to be aborted.
SetCloserAbandons ==
  /\ pc = "closer"
  /\ \/ aborted /\ Fail(jctx, "cause") /\ UNCHANGED closer
     \/ ~aborted /\ closer' = TRUE /\ Goto("open") /\ UNCHANGED err
  /\ UNCHANGED <<kind, caller, source, link, ended, sctx, jctx, aborted, sftp, dest, tmp, status, loop, closing, first>>

\* setCloser; an aborted job returns the cause of its context as it is now.
SetCloser ==
  /\ pc = "closer"
  /\ \/ aborted /\ Fail(jctx, "cleanup") /\ UNCHANGED closer
     \/ ~aborted /\ closer' = TRUE /\ Goto("open") /\ UNCHANGED err
  /\ UNCHANGED <<kind, caller, source, link, ended, sctx, jctx, aborted, sftp, dest, tmp, status, loop, closing, first>>

\* upload: Create on the server, which truncates what is there.
CreateRemote ==
  /\ pc = "open" /\ IsUpload
  /\ \/ Answers /\ dest' = "partial" /\ Goto("copy") /\ UNCHANGED err
     \/ Fails /\ Fail("io", "cleanup") /\ UNCHANGED dest
  /\ UNCHANGED <<source, sftp, tmp>> /\ LeavesJob

\* download: Open and Stat on the server, and Create of the temporary file.
OpenRemote ==
  /\ pc = "open" /\ ~IsUpload
  /\ \/ /\ Answers /\ Goto("copy") /\ UNCHANGED err
        /\ tmp' = IF kind = "download" THEN "partial" ELSE tmp
     \/ Fails /\ Fail("io", "cleanup") /\ UNCHANGED tmp
  /\ UNCHANGED <<source, sftp, dest>> /\ LeavesJob

\* How a copy fails: with the error of a request, or with the cause of the
\* context, noticed between chunks; a blocked copy only once its requests fail.
CopyFails(p) == Fails /\ \E e \in {"io", jctx} \ {"none"} : Fail(e, p)

\* copyToRemote, of which Upload has the detail: the server acknowledges the
\* last chunk; the copy returns nil if it has acknowledged all of them, and the
\* first error once every writer has stopped.
LastChunkLands ==
  /\ pc = "copy" /\ IsUpload /\ dest = "partial"
  /\ Answers /\ dest' = "whole"
  /\ UNCHANGED <<source, sftp, tmp, pc, err>> /\ LeavesJob

CopyToRemote ==
  /\ pc = "copy" /\ IsUpload
  /\ \/ dest = "whole" /\ Goto("close") /\ UNCHANGED err
     \/ \E e \in {"io", jctx} \ {"none"} : Fail(e, "remove")
  /\ UNCHANGED <<source, sftp, dest, tmp>> /\ LeavesJob

\* Mutant: a copy that is interrupted is taken for one that has ended.
CopyIgnoresErrors ==
  /\ pc = "copy" /\ kind = "download"
  /\ (Answers /\ tmp' = "whole") \/ (Fails /\ UNCHANGED tmp)
  /\ Goto("close")
  /\ UNCHANGED <<source, sftp, dest, err>> /\ LeavesJob

\* io.Copy into the temporary file.
CopyToFile ==
  /\ pc = "copy" /\ kind = "download"
  /\ \/ Answers /\ tmp' = "whole" /\ Goto("close") /\ UNCHANGED err
     \/ CopyFails("cleanup") /\ UNCHANGED tmp
  /\ UNCHANGED <<source, sftp, dest>> /\ LeavesJob

\* downloadToSink: Put stores all or nothing.
CopyToSink ==
  /\ pc = "copy" /\ kind = "sink"
  /\ \/ Answers /\ dest' = "whole" /\ Goto("cleanup") /\ UNCHANGED err
     \/ CopyFails("cleanup") /\ UNCHANGED dest
  /\ UNCHANGED <<source, sftp, tmp>> /\ LeavesJob

CloseRemote ==
  /\ pc = "close" /\ IsUpload
  /\ \/ Answers /\ Goto("cleanup") /\ UNCHANGED err
     \/ Fails /\ Fail("io", "remove")
  /\ UNCHANGED <<source, sftp, dest, tmp>> /\ LeavesJob

\* Close and Rename of the temporary file; either may fail.
RenameFile ==
  /\ pc = "close" /\ kind = "download"
  /\ \/ dest' = tmp /\ tmp' = "none" /\ Goto("cleanup") /\ UNCHANGED err
     \/ Fail("io", "cleanup") /\ UNCHANGED <<dest, tmp>>
  /\ UNCHANGED <<source, sftp>> /\ LeavesJob

\* A failed upload removes the remote file, if the server can still be told.
RemoveRemote ==
  /\ pc = "remove"
  /\ \/ Answers /\ dest' = "none"
     \/ Fails /\ UNCHANGED dest
  /\ Goto("cleanup")
  /\ UNCHANGED <<source, sftp, tmp, err>> /\ LeavesJob

\* The deferred calls; closing the SFTP client blocks on a stalled connection.
Cleanup ==
  /\ pc = "cleanup"
  /\ sftp = "open" => link # "stalled"
  /\ sftp' = IF sftp = "open" THEN "closed" ELSE sftp
  /\ source' = IF source = "open" THEN "closed" ELSE source
  /\ tmp' = "none"
  /\ Goto("cause")
  /\ UNCHANGED <<dest, err>> /\ LeavesJob

\* finish: an error gives way to the cause of the context, if it says more.
FinishReadsCause ==
  /\ pc = "cause"
  /\ err' = IF err # "none" /\ jctx \notin {"none", "canceled"} THEN jctx ELSE err
  /\ Goto("finish")
  /\ UNCHANGED <<source, sftp, dest, tmp>> /\ LeavesJob

\* Mutant: every error is a failure.
FinishFails ==
  /\ pc = "finish"
  /\ status' = IF err = "none" THEN "completed" ELSE "failed"
  /\ closer' = FALSE
  /\ jctx' = Cancelled(jctx, "canceled")
  /\ Goto("done")
  /\ UNCHANGED <<world, sctx, aborted, sftp, dest, tmp, err, loop, closing, first>>

\* finish, under job.mu, and the close of job.done.
Finish ==
  /\ pc = "finish"
  /\ status' = IF err = "none" THEN "completed"
               ELSE IF err = "transfer canceled" THEN "canceled" ELSE "failed"
  /\ closer' = FALSE
  /\ jctx' = Cancelled(jctx, "canceled")
  /\ Goto("done")
  /\ UNCHANGED <<world, sctx, aborted, sftp, dest, tmp, err, loop, closing, first>>

-----------------------------------------------------------------------------
Caller == GivesUp \/ StopsWaiting \/ Answered
TransferButCopy ==
  \/ OpenSource \/ NewClient \/ SetCloser \/ CreateRemote \/ OpenRemote
  \/ CopyToFile \/ CopyToSink \/ CloseRemote \/ RenameFile \/ RemoveRemote
  \/ Cleanup \/ FinishReadsCause \/ Finish
Loop ==
  \/ HandleUpload \/ HandleDownload \/ HandleCancel \/ WatcherDrops \/ UserCloses
  \/ Abort \/ AbortCancels \/ CloseConnection \/ PoolEnds \/ Shutdown

NextButCopy == Caller \/ TransferButCopy \/ Loop \/ CloserCloses \/ LinkFails
Next == NextButCopy \/ LastChunkLands \/ CopyToRemote

Spec == Init /\ [][Next]_vars

-----------------------------------------------------------------------------
(* Properties.                                                             *)

\* A transfer reports completed only with all bytes at the destination, unless
\* it was aborted.
CompletedIsWhole == status = "completed" => dest = "whole" \/ aborted

\* The first cause wins: a job the caller cancelled is not relabelled by the
\* teardown of its connection or of the pool, nor one that died with either by a
\* cancel that came later.
FirstCauseWins ==
  pc = "done" =>
    /\ status = "canceled" => first = "transfer canceled"
    /\ status = "failed" => first \in {"none", err} \/ err = "io"
    /\ first = "transfer canceled" => status # "failed" \/ err = "io"

\* Whatever ended it, a transfer leaves no SFTP client, no reader and no
\* temporary file behind, and a download no part of a file; and a reader whose
\* transfer did not start, because the request was refused or never taken, is
\* closed as well.
LeavesNothing ==
  /\ pc = "done" =>
       /\ sftp # "open" /\ source # "open" /\ tmp = "none"
       /\ ~IsUpload => dest # "partial"
  /\ pc = "none" /\ caller # "calling" => source # "open"

\* A job does not hang: one whose connection stalls or dies ends, although
\* nothing in the transfer itself notices a stall; also when the pool is shut
\* down meanwhile.
StalledEnds == (Running /\ (link = "dead" \/ (link = "stalled" /\ Probed))) ~> (pc = "done")

\* Why StalledEnds can hold: a client that may block an aborted transfer is about
\* to be closed, by the loop's goroutine or by the transfer itself, however the
\* abort raced setCloser; and once a session was taken out of the pool its connection
\* is down, or the loop is on its way to closing it.
AbortUnblocks ==
  /\ aborted /\ sftp = "open" => closing \/ pc \in {"closer", "cleanup"}
  /\ sctx # "none" => link = "dead" \/ (loop.close /\ loop.pc \in {"abort", "cancel", "drop"})

\* What the ssh-mcp README says of a result's status: completed is the only
\* one without an error, so a cancelled transfer of which nothing arrived must
\* not report it.
CompletedMeansDelivered == status = "completed" => dest = "whole"
=============================================================================
