-------------------------------- MODULE Upload --------------------------------
(***************************************************************************)
(* TransferJob with the copy of an upload in detail: copyToRemote of       *)
(* internal/session/copy.go.                                               *)
(*                                                                         *)
(* A reader fills buffers and hands them to workers over an unbuffered     *)
(* channel; a worker writes its buffer at its offset, counts it when the   *)
(* server has acknowledged it, and gives it back over a channel that holds *)
(* all of them.  An errgroup joins the goroutines: the first error is the  *)
(* result, and ends the context the reader selects on.                     *)
(*                                                                         *)
(* While the copy runs the remote file is `remote`; dest takes over when   *)
(* it has returned.  TransferJob, where the copy is two steps, is what     *)
(* this module implements.                                                 *)
(***************************************************************************)
EXTENDS TransferJob, FiniteSets

CONSTANTS
  Slots,    \* uploadConcurrency: the workers, and as many buffers
  Chunks    \* chunks the source has
ASSUME UploadAssumption == IsFiniteSet(Slots) /\ Slots # {} /\ Chunks \in Nat \ {0}

VARIABLES
  reader,   \* the reading goroutine: where it is, its buffer, what ends it after this chunk
  worker,   \* of each worker: where it is, its buffer and its offset
  free,     \* the buffers in the channel free
  data,     \* which chunk a buffer holds; 0 when it is cut short by an error
  off,      \* chunks handed over so far
  gerr,     \* the errgroup's first error
  remote,   \* the chunk that lies at each offset of the remote file, or none
  bytes     \* job.Bytes, in chunks

pipe == <<reader, worker, free, data, off, gerr, remote, bytes>>
uvars == <<vars, pipe>>

Absent == Chunks + 1
Source == [k \in 1..Chunks |-> k]
NoBuf == "none"

\* copyToRemote is called once, and its goroutines have their first values then.
NewReader == [pc |-> "free", buf |-> NoBuf, end |-> "more"]
NewWorker == [pc |-> "receive", buf |-> NoBuf, off |-> 0]
Empty == [k \in 1..Chunks |-> Absent]

UploadInit ==
  /\ Init
  /\ reader = NewReader /\ worker = [w \in Slots |-> NewWorker]
  /\ free = Slots /\ data = [b \in Slots |-> 0]
  /\ off = 0 /\ gerr = "none" /\ remote = Empty /\ bytes = 0

ReaderExits == [NewReader EXCEPT !.pc = "exited"]
WorkerExits(w) == [worker EXCEPT ![w] = [NewWorker EXCEPT !.pc = "exited"]]

Copying == pc = "copy" /\ IsUpload

\* The errgroup's context: done with its parent, or at the first error.
CtxDone == gerr # "none" \/ jctx # "none"
\* context.Cause of it, as far as the errgroup's first error can be it.
Returns(e) == gerr' = IF gerr = "none" THEN e ELSE gerr

-----------------------------------------------------------------------------
(* The reader.                                                             *)

\* Buffers are alike, and so are workers: one stands for any.
AnyOf(S) == CHOOSE x \in S : TRUE

TakeBuffer ==
  /\ Copying /\ reader.pc = "free" /\ free # {}
  /\ LET b == AnyOf(free)
     IN  free' = free \ {b} /\ reader' = [reader EXCEPT !.pc = "read", !.buf = b]
  /\ UNCHANGED <<vars, worker, data, off, gerr, remote, bytes>>

\* io.ReadFull: a full buffer, a last one that may be short of a buffer, or the
\* end of a source of whole buffers.
ReadChunk ==
  /\ Copying /\ reader.pc = "read" /\ source = "open"
  /\ \/ /\ off < Chunks
        /\ data' = [data EXCEPT ![reader.buf] = off + 1]
        /\ \E end \in {"more"} \cup IF off + 1 = Chunks THEN {"eof"} ELSE {} :
             reader' = [reader EXCEPT !.pc = "send", !.end = end]
     \/ off = Chunks /\ reader' = ReaderExits /\ UNCHANGED data
  /\ UNCHANGED <<vars, worker, free, off, gerr, remote, bytes>>

\* The source fails, or was closed by its owner; what was read before the error
\* is still sent.
ReadFails ==
  /\ Copying /\ reader.pc = "read"
  /\ \/ reader' = ReaderExits /\ Returns("io") /\ UNCHANGED data
     \/ /\ off < Chunks
        /\ data' = [data EXCEPT ![reader.buf] = 0]
        /\ reader' = [reader EXCEPT !.pc = "send", !.end = "io"]
        /\ UNCHANGED gerr
  /\ UNCHANGED <<vars, worker, free, off, remote, bytes>>

\* The rendezvous on work, and what the reader does about the read's error.
Receivers == {w \in Slots : worker[w].pc = "receive"}

\* Mutant: the buffer is free as soon as a worker has it.
SendFreesBuffer ==
  /\ Copying /\ reader.pc = "send" /\ Receivers # {}
  /\ worker' = [worker EXCEPT ![AnyOf(Receivers)] = [pc |-> "write", buf |-> reader.buf, off |-> off + 1]]
  /\ off' = off + 1
  /\ free' = free \cup {reader.buf}
  /\ reader' = IF reader.end = "more" THEN NewReader ELSE ReaderExits
  /\ IF reader.end = "io" THEN Returns("io") ELSE UNCHANGED gerr
  /\ UNCHANGED <<vars, data, remote, bytes>>

\* Mutant: a chunk counts when it is handed over, as when the reader is wrapped.
SendCounts ==
  /\ Copying /\ reader.pc = "send" /\ Receivers # {}
  /\ worker' = [worker EXCEPT ![AnyOf(Receivers)] = [pc |-> "write", buf |-> reader.buf, off |-> off + 1]]
  /\ off' = off + 1 /\ bytes' = bytes + 1
  /\ reader' = IF reader.end = "more" THEN NewReader ELSE ReaderExits
  /\ IF reader.end = "io" THEN Returns("io") ELSE UNCHANGED gerr
  /\ UNCHANGED <<vars, free, data, remote>>

Send ==
  /\ Copying /\ reader.pc = "send" /\ Receivers # {}
  /\ worker' = [worker EXCEPT ![AnyOf(Receivers)] = [pc |-> "write", buf |-> reader.buf, off |-> off + 1]]
  /\ off' = off + 1
  /\ reader' = IF reader.end = "more" THEN NewReader ELSE ReaderExits
  /\ IF reader.end = "io" THEN Returns("io") ELSE UNCHANGED gerr
  /\ UNCHANGED <<vars, free, data, remote, bytes>>

\* ctx.Done in either select.
ReaderStops ==
  /\ Copying /\ reader.pc \in {"free", "send"} /\ CtxDone
  /\ reader' = ReaderExits
  /\ Returns(jctx)
  /\ UNCHANGED <<vars, worker, free, data, off, remote, bytes>>

-----------------------------------------------------------------------------
(* A worker.                                                               *)

\* dst.WriteAt returned nil.
WriteAt(w) ==
  /\ Copying /\ worker[w].pc = "write" /\ Answers
  /\ remote' = [remote EXCEPT ![worker[w].off] = data[worker[w].buf]]
  /\ worker' = [worker EXCEPT ![w].pc = "count"]
  /\ UNCHANGED <<vars, reader, free, data, off, gerr, bytes>>

WriteFails(w) ==
  /\ Copying /\ worker[w].pc = "write" /\ Fails
  /\ Returns("io")
  /\ worker' = WorkerExits(w)
  /\ UNCHANGED <<vars, reader, free, data, off, remote, bytes>>

\* job.add, then the buffer goes back; what it holds is of no use to anyone.
Count(w) ==
  /\ Copying /\ worker[w].pc = "count"
  /\ bytes' = bytes + 1
  /\ free' = free \cup {worker[w].buf}
  /\ data' = [data EXCEPT ![worker[w].buf] = 0]
  /\ worker' = [worker EXCEPT ![w] = NewWorker]
  /\ UNCHANGED <<vars, reader, off, gerr, remote>>

\* The reader has closed work, and range ends.
WorkClosed(w) ==
  /\ Copying /\ worker[w].pc = "receive" /\ reader.pc = "exited"
  /\ worker' = WorkerExits(w)
  /\ UNCHANGED <<vars, reader, free, data, off, gerr, remote, bytes>>

-----------------------------------------------------------------------------
\* g.Wait: all have returned, and what copyToRemote kept is gone.
Wait ==
  /\ Copying
  /\ reader.pc = "exited" /\ \A w \in Slots : worker[w].pc = "exited"
  /\ IF gerr = "none" THEN Goto("close") /\ UNCHANGED err ELSE Fail(gerr, "remove")
  /\ dest' = IF remote = Source THEN "whole" ELSE dest
  /\ reader' = NewReader /\ worker' = [w \in Slots |-> NewWorker]
  /\ free' = Slots /\ data' = [b \in Slots |-> 0]
  /\ off' = 0 /\ gerr' = "none" /\ remote' = Empty
  /\ UNCHANGED <<source, sftp, tmp, bytes>> /\ LeavesJob

Reads == TakeBuffer \/ ReadChunk \/ ReadFails \/ ReaderStops \/ Send
Works(w) == WriteAt(w) \/ WriteFails(w) \/ Count(w) \/ WorkClosed(w)

UploadNext ==
  \/ NextButCopy /\ UNCHANGED pipe
  \/ Reads \/ Wait
  \/ \E w \in Slots : Works(w)

\* The goroutines run; a connection that is not up is noticed by c.Wait or by
\* the keepalive, whose probe is bounded, while the pool's context is not done;
\* once it is, RunLoop notices.  Both wait in the loop's select, which picks any
\* of the cases that are ready, so that they are served although users send
\* requests forever (strong fairness).  What users, the end of the pool's context
\* and the network do is not assumed, and nothing is assumed of closer.Close on a
\* stalled connection.  A read of the source returns.
Fairness ==
  /\ WF_uvars(TransferButCopy /\ UNCHANGED pipe)
  /\ WF_uvars(Reads) /\ WF_uvars(Wait)
  /\ \A w \in Slots : WF_uvars(Works(w))
  /\ WF_uvars((Abort \/ AbortCancels \/ CloseConnection) /\ UNCHANGED pipe)
  /\ SF_uvars(~ended /\ WatcherDrops /\ UNCHANGED pipe)
  /\ SF_uvars(Shutdown /\ UNCHANGED pipe)
  /\ WF_uvars(link # "stalled" /\ CloserCloses /\ UNCHANGED pipe)
UploadSpec == UploadInit /\ [][UploadNext]_uvars /\ Fairness

-----------------------------------------------------------------------------
(* Properties.                                                             *)

\* The remote file while the copy runs.
DestBar == IF Copying /\ remote = Source THEN "whole" ELSE dest
Job == INSTANCE TransferJob WITH dest <- DestBar

\* The pipelined copy is the copy of TransferJob: it returns nil only when every
\* chunk lies at its offset, although buffers are used again while others are in
\* flight; and otherwise the first error, when no writer is left that could
\* still write behind the removal of the file.
ImplementsJob == Job!Spec

\* The count a caller reads never runs ahead of what the server acknowledged
\* (the reason copyToRemote exists), and a completed upload counted all of it.
CountsAcknowledged ==
  /\ Copying => bytes <= Cardinality({k \in 1..Chunks : remote[k] # Absent})
  /\ IsUpload /\ status = "completed" /\ ~aborted => bytes = Chunks

\* The copy never waits for itself: a reader that waits for a buffer or for a
\* worker has one, or its context is done, or a worker is at a write or about to
\* return its buffer.  So no buffer is lost on any path but an error's, and no
\* worker leaves before the reader without ending the context.
PipelineMoves ==
  /\ Copying /\ reader.pc = "free" => free # {} \/ CtxDone \/ \E w \in Slots : worker[w].pc \in {"write", "count"}
  /\ Copying /\ reader.pc = "send" => Receivers # {} \/ CtxDone \/ \E w \in Slots : worker[w].pc \in {"write", "count"}
=============================================================================
