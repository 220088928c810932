------------------------------ MODULE BlobStore ------------------------------
(***************************************************************************)
(* The HTTP blob store: blob/http.go and serve.go.                         *)
(*                                                                         *)
(* Put writes a file and then indexes it, Attach indexes a file the store  *)
(* does not own.  Delete, an expired lookup, the sweep and the final purge *)
(* each take entries out of the index under the lock and remove the files  *)
(* after it; a reader looks an entry up under the lock and opens the file  *)
(* after it.  Every reference has an ID of its own (NewID is random), so   *)
(* an ID stands for the one call that makes it.                            *)
(***************************************************************************)
EXTENDS Naturals

CONSTANTS
  Stored,    \* IDs given by Put
  Attached,  \* IDs given by Attach, each with the caller's file
  Readers,   \* calls of Open and of ServeHTTP
  MaxTime,   \* bound: the clock, in multiples of the shortest lifetime
  MaxRuns,   \* bound: processes, one after the other
  None

Ids == Stored \cup Attached

ASSUME BlobAssumption ==
  /\ Stored \cap Attached = {} /\ None \notin Ids \cup Nat
  /\ MaxTime \in Nat \ {0} /\ MaxRuns \in Nat \ {0}

VARIABLES
  now,       \* the clock
  runs,      \* processes started so far
  run,       \* HTTP.Run: "running", or "returned" after its purge
  expires,   \* HTTP.objects: ExpiresAt of each entry, or None
  put,       \* Put and Attach
  file,      \* the object file, or the caller's file of an attachment
  discards,  \* entries taken out of the index whose files are still to remove
  swept,     \* the clock as the sweep read it, before it takes the lock
  read,      \* a reader: where it is, which ID it looked up and what it serves
  \* History, read by properties only.
  undead     \* files that could not be removed

vars == <<now, runs, run, expires, put, file, discards, swept, read, undead>>

Idle == [pc |-> "idle", id |-> None, bytes |-> "none"]

\* The type of every variable.
TypeOK ==
  /\ now \in 0..MaxTime /\ runs \in 1..MaxRuns
  /\ run \in {"running", "returned"}
  /\ expires \in [Ids -> 0..(MaxTime + 1) \cup {None}]
  /\ put \in [Ids -> {"idle", "write", "index", "done", "failed"}]
  /\ file \in [Ids -> {"none", "partial", "whole"}]
  /\ discards \subseteq Ids
  /\ swept \in 0..MaxTime \cup {None}
  /\ read \in [Readers -> {Idle} \cup [pc : {"open", "done"}, id : Ids, bytes : {"none", "partial", "whole"}]]
  /\ undead \subseteq Stored

Init ==
  /\ now = 0 /\ runs = 1 /\ run = "running"
  /\ expires = [i \in Ids |-> None] /\ put = [i \in Ids |-> "idle"]
  /\ file = [i \in Ids |-> IF i \in Attached THEN "whole" ELSE "none"]
  /\ discards = {} /\ swept = None
  /\ read = [r \in Readers |-> Idle] /\ undead = {}

Set(f, x, v) == [f EXCEPT ![x] = v]
Indexed == {i \in Ids : expires[i] # None}
\* !now.Before(ExpiresAt).
Expired(i, t) == expires[i] # None /\ t >= expires[i]
Drop(S) == expires' = [i \in Ids |-> IF i \in S THEN None ELSE expires[i]]

Tick ==
  /\ now < MaxTime /\ now' = now + 1
  /\ UNCHANGED <<runs, run, expires, put, file, discards, swept, read, undead>>

-----------------------------------------------------------------------------
(* Put and Attach.                                                         *)

\* A size over the limit, a context that is done, a file that is not there or
\* cannot be created: the call fails before it has done anything.
Refuse(i) ==
  /\ put[i] = "idle" /\ put' = Set(put, i, "failed")
  /\ UNCHANGED <<now, runs, run, expires, file, discards, swept, read, undead>>

\* write: the file is created.
PutCreates(i) ==
  /\ i \in Stored /\ put[i] = "idle"
  /\ file' = Set(file, i, "partial") /\ put' = Set(put, i, "write")
  /\ UNCHANGED <<now, runs, run, expires, discards, swept, read, undead>>

\* Mutant: the part that was written is left where it is.
PutFailsLeaving(i) ==
  /\ put[i] = "write" /\ put' = Set(put, i, "failed")
  /\ UNCHANGED <<now, runs, run, expires, file, discards, swept, read, undead>>

\* The copy or the close fails, or there is more than maxSize.
PutFails(i) ==
  /\ put[i] = "write" /\ put' = Set(put, i, "failed")
  /\ \/ file' = Set(file, i, "none") /\ UNCHANGED undead
     \/ undead' = undead \cup {i} /\ UNCHANGED file
  /\ UNCHANGED <<now, runs, run, expires, discards, swept, read>>

\* Mutant: indexed while it is written.
PutWritesIndexed(i) ==
  /\ put[i] = "write"
  /\ put' = Set(put, i, "index")
  /\ expires' = Set(expires, i, now + 1)
  /\ UNCHANGED <<now, runs, run, file, discards, swept, read, undead>>

PutWrites(i) ==
  /\ put[i] = "write"
  /\ file' = Set(file, i, "whole") /\ put' = Set(put, i, "index")
  /\ UNCHANGED <<now, runs, run, expires, discards, swept, read, undead>>

\* describe and the entry: the lifetime is the caller's or the store's, and
\* runs from the clock read in describe, before the lock.
Index(i) ==
  /\ put[i] = "index"
  /\ \E e \in now..(MaxTime + 1) : expires' = Set(expires, i, e)
  /\ put' = Set(put, i, "done")
  /\ UNCHANGED <<now, runs, run, file, discards, swept, read, undead>>

\* Attach: the file is there, is a regular file and is not too large.
AttachStats(i) ==
  /\ i \in Attached /\ put[i] = "idle" /\ file[i] = "whole"
  /\ put' = Set(put, i, "index")
  /\ UNCHANGED <<now, runs, run, expires, file, discards, swept, read, undead>>

\* The owner of an attached file removes it.
OwnerRemoves(i) ==
  /\ i \in Attached /\ file[i] = "whole"
  /\ file' = Set(file, i, "none")
  /\ UNCHANGED <<now, runs, run, expires, put, discards, swept, read, undead>>

-----------------------------------------------------------------------------
(* What takes entries out of the index.                                    *)

Delete(i) ==
  /\ i \in Indexed
  /\ Drop({i}) /\ discards' = discards \cup {i}
  /\ UNCHANGED <<now, runs, run, put, file, swept, read, undead>>

SweepReadsClock ==
  /\ run = "running" /\ swept = None
  /\ swept' = now
  /\ UNCHANGED <<now, runs, run, expires, put, file, discards, read, undead>>

\* Mutant: the entries are dropped, and what was behind them is forgotten.
SweepForgets ==
  /\ run = "running" /\ swept # None
  /\ LET S == {i \in Ids : Expired(i, swept)}
     IN  Drop(S) /\ UNCHANGED discards
  /\ swept' = None
  /\ UNCHANGED <<now, runs, run, put, file, read, undead>>

Sweep ==
  /\ run = "running" /\ swept # None
  /\ LET S == {i \in Ids : Expired(i, swept)}
     IN  Drop(S) /\ discards' = discards \cup S
  /\ swept' = None
  /\ UNCHANGED <<now, runs, run, put, file, read, undead>>

\* The context of Run is done: purge, and return.
Purge ==
  /\ run = "running" /\ swept = None
  /\ run' = "returned"
  /\ Drop(Ids) /\ discards' = discards \cup Indexed
  /\ UNCHANGED <<now, runs, put, file, swept, read, undead>>

\* Mutant: what is attached is removed as well.
DiscardOwned(i) == file' = Set(file, i, "none") /\ UNCHANGED undead

\* discard: bytes the store does not own stay; a removal that fails is logged.
Discard(i) ==
  \/ i \in Attached /\ UNCHANGED <<file, undead>>
  \/ i \in Stored /\ file' = Set(file, i, "none") /\ UNCHANGED undead
  \/ i \in Stored /\ undead' = undead \cup {i} /\ UNCHANGED file

Remove(i) ==
  /\ i \in discards /\ discards' = discards \ {i}
  /\ Discard(i)
  /\ UNCHANGED <<now, runs, run, expires, put, swept, read>>

-----------------------------------------------------------------------------
(* Open and ServeHTTP.                                                     *)

\* lookup: an expired entry is dropped on the way.
Lookup(r, i) ==
  /\ read[r].pc \in {"idle", "done"}
  /\ \/ /\ i \in Indexed /\ ~Expired(i, now)
        /\ read' = Set(read, r, [pc |-> "open", id |-> i, bytes |-> "none"])
        /\ UNCHANGED <<expires, discards>>
     \/ /\ Expired(i, now)
        /\ Drop({i}) /\ discards' = discards \cup {i}
        /\ UNCHANGED read
  /\ UNCHANGED <<now, runs, run, put, file, swept, undead>>

\* The file is opened, and once open stays readable; or it is gone: not found.
Serve(r) ==
  /\ read[r].pc = "open"
  /\ read' = [read EXCEPT ![r].pc = "done", ![r].bytes = file[read[r].id]]
  /\ UNCHANGED <<now, runs, run, expires, put, file, discards, swept, undead>>

-----------------------------------------------------------------------------
(* The process ends, in order or not, and the next one starts (NewHTTP):   *)
(* the index is gone, and the object directory is cleared if it can be.    *)

Restart ==
  /\ runs < MaxRuns
  /\ runs' = runs + 1 /\ run' = "running"
  /\ Drop(Ids)
  /\ put' = [i \in Ids |-> IF put[i] \in {"write", "index"} THEN "failed" ELSE put[i]]
  /\ \/ file' = [i \in Ids |-> IF i \in Stored THEN "none" ELSE file[i]] /\ undead' = {}
     \/ undead' = undead \cup {i \in Stored : file[i] # "none"} /\ UNCHANGED file
  /\ discards' = {} /\ swept' = None
  /\ read' = [r \in Readers |-> Idle]
  /\ UNCHANGED now

-----------------------------------------------------------------------------
Next ==
  \/ \E i \in Ids :
       \/ Refuse(i) \/ PutCreates(i) \/ PutFails(i) \/ PutWrites(i) \/ AttachStats(i) \/ Index(i)
       \/ OwnerRemoves(i) \/ Delete(i) \/ Remove(i)
       \/ \E r \in Readers : Lookup(r, i)
  \/ \E r \in Readers : Serve(r)
  \/ Tick \/ SweepReadsClock \/ Sweep \/ Purge \/ Restart

Spec == Init /\ [][Next]_vars

\* Goroutines run, the clock and the ticker of Run go on while the bound lasts.
Fairness ==
  /\ WF_vars(Tick) /\ SF_vars(SweepReadsClock) /\ WF_vars(Sweep)
  /\ \A i \in Ids :
       /\ WF_vars(PutFails(i) \/ PutWrites(i)) /\ WF_vars(Index(i)) /\ WF_vars(Remove(i))
FairSpec == Spec /\ Fairness

-----------------------------------------------------------------------------
(* Properties.                                                             *)

\* A reference in the index leads to all of its bytes, and a reader that found
\* it gets them or nothing, however it races with the sweep, a Delete, the
\* purge or the Put itself.
ServesWhole ==
  /\ \A i \in Indexed \cap Stored : file[i] = "whole"
  /\ \A r \in Readers : read[r].bytes # "partial"

\* No object file is left without an owner: it is being written, is indexed, or
\* is about to be removed, unless a removal failed.
NoStrayFile ==
  \A i \in Stored : file[i] # "none" =>
    \/ put[i] \in {"write", "index"} \/ i \in Indexed \/ i \in discards \/ i \in undead

\* The store never removes a file it was only shown: an attached file goes
\* when its owner removes it and not otherwise.
AttachedStay == [][\A i \in Attached : file'[i] = file[i] \/ OwnerRemoves(i)]_vars

\* An object past its lifetime leaves the disk in the end, whether or not
\* anyone asks for it, while Run is running.
ExpiredLeaves ==
  \A i \in Stored : Expired(i, now) ~> (file[i] = "none" \/ i \in undead \/ run = "returned")
=============================================================================
