--------------------------- MODULE BlobStoreProofs ---------------------------
(***************************************************************************)
(* Theorems about BlobStore, for any objects, attachments, readers and     *)
(* number of restarts: what a reference leads to, that no file is left     *)
(* without an owner, and that attached files are not the store's to remove.*)
(***************************************************************************)
EXTENDS BlobStore, TLAPS

\* Which file a call of Put has at each of its steps, and that only Put writes.
PutShape ==
  /\ \A i \in Ids : put[i] = "write" => i \in Stored /\ file[i] = "partial"
  /\ \A i \in Stored : put[i] = "index" => file[i] = "whole"
  /\ \A i \in Stored : put[i] = "idle" => file[i] = "none"
  /\ \A i \in Ids : put[i] = "done" => file[i] # "partial"
  /\ \A i \in Attached : file[i] # "partial"

\* What is in the index or on its way out of it was put there by a call that is
\* over, and an entry that left does not come back.
EntryShape ==
  /\ \A i \in Indexed \cup discards : put[i] = "done"
  /\ Indexed \cap discards = {}

\* A reader past its lookup has the ID of such an entry.
ReaderShape == \A r \in Readers : read[r].pc = "open" => put[read[r].id] = "done"

IInv == TypeOK /\ PutShape /\ EntryShape /\ ReaderShape /\ ServesWhole /\ NoStrayFile

\* A store that was just made has none of either.
LEMMA InitIInv == Init => IInv
<1> SUFFICES ASSUME Init PROVE IInv
  OBVIOUS
<1> USE BlobAssumption DEF Ids
<1>1. read \in [Readers -> {Idle}]
  BY DEF Init
<1>2. TypeOK
  BY <1>1 DEF Init, TypeOK
<1>3. PutShape /\ NoStrayFile
  BY DEF Init, PutShape, NoStrayFile
<1>4. Indexed = {} /\ discards = {}
  BY DEF Init, Indexed
<1>5. \A r \in Readers : read[r].pc = "idle" /\ read[r].bytes = "none"
  BY <1>1 DEF Idle
<1>6. EntryShape /\ ReaderShape /\ ServesWhole
  BY <1>4, <1>5 DEF EntryShape, ReaderShape, ServesWhole
<1>7. QED
  BY <1>2, <1>3, <1>6 DEF IInv

\* Every step keeps the types.
LEMMA NextType == ASSUME TypeOK, PutShape, [Next]_vars PROVE TypeOK'
<1> USE BlobAssumption DEF Ids
<1>1. CASE UNCHANGED vars
  BY <1>1 DEF TypeOK, vars
<1>2. ASSUME NEW i \in Ids, Refuse(i) \/ PutCreates(i) \/ PutFails(i) \/ PutWrites(i) \/ AttachStats(i)
      PROVE  TypeOK'
  BY <1>2 DEF TypeOK, PutShape, Refuse, PutCreates, PutFails, PutWrites, AttachStats, Set
<1>3. ASSUME NEW i \in Ids, Index(i) PROVE TypeOK'
  BY <1>3 DEF TypeOK, Index, Set
<1>4. ASSUME NEW i \in Ids, OwnerRemoves(i) \/ Delete(i) \/ Remove(i) PROVE TypeOK'
  BY <1>4 DEF TypeOK, OwnerRemoves, Delete, Remove, Discard, Drop, Set
<1>5. ASSUME NEW i \in Ids, NEW r \in Readers, Lookup(r, i) PROVE TypeOK'
  BY <1>5 DEF TypeOK, Lookup, Drop, Set
<1>6. ASSUME NEW r \in Readers, Serve(r) PROVE TypeOK'
  <2>1. read[r] \in [pc : {"open", "done"}, id : Ids, bytes : {"none", "partial", "whole"}]
    BY <1>6 DEF TypeOK, Serve, Idle
  <2>2. /\ read' = [read EXCEPT ![r] = [read[r] EXCEPT !.pc = "done", !.bytes = file[read[r].id]]]
        /\ file[read[r].id] \in {"none", "partial", "whole"}
    BY <1>6, <2>1 DEF TypeOK, Serve
  <2>3. [read[r] EXCEPT !.pc = "done", !.bytes = file[read[r].id]]
          \in [pc : {"open", "done"}, id : Ids, bytes : {"none", "partial", "whole"}]
    BY <2>1, <2>2
  <2>4. read' \in [Readers -> {Idle} \cup [pc : {"open", "done"}, id : Ids, bytes : {"none", "partial", "whole"}]]
    BY <2>2, <2>3 DEF TypeOK
  <2>5. QED
    BY <1>6, <2>4 DEF TypeOK, Serve
<1>7. CASE Tick \/ SweepReadsClock \/ Sweep \/ Purge
  BY <1>7 DEF TypeOK, Tick, SweepReadsClock, Sweep, Purge, Drop, Indexed, Expired
<1>8. CASE Restart
  BY <1>8 DEF TypeOK, Restart, Drop
<1>9. QED
  BY <1>1, <1>2, <1>3, <1>4, <1>5, <1>6, <1>7, <1>8 DEF Next

\* Every step keeps the rest.
LEMMA NextIInv == ASSUME IInv, [Next]_vars PROVE IInv'
<1> USE BlobAssumption DEF Ids
<1> DEFINE Rest == PutShape /\ EntryShape /\ ReaderShape /\ ServesWhole /\ NoStrayFile
<1> SUFFICES Rest'
  BY NextType DEF IInv
<1>a. TypeOK /\ PutShape /\ EntryShape /\ ReaderShape /\ ServesWhole /\ NoStrayFile
  BY DEF IInv
<1>1. CASE UNCHANGED vars
  BY <1>a, <1>1 DEF vars, PutShape, EntryShape, ReaderShape, ServesWhole, NoStrayFile, Indexed
<1>2. ASSUME NEW i \in Ids, Refuse(i) \/ PutCreates(i) \/ PutFails(i) \/ PutWrites(i) \/ AttachStats(i)
      PROVE  Rest'
  <2>1. /\ UNCHANGED <<expires, discards, read>> /\ put[i] \in {"idle", "write"}
        /\ put' = [put EXCEPT ![i] = put'[i]] /\ put'[i] \in {"write", "index", "failed"}
        /\ file' = [file EXCEPT ![i] = file'[i]] /\ undead \subseteq undead'
    BY <1>a, <1>2 DEF TypeOK, Refuse, PutCreates, PutFails, PutWrites, AttachStats, Set
  <2>2. PutShape'
    BY <1>a, <1>2 DEF TypeOK, PutShape, Refuse, PutCreates, PutFails, PutWrites, AttachStats, Set
  <2>3. EntryShape' /\ ReaderShape' /\ ServesWhole'
    BY <1>a, <2>1 DEF TypeOK, EntryShape, ReaderShape, ServesWhole, Indexed, Idle
  <2>4. NoStrayFile'
    BY <1>a, <1>2 DEF TypeOK, PutShape, NoStrayFile, Refuse, PutCreates, PutFails, PutWrites,
       AttachStats, Set, Indexed
  <2>5. QED
    BY <2>2, <2>3, <2>4
<1>3. ASSUME NEW i \in Ids, Index(i) PROVE Rest'
  <2>1. PICK e \in now..(MaxTime + 1) : expires' = [expires EXCEPT ![i] = e]
    BY <1>3 DEF Index, Set
  <2>2. Indexed' = Indexed \cup {i}
    BY <1>a, <2>1 DEF TypeOK, Indexed
  <2>3. put' = [put EXCEPT ![i] = "done"] /\ put[i] = "index" /\ UNCHANGED <<file, discards, read, undead>>
    BY <1>3 DEF Index, Set
  <2>4. PutShape'
    BY <1>a, <2>3 DEF TypeOK, PutShape
  <2>5. EntryShape' /\ ReaderShape'
    BY <1>a, <2>2, <2>3 DEF TypeOK, EntryShape, ReaderShape, Idle
  <2>6. ServesWhole' /\ NoStrayFile'
    BY <1>a, <2>2, <2>3 DEF TypeOK, PutShape, ServesWhole, NoStrayFile
  <2>7. QED
    BY <2>4, <2>5, <2>6
<1>b. ASSUME NEW S, Drop(S) PROVE Indexed' = Indexed \ S
  BY <1>b DEF Drop, Indexed
<1>4. ASSUME NEW S, S \subseteq Indexed, Indexed' = Indexed \ S, discards' = discards \cup S,
             UNCHANGED <<put, file, undead, read>>
      PROVE  Rest'
  BY <1>a, <1>4 DEF PutShape, EntryShape, ReaderShape, ServesWhole, NoStrayFile
<1>5. ASSUME NEW i \in Ids, Delete(i) PROVE Rest'
  <2>1. Indexed' = Indexed \ {i}
    BY <1>b, <1>5 DEF Delete
  <2>2. QED
    BY <1>4, <1>5, <2>1 DEF Delete
<1>6. ASSUME NEW i \in Ids, OwnerRemoves(i) \/ Remove(i) PROVE Rest'
  <2>1. UNCHANGED <<expires, put, read>> /\ discards' \subseteq discards
    BY <1>6 DEF OwnerRemoves, Remove
  <2>2. PutShape' /\ EntryShape' /\ ReaderShape'
    BY <1>a, <1>6, <2>1 DEF TypeOK, PutShape, EntryShape, ReaderShape, OwnerRemoves, Remove,
       Discard, Set, Indexed
  <2>3. ServesWhole' /\ NoStrayFile'
    BY <1>a, <1>6, <2>1 DEF TypeOK, PutShape, EntryShape, ServesWhole, NoStrayFile, OwnerRemoves,
       Remove, Discard, Set, Indexed
  <2>4. QED
    BY <2>2, <2>3
<1>7. ASSUME NEW i \in Ids, NEW r \in Readers, Lookup(r, i) PROVE Rest'
  <2>1. CASE Expired(i, now) /\ Drop({i}) /\ discards' = discards \cup {i} /\ UNCHANGED read
    <3>1. {i} \subseteq Indexed
      BY <2>1 DEF Expired, Indexed
    <3>2. Indexed' = Indexed \ {i}
      BY <1>b, <2>1
    <3>3. QED
      BY <1>4, <1>7, <2>1, <3>1, <3>2 DEF Lookup
  <2>2. CASE /\ i \in Indexed /\ UNCHANGED <<expires, discards>>
             /\ read' = Set(read, r, [pc |-> "open", id |-> i, bytes |-> "none"])
    <3>1. Indexed' = Indexed /\ UNCHANGED <<put, file, undead>>
      BY <1>7, <2>2 DEF Lookup, Indexed
    <3>2. \A q \in Readers : \/ read'[q] = read[q]
                             \/ read'[q].bytes = "none" /\ read'[q].id = i
      BY <1>a, <2>2 DEF TypeOK, Set
    <3>3. QED
      BY <1>a, <2>2, <3>1, <3>2 DEF PutShape, EntryShape, ReaderShape, ServesWhole, NoStrayFile
  <2>3. QED
    BY <1>7, <2>1, <2>2 DEF Lookup
<1>8. ASSUME NEW r \in Readers, Serve(r) PROVE Rest'
  <2>1. read[r].pc = "open" /\ read[r].id \in Ids /\ file[read[r].id] # "partial"
    BY <1>a, <1>8 DEF TypeOK, Serve, Idle, PutShape, ReaderShape
  <2>a. read[r] \in [pc : {"open", "done"}, id : Ids, bytes : {"none", "partial", "whole"}]
    BY <1>a, <2>1 DEF TypeOK, Idle
  <2>b. read' = [read EXCEPT ![r] = [read[r] EXCEPT !.pc = "done", !.bytes = file[read[r].id]]]
    BY <1>8 DEF Serve
  <2>2. \A q \in Readers : \/ read'[q] = read[q]
                           \/ read'[q].pc = "done" /\ read'[q].bytes # "partial"
    BY <1>a, <2>1, <2>a, <2>b DEF TypeOK
  <2>3. Indexed' = Indexed /\ UNCHANGED <<put, file, discards, undead>>
    BY <1>8 DEF Serve, Indexed
  <2>4. QED
    BY <1>a, <2>2, <2>3 DEF PutShape, EntryShape, ReaderShape, ServesWhole, NoStrayFile
<1>9. CASE Tick \/ SweepReadsClock
  BY <1>a, <1>9 DEF Tick, SweepReadsClock, PutShape, EntryShape, ReaderShape, ServesWhole,
     NoStrayFile, Indexed
<1>10. CASE Sweep
  <2>1. {i \in Ids : Expired(i, swept)} \subseteq Indexed
    BY DEF Expired, Indexed
  <2>2. Indexed' = Indexed \ {i \in Ids : Expired(i, swept)}
    BY <1>b, <1>10 DEF Sweep
  <2>3. QED
    BY <1>4, <1>10, <2>1, <2>2 DEF Sweep
<1>11. CASE Purge
  <2>1. Indexed' = Indexed \ Ids /\ Indexed \subseteq Ids
    BY <1>b, <1>11 DEF Purge, Indexed
  <2>2. Indexed' = Indexed \ Indexed
    BY <2>1
  <2>3. QED
    BY <1>4, <1>11, <2>2 DEF Purge
<1>12. CASE Restart
  <2>1. Indexed' = {} /\ discards' = {}
    BY <1>12 DEF Restart, Drop, Indexed
  <2>2. PutShape'
    BY <1>a, <1>12 DEF TypeOK, PutShape, Restart
  <2>3. EntryShape' /\ ReaderShape' /\ ServesWhole'
    BY <1>12, <2>1 DEF EntryShape, ReaderShape, ServesWhole, Restart, Idle
  <2>4. NoStrayFile'
    BY <1>a, <1>12 DEF TypeOK, NoStrayFile, Restart
  <2>5. QED
    BY <2>2, <2>3, <2>4
<1>13. QED
  BY <1>1, <1>2, <1>3, <1>5, <1>6, <1>7, <1>8, <1>9, <1>10, <1>11, <1>12 DEF Next

\* The invariant holds throughout.
LEMMA SpecIInv == Spec => []IInv
  BY InitIInv, NextIInv, PTL DEF Spec

\* A reference leads to whole bytes or to nothing, whatever puts, deletions,
\* sweeps, reads and restarts interleave.
THEOREM ReferencesAreWhole == Spec => [](TypeOK /\ ServesWhole)
<1>1. IInv => TypeOK /\ ServesWhole
  BY DEF IInv
<1>2. QED
  BY SpecIInv, <1>1, PTL

\* Every object file has an owner: Put, the index, or a removal under way.
THEOREM FilesHaveOwners == Spec => []NoStrayFile
<1>1. IInv => NoStrayFile
  BY DEF IInv
<1>2. QED
  BY SpecIInv, <1>1, PTL

\* No step of the store removes an attached file.
THEOREM AttachedFilesStay == Spec => AttachedStay
<1>1. ASSUME IInv, [Next]_vars
      PROVE  [\A i \in Attached : file'[i] = file[i] \/ OwnerRemoves(i)]_vars
  <2> USE BlobAssumption DEF Ids
  <2> SUFFICES ASSUME NEW a \in Attached, Next, file'[a] # file[a] PROVE OwnerRemoves(a)
    BY <1>1
  <2>0. TypeOK /\ PutShape
    BY <1>1 DEF IInv
  <2>1. ASSUME NEW i \in Ids, PutCreates(i) \/ PutFails(i) \/ PutWrites(i) PROVE FALSE
    BY <2>0, <2>1 DEF TypeOK, PutShape, PutCreates, PutFails, PutWrites, Set
  <2>2. ASSUME NEW i \in Ids, Refuse(i) \/ AttachStats(i) \/ Index(i) \/ Delete(i) PROVE FALSE
    BY <2>2 DEF Refuse, AttachStats, Index, Delete
  <2>3. ASSUME NEW i \in Ids, OwnerRemoves(i) PROVE OwnerRemoves(a)
    <3>1. i = a
      BY <2>0, <2>3 DEF TypeOK, OwnerRemoves, Set
    <3>2. QED
      BY <2>3, <3>1
  <2>4. ASSUME NEW i \in Ids, Remove(i) PROVE FALSE
    BY <2>0, <2>4 DEF TypeOK, Remove, Discard, Set
  <2>5. ASSUME NEW r \in Readers, Serve(r) \/ (\E i \in Ids : Lookup(r, i)) PROVE FALSE
    BY <2>5 DEF Serve, Lookup
  <2>6. CASE Tick \/ SweepReadsClock \/ Sweep \/ Purge
    BY <2>6 DEF Tick, SweepReadsClock, Sweep, Purge
  <2>7. CASE Restart
    BY <2>0, <2>7 DEF TypeOK, Restart
  <2>8. QED
    BY <2>1, <2>2, <2>3, <2>4, <2>5, <2>6, <2>7 DEF Next
<1>2. QED
  BY SpecIInv, <1>1, PTL DEF Spec, AttachedStay
=============================================================================
