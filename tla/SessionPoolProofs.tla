-------------------------- MODULE SessionPoolProofs --------------------------
(***************************************************************************)
(* Theorems about SessionPool, for any numbers of IDs, connections,        *)
(* commands, pings and savers: no connection is lost, no healthy session   *)
(* is dropped, an ended command leaves what it should.                     *)
(*                                                                         *)
(* NoOrphan alone is not inductive.  That closing or overwriting an entry  *)
(* of the map touches one connection only needs the map to agree with the  *)
(* IDs (MapAgrees), and that a dial goroutine which has given its result   *)
(* away holds nothing needs to know what it holds at each of its steps     *)
(* (DialHolds).                                                            *)
(***************************************************************************)
EXTENDS SessionPool, TLAPS

\* The part of the type invariant the proof reads.
CoreType ==
  /\ sessions \in [Ids -> Clients \cup {None}]
  /\ dial \in [Clients -> {"idle", "dialing", "forwards", "deliver", "refuse", "done"}]
  /\ conn \in [Clients -> {"none", "up", "stalled", "lost", "closed"}]
  /\ fwd \in [Clients -> {"none", "open", "closed"}]
  /\ id \in [Clients -> Ids \cup {None}]

MapAgrees ==
  \A i \in Ids : sessions[i] # None => id[sessions[i]] = i /\ dial[sessions[i]] = "done"

DialHolds ==
  \A c \in Clients :
    /\ dial[c] \in {"idle", "dialing"} => conn[c] = "none"
    /\ dial[c] \in {"idle", "dialing", "forwards"} => fwd[c] = "none"
    /\ dial[c] = "refuse" => conn[c] \in {"none", "closed"} /\ fwd[c] # "open"
    /\ dial[c] # "done" => id[c] = None

PoolInv == CoreType /\ MapAgrees /\ DialHolds /\ NoOrphan

\* What goes by ID has one: every watcher and every ping past its Get.
DropsKnown ==
  /\ watcher \in [Clients -> {"none", "watching", "drop", "notify", "done"}]
  /\ ping \in [Pings -> {NoPing} \cup
       [pc : {"probe", "drop", "notify", "done"}, id : Ids, client : Clients]]
  /\ \A c \in Clients : watcher[c] # "none" => id[c] \in Ids

core == <<loop, sessions, dial, conn, fwd, id>>

\* PoolInv reads nothing but core.
LEMMA PoolInvReadsCore == PoolInv /\ UNCHANGED core => PoolInv'
  BY DEF PoolInv, CoreType, MapAgrees, DialHolds, NoOrphan, core

\* handleClose, for whatever cause and by whatever ID.
LEMMA CloseKeeps ==
  ASSUME NEW i \in Ids, NEW cause, PoolInv, HandleClose(i, cause), UNCHANGED <<loop, dial, id>>
  PROVE  PoolInv'
<1>1. CASE sessions[i] = None
  BY <1>1, PoolInvReadsCore DEF HandleClose, core
<1>2. CASE sessions[i] # None
  <2> DEFINE c == sessions[i]
  <2>1. c \in Clients /\ id[c] = i /\ dial[c] = "done"
    BY <1>2 DEF PoolInv, CoreType, MapAgrees
  <2>2. /\ sessions' = [sessions EXCEPT ![i] = None]
        /\ conn' = [conn EXCEPT ![c] = "closed"] /\ fwd' = [fwd EXCEPT ![c] = "closed"]
    BY <1>2 DEF HandleClose, Set
  <2> HIDE DEF c
  <2>3. CoreType'
    BY <2>1, <2>2 DEF PoolInv, CoreType
  <2>4. MapAgrees'
    BY <2>2 DEF PoolInv, CoreType, MapAgrees
  <2>5. DialHolds'
    BY <2>1, <2>2 DEF PoolInv, CoreType, DialHolds
  <2>6. NoOrphan'
    <3> SUFFICES ASSUME NEW d \in Clients, d # c
                 PROVE  \/ conn[d] \in {"none", "closed"} /\ fwd[d] # "open"
                        \/ dial[d] \in {"forwards", "deliver"}
                        \/ loop = "running" /\ id[d] # None /\ sessions'[id[d]] = d
      BY <2>1, <2>2 DEF PoolInv, CoreType, NoOrphan
    <3>1. id[d] # None /\ sessions[id[d]] = d => id[d] # i
      BY DEF c
    <3>2. id[d] # None => sessions'[id[d]] = IF id[d] = i THEN None ELSE sessions[id[d]]
      BY <2>2 DEF PoolInv, CoreType
    <3> QED  BY <3>1, <3>2 DEF PoolInv, NoOrphan
  <2> QED  BY <2>3, <2>4, <2>5, <2>6 DEF PoolInv
<1> QED  BY <1>1, <1>2

\* Open: each step of the dial goroutine and the handlers that answer it.
LEMMA OpeningKeeps == ASSUME NEW c \in Clients, PoolInv, Opening(c) PROVE PoolInv'
<1>1. CASE HandleOpen(c)
  BY <1>1 DEF HandleOpen, Set, loopVars, PoolInv, CoreType, MapAgrees, DialHolds, NoOrphan
<1>2. CASE OpenerLeaves(c)
  BY <1>2, PoolInvReadsCore DEF OpenerLeaves, loopVars, core
<1>3. CASE Dial(c)
  BY <1>3 DEF Dial, Set, loopVars, PoolInv, CoreType, MapAgrees, DialHolds, NoOrphan
<1>4. CASE StartForwards(c)
  BY <1>4 DEF StartForwards, Set, loopVars, PoolInv, CoreType, MapAgrees, DialHolds, NoOrphan
<1>5. CASE DialAbandons(c)
  <2>1. CoreType' /\ MapAgrees' /\ DialHolds'
    BY <1>5 DEF DialAbandons, Set, loopVars, PoolInv, CoreType, MapAgrees, DialHolds
  <2>2. conn'[c] \in {"none", "closed"} /\ fwd'[c] # "open"
    BY <1>5 DEF DialAbandons, Set, PoolInv, CoreType
  <2>3. NoOrphan'
    BY <1>5, <2>2 DEF DialAbandons, Set, loopVars, PoolInv, CoreType, NoOrphan
  <2> QED  BY <2>1, <2>3 DEF PoolInv
<1>6. CASE HandleDialError(c)
  <2>1. CoreType' /\ MapAgrees' /\ DialHolds'
    BY <1>6 DEF HandleDialError, Set, loopVars, PoolInv, CoreType, MapAgrees, DialHolds
  <2>2. NoOrphan'
    BY <1>6 DEF HandleDialError, Set, loopVars, PoolInv, CoreType, DialHolds, NoOrphan
  <2> QED  BY <2>1, <2>2 DEF PoolInv
<1>7. CASE HandleDialResult(c)
  <2>1. PICK i \in Ids : /\ sessions[i] = None
                         /\ sessions' = [sessions EXCEPT ![i] = c]
                         /\ id' = [id EXCEPT ![c] = i]
    BY <1>7 DEF HandleDialResult, GenerateSessionID, Set
  <2>2. /\ loop = "running" /\ loop' = loop /\ conn' = conn /\ fwd' = fwd
        /\ dial[c] = "deliver" /\ dial' = [dial EXCEPT ![c] = "done"]
    BY <1>7 DEF HandleDialResult, Set
  <2>3. \A j \in Ids : sessions[j] # c
    BY <2>2, PoolAssumption DEF PoolInv, MapAgrees
  <2>4. CoreType'
    BY <2>1, <2>2 DEF PoolInv, CoreType
  <2>5. MapAgrees'
    <3> SUFFICES ASSUME NEW j \in Ids, sessions'[j] # None
                 PROVE  id'[sessions'[j]] = j /\ dial'[sessions'[j]] = "done"
      BY DEF MapAgrees
    <3>1. CASE j = i
      BY <3>1, <2>1, <2>2 DEF PoolInv, CoreType
    <3>2. CASE j # i
      <4>1. sessions'[j] = sessions[j] /\ sessions[j] \in Clients /\ sessions[j] # c
        BY <3>2, <2>1, <2>3 DEF PoolInv, CoreType
      <4>2. id[sessions[j]] = j /\ dial[sessions[j]] = "done"
        BY <4>1, PoolAssumption DEF PoolInv, MapAgrees
      <4> QED  BY <4>1, <4>2, <2>1, <2>2 DEF PoolInv, CoreType
    <3> QED  BY <3>1, <3>2
  <2>6. DialHolds'
    BY <2>1, <2>2 DEF PoolInv, CoreType, DialHolds
  <2>7. NoOrphan'
    <3> SUFFICES ASSUME NEW d \in Clients
                 PROVE  \/ conn[d] \in {"none", "closed"} /\ fwd[d] # "open"
                        \/ dial'[d] \in {"forwards", "deliver"}
                        \/ loop = "running" /\ id'[d] # None /\ sessions'[id'[d]] = d
      BY <2>2 DEF NoOrphan
    <3>1. CASE d = c
      BY <3>1, <2>1, <2>2, PoolAssumption DEF PoolInv, CoreType
    <3>2. CASE d # c
      <4>1. id'[d] = id[d] /\ dial'[d] = dial[d]
        BY <3>2, <2>1, <2>2 DEF PoolInv, CoreType
      <4>2. id[d] # None /\ sessions[id[d]] = d => sessions'[id[d]] = d
        BY <2>1, PoolAssumption DEF PoolInv, CoreType
      <4> QED  BY <4>1, <4>2 DEF PoolInv, NoOrphan
    <3> QED  BY <3>1, <3>2
  <2> QED  BY <2>4, <2>5, <2>6, <2>7 DEF PoolInv
<1> QED  BY <1>1, <1>2, <1>3, <1>4, <1>5, <1>6, <1>7 DEF Opening

\* RunLoop's return closes what is in the map, and only what is in the map.
LEMMA ReturnKeeps == PoolInv /\ RunLoopReturns => PoolInv'
<1> SUFFICES ASSUME PoolInv, RunLoopReturns PROVE PoolInv'
  OBVIOUS
<1>1. /\ sessions' = sessions /\ dial' = dial /\ id' = id
      /\ conn' = [c \in Clients |-> IF c \in Open THEN "closed" ELSE conn[c]]
      /\ fwd' = [c \in Clients |-> IF c \in Open THEN "closed" ELSE fwd[c]]
  BY DEF RunLoopReturns
<1>2. CoreType' /\ MapAgrees'
  BY <1>1 DEF PoolInv, CoreType, MapAgrees
<1>3. \A c \in Open : dial[c] = "done"
  BY PoolAssumption DEF Open, PoolInv, MapAgrees
<1>4. DialHolds'
  BY <1>1, <1>3 DEF PoolInv, CoreType, DialHolds
<1>5. \A c \in Clients : id[c] # None /\ sessions[id[c]] = c => c \in Open
  BY DEF PoolInv, CoreType, Open
<1>6. NoOrphan'
  BY <1>1, <1>5 DEF PoolInv, CoreType, NoOrphan
<1> QED  BY <1>2, <1>4, <1>6 DEF PoolInv

\* A step of Ping keeps the type of what it has got.
LEMMA PingStep ==
  ASSUME NEW p \in Pings, DropsKnown, ping[p].pc # "idle",
         NEW label \in {"probe", "drop", "notify", "done"},
         ping' = [ping EXCEPT ![p].pc = label], UNCHANGED <<watcher, id>>
  PROVE  DropsKnown'
<1>1. ping[p] \in [pc : {"probe", "drop", "notify", "done"}, id : Ids, client : Clients]
  BY DEF DropsKnown, NoPing
<1>2. [ping[p] EXCEPT !.pc = label] \in [pc : {"probe", "drop", "notify", "done"}, id : Ids, client : Clients]
  BY <1>1
<1>3. ping' = [ping EXCEPT ![p] = [ping[p] EXCEPT !.pc = label]]
  BY DEF DropsKnown
<1> QED  BY <1>2, <1>3 DEF DropsKnown

\* Watchers are started with the ID of their session, pings get one with the
\* client; neither ID changes afterwards.
LEMMA DropsKnownKept == PoolInv /\ DropsKnown /\ [Next]_vars => DropsKnown'
<1> SUFFICES ASSUME PoolInv, DropsKnown, [Next]_vars PROVE DropsKnown'
  OBVIOUS
<1>0. CASE UNCHANGED <<watcher, ping, id>>
  BY <1>0 DEF DropsKnown
<1>1. ASSUME NEW c \in Clients, Opening(c) PROVE DropsKnown'
  <2>1. CASE HandleDialResult(c)
    BY <2>1 DEF HandleDialResult, Set, GenerateSessionID, DropsKnown, PoolInv, CoreType
  <2>2. CASE ~HandleDialResult(c)
    BY <1>0, <1>1, <2>2 DEF Opening, HandleOpen, OpenerLeaves, Dial, StartForwards, DialAbandons,
       HandleDialError, dropVars
  <2> QED  BY <2>1, <2>2
<1>2. ASSUME NEW c \in Clients, Watching(c) PROVE DropsKnown'
  <2>1. UNCHANGED <<ping, id>> /\ watcher[c] # "none"
        /\ \E w \in {"drop", "notify", "done"} : watcher' = [watcher EXCEPT ![c] = w]
    BY <1>2 DEF Watching, WatcherStops, WatcherNotices, WatcherDrops, WatcherNotifies, Set, sessVars
  <2> QED  BY <2>1 DEF DropsKnown
<1>3. ASSUME NEW p \in Pings, Pinging(p) PROVE DropsKnown'
  <2>1. CASE PingGets(p)
    BY <2>1 DEF PingGets, Set, sessVars, DropsKnown, PoolInv, CoreType
  <2>2. CASE PingProbes(p)
    BY <2>2, PingStep DEF PingProbes, sessVars
  <2>3. CASE PingDrops(p)
    BY <2>3, PingStep DEF PingDrops
  <2>4. CASE PingNotifies(p)
    BY <2>4, PingStep DEF PingNotifies, sessVars
  <2> QED  BY <1>3, <2>1, <2>2, <2>3, <2>4 DEF Pinging
<1>4. ASSUME NEW c \in Clients, ConnectionFails(c) PROVE DropsKnown'
  BY <1>0, <1>4 DEF ConnectionFails, dropVars
<1>5. ASSUME NEW i \in Ids, UserCloses(i) PROVE DropsKnown'
  BY <1>0, <1>5 DEF UserCloses, dropVars
<1>6. ASSUME NEW e \in Execs, Executing(e) PROVE DropsKnown'
  BY <1>0, <1>6 DEF Executing, HandleExec, CallerCancels, NewSession, RunStarts, Spill,
     RunReturns, ExecRuns,
       OpeningEnds, RunningEnds, Kill, ExecReturns, UserDeletesSpool, dropVars, sessVars
<1>7. ASSUME NEW v \in Savers, Saving(v) PROVE DropsKnown'
  BY <1>0, <1>7 DEF Saving, SaveGets, SaveOpens, SaveCopies, SaveDeletes, dropVars, sessVars
<1>8. CASE PoolCancelled \/ RunLoopReturns
  BY <1>0, <1>8 DEF PoolCancelled, RunLoopReturns, dropVars
<1>9. CASE UNCHANGED vars
  BY <1>0, <1>9 DEF vars, sessVars, dropVars
<1> QED  BY <1>1, <1>2, <1>3, <1>4, <1>5, <1>6, <1>7, <1>8, <1>9 DEF Next

\* dropSession by a known ID.
LEMMA DropKeeps ==
  ASSUME NEW i \in Ids, NEW ctxDone, PoolInv, DropSession(i, ctxDone), UNCHANGED <<loop, dial, id>>
  PROVE  PoolInv'
<1>1. CASE HandleClose(i, "lost")
  BY <1>1, CloseKeeps
<1>2. CASE UNCHANGED <<sessions, conn, fwd>>
  BY <1>2, PoolInvReadsCore DEF core
<1> QED  BY <1>1, <1>2 DEF DropSession

\* Every step of the pool and of the goroutines around it.
LEMMA PoolInvKept == PoolInv /\ DropsKnown /\ [Next]_vars => PoolInv'
<1> SUFFICES ASSUME PoolInv, DropsKnown, [Next]_vars PROVE PoolInv'
  OBVIOUS
<1>0. CASE UNCHANGED core
  BY <1>0, PoolInvReadsCore
<1>1. ASSUME NEW c \in Clients, Opening(c) PROVE PoolInv'
  BY <1>1, OpeningKeeps
<1>2. ASSUME NEW c \in Clients, Watching(c) PROVE PoolInv'
  <2>1. CASE WatcherStops(c) \/ WatcherNotices(c) \/ WatcherNotifies(c)
    BY <1>0, <2>1 DEF WatcherStops, WatcherNotices, WatcherNotifies, loopVars, sessVars, core
  <2>2. CASE WatcherDrops(c)
    <3>1. id[c] \in Ids
      BY <2>2 DEF WatcherDrops, DropsKnown
    <3> QED  BY <2>2, <3>1, DropKeeps DEF WatcherDrops
  <2> QED  BY <1>2, <2>1, <2>2 DEF Watching
<1>3. ASSUME NEW p \in Pings, Pinging(p) PROVE PoolInv'
  <2>1. CASE PingGets(p) \/ PingProbes(p) \/ PingNotifies(p)
    BY <1>0, <2>1 DEF PingGets, PingProbes, PingNotifies, loopVars, sessVars, core
  <2>2. CASE PingDrops(p)
    <3>1. ping[p].id \in Ids
      BY <2>2 DEF PingDrops, DropsKnown, NoPing
    <3> QED  BY <2>2, <3>1, DropKeeps DEF PingDrops
  <2> QED  BY <1>3, <2>1, <2>2 DEF Pinging
<1>4. ASSUME NEW c \in Clients, ConnectionFails(c) PROVE PoolInv'
  <2>1. /\ UNCHANGED <<loop, sessions, dial, fwd, id>> /\ conn[c] \in {"up", "stalled"}
        /\ \E s \in {"stalled", "lost"} : conn' = [conn EXCEPT ![c] = s]
    BY <1>4 DEF ConnectionFails, Set, loopVars
  <2> QED  BY <2>1 DEF PoolInv, CoreType, MapAgrees, DialHolds, NoOrphan
<1>5. ASSUME NEW i \in Ids, UserCloses(i) PROVE PoolInv'
  BY <1>5, CloseKeeps DEF UserCloses
<1>6. ASSUME NEW e \in Execs, Executing(e) PROVE PoolInv'
  BY <1>0, <1>6 DEF Executing, HandleExec, CallerCancels, NewSession, RunStarts, Spill,
     RunReturns, ExecRuns,
       OpeningEnds, RunningEnds, Kill, ExecReturns, UserDeletesSpool, loopVars, sessVars, core
<1>7. ASSUME NEW v \in Savers, Saving(v) PROVE PoolInv'
  BY <1>0, <1>7 DEF Saving, SaveGets, SaveOpens, SaveCopies, SaveDeletes, loopVars, sessVars, core
<1>8. CASE PoolCancelled
  BY <1>0, <1>8 DEF PoolCancelled, core
<1>9. CASE RunLoopReturns
  BY <1>9, ReturnKeeps
<1>10. CASE UNCHANGED vars
  BY <1>0, <1>10 DEF vars, loopVars, sessVars, core
<1> QED  BY <1>1, <1>2, <1>3, <1>4, <1>5, <1>6, <1>7, <1>8, <1>9, <1>10 DEF Next

\* Nothing is dialled and the map is empty at the start.
LEMMA InitPool == Init => PoolInv /\ DropsKnown
  BY DEF Init, PoolInv, CoreType, MapAgrees, DialHolds, NoOrphan, DropsKnown

\* Whatever is dialled, closed, lost, pinged or shut down, in whatever order, a
\* connection that is open is in the map under its ID or in the hands of its
\* dial goroutine (handleDialResult, handleClose, RunLoop, handleOpen).
THEOREM ConnectionsStayInReach == Spec => []NoOrphan
<1>1. PoolInv /\ DropsKnown /\ [Next]_vars => (PoolInv /\ DropsKnown)'
  BY PoolInvKept, DropsKnownKept
<1>2. PoolInv => NoOrphan
  BY DEF PoolInv
<1> QED  BY InitPool, <1>1, <1>2, PTL DEF Spec

-----------------------------------------------------------------------------
(* The contexts of sessions, and who may end them.                         *)

\* The session whose context is not done is the one its ID leads to; what the
\* running loop has in its map is not closed.
LiveInv ==
  /\ sctx \in [Clients -> {"none", "closed", "lost", "canceled"}]
  /\ loop = "exited" => poolDone
  /\ \A c \in Clients : id[c] # None /\ sctx[c] = "none" => ~poolDone /\ sessions[id[c]] = c
  /\ \A i \in Ids : loop = "running" /\ sessions[i] # None =>
       conn[sessions[i]] \in {"up", "stalled", "lost"}
  /\ \A c \in Clients : dial[c] \in {"forwards", "deliver"} => conn[c] \in {"up", "stalled", "lost"}

live == <<core, sctx, poolDone>>

\* What leaves these variables alone keeps the invariant.
LEMMA LiveReadsLive == LiveInv /\ UNCHANGED live => LiveInv'
  BY DEF LiveInv, live, core

\* handleClose ends the context of the session that the ID leads to.
LEMMA CloseLive ==
  ASSUME NEW i \in Ids, NEW cause \in {"closed", "lost"}, PoolInv, LiveInv, HandleClose(i, cause),
         UNCHANGED <<loop, poolDone, dial, id>>
  PROVE  LiveInv'
<1>1. CASE sessions[i] = None
  BY <1>1, LiveReadsLive DEF HandleClose, live, core
<1>2. CASE sessions[i] # None
  <2> DEFINE c == sessions[i]
  <2>1. c \in Clients /\ id[c] = i /\ dial[c] = "done"
    BY <1>2 DEF PoolInv, CoreType, MapAgrees
  <2>2. /\ sessions' = [sessions EXCEPT ![i] = None] /\ conn' = [conn EXCEPT ![c] = "closed"]
        /\ sctx' = IF sctx[c] = "none" THEN [sctx EXCEPT ![c] = cause] ELSE sctx
    BY <1>2 DEF HandleClose, Set
  <2>3. \A j \in Ids : j # i /\ sessions[j] # None => sessions[j] # c /\ sessions[j] \in Clients
    BY <2>1 DEF PoolInv, CoreType, MapAgrees
  <2>4. \A d \in Clients : id[d] # None /\ sctx[d] = "none" /\ d # c => id[d] # i /\ id[d] \in Ids
    BY DEF LiveInv, PoolInv, CoreType
  <2> HIDE DEF c
  <2>5. sctx' \in [Clients -> {"none", "closed", "lost", "canceled"}] /\ sctx'[c] # "none"
        /\ \A d \in Clients \ {c} : sctx'[d] = sctx[d]
    BY <2>1, <2>2 DEF LiveInv
  <2>6. \A d \in Clients : id'[d] # None /\ sctx'[d] = "none" => ~poolDone' /\ sessions'[id'[d]] = d
    BY <2>2, <2>4, <2>5 DEF LiveInv, PoolInv, CoreType
  <2>7. \A j \in Ids : loop' = "running" /\ sessions'[j] # None => conn'[sessions'[j]] \in {"up", "stalled", "lost"}
    BY <2>2, <2>3 DEF LiveInv, PoolInv, CoreType
  <2>8. \A d \in Clients : dial'[d] \in {"forwards", "deliver"} => conn'[d] \in {"up", "stalled", "lost"}
    BY <2>1, <2>2 DEF LiveInv, PoolInv, CoreType
  <2> QED  BY <2>5, <2>6, <2>7, <2>8 DEF LiveInv
<1> QED  BY <1>1, <1>2

\* A drop is a handleClose, or finds no session or no loop.
LEMMA DropLive ==
  ASSUME NEW i \in Ids, NEW ctxDone, PoolInv, LiveInv, DropSession(i, ctxDone),
         UNCHANGED <<loop, poolDone, dial, id>>
  PROVE  LiveInv'
<1>1. CASE HandleClose(i, "lost")
  BY <1>1, CloseLive
<1>2. CASE UNCHANGED <<sessions, conn, fwd, sctx>>
  BY <1>2, LiveReadsLive DEF live, core
<1> QED  BY <1>1, <1>2 DEF DropSession

\* A session is published under an ID that leads to no other.
LEMMA OpeningLive == ASSUME NEW c \in Clients, PoolInv, LiveInv, Opening(c) PROVE LiveInv'
<1>1. \A i \in Ids : sessions[i] # None => dial[sessions[i]] = "done" /\ sessions[i] \in Clients
  BY DEF PoolInv, CoreType, MapAgrees
<1>2. CASE HandleOpen(c) \/ Dial(c) \/ StartForwards(c) \/ DialAbandons(c) \/ HandleDialError(c)
  <2>1. /\ UNCHANGED <<loop, poolDone, sessions, id, sctx>> /\ dial[c] # "done"
        /\ \E s \in {"none", "up", "stalled", "lost", "closed"}, k \in {"dialing", "forwards", "deliver", "refuse", "done"} :
             /\ conn' = [conn EXCEPT ![c] = s] /\ dial' = [dial EXCEPT ![c] = k]
             /\ k \in {"forwards", "deliver"} => s \in {"up", "stalled", "lost"}
    BY <1>2 DEF HandleOpen, Dial, StartForwards, DialAbandons, HandleDialError, Set, loopVars,
       LiveInv,
         PoolInv, CoreType
  <2>2. \A i \in Ids : sessions[i] # None => conn'[sessions[i]] = conn[sessions[i]]
    BY <1>1, <2>1 DEF PoolInv, CoreType
  <2>3. \A d \in Clients : dial'[d] \in {"forwards", "deliver"} => conn'[d] \in {"up", "stalled", "lost"}
    BY <2>1 DEF LiveInv, PoolInv, CoreType
  <2> QED  BY <2>1, <2>2, <2>3 DEF LiveInv
<1>3. CASE OpenerLeaves(c)
  BY <1>3, LiveReadsLive DEF OpenerLeaves, loopVars, live, core
<1>4. CASE HandleDialResult(c)
  <2>1. PICK i \in Ids : /\ sessions[i] = None
                         /\ sessions' = [sessions EXCEPT ![i] = c] /\ id' = [id EXCEPT ![c] = i]
    BY <1>4 DEF HandleDialResult, GenerateSessionID, Set
  <2>2. /\ dial[c] = "deliver" /\ dial' = [dial EXCEPT ![c] = "done"]
        /\ UNCHANGED <<loop, poolDone, conn>>
        /\ sctx' = [sctx EXCEPT ![c] = IF poolDone THEN "canceled" ELSE "none"]
    BY <1>4 DEF HandleDialResult, Set
  <2>3. \A d \in Clients : id'[d] # None /\ sctx'[d] = "none" => ~poolDone /\ sessions'[id'[d]] = d
    <3> SUFFICES ASSUME NEW d \in Clients, id'[d] # None, sctx'[d] = "none"
                 PROVE  ~poolDone /\ sessions'[id'[d]] = d
      OBVIOUS
    <3>1. CASE d = c
      BY <2>1, <2>2, <3>1 DEF LiveInv, PoolInv, CoreType
    <3>2. CASE d # c
      <4>1. id'[d] = id[d] /\ sctx'[d] = sctx[d] /\ id[d] \in Ids
        BY <2>1, <2>2, <3>2 DEF LiveInv, PoolInv, CoreType
      <4>2. ~poolDone /\ sessions[id[d]] = d
        BY <4>1 DEF LiveInv
      <4> QED  BY <2>1, <4>1, <4>2, PoolAssumption DEF PoolInv, CoreType
    <3> QED  BY <3>1, <3>2
  <2>4. \A j \in Ids : loop = "running" /\ sessions'[j] # None => conn[sessions'[j]] \in {"up", "stalled", "lost"}
    BY <2>1, <2>2 DEF LiveInv, PoolInv, CoreType
  <2>5. \A d \in Clients : dial'[d] \in {"forwards", "deliver"} => conn[d] \in {"up", "stalled", "lost"}
    BY <2>2 DEF LiveInv, PoolInv, CoreType
  <2>6. sctx' \in [Clients -> {"none", "closed", "lost", "canceled"}]
    BY <2>2 DEF LiveInv
  <2> QED  BY <2>2, <2>3, <2>4, <2>5, <2>6 DEF LiveInv
<1> QED  BY <1>2, <1>3, <1>4 DEF Opening

\* Every step of the pool keeps the contexts in step with the map.
LEMMA LiveKept == PoolInv /\ DropsKnown /\ LiveInv /\ [Next]_vars => LiveInv'
<1> SUFFICES ASSUME PoolInv, DropsKnown, LiveInv, [Next]_vars PROVE LiveInv'
  OBVIOUS
<1>0. CASE UNCHANGED live
  BY <1>0, LiveReadsLive
<1>1. ASSUME NEW c \in Clients, Opening(c) PROVE LiveInv'
  BY <1>1, OpeningLive
<1>2. ASSUME NEW c \in Clients, Watching(c) PROVE LiveInv'
  <2>1. CASE WatcherStops(c) \/ WatcherNotices(c) \/ WatcherNotifies(c)
    BY <1>0, <2>1 DEF WatcherStops, WatcherNotices, WatcherNotifies, loopVars, sessVars, live, core
  <2>2. CASE WatcherDrops(c)
    <3>1. id[c] \in Ids
      BY <2>2 DEF WatcherDrops, DropsKnown
    <3> QED  BY <2>2, <3>1, DropLive DEF WatcherDrops
  <2> QED  BY <1>2, <2>1, <2>2 DEF Watching
<1>3. ASSUME NEW p \in Pings, Pinging(p) PROVE LiveInv'
  <2>1. CASE PingGets(p) \/ PingProbes(p) \/ PingNotifies(p)
    BY <1>0, <2>1 DEF PingGets, PingProbes, PingNotifies, loopVars, sessVars, live, core
  <2>2. CASE PingDrops(p)
    <3>1. ping[p].id \in Ids
      BY <2>2 DEF PingDrops, DropsKnown, NoPing
    <3> QED  BY <2>2, <3>1, DropLive DEF PingDrops
  <2> QED  BY <1>3, <2>1, <2>2 DEF Pinging
<1>4. ASSUME NEW c \in Clients, ConnectionFails(c) PROVE LiveInv'
  <2>1. /\ UNCHANGED <<loop, poolDone, sessions, dial, id, sctx>>
        /\ \E s \in {"stalled", "lost"} : conn' = [conn EXCEPT ![c] = s]
    BY <1>4 DEF ConnectionFails, Set, loopVars
  <2>2. \A d \in Clients : conn[d] \in {"up", "stalled", "lost"} => conn'[d] \in {"up", "stalled", "lost"}
    BY <2>1 DEF PoolInv, CoreType
  <2>3. \A i \in Ids : sessions[i] # None => sessions[i] \in Clients
    BY DEF PoolInv, CoreType
  <2> QED  BY <2>1, <2>2, <2>3 DEF LiveInv
<1>5. ASSUME NEW i \in Ids, UserCloses(i) PROVE LiveInv'
  BY <1>5, CloseLive DEF UserCloses
<1>6. ASSUME NEW e \in Execs, Executing(e) PROVE LiveInv'
  BY <1>0, <1>6 DEF Executing, HandleExec, CallerCancels, NewSession, RunStarts, Spill,
     RunReturns, ExecRuns,
       OpeningEnds, RunningEnds, Kill, ExecReturns, UserDeletesSpool, loopVars, sessVars, live, core
<1>7. ASSUME NEW v \in Savers, Saving(v) PROVE LiveInv'
  BY <1>0, <1>7 DEF Saving, SaveGets, SaveOpens, SaveCopies, SaveDeletes, loopVars, sessVars,
     live, core
<1>8. CASE PoolCancelled
  BY <1>8 DEF PoolCancelled, LiveInv
<1>9. CASE RunLoopReturns
  <2>1. /\ loop' = "exited" /\ poolDone /\ UNCHANGED <<poolDone, sessions, dial, id, sctx>>
        /\ conn' = [c \in Clients |-> IF c \in Open THEN "closed" ELSE conn[c]]
    BY <1>9 DEF RunLoopReturns
  <2>2. \A c \in Open : dial[c] = "done"
    BY PoolAssumption DEF Open, PoolInv, MapAgrees
  <2> QED  BY <2>1, <2>2 DEF LiveInv
<1>10. CASE UNCHANGED vars
  BY <1>0, <1>10 DEF vars, loopVars, sessVars, live, core
<1> QED  BY <1>1, <1>2, <1>3, <1>4, <1>5, <1>6, <1>7, <1>8, <1>9, <1>10 DEF Next

\* What a session has been through, it does not go back on: a failed connection
\* stays failed, an ID given stays given, a context that is done stays done.
Onward(c) ==
  /\ conn[c] \in {"lost", "closed"} => conn'[c] \in {"lost", "closed"}
  /\ conn[c] = "stalled" => conn'[c] \in {"stalled", "lost", "closed"}
  /\ id[c] # None => id'[c] = id[c]
  /\ id[c] # None /\ sctx[c] # "none" => sctx'[c] # "none"

\* A close takes nothing back.
LEMMA CloseOnward ==
  ASSUME NEW i \in Ids, NEW cause \in {"closed", "lost"}, PoolInv, LiveInv, HandleClose(i, cause),
         UNCHANGED id, NEW c \in Clients
  PROVE  Onward(c)
  BY DEF HandleClose, Set, PoolInv, CoreType, LiveInv, Onward

\* No step of the pool does.
LEMMA SessionsGoOnward ==
  ASSUME PoolInv, DropsKnown, LiveInv, [Next]_vars, NEW c \in Clients PROVE Onward(c)
<1>0. CASE UNCHANGED <<conn, id, sctx>>
  BY <1>0 DEF Onward
<1>1. ASSUME NEW d \in Clients, Opening(d) PROVE Onward(c)
  <2>1. CASE HandleOpen(d) \/ OpenerLeaves(d) \/ HandleDialError(d)
    BY <1>0, <2>1 DEF HandleOpen, OpenerLeaves, HandleDialError
  <2>2. CASE Dial(d) \/ StartForwards(d) \/ DialAbandons(d)
    BY <2>2 DEF Dial, StartForwards, DialAbandons, Set, Onward, PoolInv, CoreType, DialHolds
  <2>3. CASE HandleDialResult(d)
    BY <2>3 DEF HandleDialResult, Set, Onward, PoolInv, CoreType, DialHolds, LiveInv
  <2> QED  BY <1>1, <2>1, <2>2, <2>3 DEF Opening
<1>2. ASSUME NEW d \in Clients, Watching(d) PROVE Onward(c)
  <2>1. CASE WatcherStops(d) \/ WatcherNotices(d) \/ WatcherNotifies(d)
    BY <1>0, <2>1 DEF WatcherStops, WatcherNotices, WatcherNotifies, sessVars
  <2>2. CASE WatcherDrops(d)
    BY <1>0, <2>2, CloseOnward DEF WatcherDrops, DropSession, DropsKnown
  <2> QED  BY <1>2, <2>1, <2>2 DEF Watching
<1>3. ASSUME NEW p \in Pings, Pinging(p) PROVE Onward(c)
  <2>1. CASE PingGets(p) \/ PingProbes(p) \/ PingNotifies(p)
    BY <1>0, <2>1 DEF PingGets, PingProbes, PingNotifies, sessVars
  <2>2. CASE PingDrops(p)
    <3>1. ping[p].id \in Ids
      BY <2>2 DEF PingDrops, DropsKnown, NoPing
    <3> QED  BY <1>0, <2>2, <3>1, CloseOnward DEF PingDrops, DropSession
  <2> QED  BY <1>3, <2>1, <2>2 DEF Pinging
<1>4. ASSUME NEW d \in Clients, ConnectionFails(d) PROVE Onward(c)
  BY <1>4 DEF ConnectionFails, Set, Onward, PoolInv, CoreType
<1>5. ASSUME NEW i \in Ids, UserCloses(i) PROVE Onward(c)
  BY <1>5, CloseOnward DEF UserCloses
<1>6. ASSUME NEW e \in Execs, Executing(e) PROVE Onward(c)
  BY <1>0, <1>6 DEF Executing, HandleExec, CallerCancels, NewSession, RunStarts, Spill,
     RunReturns, ExecRuns,
       OpeningEnds, RunningEnds, Kill, ExecReturns, UserDeletesSpool, sessVars
<1>7. ASSUME NEW v \in Savers, Saving(v) PROVE Onward(c)
  BY <1>0, <1>7 DEF Saving, SaveGets, SaveOpens, SaveCopies, SaveDeletes, sessVars
<1>8. CASE PoolCancelled \/ RunLoopReturns
  BY <1>8 DEF PoolCancelled, RunLoopReturns, Onward, LiveInv
<1>9. CASE UNCHANGED vars
  BY <1>0, <1>9 DEF vars, sessVars
<1> QED  BY <1>1, <1>2, <1>3, <1>4, <1>5, <1>6, <1>7, <1>8, <1>9 DEF Next

\* A ping has the client its ID led to; who drops a session has seen its
\* connection fail.
DropsFailed ==
  /\ \A c \in Clients : watcher[c] = "drop" => conn[c] \in {"stalled", "lost", "closed"}
  /\ \A p \in Pings : ping[p].pc # "idle" =>
       /\ id[ping[p].client] = ping[p].id
       /\ ping[p].pc = "drop" => conn[ping[p].client] \in {"lost", "closed"}

\* A watcher or ping that is about to drop has seen the connection fail.
LEMMA DropsFailedKept ==
  PoolInv /\ DropsKnown /\ LiveInv /\ DropsFailed /\ [Next]_vars => DropsFailed'
<1> SUFFICES ASSUME PoolInv, DropsKnown, LiveInv, DropsFailed, [Next]_vars PROVE DropsFailed'
  OBVIOUS
<1>a. \A c \in Clients : Onward(c)
  BY SessionsGoOnward
<1>b. \A p \in Pings : ping[p].pc # "idle" => ping[p].client \in Clients /\ ping[p].id \in Ids
  BY DEF DropsKnown, NoPing
<1>c. \A p \in Pings : ping[p].pc # "idle" => id[ping[p].client] # None
  BY <1>b, PoolAssumption DEF DropsFailed
<1>d. UNCHANGED ping => \A p \in Pings : ping'[p].pc # "idle" =>
        /\ id'[ping'[p].client] = ping'[p].id
        /\ ping'[p].pc = "drop" => conn'[ping'[p].client] \in {"lost", "closed"}
  BY <1>a, <1>b, <1>c DEF DropsFailed, Onward
<1>e. (\A c \in Clients : watcher'[c] = "drop" =>
          watcher[c] = "drop" \/ conn[c] \in {"lost", "stalled"}) =>
        \A c \in Clients : watcher'[c] = "drop" => conn'[c] \in {"stalled", "lost", "closed"}
  BY <1>a DEF DropsFailed, Onward
<1>0. CASE UNCHANGED <<watcher, ping>>
  BY <1>0, <1>d, <1>e DEF DropsFailed
<1>1. ASSUME NEW c \in Clients, Opening(c) PROVE DropsFailed'
  <2>1. UNCHANGED ping /\ \A d \in Clients : watcher'[d] = "drop" => watcher[d] = "drop"
    BY <1>1 DEF Opening, HandleOpen, OpenerLeaves, Dial, StartForwards, DialAbandons,
       HandleDialError,
         HandleDialResult, Set, dropVars, DropsKnown
  <2> QED  BY <1>d, <1>e, <2>1 DEF DropsFailed
<1>2. ASSUME NEW c \in Clients, Watching(c) PROVE DropsFailed'
  <2>1. UNCHANGED ping /\ \A d \in Clients : watcher'[d] = "drop" =>
                            watcher[d] = "drop" \/ conn[d] \in {"lost", "stalled"}
    BY <1>2 DEF Watching, WatcherStops, WatcherNotices, WatcherDrops, WatcherNotifies, Set,
       DropsKnown
  <2> QED  BY <1>d, <1>e, <2>1 DEF DropsFailed
<1>3. ASSUME NEW p \in Pings, Pinging(p) PROVE DropsFailed'
  <2>1. UNCHANGED watcher
    BY <1>3 DEF Pinging, PingGets, PingProbes, PingDrops, PingNotifies
  <2>2. \A q \in Pings \ {p} : ping'[q] = ping[q]
    BY <1>3 DEF Pinging, PingGets, PingProbes, PingDrops, PingNotifies, Set, DropsKnown
  <2>3. /\ id'[ping'[p].client] = ping'[p].id
        /\ ping'[p].pc = "drop" => conn'[ping'[p].client] \in {"lost", "closed"}
    <3>1. CASE PingGets(p)
      <4>1. PICK i \in Ids : /\ sessions[i] # None
              /\ ping'[p] = [pc |-> IF Probed THEN "probe" ELSE "done", id |-> i, client |-> sessions[i]]
        BY <3>1 DEF PingGets, Set, DropsKnown
      <4>2. id[sessions[i]] = i /\ UNCHANGED id
        BY <3>1, <4>1 DEF PingGets, sessVars, PoolInv, MapAgrees
      <4> QED  BY <4>1, <4>2
    <3>2. CASE ~PingGets(p)
      <4>0. ping[p].pc # "idle"
        BY <1>3, <3>2 DEF Pinging, PingProbes, PingDrops, PingNotifies
      <4>1. ping[p] \in [pc : {"probe", "drop", "notify", "done"}, id : Ids, client : Clients]
        BY <4>0 DEF DropsKnown, NoPing
      <4>2. \E pc \in {"drop", "notify", "done"} :
              /\ ping'[p] = [ping[p] EXCEPT !.pc = pc]
              /\ pc = "drop" => conn[ping[p].client] \in {"lost", "closed"}
        BY <1>3, <3>2 DEF Pinging, PingProbes, PingDrops, PingNotifies, DropsKnown
      <4>3. ping'[p].client = ping[p].client /\ ping'[p].id = ping[p].id /\ ping[p].pc # "idle"
        BY <4>1, <4>2
      <4>4. ping'[p].pc = "drop" => conn[ping[p].client] \in {"lost", "closed"}
        BY <4>1, <4>2
      <4> QED  BY <1>a, <1>b, <1>c, <4>3, <4>4 DEF DropsFailed, Onward
    <3> QED  BY <3>1, <3>2
  <2>4. \A q \in Pings \ {p} : ping'[q].pc # "idle" =>
          /\ id'[ping'[q].client] = ping'[q].id
          /\ ping'[q].pc = "drop" => conn'[ping'[q].client] \in {"lost", "closed"}
    BY <1>a, <1>b, <1>c, <2>2 DEF DropsFailed, Onward
  <2> QED  BY <1>e, <2>1, <2>3, <2>4 DEF DropsFailed
<1>4. ASSUME NEW c \in Clients, ConnectionFails(c) PROVE DropsFailed'
  BY <1>0, <1>4 DEF ConnectionFails, dropVars
<1>5. ASSUME NEW i \in Ids, UserCloses(i) PROVE DropsFailed'
  BY <1>0, <1>5 DEF UserCloses, dropVars
<1>6. ASSUME NEW e \in Execs, Executing(e) PROVE DropsFailed'
  BY <1>0, <1>6 DEF Executing, HandleExec, CallerCancels, NewSession, RunStarts, Spill,
     RunReturns, ExecRuns,
       OpeningEnds, RunningEnds, Kill, ExecReturns, UserDeletesSpool, dropVars
<1>7. ASSUME NEW v \in Savers, Saving(v) PROVE DropsFailed'
  BY <1>0, <1>7 DEF Saving, SaveGets, SaveOpens, SaveCopies, SaveDeletes, dropVars
<1>8. CASE PoolCancelled \/ RunLoopReturns
  BY <1>0, <1>8 DEF PoolCancelled, RunLoopReturns, dropVars
<1>9. CASE UNCHANGED vars
  BY <1>0, <1>9 DEF vars, dropVars
<1> QED  BY <1>1, <1>2, <1>3, <1>4, <1>5, <1>6, <1>7, <1>8, <1>9 DEF Next

SessInv == PoolInv /\ DropsKnown /\ LiveInv /\ DropsFailed

\* The four parts hold in every reachable state.
LEMMA SessionInvariant == Spec => []SessInv
<1>1. Init => LiveInv /\ DropsFailed
  BY DEF Init, LiveInv, DropsFailed, NoPing
<1>2. SessInv /\ [Next]_vars => SessInv'
  BY PoolInvKept, DropsKnownKept, LiveKept, DropsFailedKept DEF SessInv
<1> QED  BY InitPool, <1>1, <1>2, PTL DEF Spec, SessInv

\* dropSession, by the watcher or the ping of client d, ends the context of a
\* session with the ID of d.
LEMMA DropEnds ==
  ASSUME SessInv, NEW d \in Clients, id[d] \in Ids, conn[d] \in {"stalled", "lost", "closed"}, NEW done,
         DropSession(id[d], done), NEW c \in Clients, sctx[c] = "none", sctx'[c] = "lost"
  PROVE  conn[c] \in {"lost", "stalled"} \/ Shares(c)
<1>1. loop = "running" /\ sessions[id[d]] = c
  BY DEF DropSession, HandleClose, Set, SessInv, LiveInv, PoolInv, CoreType
<1>2. id[c] = id[d] /\ conn[c] \in {"up", "stalled", "lost"}
  BY <1>1, PoolAssumption DEF SessInv, PoolInv, MapAgrees, LiveInv
<1>3. CASE d = c
  BY <1>2, <1>3
<1>4. CASE d # c
  BY <1>2, <1>4 DEF Shares
<1> QED  BY <1>3, <1>4

\* Neither a watcher nor a ping takes down a session whose connection is healthy,
\* however long they hold the ID, unless the ID was given to another one too.
THEOREM HealthySessionsStay == Spec => DropsOnlyLost
<1>1. ASSUME SessInv, [Next]_vars
      PROVE  [\A c \in Clients : sctx[c] = "none" /\ sctx'[c] = "lost" =>
                conn[c] \in {"lost", "stalled"} \/ Shares(c)]_vars
  <2> SUFFICES ASSUME Next, NEW c \in Clients, sctx[c] = "none", sctx'[c] = "lost"
               PROVE  conn[c] \in {"lost", "stalled"} \/ Shares(c)
    BY <1>1
  <2>1. ASSUME NEW d \in Clients, WatcherDrops(d) PROVE conn[c] \in {"lost", "stalled"} \/ Shares(c)
    BY <1>1, <2>1, DropEnds DEF WatcherDrops, SessInv, DropsKnown, DropsFailed
  <2>2. ASSUME NEW p \in Pings, PingDrops(p) PROVE conn[c] \in {"lost", "stalled"} \/ Shares(c)
    <3>1. ping[p].pc = "drop" /\ ping[p].client \in Clients /\ ping[p].id \in Ids
      BY <1>1, <2>2 DEF PingDrops, SessInv, DropsKnown, NoPing
    <3>2. id[ping[p].client] = ping[p].id /\ conn[ping[p].client] \in {"lost", "closed"}
      BY <1>1, <3>1 DEF SessInv, DropsFailed
    <3> QED  BY <1>1, <2>2, <3>1, <3>2, DropEnds DEF PingDrops
  <2>3. ASSUME UNCHANGED sctx PROVE FALSE
    BY <2>3
  <2>4. ASSUME NEW d \in Clients, Opening(d) PROVE FALSE
    BY <1>1, <2>3, <2>4 DEF Opening, HandleOpen, OpenerLeaves, Dial, StartForwards, DialAbandons,
         HandleDialError, HandleDialResult, Set, SessInv, LiveInv
  <2>5. ASSUME NEW i \in Ids, UserCloses(i) PROVE FALSE
    BY <1>1, <2>5 DEF UserCloses, HandleClose, Set, SessInv, LiveInv
  <2>6. ASSUME NEW d \in Clients,
               WatcherStops(d) \/ WatcherNotices(d) \/ WatcherNotifies(d) \/ ConnectionFails(d)
        PROVE  FALSE
    BY <2>3, <2>6 DEF WatcherStops, WatcherNotices, WatcherNotifies, ConnectionFails, sessVars
  <2>7. ASSUME NEW p \in Pings, PingGets(p) \/ PingProbes(p) \/ PingNotifies(p) PROVE FALSE
    BY <2>3, <2>7 DEF PingGets, PingProbes, PingNotifies, sessVars
  <2>8. ASSUME NEW e \in Execs, Executing(e) PROVE FALSE
    BY <2>3, <2>8 DEF Executing, HandleExec, CallerCancels, NewSession, RunStarts, Spill,
       RunReturns,
         ExecRuns, OpeningEnds, RunningEnds, Kill, ExecReturns, UserDeletesSpool, sessVars
  <2>9. ASSUME NEW v \in Savers, Saving(v) PROVE FALSE
    BY <2>3, <2>9 DEF Saving, SaveGets, SaveOpens, SaveCopies, SaveDeletes, sessVars
  <2>10. CASE PoolCancelled \/ RunLoopReturns
    BY <2>3, <2>10 DEF PoolCancelled, RunLoopReturns
  <2> QED  BY <2>1, <2>2, <2>4, <2>5, <2>6, <2>7, <2>8, <2>9, <2>10 DEF Next, Watching, Pinging
<1> QED  BY <1>1, SessionInvariant, PTL DEF Spec, DropsOnlyLost

-----------------------------------------------------------------------------
(* The commands and their spools.                                          *)

\* Where a command is and what its goroutines hold then.
ExecOK(e) ==
  /\ caller[e] = "idle" => xpc[e] = "idle" /\ chan[e] = "none" /\ xc[e] = None
  /\ xpc[e] \in {"idle", "opening"} => run[e] = "none"
  /\ run[e] = "none" => file[e] = "none"
  /\ run[e] # "none" \/ xpc[e] \notin {"idle", "done"} => xc[e] # None
  /\ xc[e] # None => id[xc[e]] \in Ids
  /\ xpc[e] \in {"register", "cleanup", "done"} /\ e \notin late => run[e] \in {"none", "returned"}
  /\ xpc[e] \in {"register", "cleanup"} => chan[e] = "closed"
  /\ xpc[e] = "done" => chan[e] # "open"
ExecInv == ExecType /\ \A e \in Execs : ExecOK(e)

\* A step that leaves the commands alone.
LEMMA ExecsAlone == ASSUME SessInv, ExecInv, [Next]_vars, UNCHANGED execVars PROVE ExecInv'
<1>1. ExecType'
  BY DEF ExecInv, ExecType, execVars
<1>2. \A c \in Clients : id[c] # None => id'[c] = id[c]
  BY SessionsGoOnward DEF SessInv, Onward
<1>3. \A e \in Execs : xc[e] # None => id'[xc[e]] \in Ids
  BY <1>2, PoolAssumption DEF ExecInv, ExecType, ExecOK
<1> QED  BY <1>1, <1>3 DEF ExecInv, ExecOK, execVars

\* A step of one command.
LEMMA ExecSteps ==
  ASSUME SessInv, ExecInv, NEW e \in Execs, Executing(e), ~UserDeletesSpool(e)
  PROVE  ExecInv'
<1> USE DEF ExecInv, ExecOK, ExecType, Set
<1>1. UNCHANGED id
  BY DEF Executing, HandleExec, CallerCancels, NewSession, RunStarts, Spill, RunReturns, ExecRuns,
         OpeningEnds, RunningEnds, Kill, ExecReturns, sessVars
<1>2. CASE HandleExec(e)
  <2>1. \A i \in Ids : sessions[i] # None => sessions[i] \in Clients /\ id[sessions[i]] = i
    BY DEF SessInv, PoolInv, CoreType, MapAgrees
  <2> QED  BY <1>1, <1>2, <2>1 DEF HandleExec
<1>3. CASE CallerCancels(e)
  BY <1>1, <1>3 DEF CallerCancels
<1>4. CASE NewSession(e)
  BY <1>1, <1>4 DEF NewSession
<1>5. CASE RunStarts(e) \/ RunReturns(e)
  BY <1>1, <1>5 DEF RunStarts, RunReturns
<1>6. CASE Spill(e)
  BY <1>1, <1>6 DEF Spill
<1>7. CASE OpeningEnds(e)
  BY <1>1, <1>7 DEF OpeningEnds, GiveUp
<1>8. CASE RunningEnds(e)
  BY <1>1, <1>8 DEF RunningEnds, CloseBuffer
<1>9. CASE Kill(e)
  BY <1>1, <1>9 DEF Kill, CloseBuffer
<1>10. CASE ExecReturns(e)
  BY <1>1, <1>10 DEF ExecReturns
<1> QED  BY <1>2, <1>3, <1>4, <1>5, <1>6, <1>7, <1>8, <1>9, <1>10 DEF Executing, ExecRuns

\* The commands of a session that lives: what they spilled is on disk, they are
\* registered with no other session, and with this one when they have ended.
Lives(e) == xc[e] # None /\ sctx[xc[e]] = "none"
SpoolInv ==
  /\ spools \in [Clients -> SUBSET Execs]
  /\ \A e \in Execs : Spilled(e) /\ Lives(e) => e \in disk \/ e \in deleted
  /\ \A c \in Clients : \A e \in spools[c] : xc[e] # None /\ (c # xc[e] => ~Lives(e))
  /\ \A e \in Execs : xpc[e] = "done" /\ Spilled(e) /\ Lives(e) /\ e \notin late =>
       e \in spools[xc[e]] \/ e \in deleted

\* A saver has a spool in hand.
SaverInv ==
  /\ SpoolType
  /\ \A v \in Savers : save[v].pc \in {"open", "copy", "delete"} => save[v].spool \in Execs

\* A step of the sessions, which removes no file of a session that lives on.
LEMMA SessionsKeepSpools ==
  ASSUME SessInv, ExecInv, SpoolInv, [Next]_vars, UNCHANGED <<execVars, spools, deleted>>,
         \A e \in disk \ disk' : xc[e] # None => sctx'[xc[e]] # "none"
  PROVE  SpoolInv'
<1>1. \A e \in Execs : Lives(e)' => Lives(e)
  <2>1. \A c \in Clients : id[c] # None /\ sctx[c] # "none" => sctx'[c] # "none"
    BY SessionsGoOnward DEF SessInv, Onward
  <2>2. \A e \in Execs : xc[e] # None => xc[e] \in Clients /\ id[xc[e]] # None
    BY PoolAssumption DEF ExecInv, ExecType, ExecOK
  <2> QED  BY <2>1, <2>2 DEF Lives, execVars
<1>2. \A e \in Execs : Spilled(e)' = Spilled(e)
  BY DEF Spilled, execVars
<1>3. \A e \in Execs : Lives(e)' /\ e \in disk => e \in disk'
  BY DEF Lives, execVars
<1> QED  BY <1>1, <1>2, <1>3 DEF SpoolInv, execVars

\* handleClose removes the files of the one session whose context it ends.
LEMMA CloseRemoves ==
  ASSUME SessInv, ExecInv, SpoolInv, NEW i \in Ids, NEW cause \in {"closed", "lost"}, HandleClose(i, cause),
         NEW e \in disk \ disk', xc[e] # None, disk \subseteq Execs
  PROVE  sctx'[xc[e]] # "none"
<1> DEFINE c == sessions[i]
<1>1. /\ c # None /\ disk' = disk \ (spools[c] \cup DirOf(id[c]))
      /\ sctx' = IF sctx[c] = "none" THEN [sctx EXCEPT ![c] = cause] ELSE sctx
  BY DEF HandleClose, RemoveAll, Set
<1>2. c \in Clients /\ id[c] = i
  BY <1>1 DEF SessInv, PoolInv, CoreType, MapAgrees
<1>3. e \in Execs /\ xc[e] \in Clients /\ id[xc[e]] # None
  BY PoolAssumption DEF ExecInv, ExecType, ExecOK
<1>4. sctx \in [Clients -> {"none", "closed", "lost", "canceled"}]
  BY DEF SessInv, LiveInv
<1> HIDE DEF c
<1>5. sctx'[c] # "none" /\ \A d \in Clients : sctx[d] # "none" => sctx'[d] # "none"
  BY <1>1, <1>2, <1>4
<1>6. CASE e \in spools[c]
  BY <1>2, <1>3, <1>5, <1>6 DEF SpoolInv, Lives
<1>7. CASE e \in DirOf(id[c])
  <2>1. id[xc[e]] = i
    BY <1>2, <1>7 DEF DirOf
  <2>2. sctx[xc[e]] = "none" => sessions[i] = xc[e]
    BY <1>3, <2>1 DEF SessInv, LiveInv
  <2> QED  BY <1>3, <1>5, <2>2 DEF c
<1> QED  BY <1>1, <1>6, <1>7

\* A spool leaves the map by a delete or with its session only.
LEMMA SpoolInvKept ==
  ASSUME SessInv, ExecInv, SpoolInv, SaverInv, [Next]_vars PROVE SpoolInv'
<1>a. disk \subseteq Execs
  BY DEF SaverInv, SpoolType
<1>0. CASE UNCHANGED <<execVars, spools, deleted, disk>>
  BY <1>0, SessionsKeepSpools
<1>1. ASSUME NEW c \in Clients, Opening(c) \/ ConnectionFails(c) PROVE SpoolInv'
  BY <1>0, <1>1 DEF Opening, HandleOpen, OpenerLeaves, Dial, StartForwards, DialAbandons,
     HandleDialError, HandleDialResult, ConnectionFails
<1>2. ASSUME NEW i \in Ids, NEW cause \in {"closed", "lost"}, HandleClose(i, cause),
             UNCHANGED <<execVars, spools, deleted>>
      PROVE  SpoolInv'
  BY <1>a, <1>2, CloseRemoves, SessionsKeepSpools
<1>3. ASSUME NEW c \in Clients, Watching(c) PROVE SpoolInv'
  <2>1. CASE WatcherStops(c) \/ WatcherNotices(c) \/ WatcherNotifies(c)
    BY <1>0, <2>1 DEF WatcherStops, WatcherNotices, WatcherNotifies, sessVars
  <2>2. CASE WatcherDrops(c)
    <3>1. id[c] \in Ids
      BY <2>2 DEF WatcherDrops, SessInv, DropsKnown
    <3> QED  BY <1>0, <1>2, <2>2, <3>1 DEF WatcherDrops, DropSession
  <2> QED  BY <1>3, <2>1, <2>2 DEF Watching
<1>4. ASSUME NEW p \in Pings, Pinging(p) PROVE SpoolInv'
  <2>1. CASE PingGets(p) \/ PingProbes(p) \/ PingNotifies(p)
    BY <1>0, <2>1 DEF PingGets, PingProbes, PingNotifies, sessVars
  <2>2. CASE PingDrops(p)
    <3>1. ping[p].id \in Ids
      BY <2>2 DEF PingDrops, SessInv, DropsKnown, NoPing
    <3> QED  BY <1>0, <1>2, <2>2, <3>1 DEF PingDrops, DropSession
  <2> QED  BY <1>4, <2>1, <2>2 DEF Pinging
<1>5. ASSUME NEW i \in Ids, UserCloses(i) PROVE SpoolInv'
  BY <1>2, <1>5 DEF UserCloses
<1>6. CASE PoolCancelled
  BY <1>0, <1>6 DEF PoolCancelled
<1>7. CASE RunLoopReturns
  <2>1. \A c \in Clients : id[c] # None => sctx[c] # "none" /\ sctx'[c] # "none"
    BY <1>7 DEF RunLoopReturns, SessInv, LiveInv
  <2>2. \A e \in Execs : xc[e] # None => xc[e] \in Clients /\ id[xc[e]] # None
    BY PoolAssumption DEF ExecInv, ExecType, ExecOK
  <2> QED  BY <1>a, <1>7, <2>1, <2>2, SessionsKeepSpools DEF RunLoopReturns
<1>8. ASSUME NEW e \in Execs, Executing(e), ~UserDeletesSpool(e) PROVE SpoolInv'
  <2> USE DEF ExecInv, ExecType, ExecOK, Spilled, Lives, SpoolInv, Set
  <2>1. CASE HandleExec(e)
    BY <2>1 DEF HandleExec, sessVars
  <2>2. CASE CallerCancels(e) \/ NewSession(e) \/ RunStarts(e) \/ RunReturns(e)
    BY <2>2 DEF CallerCancels, NewSession, RunStarts, RunReturns, sessVars
  <2>3. CASE Spill(e)
    BY <2>3 DEF Spill, sessVars
  <2>4. CASE OpeningEnds(e)
    BY <2>4 DEF OpeningEnds, sessVars
  <2>5. CASE RunningEnds(e) \/ Kill(e)
    BY <2>5 DEF RunningEnds, Kill, CloseBuffer, sessVars
  <2>6. CASE ExecReturns(e)
    <3>1. /\ UNCHANGED <<xc, file, late, sctx, disk, deleted>> /\ xpc' = [xpc EXCEPT ![e] = "done"]
          /\ xc[e] # None /\ xc[e] \in Clients /\ id[xc[e]] # None
      BY <2>6, PoolAssumption DEF ExecReturns
    <3>2. Lives(e) => sessions[id[xc[e]]] = xc[e]
      BY <3>1 DEF SessInv, LiveInv
    <3>3. CASE UNCHANGED spools /\ (Spilled(e) => ~Lives(e))
      BY <3>1, <3>3
    <3>4. CASE HandleRegisterSpool(e)
      <4> DEFINE c == sessions[id[xc[e]]]
      <4>1. c \in Clients \cup {None} /\ spools' = IF c = None THEN spools ELSE [spools EXCEPT ![c] = @ \cup {e}]
        BY <3>1, <3>4 DEF HandleRegisterSpool, SessInv, PoolInv, CoreType
      <4>2. Lives(e) => c = xc[e] /\ c # None
        BY <3>1, <3>2
      <4> HIDE DEF c
      <4> QED  BY <3>1, <4>1, <4>2
    <3> QED  BY <2>6, <3>3, <3>4 DEF ExecReturns, RegisterSpool
  <2> QED  BY <1>8, <2>1, <2>2, <2>3, <2>4, <2>5, <2>6 DEF Executing, ExecRuns
<1>9. ASSUME NEW e \in Execs, HandleDeleteSpool(e), UNCHANGED <<execVars, sctx>> PROVE SpoolInv'
  BY <1>9 DEF HandleDeleteSpool, SpoolInv, Lives, Spilled, execVars, ExecInv, ExecType, ExecOK
<1>10. ASSUME NEW e \in Execs, UserDeletesSpool(e) PROVE SpoolInv'
  BY <1>9, <1>10 DEF UserDeletesSpool
<1>11. ASSUME NEW v \in Savers, Saving(v) PROVE SpoolInv'
  <2>1. save[v].pc = "delete" => save[v].spool \in Execs
    BY DEF SaverInv
  <2> QED  BY <1>0, <1>9, <1>11, <2>1 DEF Saving, SaveGets, SaveOpens, SaveCopies, SaveDeletes,
     sessVars
<1>12. CASE UNCHANGED vars
  BY <1>0, <1>12 DEF vars, sessVars
<1> QED
  BY <1>1, <1>3, <1>4, <1>5, <1>6, <1>7, <1>8, <1>10, <1>11, <1>12 DEF Next

\* SaveSpool keeps its spool from the lookup to the delete.
LEMMA SaverInvKept == ASSUME SessInv, SaverInv, [Next]_vars PROVE SaverInv'
<1> USE DEF SaverInv, SpoolType
<1>0. CASE UNCHANGED <<deleted, save>> /\ disk' \subseteq disk
  BY <1>0
<1>1. ASSUME NEW c \in Clients, Opening(c) \/ ConnectionFails(c) PROVE SaverInv'
  BY <1>0, <1>1 DEF Opening, HandleOpen, OpenerLeaves, Dial, StartForwards, DialAbandons,
     HandleDialError, HandleDialResult, ConnectionFails
<1>2. ASSUME NEW i, NEW cause, HandleClose(i, cause) PROVE disk' \subseteq disk
  BY <1>2 DEF HandleClose, RemoveAll
<1>3. ASSUME NEW c \in Clients, Watching(c) PROVE SaverInv'
  BY <1>0, <1>2, <1>3 DEF Watching, WatcherStops, WatcherNotices, WatcherDrops, WatcherNotifies,
     DropSession
<1>4. ASSUME NEW p \in Pings, Pinging(p) PROVE SaverInv'
  BY <1>0, <1>2, <1>4 DEF Pinging, PingGets, PingProbes, PingDrops, PingNotifies, DropSession
<1>5. ASSUME NEW i \in Ids, UserCloses(i) PROVE SaverInv'
  BY <1>0, <1>2, <1>5 DEF UserCloses
<1>6. CASE PoolCancelled \/ RunLoopReturns
  BY <1>0, <1>6 DEF PoolCancelled, RunLoopReturns
<1>7. ASSUME NEW e \in Execs, Executing(e) PROVE SaverInv'
  BY <1>7 DEF Executing, HandleExec, CallerCancels, NewSession, RunStarts, Spill, RunReturns,
     ExecRuns,
       OpeningEnds, RunningEnds, Kill, ExecReturns, UserDeletesSpool, HandleDeleteSpool
<1>8. ASSUME NEW v \in Savers, Saving(v) PROVE SaverInv'
  <2>1. save[v] \in [pc : {"idle", "open", "copy", "delete", "done"}, spool : Execs \cup {None}]
    OBVIOUS
  <2>2. CASE SaveGets(v)
    BY <2>2 DEF SaveGets, Set
  <2>3. ASSUME NEW pc \in {"copy", "delete", "done"}, save' = [save EXCEPT ![v].pc = pc],
               save[v].pc \in {"open", "copy", "delete"}
        PROVE  /\ save' \in [Savers -> [pc : {"idle", "open", "copy", "delete", "done"}, spool : Execs \cup {None}]]
               /\ \A u \in Savers : save'[u].pc \in {"open", "copy", "delete"} => save'[u].spool \in Execs
    <3>1. save' = [save EXCEPT ![v] = [save[v] EXCEPT !.pc = pc]]
      BY <2>3
    <3> QED  BY <2>1, <2>3, <3>1
  <2>4. CASE SaveOpens(v) \/ SaveCopies(v)
    BY <2>3, <2>4 DEF SaveOpens, SaveCopies
  <2>5. CASE SaveDeletes(v)
    <3>1. disk' \subseteq disk /\ deleted' \subseteq Execs
      BY <2>5 DEF SaveDeletes, HandleDeleteSpool
    <3> QED  BY <2>3, <2>5, <3>1 DEF SaveDeletes
  <2> QED  BY <1>8, <2>2, <2>4, <2>5 DEF Saving
<1>9. CASE UNCHANGED vars
  BY <1>9 DEF vars
<1> QED  BY <1>1, <1>3, <1>4, <1>5, <1>6, <1>7, <1>8, <1>9 DEF Next

\* A command has released its channel when it is done, also one that came up
\* late.
LEMMA ExecInvKept == ASSUME SessInv, ExecInv, [Next]_vars PROVE ExecInv'
<1>1. ASSUME NEW e \in Execs, Executing(e) PROVE ExecInv'
  BY <1>1, ExecSteps, ExecsAlone DEF UserDeletesSpool
<1>2. ASSUME NEW v \in Savers, Saving(v) PROVE UNCHANGED execVars
  BY <1>2 DEF Saving, SaveGets, SaveOpens, SaveCopies, SaveDeletes
<1>3. ASSUME NEW c \in Clients, Opening(c) \/ ConnectionFails(c) PROVE UNCHANGED execVars
  BY <1>3 DEF Opening, HandleOpen, OpenerLeaves, Dial, StartForwards, DialAbandons, HandleDialError,
       HandleDialResult, ConnectionFails
<1>4. ASSUME NEW c \in Clients, Watching(c) PROVE UNCHANGED execVars
  BY <1>4 DEF Watching, WatcherStops, WatcherNotices, WatcherDrops, WatcherNotifies
<1>5. ASSUME NEW p \in Pings, Pinging(p) PROVE UNCHANGED execVars
  BY <1>5 DEF Pinging, PingGets, PingProbes, PingDrops, PingNotifies
<1>6. ASSUME NEW i \in Ids, UserCloses(i) PROVE UNCHANGED execVars
  BY <1>6 DEF UserCloses
<1>7. CASE PoolCancelled \/ RunLoopReturns \/ UNCHANGED vars
  BY <1>7, ExecsAlone DEF PoolCancelled, RunLoopReturns, vars
<1> QED  BY <1>1, <1>2, <1>3, <1>4, <1>5, <1>6, <1>7, ExecsAlone DEF Next

CommandInv == ExecInv /\ SpoolInv /\ SaverInv

\* No command has been started.
LEMMA InitCommands == Init => CommandInv
<1> SUFFICES ASSUME Init PROVE CommandInv
  OBVIOUS
<1>1. ExecType /\ SpoolType
  BY DEF Init, ExecType, SpoolType
<1>2. \A e \in Execs : ExecOK(e)
  BY DEF Init, ExecOK
<1>3. SpoolInv /\ SaverInv
  BY <1>1 DEF Init, SpoolInv, SaverInv, Spilled
<1> QED  BY <1>1, <1>2, <1>3 DEF CommandInv, ExecInv

\* The parts about commands hold in every reachable state.
LEMMA CommandInvariant == Spec => []CommandInv
<1>1. SessInv /\ CommandInv /\ [Next]_vars => CommandInv'
  BY ExecInvKept, SpoolInvKept, SaverInvKept DEF CommandInv
<1> QED  BY SessionInvariant, InitCommands, <1>1, PTL DEF Spec

\* A command that has ended holds no SSH channel, and what it spilled can be
\* fetched while its session lives, however its caller, its session, the
\* connection and the deletions of spools raced.
THEOREM EndedCommandsAreTidy == Spec => []EndedCommandIsTidy
<1>1. CommandInv => EndedCommandIsTidy
  <2> SUFFICES ASSUME CommandInv, NEW e \in Execs, xpc[e] = "done"
               PROVE  /\ chan[e] # "open"
                      /\ Spilled(e) /\ sctx[xc[e]] = "none" /\ e \notin late =>
                           (e \in spools[xc[e]] /\ e \in disk) \/ e \in deleted
    BY DEF EndedCommandIsTidy
  <2>1. ExecOK(e)
    BY DEF CommandInv, ExecInv
  <2>2. Spilled(e) => xc[e] # None
    BY <2>1 DEF ExecOK, Spilled
  <2> QED  BY <2>1, <2>2 DEF ExecOK, CommandInv, SpoolInv, Lives
<1> QED  BY CommandInvariant, <1>1, PTL

-----------------------------------------------------------------------------
(* The types.                                                              *)

RestType ==
  /\ loop \in {"running", "exited"} /\ poolDone \in BOOLEAN
  /\ opener \in [Clients -> {"idle", "waiting", "answered", "gone"}]
  /\ notified \subseteq Clients

\* The variables the other parts leave out keep their types.
LEMMA RestTypeKept == ASSUME SessInv, RestType, [Next]_vars PROVE RestType'
<1> USE DEF RestType, Set, loopVars, sessVars, dropVars
<1>1. ASSUME NEW c \in Clients, Opening(c) \/ ConnectionFails(c) PROVE RestType'
  BY <1>1 DEF Opening, HandleOpen, OpenerLeaves, Dial, StartForwards, DialAbandons, HandleDialError,
       HandleDialResult, Answer, ConnectionFails
<1>2. ASSUME NEW c \in Clients, Watching(c) PROVE RestType'
  BY <1>2 DEF Watching, WatcherStops, WatcherNotices, WatcherDrops, WatcherNotifies
<1>3. ASSUME NEW p \in Pings, Pinging(p) PROVE RestType'
  <2>1. ping[p].pc = "notify" => ping[p].client \in Clients
    BY DEF SessInv, DropsKnown, NoPing
  <2> QED  BY <1>3, <2>1 DEF Pinging, PingGets, PingProbes, PingDrops, PingNotifies
<1>4. ASSUME NEW i \in Ids, UserCloses(i) PROVE RestType'
  BY <1>4 DEF UserCloses
<1>5. ASSUME NEW e \in Execs, Executing(e) PROVE RestType'
  BY <1>5 DEF Executing, HandleExec, CallerCancels, NewSession, RunStarts, Spill, RunReturns,
     ExecRuns,
       OpeningEnds, RunningEnds, Kill, ExecReturns, UserDeletesSpool
<1>6. ASSUME NEW v \in Savers, Saving(v) PROVE RestType'
  BY <1>6 DEF Saving, SaveGets, SaveOpens, SaveCopies, SaveDeletes
<1>7. CASE PoolCancelled \/ RunLoopReturns \/ UNCHANGED vars
  BY <1>7 DEF PoolCancelled, RunLoopReturns, vars
<1> QED  BY <1>1, <1>2, <1>3, <1>4, <1>5, <1>6, <1>7 DEF Next

\* Every variable of the pool keeps its type.
THEOREM PoolTypes == Spec => []TypeOK
<1>1. SessInv /\ RestType /\ [Next]_vars => RestType'
  BY RestTypeKept
<1>2. Init => RestType
  <2>1. Init => poolDone \in BOOLEAN
    BY DEF Init
  <2> QED  BY <2>1 DEF Init, RestType
<1>3. SessInv /\ CommandInv /\ RestType => TypeOK
  BY DEF SessInv, PoolInv, CoreType, DropsKnown, LiveInv, CommandInv, ExecInv, SpoolInv,
     SaverInv, RestType,
         TypeOK, LoopType, DialType, SessionType, DropType
<1> QED  BY SessionInvariant, CommandInvariant, <1>1, <1>2, <1>3, PTL DEF Spec

-----------------------------------------------------------------------------
(* What is still to come for a lost session and for a waiting caller: the  *)
(* safety half of LossIsNoticed and of ExecAnswers.                        *)

\* What is promised, and that only what was in the map has ended.
WatchInv ==
  /\ LossesAreFollowedUp
  /\ \A c \in Clients : sctx[c] # "none" => id[c] # None

\* The map leads from the ID of a session in it to the session.
LEMMA OpenById == ASSUME PoolInv, NEW c \in Open PROVE c \in Clients /\ id[c] \in Ids /\ sessions[id[c]] = c
  BY PoolAssumption DEF Open, PoolInv, CoreType, MapAgrees

\* What a close does to the map and to the contexts.
LEMMA CloseEnds ==
  ASSUME SessInv, NEW i \in Ids, NEW cause \in {"closed", "lost"}, HandleClose(i, cause)
  PROVE  /\ Open' = Open \ {sessions[i]}
         /\ \A c \in Clients : sctx'[c] = sctx[c] \/ (c = sessions[i] /\ sctx'[c] = cause)
<1>1. CASE sessions[i] = None
  BY <1>1, PoolAssumption DEF HandleClose, Open
<1>2. CASE sessions[i] # None
  <2> DEFINE c == sessions[i]
  <2>1. c \in Clients /\ id[c] = i
    BY <1>2 DEF SessInv, PoolInv, CoreType, MapAgrees
  <2>2. /\ sessions' = [sessions EXCEPT ![i] = None]
        /\ sctx' = IF sctx[c] = "none" THEN [sctx EXCEPT ![c] = cause] ELSE sctx
    BY <1>2 DEF HandleClose, Set
  <2>3. \A j \in Ids : j # i => sessions[j] # c
    BY <1>2, <2>1 DEF SessInv, PoolInv, CoreType, MapAgrees
  <2>4. Open' = Open \ {c}
    BY <2>2, <2>3, PoolAssumption DEF Open, SessInv, PoolInv, CoreType
  <2>5. \A d \in Clients : sctx'[d] = sctx[d] \/ (d = c /\ sctx'[d] = cause)
    BY <2>1, <2>2 DEF SessInv, LiveInv
  <2> QED  BY <2>4, <2>5
<1> QED  BY <1>1, <1>2

\* A report that is made or on its way is not lost.
LEMMA ReportsStay ==
  ASSUME SessInv, [Next]_vars, NEW c \in Clients, id[c] # None, Reports(c) PROVE Reports(c)'
<1>a. \A d \in Clients : id[d] # None => id'[d] = id[d]
  BY SessionsGoOnward DEF SessInv, Onward
<1>1. CASE Shares(c)
  BY <1>a, <1>1 DEF Shares, Reports
<1>2. CASE UNCHANGED dropVars
  BY <1>1, <1>2 DEF Reports, dropVars
<1>3. ASSUME NEW d \in Clients, Opening(d) PROVE Reports(c)'
  <2>1. CASE HandleDialResult(d)
    <3>1. d # c
      BY <2>1 DEF HandleDialResult, SessInv, PoolInv, DialHolds
    <3> QED  BY <1>1, <2>1, <3>1 DEF HandleDialResult, Set, Reports, SessInv, DropsKnown
  <2>2. CASE ~HandleDialResult(d)
    BY <1>2, <1>3, <2>2 DEF Opening, HandleOpen, OpenerLeaves, Dial, StartForwards, DialAbandons,
       HandleDialError
  <2> QED  BY <2>1, <2>2
<1>4. ASSUME NEW d \in Clients, Watching(d) PROVE Reports(c)'
  BY <1>1, <1>4 DEF Watching, WatcherStops, WatcherNotices, WatcherDrops, WatcherNotifies, Set,
     Reports, SessInv, DropsKnown
<1>5. ASSUME NEW q \in Pings, Pinging(q) PROVE Reports(c)'
  <2>1. UNCHANGED watcher /\ notified \subseteq notified'
    BY <1>5 DEF Pinging, PingGets, PingProbes, PingDrops, PingNotifies
  <2>2. \A p \in Pings \ {q} : ping'[p] = ping[p]
    BY <1>5 DEF Pinging, PingGets, PingProbes, PingDrops, PingNotifies, Set, SessInv, DropsKnown
  <2>3. ping[q].pc = "notify" => ping[q].client \in notified'
    BY <1>5 DEF Pinging, PingGets, PingProbes, PingDrops, PingNotifies
  <2> QED  BY <1>1, <2>1, <2>2, <2>3 DEF Reports
<1>6. ASSUME NEW d \in Clients, ConnectionFails(d) PROVE Reports(c)'
  BY <1>2, <1>6 DEF ConnectionFails
<1>7. ASSUME NEW i \in Ids, UserCloses(i) PROVE Reports(c)'
  BY <1>2, <1>7 DEF UserCloses
<1>8. ASSUME NEW e \in Execs, Executing(e) PROVE Reports(c)'
  BY <1>2, <1>8 DEF Executing, HandleExec, CallerCancels, NewSession, RunStarts, Spill, RunReturns,
     ExecRuns, OpeningEnds, RunningEnds, Kill, ExecReturns, UserDeletesSpool
<1>9. ASSUME NEW v \in Savers, Saving(v) PROVE Reports(c)'
  BY <1>2, <1>9 DEF Saving, SaveGets, SaveOpens, SaveCopies, SaveDeletes
<1>10. CASE PoolCancelled \/ RunLoopReturns \/ UNCHANGED vars
  BY <1>2, <1>10 DEF PoolCancelled, RunLoopReturns, vars
<1> QED  BY <1>3, <1>4, <1>5, <1>6, <1>7, <1>8, <1>9, <1>10 DEF Next

\* A step that changes neither the map nor the contexts nor the watchers.
LEMMA WatchStays ==
  ASSUME SessInv, WatchInv, [Next]_vars, UNCHANGED <<sessions, poolDone, sctx, watcher>> PROVE WatchInv'
<1>1. \A c \in Clients : id[c] # None => id'[c] = id[c]
  BY SessionsGoOnward DEF SessInv, Onward
<1>2. \A c \in Clients : sctx'[c] = "lost" => Reports(c)'
  BY ReportsStay DEF WatchInv, LossesAreFollowedUp
<1> QED  BY <1>1, <1>2 DEF WatchInv, LossesAreFollowedUp, Open

\* Of the sessions in the map, a close or a drop takes one: its report is due.
LEMMA CloseIsWatched ==
  ASSUME SessInv, WatchInv, [Next]_vars, NEW i \in Ids, NEW cause \in {"closed", "lost"},
         HandleClose(i, cause), UNCHANGED <<poolDone, id>>,
         \A c \in Clients : cause = "lost" /\ c = sessions[i] => Reports(c)',
         \A c \in Open \ {sessions[i]} : watcher'[c] = watcher[c]
  PROVE  WatchInv'
<1>1. /\ Open' = Open \ {sessions[i]}
      /\ \A c \in Clients : sctx'[c] = sctx[c] \/ (c = sessions[i] /\ sctx'[c] = cause)
  BY CloseEnds
<1>2. Open \subseteq Clients
  BY DEF Open
<1>3. \A c \in Open' : poolDone' \/ (watcher'[c] \in {"watching", "drop"} /\ sctx'[c] = "none")
  BY <1>1, <1>2 DEF WatchInv, LossesAreFollowedUp
<1>4. \A c \in Clients : sctx'[c] = "lost" => Reports(c)'
  BY <1>1, ReportsStay, PoolAssumption DEF WatchInv, LossesAreFollowedUp
<1>5. \A c \in Clients : sctx'[c] # "none" => id'[c] # None
  <2>1. \A c \in Clients : c = sessions[i] => id[c] # None
    BY PoolAssumption DEF SessInv, PoolInv, MapAgrees
  <2> QED  BY <1>1, <2>1 DEF WatchInv
<1> QED  BY <1>3, <1>4, <1>5 DEF WatchInv, LossesAreFollowedUp

\* Every step keeps each session watched and each loss reported.
LEMMA WatchInvKept == ASSUME SessInv, WatchInv, [Next]_vars PROVE WatchInv'
<1>0. CASE UNCHANGED <<sessions, poolDone, sctx, watcher>>
  BY <1>0, WatchStays
<1>1. ASSUME NEW c \in Clients, Opening(c) PROVE WatchInv'
  <2>1. CASE HandleDialResult(c)
    <3>1. PICK i \in Ids : /\ sessions[i] = None
                           /\ sessions' = [sessions EXCEPT ![i] = c] /\ id' = [id EXCEPT ![c] = i]
      BY <2>1 DEF HandleDialResult, GenerateSessionID, Set
    <3>2. /\ UNCHANGED <<poolDone, notified, ping>> /\ watcher' = [watcher EXCEPT ![c] = "watching"]
          /\ sctx' = [sctx EXCEPT ![c] = IF poolDone THEN "canceled" ELSE "none"]
      BY <2>1 DEF HandleDialResult, Set
    <3>3. Open' \subseteq Open \cup {c}
      BY <3>1 DEF Open, SessInv, PoolInv, CoreType
    <3>4. \A d \in Open' : poolDone' \/ (watcher'[d] \in {"watching", "drop"} /\ sctx'[d] = "none")
      BY <3>2, <3>3 DEF WatchInv, LossesAreFollowedUp, SessInv, LiveInv, DropsKnown, Open
    <3>5. \A d \in Clients : sctx'[d] = "lost" => Reports(d)'
      BY <3>2, ReportsStay DEF WatchInv, LossesAreFollowedUp, SessInv, LiveInv
    <3>6. \A d \in Clients : sctx'[d] # "none" => id'[d] # None
      BY <3>1, <3>2, PoolAssumption DEF WatchInv, SessInv, LiveInv, PoolInv, CoreType
    <3> QED  BY <3>4, <3>5, <3>6 DEF WatchInv, LossesAreFollowedUp
  <2>2. CASE ~HandleDialResult(c)
    BY <1>0, <1>1, <2>2 DEF Opening, HandleOpen, OpenerLeaves, Dial, StartForwards, DialAbandons,
       HandleDialError, loopVars, dropVars
  <2> QED  BY <2>1, <2>2
<1>2. ASSUME NEW c \in Clients, Watching(c) PROVE WatchInv'
  <2>1. CASE WatcherStops(c) \/ WatcherNotices(c) \/ WatcherNotifies(c)
    <3>1. /\ UNCHANGED <<sessions, poolDone, sctx, id>> /\ \A d \in Clients \ {c} : watcher'[d] = watcher[d]
          /\ watcher'[c] = "drop" \/ watcher[c] = "notify" \/ sctx[c] # "none"
      BY <2>1 DEF WatcherStops, WatcherNotices, WatcherNotifies, Set, loopVars, sessVars, SessInv, DropsKnown
    <3>2. \A d \in Open' : poolDone' \/ (watcher'[d] \in {"watching", "drop"} /\ sctx'[d] = "none")
      BY <3>1 DEF WatchInv, LossesAreFollowedUp, Open
    <3>3. \A d \in Clients : sctx'[d] = "lost" => Reports(d)'
      BY <3>1, ReportsStay DEF WatchInv, LossesAreFollowedUp
    <3> QED  BY <3>1, <3>2, <3>3 DEF WatchInv, LossesAreFollowedUp
  <2>2. CASE WatcherDrops(c)
    <3>1. /\ id[c] \in Ids /\ UNCHANGED <<poolDone, id>> /\ watcher'[c] = "notify"
          /\ \A d \in Clients \ {c} : watcher'[d] = watcher[d]
      BY <2>2 DEF WatcherDrops, Set, SessInv, DropsKnown
    <3>2. c \in Open => sessions[id[c]] = c
      BY OpenById DEF SessInv
    <3>3. CASE HandleClose(id[c], "lost")
      <4>1. \A d \in Open \ {sessions[id[c]]} : watcher'[d] = watcher[d]
        BY <3>1, <3>2 DEF Open
      <4>2. ASSUME NEW d \in Clients, d = sessions[id[c]] PROVE Reports(d)'
        <5>1. id[d] = id[c]
          BY <3>1, <4>2, PoolAssumption DEF SessInv, PoolInv, CoreType, MapAgrees
        <5>2. CASE d = c
          BY <3>1, <5>2 DEF Reports
        <5>3. CASE d # c
          BY <3>1, <5>1, <5>3 DEF Reports, Shares
        <5> QED  BY <5>2, <5>3
      <4> QED  BY <3>1, <3>3, <4>1, <4>2, CloseIsWatched
    <3>4. CASE poolDone /\ UNCHANGED <<sessions, sctx>>
      BY <3>1, <3>4, ReportsStay DEF WatchInv, LossesAreFollowedUp
    <3> QED  BY <2>2, <3>3, <3>4 DEF WatcherDrops, DropSession
  <2> QED  BY <1>2, <2>1, <2>2 DEF Watching
<1>3. ASSUME NEW p \in Pings, Pinging(p) PROVE WatchInv'
  <2>1. CASE PingGets(p) \/ PingProbes(p) \/ PingNotifies(p)
    BY <1>0, <2>1 DEF PingGets, PingProbes, PingNotifies, loopVars, sessVars
  <2>2. CASE PingDrops(p)
    <3>1. /\ ping[p].id \in Ids /\ ping[p].client \in Clients /\ id[ping[p].client] = ping[p].id
          /\ UNCHANGED <<poolDone, id, watcher>>
          /\ ping'[p].pc = "notify" /\ ping'[p].client = ping[p].client
      <4>1. ping[p] \in [pc : {"probe", "drop", "notify", "done"}, id : Ids, client : Clients] /\ ping[p].pc = "drop"
        BY <2>2 DEF PingDrops, SessInv, DropsKnown, NoPing
      <4> QED  BY <2>2, <4>1 DEF PingDrops, SessInv, DropsKnown, DropsFailed
    <3>2. CASE HandleClose(ping[p].id, "lost")
      <4>1. ASSUME NEW d \in Clients, d = sessions[ping[p].id] PROVE Reports(d)'
        <5>1. id[d] = ping[p].id
          BY <3>1, <4>1, PoolAssumption DEF SessInv, PoolInv, CoreType, MapAgrees
        <5>2. CASE d = ping[p].client
          BY <3>1, <5>2 DEF Reports
        <5>3. CASE d # ping[p].client
          BY <3>1, <5>1, <5>3 DEF Reports, Shares
        <5> QED  BY <5>2, <5>3
      <4> QED  BY <3>1, <3>2, <4>1, CloseIsWatched
    <3>3. CASE UNCHANGED <<sessions, sctx>>
      BY <1>0, <3>1, <3>3
    <3> QED  BY <2>2, <3>2, <3>3 DEF PingDrops, DropSession
  <2> QED  BY <1>3, <2>1, <2>2 DEF Pinging
<1>4. ASSUME NEW c \in Clients, ConnectionFails(c) PROVE WatchInv'
  BY <1>0, <1>4 DEF ConnectionFails, loopVars, dropVars
<1>5. ASSUME NEW i \in Ids, UserCloses(i) PROVE WatchInv'
  BY <1>5, CloseIsWatched DEF UserCloses, dropVars
<1>6. ASSUME NEW e \in Execs, Executing(e) PROVE WatchInv'
  BY <1>0, <1>6 DEF Executing, HandleExec, CallerCancels, NewSession, RunStarts, Spill, RunReturns,
     ExecRuns, OpeningEnds, RunningEnds, Kill, ExecReturns, UserDeletesSpool, loopVars, sessVars, dropVars
<1>7. ASSUME NEW v \in Savers, Saving(v) PROVE WatchInv'
  BY <1>0, <1>7 DEF Saving, SaveGets, SaveOpens, SaveCopies, SaveDeletes, loopVars, sessVars, dropVars
<1>8. CASE PoolCancelled
  <2>1. /\ poolDone' /\ UNCHANGED id
        /\ \A c \in Clients : sctx'[c] = sctx[c] \/ (sctx'[c] = "canceled" /\ id[c] # None)
    BY <1>8 DEF PoolCancelled, SessInv, LiveInv
  <2> QED  BY <2>1, ReportsStay DEF WatchInv, LossesAreFollowedUp
<1>9. CASE RunLoopReturns
  BY <1>0, <1>9 DEF RunLoopReturns, dropVars
<1>10. CASE UNCHANGED vars
  BY <1>0, <1>10 DEF vars, loopVars, sessVars, dropVars
<1> QED  BY <1>1, <1>2, <1>3, <1>4, <1>5, <1>6, <1>7, <1>8, <1>9, <1>10 DEF Next

\* Every session in the map is watched until the pool ends, and no loss goes
\* unreported: neither a race of watcher, pings and users for the close nor the
\* callers that stop waiting lose a report.
THEOREM LossesAreReported == Spec => []LossesAreFollowedUp
<1>1. Init => WatchInv
  BY PoolAssumption DEF Init, WatchInv, LossesAreFollowedUp, Open
<1>2. WatchInv => LossesAreFollowedUp
  BY DEF WatchInv
<1> QED  BY SessionInvariant, WatchInvKept, <1>1, <1>2, PTL DEF Spec

\* A caller that waits is with executeCommand, which turns to the context that never
\* ends only with the answer.
Waits(e) ==
  /\ caller[e] \in {"waiting", "canceled"} => xpc[e] \in {"opening", "running", "register"}
  /\ caller[e] # "answered" => e \notin detached

\* Exec never waits for a goroutine that has gone, nor one that waits for a loop
\* that has returned with a context nobody ends.
THEOREM ExecIsServed == Spec => []WaitersAreServed
<1> DEFINE Inv == \A e \in Execs : Waits(e)
<1>1. Init => Inv
  BY DEF Init, Waits
<1>2. CommandInv /\ Inv /\ [Next]_vars => Inv'
  <2> SUFFICES ASSUME CommandInv, Inv, [Next]_vars PROVE Inv'
    OBVIOUS
  <2>1. CASE UNCHANGED execVars
    BY <2>1 DEF execVars, Waits
  <2>2. ASSUME NEW e \in Execs, Executing(e), ~UserDeletesSpool(e) PROVE Inv'
    <3> USE DEF CommandInv, ExecInv, ExecType, ExecOK, Set, Waits
    <3>1. CASE HandleExec(e) \/ CallerCancels(e)
      BY <3>1 DEF HandleExec, CallerCancels
    <3>2. CASE NewSession(e) \/ RunStarts(e) \/ RunReturns(e) \/ Spill(e)
      BY <3>2 DEF NewSession, RunStarts, RunReturns, Spill
    <3>3. CASE OpeningEnds(e)
      BY <3>3 DEF OpeningEnds
    <3>4. CASE RunningEnds(e) \/ Kill(e)
      BY <3>4 DEF RunningEnds, Kill
    <3>5. CASE ExecReturns(e)
      BY <3>5 DEF ExecReturns
    <3> QED  BY <2>2, <3>1, <3>2, <3>3, <3>4, <3>5 DEF Executing, ExecRuns
  <2>3. ASSUME NEW c \in Clients, Opening(c) \/ ConnectionFails(c) \/ Watching(c) PROVE UNCHANGED execVars
    BY <2>3 DEF Opening, HandleOpen, OpenerLeaves, Dial, StartForwards, DialAbandons, HandleDialError,
       HandleDialResult, ConnectionFails, Watching, WatcherStops, WatcherNotices, WatcherDrops, WatcherNotifies
  <2>4. ASSUME NEW p \in Pings, Pinging(p) PROVE UNCHANGED execVars
    BY <2>4 DEF Pinging, PingGets, PingProbes, PingDrops, PingNotifies
  <2>5. ASSUME NEW v \in Savers, Saving(v) PROVE UNCHANGED execVars
    BY <2>5 DEF Saving, SaveGets, SaveOpens, SaveCopies, SaveDeletes
  <2>6. CASE (\E i \in Ids : UserCloses(i)) \/ (\E e \in Execs : UserDeletesSpool(e)) \/ PoolCancelled
             \/ RunLoopReturns \/ UNCHANGED vars
    BY <2>1, <2>6 DEF UserCloses, UserDeletesSpool, PoolCancelled, RunLoopReturns, vars
  <2> QED  BY <2>1, <2>2, <2>3, <2>4, <2>5, <2>6 DEF Next
<1>3. SessInv /\ CommandInv /\ RestType /\ Inv => WaitersAreServed
  <2> SUFFICES ASSUME SessInv, CommandInv, RestType, Inv, NEW e \in Execs, caller[e] \in {"waiting", "canceled"},
                      xpc[e] = "register"
               PROVE  loop = "running" \/ sctx[xc[e]] # "none"
    BY DEF WaitersAreServed, Waits
  <2>1. xc[e] \in Clients /\ id[xc[e]] # None
    BY PoolAssumption DEF CommandInv, ExecInv, ExecType, ExecOK
  <2> QED  BY <2>1 DEF SessInv, LiveInv, RestType
<1>4. Init => RestType
  <2>1. Init => poolDone \in BOOLEAN
    BY DEF Init
  <2> QED  BY <2>1 DEF Init, RestType
<1>5. SessInv /\ RestType /\ [Next]_vars => RestType'
  BY RestTypeKept
<1> QED  BY SessionInvariant, CommandInvariant, <1>1, <1>2, <1>3, <1>4, <1>5, PTL DEF Spec
=============================================================================
