----------------------------- MODULE SessionPool -----------------------------
(***************************************************************************)
(* The SSH session pool: internal/session/pool.go, pool_handlers.go and    *)
(* spooling_buffer.go.                                                     *)
(*                                                                         *)
(* RunLoop is one goroutine that owns the map of sessions; every handler   *)
(* is one step of it, taken together with the rendezvous on reqCh or       *)
(* dialCh that hands it the request.  Around the loop run                  *)
(*   a dial goroutine and a watcher for each connection c \in Clients;     *)
(*   calls of Ping, which hold a session ID while they wait for the peer;  *)
(*   commands e \in Execs, each with the goroutine of executeCommand or    *)
(*   cleanupExec, the goroutine of sess.Run and the caller in Exec;        *)
(*   calls of SaveSpool.                                                   *)
(* Everything outside the loop refers to a session by its ID, which a      *)
(* later session may be given again.                                       *)
(*                                                                         *)
(* Transfers are the subject of TransferJob.  A command has one output     *)
(* buffer here; the code has two that do the same.                         *)
(***************************************************************************)
EXTENDS Naturals, FiniteSets

CONSTANTS
  Ids,      \* session IDs generateSessionID may draw for a machine
  Clients,  \* connections, one for each call of Open
  Execs,    \* commands, each with the spool file it may write
  Pings,    \* calls of Ping
  Savers,   \* calls of SaveSpool
  Probed,   \* the server answers keepalive@openssh.com
  None

ASSUME PoolAssumption ==
  /\ Probed \in BOOLEAN
  /\ None \notin Clients /\ None \notin Ids /\ None \notin Execs
  /\ IsFiniteSet(Ids) /\ IsFiniteSet(Clients) /\ Ids # {}

VARIABLES
  loop,      \* RunLoop: "running" or "exited"
  poolDone,  \* its context is done
  sessions,  \* poolState.sessions
  \* Of each connection and the Session made for it.
  opener,    \* the caller of OpenCfg
  dial,      \* the goroutine of handleOpen
  conn,      \* the ssh.Client
  fwd,       \* its local forwards
  id,        \* Session.ID
  sctx,      \* the cause Session.ctx was cancelled with
  spools,    \* Session.spools
  watcher,   \* watchSession
  notified,  \* the sessions OnDisconnect was told of
  ping,      \* Ping: where it is, the ID it was given, the client it got
  \* Of each command.
  xc,        \* the Session it runs on
  xpc,       \* executeCommand, then cleanupExec
  caller,    \* Exec
  chan,      \* the SSH session of the command
  run,       \* the goroutine of sess.Run
  file,      \* SpoolingBuffer.file
  detached,  \* cleanupExec registers with a context that is never done
  disk,      \* the spool files that exist
  save,      \* SaveSpool: where it is, and which spool
  \* History, read by properties only.
  deleted,   \* spools dropped by DeleteSpool
  late       \* commands abandoned after the kill timeout

loopVars == <<loop, poolDone, sessions>>
sessVars == <<opener, dial, conn, fwd, id, sctx, spools>>
dropVars == <<watcher, notified, ping>>
execVars == <<xc, xpc, caller, chan, run, file, detached, late>>
vars == <<loopVars, sessVars, dropVars, execVars, disk, save, deleted>>

Spilled(e) == file[e] # "none"

NoPing == [pc |-> "idle", id |-> None, client |-> None]

\* The type of every variable.
LoopType ==
  /\ loop \in {"running", "exited"} /\ poolDone \in BOOLEAN
  /\ sessions \in [Ids -> Clients \cup {None}]
DialType ==
  /\ opener \in [Clients -> {"idle", "waiting", "answered", "gone"}]
  /\ dial \in [Clients -> {"idle", "dialing", "forwards", "deliver", "refuse", "done"}]
  /\ conn \in [Clients -> {"none", "up", "stalled", "lost", "closed"}]
  /\ fwd \in [Clients -> {"none", "open", "closed"}]
SessionType ==
  /\ id \in [Clients -> Ids \cup {None}]
  /\ sctx \in [Clients -> {"none", "closed", "lost", "canceled"}]
  /\ spools \in [Clients -> SUBSET Execs]
DropType ==
  /\ watcher \in [Clients -> {"none", "watching", "drop", "notify", "done"}]
  /\ notified \subseteq Clients
  /\ ping \in [Pings -> {NoPing} \cup
       [pc : {"probe", "drop", "notify", "done"}, id : Ids, client : Clients]]
ExecType ==
  /\ xc \in [Execs -> Clients \cup {None}]
  /\ xpc \in [Execs -> {"idle", "opening", "running", "register", "kill", "cleanup", "done"}]
  /\ caller \in [Execs -> {"idle", "waiting", "canceled", "answered"}]
  /\ chan \in [Execs -> {"none", "opening", "open", "failed", "closed"}]
  /\ run \in [Execs -> {"none", "starting", "running", "returned"}]
  /\ file \in [Execs -> {"none", "open", "closed"}]
  /\ detached \subseteq Execs /\ late \subseteq Execs
SpoolType ==
  /\ disk \subseteq Execs /\ deleted \subseteq Execs
  /\ save \in [Savers -> [pc : {"idle", "open", "copy", "delete", "done"}, spool : Execs \cup {None}]]

TypeOK == LoopType /\ DialType /\ SessionType /\ DropType /\ ExecType /\ SpoolType

Init ==
  /\ loop = "running" /\ poolDone = FALSE
  /\ sessions = [i \in Ids |-> None]
  /\ opener = [c \in Clients |-> "idle"] /\ dial = [c \in Clients |-> "idle"]
  /\ conn = [c \in Clients |-> "none"] /\ fwd = [c \in Clients |-> "none"]
  /\ id = [c \in Clients |-> None] /\ sctx = [c \in Clients |-> "none"]
  /\ spools = [c \in Clients |-> {}]
  /\ watcher = [c \in Clients |-> "none"] /\ notified = {}
  /\ ping = [p \in Pings |-> NoPing]
  /\ xc = [e \in Execs |-> None] /\ xpc = [e \in Execs |-> "idle"]
  /\ caller = [e \in Execs |-> "idle"] /\ chan = [e \in Execs |-> "none"]
  /\ run = [e \in Execs |-> "none"] /\ file = [e \in Execs |-> "none"]
  /\ detached = {} /\ late = {} /\ disk = {} /\ deleted = {}
  /\ save = [v \in Savers |-> [pc |-> "idle", spool |-> None]]

Set(f, x, v) == [f EXCEPT ![x] = v]

-----------------------------------------------------------------------------
(* Open.                                                                   *)

HandleOpen(c) ==
  /\ loop = "running" /\ dial[c] = "idle"
  /\ opener' = Set(opener, c, "waiting")
  /\ dial' = Set(dial, c, "dialing")
  /\ UNCHANGED <<loopVars, conn, fwd, id, sctx, spools, dropVars, execVars, disk, save, deleted>>

\* The context of OpenCfg ends; the dial goes on without a reader for its answer.
OpenerLeaves(c) ==
  /\ opener[c] = "waiting"
  /\ opener' = Set(opener, c, "gone")
  /\ UNCHANGED <<loopVars, dial, conn, fwd, id, sctx, spools, dropVars, execVars, disk, save, deleted>>

\* Config.dial.
Dial(c) ==
  /\ dial[c] = "dialing"
  /\ \/ conn' = Set(conn, c, "up") /\ dial' = Set(dial, c, "forwards")
     \/ UNCHANGED conn /\ dial' = Set(dial, c, "refuse")
  /\ UNCHANGED <<loopVars, opener, fwd, id, sctx, spools, dropVars, execVars, disk, save, deleted>>

\* startLocalForwards; if it fails the connection is closed.
StartForwards(c) ==
  /\ dial[c] = "forwards"
  /\ \/ fwd' = Set(fwd, c, "open") /\ dial' = Set(dial, c, "deliver") /\ UNCHANGED conn
     \/ conn' = Set(conn, c, "closed") /\ dial' = Set(dial, c, "refuse") /\ UNCHANGED fwd
  /\ UNCHANGED <<loopVars, opener, id, sctx, spools, dropVars, execVars, disk, save, deleted>>

\* Mutant: the result is dropped with the connection it holds.
DialAbandonsLeaking(c) ==
  /\ dial[c] \in {"deliver", "refuse"} /\ poolDone
  /\ dial' = Set(dial, c, "done")
  /\ UNCHANGED <<loopVars, opener, conn, fwd, id, sctx, spools, dropVars, execVars, disk, save, deleted>>

\* The pool's context is done: nobody need be there to take the result.
DialAbandons(c) ==
  /\ dial[c] \in {"deliver", "refuse"} /\ poolDone
  /\ dial' = Set(dial, c, "done")
  /\ conn' = IF conn[c] = "none" THEN conn ELSE Set(conn, c, "closed")
  /\ fwd' = IF fwd[c] = "none" THEN fwd ELSE Set(fwd, c, "closed")
  /\ UNCHANGED <<loopVars, opener, id, sctx, spools, dropVars, execVars, disk, save, deleted>>

\* Mutant: the IDs in use are not looked at.
GenerateAnyID == Ids

\* generateSessionID draws an ID no session in the map has.
GenerateSessionID == {i \in Ids : sessions[i] = None}

Answer(c) == opener' = IF opener[c] = "waiting" THEN Set(opener, c, "answered") ELSE opener

\* handleDialResult, of a dial that failed.
HandleDialError(c) ==
  /\ loop = "running" /\ dial[c] = "refuse"
  /\ dial' = Set(dial, c, "done") /\ Answer(c)
  /\ UNCHANGED <<loopVars, conn, fwd, id, sctx, spools, dropVars, execVars, disk, save, deleted>>

\* handleDialResult: the session's context descends from the pool's.
HandleDialResult(c) ==
  /\ loop = "running" /\ dial[c] = "deliver"
  /\ \E i \in GenerateSessionID :
       /\ sessions' = Set(sessions, i, c)
       /\ id' = Set(id, c, i)
  /\ sctx' = Set(sctx, c, IF poolDone THEN "canceled" ELSE "none")
  /\ watcher' = Set(watcher, c, "watching")
  /\ dial' = Set(dial, c, "done") /\ Answer(c)
  /\ UNCHANGED <<loop, poolDone, conn, fwd, spools, notified, ping, execVars, disk, save, deleted>>

-----------------------------------------------------------------------------
(* Close.                                                                  *)

\* The spool files under a session's directory.
DirOf(i) == {e \in Execs : xc[e] # None /\ id[xc[e]] = i}

\* Remove of each registered spool, then RemoveAll of the directory.
RemoveAll(c) == disk \ (spools[c] \cup DirOf(id[c]))

\* handleClose: cancel, remove the spools, close the forwards and the client,
\* forget the session.  Nothing if the ID is not in the map.
HandleClose(i, cause) ==
  LET c == sessions[i] IN
    IF c = None
    THEN UNCHANGED <<sessions, conn, fwd, sctx, disk>>
    ELSE /\ sctx' = IF sctx[c] = "none" THEN Set(sctx, c, cause) ELSE sctx
         /\ disk' = RemoveAll(c)
         /\ fwd' = Set(fwd, c, "closed")
         /\ conn' = Set(conn, c, "closed")
         /\ sessions' = Set(sessions, i, None)

UserCloses(i) ==
  /\ loop = "running" /\ sessions[i] # None
  /\ HandleClose(i, "closed")
  /\ UNCHANGED <<loop, poolDone, opener, dial, id, spools, dropVars, execVars, save, deleted>>

\* The context of RunLoop ends, and with it that of every session.
PoolCancelled ==
  /\ ~poolDone /\ poolDone' = TRUE
  /\ sctx' = [c \in Clients |-> IF id[c] # None /\ sctx[c] = "none" THEN "canceled" ELSE sctx[c]]
  /\ UNCHANGED <<loop, sessions, opener, dial, conn, fwd, id, spools, dropVars, execVars, disk, save, deleted>>

Open == {c \in Clients : \E i \in Ids : sessions[i] = c}

\* RunLoop takes ctx.Done: every session in the map is torn down.  Requests
\* and dial results that are ready too may be taken first.
RunLoopReturns ==
  /\ loop = "running" /\ poolDone
  /\ loop' = "exited"
  /\ conn' = [c \in Clients |-> IF c \in Open THEN "closed" ELSE conn[c]]
  /\ fwd' = [c \in Clients |-> IF c \in Open THEN "closed" ELSE fwd[c]]
  /\ disk' = disk \ UNION {spools[c] \cup DirOf(id[c]) : c \in Open}
  /\ UNCHANGED <<poolDone, sessions, opener, dial, id, sctx, spools, dropVars, execVars, save, deleted>>

\* The peer or the network; or startKeepalive, which closes the client after
\* ServerAliveCountMax probes without an answer.
ConnectionFails(c) ==
  /\ conn[c] \in {"up", "stalled"}
  /\ conn' = Set(conn, c, IF conn[c] = "up" THEN "stalled" ELSE "lost")
  /\ UNCHANGED <<loopVars, opener, dial, fwd, id, sctx, spools, dropVars, execVars, disk, save, deleted>>

-----------------------------------------------------------------------------
(* watchSession and dropSession.                                           *)

WatcherStops(c) ==
  /\ watcher[c] = "watching" /\ sctx[c] # "none"
  /\ watcher' = Set(watcher, c, "done")
  /\ UNCHANGED <<loopVars, sessVars, notified, ping, execVars, disk, save, deleted>>

\* Mutant: the keepalive waits for an answer without a bound.
WatcherNoticesLossOnly(c) ==
  /\ watcher[c] = "watching" /\ sctx[c] = "none" /\ conn[c] = "lost"
  /\ watcher' = Set(watcher, c, "drop")
  /\ UNCHANGED <<loopVars, sessVars, notified, ping, execVars, disk, save, deleted>>

\* c.Wait returned, or a keepalive failed or timed out, and then s.ctx.Err()
\* is still nil.
WatcherNotices(c) ==
  /\ watcher[c] = "watching" /\ sctx[c] = "none"
  /\ conn[c] = "lost" \/ (conn[c] = "stalled" /\ Probed)
  /\ watcher' = Set(watcher, c, "drop")
  /\ UNCHANGED <<loopVars, sessVars, notified, ping, execVars, disk, save, deleted>>

\* dropSession, by ID: the close request is taken by the loop, or its context
\* (ctxDone) ends first.
DropSession(i, ctxDone) ==
  \/ loop = "running" /\ HandleClose(i, "lost")
  \/ ctxDone /\ UNCHANGED <<sessions, conn, fwd, sctx, disk>>

WatcherDrops(c) ==
  /\ watcher[c] = "drop"
  /\ DropSession(id[c], poolDone)
  /\ watcher' = Set(watcher, c, "notify")
  /\ UNCHANGED <<loop, poolDone, opener, dial, id, spools, notified, ping, execVars, save, deleted>>

WatcherNotifies(c) ==
  /\ watcher[c] = "notify"
  /\ watcher' = Set(watcher, c, "done")
  /\ notified' = notified \cup {c}
  /\ UNCHANGED <<loopVars, sessVars, ping, execVars, disk, save, deleted>>

\* Get; a session that is not there is the caller's error.
PingGets(p) ==
  /\ loop = "running" /\ ping[p].pc = "idle"
  /\ \E i \in Ids : sessions[i] # None
       /\ ping' = Set(ping, p, [pc |-> IF Probed THEN "probe" ELSE "done", id |-> i, client |-> sessions[i]])
  /\ UNCHANGED <<loopVars, sessVars, watcher, notified, execVars, disk, save, deleted>>

\* Mutant: a ping that runs out of time drops the session.
PingDropsOnTimeout(p) ==
  /\ ping[p].pc = "probe"
  /\ \E pc \in {"drop", "done"} : ping' = [ping EXCEPT ![p].pc = pc]
  /\ UNCHANGED <<loopVars, sessVars, watcher, notified, execVars, disk, save, deleted>>

\* The probe fails; or it is answered, or the caller stops waiting.
PingProbes(p) ==
  /\ ping[p].pc = "probe"
  /\ \/ conn[ping[p].client] \in {"lost", "closed"} /\ ping' = [ping EXCEPT ![p].pc = "drop"]
     \/ ping' = [ping EXCEPT ![p].pc = "done"]
  /\ UNCHANGED <<loopVars, sessVars, watcher, notified, execVars, disk, save, deleted>>

\* The caller's context may end at any time.
PingDrops(p) ==
  /\ ping[p].pc = "drop"
  /\ DropSession(ping[p].id, TRUE)
  /\ ping' = [ping EXCEPT ![p].pc = "notify"]
  /\ UNCHANGED <<loop, poolDone, opener, dial, id, spools, watcher, notified, execVars, save, deleted>>

PingNotifies(p) ==
  /\ ping[p].pc = "notify"
  /\ ping' = [ping EXCEPT ![p].pc = "done"]
  /\ notified' = notified \cup {ping[p].client}
  /\ UNCHANGED <<loopVars, sessVars, watcher, execVars, disk, save, deleted>>

-----------------------------------------------------------------------------
(* Exec.                                                                   *)

HandleExec(e) ==
  /\ loop = "running" /\ caller[e] = "idle"
  /\ \E i \in Ids :
       \/ /\ sessions[i] # None
          /\ xc' = Set(xc, e, sessions[i])
          /\ xpc' = Set(xpc, e, "opening") /\ chan' = Set(chan, e, "opening")
          /\ caller' = Set(caller, e, "waiting")
       \/ /\ sessions[i] = None
          /\ caller' = Set(caller, e, "answered") /\ xpc' = Set(xpc, e, "done")
          /\ UNCHANGED <<xc, chan>>
  /\ UNCHANGED <<loopVars, sessVars, dropVars, run, file, detached, late, disk, save, deleted>>

\* The caller's context ends: it closes r.cancel, then waits for the answer.
CallerCancels(e) ==
  /\ caller[e] = "waiting"
  /\ caller' = Set(caller, e, "canceled")
  /\ UNCHANGED <<loopVars, sessVars, dropVars, xc, xpc, chan, run, file, detached, late, disk, save, deleted>>

\* client.NewSession in its goroutine.  One that arrives after the command was
\* given up is closed by the goroutine that waits for it.
NewSession(e) ==
  /\ chan[e] = "opening"
  /\ \/ conn[xc[e]] = "up" /\ chan' = Set(chan, e, IF xpc[e] = "opening" THEN "open" ELSE "closed")
     \/ conn[xc[e]] # "stalled" /\ chan' = Set(chan, e, "failed")
  /\ UNCHANGED <<loopVars, sessVars, dropVars, xc, xpc, caller, run, file, detached, late, disk, save, deleted>>

\* Mutant: a session that arrives with the cancellation is not closed.
GiveUpOpening(e) == UNCHANGED chan

GiveUp(e) == chan' = IF chan[e] = "open" THEN Set(chan, e, "closed") ELSE chan

\* The first select of executeCommand.
OpeningEnds(e) ==
  /\ xpc[e] = "opening"
  /\ \/ /\ chan[e] = "open"
        /\ xpc' = Set(xpc, e, "running") /\ run' = Set(run, e, "starting")
        /\ UNCHANGED <<chan, caller>>
     \/ /\ chan[e] = "failed"
        /\ xpc' = Set(xpc, e, "done") /\ caller' = Set(caller, e, "answered")
        /\ UNCHANGED <<chan, run>>
     \/ /\ caller[e] = "canceled" \/ sctx[xc[e]] # "none"
        /\ xpc' = Set(xpc, e, "done") /\ caller' = Set(caller, e, "answered")
        /\ GiveUp(e) /\ UNCHANGED run
  /\ UNCHANGED <<loopVars, sessVars, dropVars, xc, file, detached, late, disk, save, deleted>>

\* sess.Run in its goroutine: the command starts, while it can be asked for.
RunStarts(e) ==
  /\ run[e] = "starting" /\ conn[xc[e]] = "up" /\ chan[e] = "open"
  /\ run' = Set(run, e, "running")
  /\ UNCHANGED <<loopVars, sessVars, dropVars, xc, xpc, caller, chan, file, detached, late, disk, save, deleted>>

\* SpoolingBuffer.Write passes its threshold: the directory of the session is
\* made if need be and the file created.  What the connection has buffered is
\* still written after it is closed.
Spill(e) ==
  /\ run[e] = "running" /\ file[e] = "none"
  /\ file' = Set(file, e, "open")
  /\ disk' = disk \cup {e}
  /\ UNCHANGED <<loopVars, sessVars, dropVars, xc, xpc, caller, chan, run, detached, late, save, deleted>>

RunReturns(e) ==
  /\ run[e] \in {"starting", "running"} /\ conn[xc[e]] # "stalled"
  /\ run' = Set(run, e, "returned")
  /\ UNCHANGED <<loopVars, sessVars, dropVars, xc, xpc, caller, chan, file, detached, late, disk, save, deleted>>

CloseBuffer(e) == file' = IF file[e] = "open" THEN Set(file, e, "closed") ELSE file

\* The second select of executeCommand: Run returned, the caller cancelled, or
\* the session ended.  In the last two cases the caller has its answer now and
\* cleanupExec goes on.
RunningEnds(e) ==
  /\ xpc[e] = "running"
  /\ \/ /\ run[e] = "returned"
        /\ xpc' = Set(xpc, e, "register")
        /\ chan' = Set(chan, e, "closed") /\ CloseBuffer(e)
        /\ UNCHANGED <<caller, detached>>
     \/ /\ caller[e] = "canceled" \/ sctx[xc[e]] # "none"
        /\ xpc' = Set(xpc, e, "kill") /\ caller' = Set(caller, e, "answered")
        /\ \/ caller[e] = "canceled" /\ UNCHANGED detached
           \/ sctx[xc[e]] # "none" /\ detached' = detached \cup {e}
        /\ UNCHANGED <<chan, file>>
  /\ UNCHANGED <<loopVars, sessVars, dropVars, xc, run, late, disk, save, deleted>>

\* cleanupExec: SIGKILL and Close, then wait for Run, for at most five seconds.
Kill(e) ==
  /\ xpc[e] = "kill"
  /\ xpc' = Set(xpc, e, "cleanup")
  /\ chan' = Set(chan, e, "closed") /\ CloseBuffer(e)
  /\ late' = IF run[e] # "returned" THEN late \cup {e} ELSE late
  /\ UNCHANGED <<loopVars, sessVars, dropVars, xc, caller, run, detached, disk, save, deleted>>

\* handleRegisterSpool, by ID.
HandleRegisterSpool(e) ==
  LET c == sessions[id[xc[e]]] IN
    spools' = IF c = None THEN spools ELSE [spools EXCEPT ![c] = @ \cup {e}]

\* Mutant: registered with a context that is never done.
RegisterForEver(e) ==
  \/ ~Spilled(e) /\ UNCHANGED spools
  \/ Spilled(e) /\ loop = "running" /\ HandleRegisterSpool(e)

\* RegisterSpool, if the output spilled, with the context of the session or,
\* after the session's end, with context.Background().
RegisterSpool(e) ==
  \/ ~Spilled(e) /\ UNCHANGED spools
  \/ Spilled(e) /\ loop = "running" /\ HandleRegisterSpool(e)
  \/ Spilled(e) /\ e \notin detached /\ sctx[xc[e]] # "none" /\ UNCHANGED spools

ExecReturns(e) ==
  /\ xpc[e] \in {"register", "cleanup"}
  /\ RegisterSpool(e)
  /\ xpc' = Set(xpc, e, "done")
  /\ caller' = Set(caller, e, "answered")
  /\ UNCHANGED <<loopVars, opener, dial, conn, fwd, id, sctx, dropVars, xc, chan, run, file, detached, late, disk, save, deleted>>

-----------------------------------------------------------------------------
(* Spools.                                                                 *)

Registered(e) == {c \in Open : e \in spools[c]}

\* handleDeleteSpool, for a user or at the end of SaveSpool.
HandleDeleteSpool(e) ==
  /\ disk' = disk \ {e}
  /\ spools' = [c \in Clients |-> IF c \in Open THEN spools[c] \ {e} ELSE spools[c]]
  /\ deleted' = deleted \cup {e}

UserDeletesSpool(e) ==
  /\ loop = "running" /\ Registered(e) # {}
  /\ HandleDeleteSpool(e)
  /\ UNCHANGED <<loopVars, opener, dial, conn, fwd, id, sctx, dropVars, execVars, save>>

\* SaveSpool: the path from the loop, the file, the copy, then DeleteSpool.
SaveGets(v) ==
  /\ loop = "running" /\ save[v].pc = "idle"
  /\ \E e \in Execs : Registered(e) # {} /\ save' = Set(save, v, [pc |-> "open", spool |-> e])
  /\ UNCHANGED <<loopVars, sessVars, dropVars, execVars, disk, deleted>>

SaveOpens(v) ==
  /\ save[v].pc = "open"
  /\ save' = [save EXCEPT ![v].pc = IF save[v].spool \in disk THEN "copy" ELSE "done"]
  /\ UNCHANGED <<loopVars, sessVars, dropVars, execVars, disk, deleted>>

SaveCopies(v) ==
  /\ save[v].pc = "copy"
  /\ \E pc \in {"delete", "done"} : save' = [save EXCEPT ![v].pc = pc]
  /\ UNCHANGED <<loopVars, sessVars, dropVars, execVars, disk, deleted>>

SaveDeletes(v) ==
  /\ save[v].pc = "delete"
  /\ \/ loop = "running" /\ Registered(save[v].spool) # {} /\ HandleDeleteSpool(save[v].spool)
     \/ UNCHANGED <<disk, spools, deleted>>
  /\ save' = [save EXCEPT ![v].pc = "done"]
  /\ UNCHANGED <<loopVars, opener, dial, conn, fwd, id, sctx, dropVars, execVars>>

-----------------------------------------------------------------------------
Opening(c) ==
  \/ HandleOpen(c) \/ OpenerLeaves(c) \/ Dial(c) \/ StartForwards(c)
  \/ DialAbandons(c) \/ HandleDialError(c) \/ HandleDialResult(c)
Watching(c) == WatcherStops(c) \/ WatcherNotices(c) \/ WatcherDrops(c) \/ WatcherNotifies(c)
Pinging(p) == PingGets(p) \/ PingProbes(p) \/ PingDrops(p) \/ PingNotifies(p)
ExecRuns(e) == OpeningEnds(e) \/ RunningEnds(e) \/ Kill(e) \/ ExecReturns(e)
Executing(e) ==
  \/ HandleExec(e) \/ CallerCancels(e) \/ NewSession(e) \/ RunStarts(e) \/ Spill(e) \/ RunReturns(e)
  \/ ExecRuns(e) \/ UserDeletesSpool(e)
Saving(v) == SaveGets(v) \/ SaveOpens(v) \/ SaveCopies(v) \/ SaveDeletes(v)

Next ==
  \/ \E c \in Clients : Opening(c) \/ Watching(c) \/ ConnectionFails(c)
  \/ \E i \in Ids : UserCloses(i)
  \/ \E p \in Pings : Pinging(p)
  \/ \E e \in Execs : Executing(e)
  \/ \E v \in Savers : Saving(v)
  \/ PoolCancelled \/ RunLoopReturns

Spec == Init /\ [][Next]_vars

\* Goroutines run and their timers fire.  RunLoop serves the channels that are
\* ready in no order but starves none of them: a sender that waits is in the end
\* received, and so is ctx.Done.  Nothing is assumed of the peer or of users: a
\* handshake, which has no deadline, may never end.
Fairness ==
  /\ WF_vars(RunLoopReturns)
  /\ \A c \in Clients :
       /\ WF_vars(StartForwards(c))
       /\ WF_vars(DialAbandons(c)) /\ WF_vars(HandleDialError(c)) /\ WF_vars(HandleDialResult(c))
       /\ WF_vars(Watching(c))
  /\ \A p \in Pings : WF_vars(PingDrops(p) \/ PingNotifies(p))
  /\ \A e \in Execs : WF_vars(ExecRuns(e))
FairSpec == Spec /\ Fairness

-----------------------------------------------------------------------------
(* Properties.                                                             *)

\* No connection, and no listener of its forwards, is ever out of reach: one
\* that is open is in the map under its ID or in the hands of its dial
\* goroutine, and once the loop has returned only the latter is left.
NoOrphan ==
  \A c \in Clients :
    \/ conn[c] \in {"none", "closed"} /\ fwd[c] # "open"
    \/ dial[c] \in {"forwards", "deliver"}
    \/ loop = "running" /\ id[c] # None /\ sessions[id[c]] = c

\* A session is dropped as lost only if its own connection failed: neither a
\* ping nor a watcher takes down a healthy session, unless a session before or
\* after it was given the same ID.
Shares(c) == \E d \in Clients \ {c} : id[d] = id[c]
DropsOnlyLost ==
  [][\A c \in Clients : sctx[c] = "none" /\ sctx'[c] = "lost" =>
       conn[c] \in {"lost", "stalled"} \/ Shares(c)]_vars

\* What a command leaves behind when it has ended: no SSH channel, also when the
\* channel came up after the command was given up; and, if its output spilled and
\* its session lives, a spool that can be fetched by its ID until someone deletes it.
EndedCommandIsTidy ==
  \A e \in Execs : xpc[e] = "done" =>
    /\ chan[e] # "open"
    /\ Spilled(e) /\ sctx[xc[e]] = "none" /\ e \notin late =>
         (e \in spools[xc[e]] /\ e \in disk) \/ e \in deleted

\* Exec waits without a bound for the answer of executeCommand.  It comes: once
\* the caller cancels or the session ends, whatever the connection does.
ExecAnswers ==
  \A e \in Execs :
    caller[e] = "canceled" \/ (xc[e] # None /\ sctx[xc[e]] # "none") ~> caller[e] = "answered"

\* A connection that is lost, or stalls under a server that is probed, is
\* dropped from the map and reported, or the pool shuts down; unless a session
\* before or after it was given the same ID, when the report may name the other.
LossIsNoticed ==
  \A c \in Clients :
    (c \in Open /\ (conn[c] = "lost" \/ (Probed /\ conn[c] = "stalled")))
      ~> (c \notin Open /\ (c \in notified \/ sctx[c] = "closed" \/ Shares(c))) \/ poolDone

\* The loss of c was reported, or who dropped it is about to report it.
Reports(c) ==
  \/ c \in notified \/ watcher[c] = "notify"
  \/ \E p \in Pings : ping[p].pc = "notify" /\ ping[p].client = c
  \/ Shares(c)

\* Why LossIsNoticed can hold: until the pool shuts down, each session in the map
\* has a watcher that has not stopped; and one that was dropped as lost has been
\* reported, or is about to be, whichever of its watcher and the pings won.
LossesAreFollowedUp ==
  /\ \A c \in Open : poolDone \/ (watcher[c] \in {"watching", "drop"} /\ sctx[c] = "none")
  /\ \A c \in Clients : sctx[c] = "lost" => Reports(c)

\* Why ExecAnswers can hold: who waits in Exec is still served by executeCommand,
\* and where that registers a spool the loop takes it, or the context it registers
\* with is done: the one that never ends is used only when Exec has its answer.
WaitersAreServed ==
  \A e \in Execs : caller[e] \in {"waiting", "canceled"} =>
    \/ xpc[e] \in {"opening", "running"}
    \/ xpc[e] = "register" /\ e \notin detached /\ (loop = "running" \/ sctx[xc[e]] # "none")

\* After the pool's context ends every connection is closed in the end, those
\* that were still being dialled too.
ShutdownClosesAll ==
  poolDone ~> [](\A c \in Clients : conn[c] \in {"none", "closed"} /\ fwd[c] # "open")
=============================================================================
