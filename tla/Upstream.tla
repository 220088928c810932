------------------------------ MODULE Upstream ------------------------------
(***************************************************************************)
(* The life of one gateway upstream: internal/gateway/upstream.go and      *)
(* drain.go.                                                               *)
(*                                                                         *)
(* The goroutines that touch an Upstream are processes with a program      *)
(* counter each:                                                           *)
(*   Conn     Gateway.Build (or attachUpstream): Connect, then list;       *)
(*   Sup      the supervisor: wait for a drop, back off, reconnect;        *)
(*   Closers  calls of Upstream.Close;                                     *)
(*   Callers  forwarded requests, each between enter and leave.            *)
(* A step of a process is a critical section of u.mu or one wait outside   *)
(* of it, so every interleaving the mutex allows is a behaviour.           *)
(*                                                                         *)
(* Sessions and transports belong to the MCP SDK and the operating system. *)
(* They are modelled by what upstream.go relies on: Close waits for the    *)
(* calls outstanding on a session, Wait returns once it has ended, the     *)
(* peer may end it at any time.  The cleanup of a transport is the         *)
(* repository's (internal/gateway/transport): for stdio (KillsTransport)   *)
(* it ends the session, for http and sse it cancels the requests in flight.*)
(***************************************************************************)
EXTENDS Naturals, FiniteSets

CONSTANTS
  Sess,            \* identifiers for session/transport pairs, recycled
  Callers,         \* goroutines forwarding a request
  Closers,         \* goroutines calling Close
  Conn, Sup,       \* the connecting goroutine and the supervisor
  None,            \* nil
  DrainWaits,      \* drainTimeout >= 0
  KillsTransport,  \* cleanup kills the peer (stdio), or cancels the requests (http, sse)
  Reconnects       \* reconnectInitial >= 0

ASSUME UpstreamAssumption ==
  /\ DrainWaits \in BOOLEAN /\ KillsTransport \in BOOLEAN /\ Reconnects \in BOOLEAN
  /\ None \notin Sess
  /\ Conn # Sup /\ {Conn, Sup} \cap Closers = {}
  /\ ({Conn, Sup} \cup Closers) \cap Callers = {}
  /\ IsFiniteSet(Callers) /\ IsFiniteSet(Closers)

Threads == {Conn, Sup} \cup Closers
Actors  == Threads \cup Callers

VARIABLES
  closed,     \* u.closed
  session,    \* u.session, with the u.transport and u.cleanup set with it
  inflight,   \* u.inflight
  drained,    \* u.drained: "nil" or an "open" channel
  cancelled,  \* the context of the supervisor is done
  pc,         \* where each thread is; pc[Sup] = "done" is u.supervisorDone closed
  held,       \* the session a thread holds in a local variable
  claim,      \* the session an actor got from enter and did not leave yet
  sess,       \* the SDK's view of each session
  trans,      \* the transport below each session
  \* History, read by properties only.
  drainExpired,  \* closers whose drain timed out
  stalled,       \* threads whose wait for sess.Close timed out
  cutBy          \* threads that cleaned a transport up under outstanding calls

uVars    == <<closed, session, cancelled>>
gateVars == <<inflight, drained, claim>>
sdkVars  == <<sess, trans>>
histVars == <<drainExpired, stalled, cutBy>>
vars     == <<uVars, gateVars, pc, held, sdkVars, histVars>>

PC == {"idle", "check", "build", "handshake", "publish", "startOK",
       "startFail", "list", "listing", "take", "closing", "cleanup",
       "loop", "wait", "supclose", "backoff", "resync", "resyncing",
       "drain", "drainwait", "cancel", "waitdone", "done"}

\* The type of every variable.
TypeOK ==
  /\ closed \in BOOLEAN /\ cancelled \in BOOLEAN
  /\ session \in Sess \cup {None}
  /\ inflight \in Nat
  /\ drained \in {"nil", "open"}
  /\ pc \in [Threads -> PC]
  /\ held \in [Threads -> Sess \cup {None}]
  /\ claim \in [Actors -> Sess \cup {None}]
  /\ sess \in [Sess -> {"free", "dialing", "up", "dropped", "closing", "closed"}]
  /\ trans \in [Sess -> {"none", "open", "cleaned", "recleaned"}]
  /\ drainExpired \subseteq Closers
  /\ stalled \subseteq Threads
  /\ cutBy \subseteq Threads

Init ==
  /\ closed = FALSE /\ session = None /\ cancelled = FALSE
  /\ inflight = 0 /\ drained = "nil"
  /\ claim = [a \in Actors |-> None]
  /\ pc = [t \in Threads |-> IF t = Conn THEN "check" ELSE "idle"]
  /\ held = [t \in Threads |-> None]
  /\ sess = [s \in Sess |-> "free"]
  /\ trans = [s \in Sess |-> "none"]
  /\ drainExpired = {} /\ stalled = {} /\ cutBy = {}

Goto(t, label) == pc' = [pc EXCEPT ![t] = label]

-----------------------------------------------------------------------------
(* The SDK session and the transport under it.                             *)

ClaimsOn(s) == {a \in Actors : claim[a] = s}
HoldersOf(s) == {t \in Threads : held[t] = s}
Ended(s) == sess[s] \in {"dropped", "closed"}

\* sess.Close called: a live session starts closing, a dropped one is closed.
CloseOf(s) ==
  IF sess[s] = "up" THEN "closing" ELSE IF sess[s] = "dropped" THEN "closed" ELSE sess[s]

\* The cleanup function of a transport called: the process is killed and reaped, or
\* the context is cancelled to which every request of the client is bound.
CleanOf(s) == IF trans[s] = "open" THEN "cleaned" ELSE "recleaned"

\* Close returns once the calls outstanding on the session have returned.
SessionCloses(s) ==
  /\ sess[s] = "closing" /\ ClaimsOn(s) = {}
  /\ sess' = [sess EXCEPT ![s] = "closed"]
  /\ UNCHANGED <<uVars, gateVars, pc, held, trans, histVars>>

\* The peer, the network or keepalive ends the session.
SessionDrops(s) ==
  /\ sess[s] \in {"up", "closing"}
  /\ sess' = [sess EXCEPT ![s] = IF @ = "up" THEN "dropped" ELSE "closed"]
  /\ UNCHANGED <<uVars, gateVars, pc, held, trans, histVars>>

\* An identifier no variable of the program refers to any more.
Fresh(s) ==
  \/ sess[s] = "free"
  \/ /\ sess[s] = "closed" /\ trans[s] = "cleaned"
     /\ session # s /\ ClaimsOn(s) = {} /\ HoldersOf(s) = {}

-----------------------------------------------------------------------------
(* enter and leave: the gate every request passes.                         *)

\* Mutant: u.closed is not looked at.
RefusesNotClosed == session = None

Refuses == closed \/ session = None

Enter(a) ==
  /\ ~Refuses
  /\ claim' = [claim EXCEPT ![a] = session]
  /\ inflight' = inflight + 1
  /\ UNCHANGED drained

\* Mutant: the claim is given up without counting down.
LeaveUncounted(a) ==
  /\ claim' = [claim EXCEPT ![a] = None]
  /\ UNCHANGED <<inflight, drained>>

Leave(a) ==
  /\ claim' = [claim EXCEPT ![a] = None]
  /\ inflight' = inflight - 1
  /\ drained' = IF inflight' = 0 THEN "nil" ELSE drained

\* A request is forwarded: CallTool, GetPrompt, ReadResource and the lists.
CallBegins(c) ==
  /\ claim[c] = None /\ Enter(c)
  /\ UNCHANGED <<uVars, pc, held, sdkVars, histVars>>

\* It returns: answered, timed out, or failed because its session ended.
CallReturns(c) ==
  /\ claim[c] # None /\ Leave(c)
  /\ UNCHANGED <<uVars, pc, held, sdkVars, histVars>>

-----------------------------------------------------------------------------
(* connectOnce, run by Conn and by Sup.                                    *)

\* What the caller of connectOnce does with its result: Connect starts the
\* supervisor either way, reconnectLoop re-syncs or backs off again.
Connected(t) == IF t = Conn THEN "startOK" ELSE "resync"
ConnectFailed(t) == IF t = Conn THEN "startFail" ELSE "backoff"

ConnectCheck(t) ==
  /\ pc[t] = "check"
  /\ Goto(t, IF closed THEN ConnectFailed(t)
             ELSE IF session # None THEN Connected(t) ELSE "build")
  /\ UNCHANGED <<uVars, gateVars, held, sdkVars, histVars>>

BuildTransportOK(t) ==
  /\ pc[t] = "build"
  /\ \E s \in Sess :
       /\ Fresh(s)
       /\ held' = [held EXCEPT ![t] = s]
       /\ sess' = [sess EXCEPT ![s] = "dialing"]
       /\ trans' = [trans EXCEPT ![s] = "open"]
  /\ Goto(t, "handshake")
  /\ UNCHANGED <<uVars, gateVars, histVars>>

BuildTransportFails(t) ==
  /\ pc[t] = "build"
  /\ Goto(t, ConnectFailed(t))
  /\ UNCHANGED <<uVars, gateVars, held, sdkVars, histVars>>

HandshakeOK(t) ==
  /\ pc[t] = "handshake"
  /\ sess' = [sess EXCEPT ![held[t]] = "up"]
  /\ Goto(t, "publish")
  /\ UNCHANGED <<uVars, gateVars, held, trans, histVars>>

\* client.Connect fails or times out; the deferred closeTransport runs.
HandshakeFails(t) ==
  /\ pc[t] = "handshake"
  /\ sess' = [sess EXCEPT ![held[t]] = "closed"]
  /\ trans' = [trans EXCEPT ![held[t]] = CleanOf(held[t])]
  /\ held' = [held EXCEPT ![t] = None]
  /\ Goto(t, ConnectFailed(t))
  /\ UNCHANGED <<uVars, gateVars, histVars>>

\* Mutant: the session is published without looking at u.closed again.
PublishUnchecked(t) ==
  /\ pc[t] = "publish"
  /\ session' = held[t]
  /\ Goto(t, Connected(t))
  /\ held' = [held EXCEPT ![t] = None]
  /\ UNCHANGED <<closed, cancelled, gateVars, sdkVars, histVars>>

\* The second look at u.closed: a Close that ran during the dial has already
\* taken what it could see, so the new session is closed here.
Publish(t) ==
  /\ pc[t] = "publish"
  /\ \/ /\ closed
        /\ sess' = [sess EXCEPT ![held[t]] = "closed"]
        /\ trans' = [trans EXCEPT ![held[t]] = CleanOf(held[t])]
        /\ Goto(t, ConnectFailed(t))
        /\ UNCHANGED session
     \/ /\ ~closed
        /\ session' = held[t]
        /\ Goto(t, Connected(t))
        /\ UNCHANGED sdkVars
  /\ held' = [held EXCEPT ![t] = None]
  /\ UNCHANGED <<closed, cancelled, gateVars, histVars>>

-----------------------------------------------------------------------------
(* Conn: Connect and the listing that follows it in Build.                 *)

StartSupervisor ==
  /\ pc[Conn] \in {"startOK", "startFail"}
  /\ LET starts == ~closed /\ pc[Sup] = "idle" /\ Reconnects
         next   == IF pc[Conn] = "startOK" THEN "list" ELSE "done"
     IN  pc' = [pc EXCEPT ![Conn] = next, ![Sup] = IF starts THEN "loop" ELSE @]
  /\ UNCHANGED <<uVars, gateVars, held, sdkVars, histVars>>

\* Build closes the session of an upstream whose listing failed; a reload's
\* attachUpstream only logs.
AfterListFailure == {"take", "done"}

ListBegins ==
  /\ pc[Conn] = "list"
  /\ \/ Enter(Conn) /\ Goto(Conn, "listing")
     \/ /\ Refuses
        /\ \E next \in AfterListFailure : Goto(Conn, next)
        /\ UNCHANGED gateVars
  /\ UNCHANGED <<uVars, held, sdkVars, histVars>>

ListReturns ==
  /\ pc[Conn] = "listing" /\ Leave(Conn)
  /\ \E next \in AfterListFailure : Goto(Conn, next)
  /\ UNCHANGED <<uVars, held, sdkVars, histVars>>

-----------------------------------------------------------------------------
(* closeSessionResources, run by Conn, Sup and the first closer.           *)

AfterRelease(t) ==
  IF t = Conn THEN "done" ELSE IF t = Sup THEN "backoff" ELSE "waitdone"

\* Mutant: the fields are read but not cleared.
TakeShared(t) ==
  /\ pc[t] = "take"
  /\ held' = [held EXCEPT ![t] = session]
  /\ sess' = IF session = None THEN sess ELSE [sess EXCEPT ![session] = CloseOf(session)]
  /\ Goto(t, IF session = None THEN AfterRelease(t) ELSE "closing")
  /\ UNCHANGED <<uVars, gateVars, trans, histVars>>

\* The fields are taken and cleared under the lock; sess.Close is spawned.
TakeSession(t) ==
  /\ pc[t] = "take"
  /\ held' = [held EXCEPT ![t] = session]
  /\ session' = None
  /\ sess' = IF session = None THEN sess ELSE [sess EXCEPT ![session] = CloseOf(session)]
  /\ Goto(t, IF session = None THEN AfterRelease(t) ELSE "closing")
  /\ UNCHANGED <<closed, cancelled, gateVars, trans, histVars>>

\* waitTimeout: the session closed, or the timer fired first.
AwaitClose(t) ==
  /\ pc[t] = "closing"
  /\ \/ sess[held[t]] = "closed" /\ UNCHANGED stalled
     \/ stalled' = stalled \cup {t}
  /\ Goto(t, "cleanup")
  /\ UNCHANGED <<uVars, gateVars, held, sdkVars, drainExpired, cutBy>>

\* Either way the calls under it fail (CallFails), but only the end of the process
\* ends the session as well.
Cleanup(t) ==
  /\ pc[t] = "cleanup"
  /\ LET s == held[t] IN
       /\ trans' = [trans EXCEPT ![s] = CleanOf(s)]
       /\ sess' = IF KillsTransport THEN [sess EXCEPT ![s] = "closed"] ELSE sess
       /\ cutBy' = IF ~Ended(s) /\ ClaimsOn(s) # {} THEN cutBy \cup {t} ELSE cutBy
  /\ held' = [held EXCEPT ![t] = None]
  /\ Goto(t, AfterRelease(t))
  /\ UNCHANGED <<uVars, gateVars, drainExpired, stalled>>

-----------------------------------------------------------------------------
(* Sup: supervise and reconnectLoop.                                       *)

SuperviseLoop ==
  /\ pc[Sup] = "loop"
  /\ held' = [held EXCEPT ![Sup] = session]
  /\ Goto(Sup, IF session = None THEN "backoff" ELSE "wait")
  /\ UNCHANGED <<uVars, gateVars, sdkVars, histVars>>

\* select on ctx.Done and sess.Wait: when both are ready either is taken.
SuperviseCancelled ==
  /\ pc[Sup] = "wait" /\ cancelled
  /\ sess' = [sess EXCEPT ![held[Sup]] = CloseOf(held[Sup])]
  /\ Goto(Sup, "supclose")
  /\ UNCHANGED <<uVars, gateVars, held, trans, histVars>>

SuperviseDropped ==
  /\ pc[Sup] = "wait" /\ Ended(held[Sup])
  /\ held' = [held EXCEPT ![Sup] = None]
  /\ Goto(Sup, "take")
  /\ UNCHANGED <<uVars, gateVars, sdkVars, histVars>>

SuperviseReturns ==
  /\ pc[Sup] = "supclose" /\ Ended(held[Sup])
  /\ held' = [held EXCEPT ![Sup] = None]
  /\ Goto(Sup, "done")
  /\ UNCHANGED <<uVars, gateVars, sdkVars, histVars>>

\* Mutant: one failed or delayed attempt ends the supervisor.
BackOffGivesUp ==
  /\ pc[Sup] = "backoff"
  /\ \E next \in {"check", "done"} : Goto(Sup, next)
  /\ UNCHANGED <<uVars, gateVars, held, sdkVars, histVars>>

\* waitBackOff: the timer, or ctx.Done. A wait that starts cancelled ends at
\* once; a timer that fired before the cancellation fired earlier.
BackOff ==
  /\ pc[Sup] = "backoff"
  /\ Goto(Sup, IF cancelled THEN "done" ELSE "check")
  /\ UNCHANGED <<uVars, gateVars, held, sdkVars, histVars>>

\* onReconnect lists the upstream's features through enter and leave.
ResyncBegins ==
  /\ pc[Sup] = "resync"
  /\ \/ Enter(Sup) /\ Goto(Sup, "resyncing")
     \/ Refuses /\ Goto(Sup, "loop") /\ UNCHANGED gateVars
  /\ UNCHANGED <<uVars, held, sdkVars, histVars>>

ResyncReturns ==
  /\ pc[Sup] = "resyncing" /\ Leave(Sup) /\ Goto(Sup, "loop")
  /\ UNCHANGED <<uVars, held, sdkVars, histVars>>

\* The context Connect was called with, the process's, is cancelled.
ParentCancels ==
  /\ ~cancelled /\ cancelled' = TRUE
  /\ UNCHANGED <<closed, session, gateVars, pc, held, sdkVars, histVars>>

-----------------------------------------------------------------------------
(* Close.                                                                  *)

CloseBegins(t) ==
  /\ t \in Closers /\ pc[t] = "idle"
  /\ closed' = TRUE
  /\ Goto(t, IF closed THEN "waitdone" ELSE "drain")
  /\ UNCHANGED <<session, cancelled, gateVars, held, sdkVars, histVars>>

Drain(t) ==
  /\ pc[t] = "drain"
  /\ LET waits == DrainWaits /\ inflight # 0 IN
       /\ Goto(t, IF waits THEN "drainwait" ELSE "cancel")
       /\ drained' = IF waits THEN "open" ELSE drained
  /\ UNCHANGED <<uVars, inflight, claim, held, sdkVars, histVars>>

\* waitTimeout on the channel: leave closed it (and set the field to nil), or
\* the timer fired.
DrainReturns(t) ==
  /\ pc[t] = "drainwait"
  /\ \/ drained = "nil" /\ UNCHANGED drainExpired
     \/ drainExpired' = drainExpired \cup {t}
  /\ Goto(t, "cancel")
  /\ UNCHANGED <<uVars, gateVars, held, sdkVars, stalled, cutBy>>

\* Mutant: cancel is not called.
ForgetsSupervisor(t) ==
  /\ pc[t] = "cancel"
  /\ Goto(t, "take")
  /\ UNCHANGED <<uVars, gateVars, held, sdkVars, histVars>>

CancelSupervisor(t) ==
  /\ pc[t] = "cancel"
  /\ cancelled' = TRUE
  /\ Goto(t, "take")
  /\ UNCHANGED <<closed, session, gateVars, held, sdkVars, histVars>>

\* The wait for supervisorDone: no supervisor, it is done, or five seconds
\* have passed. Whatever the case, Close returns nil.
CloseReturns(t) ==
  /\ pc[t] = "waitdone"
  /\ Goto(t, "done")
  /\ UNCHANGED <<uVars, gateVars, held, sdkVars, histVars>>

-----------------------------------------------------------------------------
ConnectOnce(t) ==
  \/ ConnectCheck(t) \/ BuildTransportOK(t) \/ BuildTransportFails(t)
  \/ HandshakeOK(t) \/ HandshakeFails(t) \/ Publish(t)

CloseSessionResources(t) == TakeSession(t) \/ AwaitClose(t) \/ Cleanup(t)

ConnStep ==
  ConnectOnce(Conn) \/ StartSupervisor \/ ListBegins \/ ListReturns
  \/ CloseSessionResources(Conn)

Supervise ==
  \/ SuperviseLoop \/ SuperviseCancelled \/ SuperviseDropped \/ SuperviseReturns
  \/ BackOff \/ ResyncBegins \/ ResyncReturns
  \/ ConnectOnce(Sup) \/ CloseSessionResources(Sup)

Close(t) ==
  \/ Drain(t) \/ DrainReturns(t) \/ CancelSupervisor(t)
  \/ CloseSessionResources(t) \/ CloseReturns(t)

SDK == \E s \in Sess : SessionCloses(s) \/ SessionDrops(s)

Next ==
  \/ ConnStep \/ Supervise \/ ParentCancels \/ SDK
  \/ \E t \in Closers : CloseBegins(t) \/ Close(t)
  \/ \E c \in Callers : CallBegins(c) \/ CallReturns(c)

Spec == Init /\ [][Next]_vars

(***************************************************************************)
(* Fairness. A goroutine that can step does, and a timer fires: the dial   *)
(* is bounded by connectTimeout and a listing by withListTimeout. A        *)
(* forwarded call has no deadline by default (withCallTimeout), so it is   *)
(* only sure to return once its session has ended or its transport has     *)
(* been cleaned up. The reachable peer of Reconnected is the strong        *)
(* fairness on the two steps of a dial.                                    *)
(***************************************************************************)
CallFails(c) ==
  claim[c] # None /\ (Ended(claim[c]) \/ trans[claim[c]] # "open") /\ CallReturns(c)

Fairness ==
  /\ WF_vars(ConnStep) /\ WF_vars(Supervise)
  /\ \A t \in Closers : WF_vars(Close(t))
  /\ \A s \in Sess : WF_vars(SessionCloses(s))
  /\ \A c \in Callers : WF_vars(CallFails(c))

PeerReachable == SF_vars(BuildTransportOK(Sup)) /\ SF_vars(HandshakeOK(Sup))

FairSpec == Spec /\ Fairness /\ PeerReachable

-----------------------------------------------------------------------------
(* Properties.                                                             *)

\* The claims counted by u.inflight are the calls between enter and leave: no
\* path leaves without having entered, or enters and forgets to leave.
InflightCountsClaims == inflight = Cardinality({a \in Actors : claim[a] # None})

\* drain is never left waiting for a channel nobody will close: while Close
\* waits on an open u.drained some call still has its leave ahead (drain.go
\* leave/drain, no lost wake-up between the count and the channel).
NoLostWakeup ==
  \A t \in Closers : pc[t] = "drainwait" /\ drained = "open" => inflight > 0

\* Every open transport has one owner that will clean it up: the field
\* u.cleanup, or the connectOnce or closeSessionResources that holds it.
HoldsTransport(t) == pc[t] \in {"handshake", "publish", "closing", "cleanup"}
Owners(s) ==
  {t \in Threads : held[t] = s /\ HoldsTransport(t)}
  \cup (IF session = s THEN {None} ELSE {})
OneOwner == \A s \in Sess : trans[s] = "open" => \E o \in Owners(s) : Owners(s) = {o}

\* Once Close has been called and every goroutine is done, nothing is left
\* behind: no session is published, every transport was cleaned up and no
\* session is still up, even when the dial of a reconnect raced the Close.
Quiet == \A t \in Threads : pc[t] \in {"idle", "done"}
NoLeakAfterClose ==
  closed /\ Quiet =>
    /\ session = None
    /\ \A s \in Sess : trans[s] # "open" /\ sess[s] \notin {"up", "dialing"}

\* A transport is torn down under outstanding calls only by a thread whose wait for
\* the session to close timed out, and by Close only if its drain timed out before
\* (or draining is disabled), which is the order Close documents.
CutsOnlyAfterTimeouts ==
  /\ cutBy \subseteq stalled
  /\ DrainWaits => cutBy \cap Closers \subseteq drainExpired

\* Close cancels the supervisor, which closes the session, only when no request is in
\* flight any more, unless its drain timed out (or draining is disabled).
CancelsAfterDrain ==
  \A t \in Closers :
    DrainWaits /\ pc[t] \in {"cancel", "take", "closing", "cleanup"} /\ t \notin drainExpired => inflight = 0

\* A transport's cleanup runs once, whichever of the dial's error path, the
\* supervisor, Build and Close gets to it.
CleanedOnce == \A s \in Sess : trans[s] # "recleaned"

\* The supervisor takes u.session without comparing it with the session it saw end,
\* and still never takes a live one.
SupervisorTakesTheDead == pc[Sup] = "take" => session = None \/ Ended(session)

\* How a transport may be torn down: after the drain, under outstanding calls only
\* after the timeouts of Close, by one cleanup, and by the supervisor never while the
\* session is live.
TeardownIsOrderly ==
  CancelsAfterDrain /\ CutsOnlyAfterTimeouts /\ CleanedOnce /\ SupervisorTakesTheDead

\* What follows a Close, whatever the peer and the calls in flight do: Close
\* returns; every transport is cleaned up for good, also one whose dial was under
\* way; and the supervisor goroutine exits, also when a call hangs, since the cleanup
\* of the transport kills the process or cancels the request.  (The comment of
\* closeSessionResources says that for http and sse there is nothing to kill and its
\* goroutine lives on; the cleanup of newUpstreamClient is there to end that.)
CloseFinishes ==
  /\ \A t \in Closers : (pc[t] = "drain") ~> (pc[t] = "done")
  /\ closed ~> [](\A s \in Sess : trans[s] # "open")
  /\ closed ~> pc[Sup] \in {"idle", "done"}

\* The supervisor never gives up: a lost session is replaced, if the peer
\* accepts dials again and again, unless the upstream is shut down.
Reconnected == (pc[Sup] = "backoff") ~> (session # None \/ cancelled)

\* Why Reconnected can hold: of an upstream that is not shut down, the supervisor
\* has been started or is about to be, and has not returned; it waits on the session
\* that is published, or will find it before it waits again; and where it waits on
\* one that was taken from under it, that session is ending, so that Wait returns.
SupervisorKeepsWatch ==
  Reconnects /\ ~closed /\ ~cancelled =>
    /\ pc[Sup] \notin {"supclose", "done"}
    /\ pc[Sup] = "idle" => pc[Conn] \in {"check", "build", "handshake", "publish", "startOK", "startFail"}
    /\ session # None => \/ pc[Conn] = "startOK" \/ pc[Sup] \in {"loop", "resync", "resyncing", "take"}
                         \/ pc[Sup] = "wait" /\ held[Sup] = session
    /\ pc[Sup] = "wait" /\ session = None => sess[held[Sup]] \in {"closing", "dropped", "closed"}

\* Why CloseFinishes can hold: once u.closed is set, the Close that set it has yet to
\* cancel the supervisor, or it has; it has yet to take the session, or none is
\* published; and a supervisor that waits for its session to close, without a bound,
\* waits for one that is closing.
CloseIsUnderWay ==
  closed =>
    /\ cancelled \/ \E t \in Closers : pc[t] \in {"drain", "drainwait", "cancel"}
    /\ session # None => \E t \in Closers : pc[t] \in {"drain", "drainwait", "cancel", "take"}
    /\ pc[Sup] = "supclose" => sess[held[Sup]] \in {"closing", "closed"}
=============================================================================
