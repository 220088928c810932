--------------------------- MODULE UpstreamProofs ---------------------------
(***************************************************************************)
(* What TLC checks of Upstream on three sessions holds for any number of   *)
(* sessions, callers and closers.                                          *)
(*                                                                         *)
(* The argument has three layers, each an invariant that uses the one      *)
(* before: the gate (Gate: claims are counted), the transports             *)
(* (Ownership: each open transport has one owner, which cleans it once)    *)
(* and the closing protocol (Closing: what a closer at a given line may    *)
(* rely on).                                                               *)
(***************************************************************************)
EXTENDS Upstream, FiniteSetTheorems, TLAPS

Claiming == {a \in Actors : claim[a] # None}

\* Conn and Sup hold a claim exactly while they list; closers never do.
ClaimShape ==
  /\ claim[Conn] # None <=> pc[Conn] = "listing"
  /\ claim[Sup] # None <=> pc[Sup] = "resyncing"

Gate == TypeOK /\ InflightCountsClaims /\ ClaimShape

\* There are finitely many goroutines.
LEMMA ActorsFinite == IsFiniteSet(Actors)
<1>1. IsFiniteSet({Conn} \cup {Sup})
  BY FS_Singleton, FS_Union
<1>2. Threads = ({Conn} \cup {Sup}) \cup Closers
  BY DEF Threads
<1>3. QED
  BY <1>1, <1>2, FS_Union, UpstreamAssumption DEF Actors, Threads

\* enter: one more actor has a claim.
LEMMA ClaimAdded ==
  ASSUME NEW f \in [Actors -> Sess \cup {None}], NEW a \in Actors,
         NEW s \in Sess, f[a] = None
  PROVE  LET g == [f EXCEPT ![a] = s]
         IN  Cardinality({x \in Actors : g[x] # None})
               = Cardinality({x \in Actors : f[x] # None}) + 1
<1> DEFINE S == {x \in Actors : f[x] # None}
           T == {x \in Actors : [f EXCEPT ![a] = s][x] # None}
<1>1. IsFiniteSet(S)
  BY ActorsFinite, FS_Subset
<1>2. T = S \cup {a} /\ a \notin S
  BY UpstreamAssumption
<1>3. QED
  BY <1>1, <1>2, FS_AddElement

\* leave: one less, and there was at least one.
LEMMA ClaimDropped ==
  ASSUME NEW f \in [Actors -> Sess \cup {None}], NEW a \in Actors, f[a] # None
  PROVE  LET g == [f EXCEPT ![a] = None]
         IN  /\ Cardinality({x \in Actors : f[x] # None}) \in Nat \ {0}
             /\ Cardinality({x \in Actors : g[x] # None})
                  = Cardinality({x \in Actors : f[x] # None}) - 1
<1> DEFINE S == {x \in Actors : f[x] # None}
           T == {x \in Actors : [f EXCEPT ![a] = None][x] # None}
<1>1. IsFiniteSet(S) /\ a \in S
  BY ActorsFinite, FS_Subset
<1>2. T = S \ {a}
  OBVIOUS
<1>3. Cardinality(T) = Cardinality(S) - 1
  BY <1>1, <1>2, FS_RemoveElement
<1>4. Cardinality(S) \in Nat \ {0}
  BY <1>1, FS_CardinalityType, FS_EmptySet
<1>5. QED
  BY <1>3, <1>4

\* enter keeps the gate's state well typed and its count right.
LEMMA EnterCounts ==
  ASSUME TypeOK, InflightCountsClaims, NEW a \in Actors, claim[a] = None, Enter(a)
  PROVE  /\ claim' \in [Actors -> Sess \cup {None}] /\ claim'[a] # None
         /\ inflight' \in Nat /\ drained' \in {"nil", "open"}
         /\ InflightCountsClaims'
<1>1. session \in Sess
  BY DEF Enter, Refuses, TypeOK
<1>2. claim \in [Actors -> Sess \cup {None}]
  BY DEF TypeOK
<1>3. claim' = [claim EXCEPT ![a] = session] /\ inflight' = inflight + 1 /\ drained' = drained
  BY DEF Enter
<1>4. Cardinality({x \in Actors : claim'[x] # None})
        = Cardinality({x \in Actors : claim[x] # None}) + 1
  BY <1>1, <1>2, <1>3, ClaimAdded
<1>5. claim' \in [Actors -> Sess \cup {None}] /\ claim'[a] # None
  BY <1>1, <1>2, <1>3, UpstreamAssumption
<1>6. QED
  BY <1>3, <1>4, <1>5 DEF TypeOK, InflightCountsClaims

\* leave does as well.
LEMMA LeaveCounts ==
  ASSUME TypeOK, InflightCountsClaims, NEW a \in Actors, claim[a] # None, Leave(a)
  PROVE  /\ claim' \in [Actors -> Sess \cup {None}] /\ claim'[a] = None
         /\ inflight \in Nat \ {0}
         /\ inflight' \in Nat /\ drained' \in {"nil", "open"}
         /\ InflightCountsClaims'
<1>2. claim \in [Actors -> Sess \cup {None}]
  BY DEF TypeOK
<1>3. claim' = [claim EXCEPT ![a] = None] /\ inflight' = inflight - 1
  BY DEF Leave
<1>4. /\ Cardinality({x \in Actors : claim[x] # None}) \in Nat \ {0}
      /\ Cardinality({x \in Actors : claim'[x] # None})
           = Cardinality({x \in Actors : claim[x] # None}) - 1
  BY <1>2, <1>3, ClaimDropped
<1>5. claim' \in [Actors -> Sess \cup {None}] /\ claim'[a] = None
  BY <1>2, <1>3
<1>6. inflight \in Nat \ {0} /\ inflight' \in Nat /\ InflightCountsClaims'
  BY <1>3, <1>4 DEF InflightCountsClaims
<1>7. QED
  BY <1>5, <1>6 DEF Leave, TypeOK

(***************************************************************************)
(* The gate and the types.                                                 *)
(***************************************************************************)

\* A step of connectOnce leaves the gate alone.
LEMMA ConnectOnceGate ==
  ASSUME Gate, NEW t \in {Conn, Sup}, ConnectOnce(t)
  PROVE  Gate'
<1>0. t \in Threads /\ {Conn, Sup} \subseteq Threads /\ Threads \subseteq Actors /\ Conn # Sup
  BY UpstreamAssumption DEF Threads, Actors
<1> USE <1>0 DEF Gate, TypeOK, ClaimShape, InflightCountsClaims, PC, Goto,
                 uVars, gateVars, sdkVars, histVars
<1>1. CASE ConnectCheck(t)
  BY <1>1 DEF ConnectCheck, ConnectFailed, Connected
<1>2. CASE BuildTransportOK(t)
  BY <1>2 DEF BuildTransportOK
<1>3. CASE BuildTransportFails(t)
  BY <1>3 DEF BuildTransportFails, ConnectFailed
<1>4. CASE HandshakeOK(t)
  BY <1>4 DEF HandshakeOK
<1>5. CASE HandshakeFails(t)
  BY <1>5 DEF HandshakeFails, ConnectFailed, CleanOf
<1>6. CASE Publish(t)
  BY <1>6 DEF Publish, ConnectFailed, Connected, CleanOf
<1>7. QED
  BY <1>1, <1>2, <1>3, <1>4, <1>5, <1>6 DEF ConnectOnce

\* Nor does a step of closeSessionResources.
LEMMA CloseSessionResourcesGate ==
  ASSUME Gate, NEW t \in Threads, CloseSessionResources(t)
  PROVE  Gate'
<1>0. {Conn, Sup} \subseteq Threads /\ Threads \subseteq Actors /\ Conn # Sup
  BY UpstreamAssumption DEF Threads, Actors
<1> USE <1>0 DEF Gate, TypeOK, ClaimShape, InflightCountsClaims, PC, Goto, AfterRelease,
                 uVars, gateVars, sdkVars, histVars
<1>1. CASE TakeSession(t)
  BY <1>1 DEF TakeSession, CloseOf
<1>2. CASE AwaitClose(t)
  BY <1>2 DEF AwaitClose
<1>3. CASE Cleanup(t)
  BY <1>3 DEF Cleanup, CleanOf
<1>4. QED
  BY <1>1, <1>2, <1>3 DEF CloseSessionResources

\* Every step keeps the gate.
LEMMA NextGate ==
  ASSUME Gate, [Next]_vars
  PROVE  Gate'
<1>0. /\ {Conn, Sup} \subseteq Threads /\ Closers \subseteq Threads /\ Callers \subseteq Actors
      /\ Threads \subseteq Actors /\ Conn # Sup /\ {Conn, Sup} \cap Closers = {}
      /\ {Conn, Sup} \cap Callers = {}
  BY UpstreamAssumption DEF Threads, Actors
<1>a. TypeOK /\ InflightCountsClaims /\ ClaimShape
  BY DEF Gate
<1> USE <1>0 DEF PC, Goto, uVars, gateVars, sdkVars, histVars
<1>1. CASE StartSupervisor
  BY <1>1 DEF StartSupervisor, Gate, TypeOK, ClaimShape, InflightCountsClaims
<1>2. CASE SuperviseLoop
  BY <1>2 DEF SuperviseLoop, Gate, TypeOK, ClaimShape, InflightCountsClaims
<1>3. CASE SuperviseCancelled
  BY <1>3 DEF SuperviseCancelled, CloseOf, Gate, TypeOK, ClaimShape, InflightCountsClaims
<1>4. CASE SuperviseDropped
  BY <1>4 DEF SuperviseDropped, Gate, TypeOK, ClaimShape, InflightCountsClaims
<1>5. CASE SuperviseReturns
  BY <1>5 DEF SuperviseReturns, Gate, TypeOK, ClaimShape, InflightCountsClaims
<1>6. CASE BackOff
  BY <1>6 DEF BackOff, Gate, TypeOK, ClaimShape, InflightCountsClaims
<1>7. CASE ParentCancels
  BY <1>7 DEF ParentCancels, Gate, TypeOK, ClaimShape, InflightCountsClaims
<1>8. CASE ListBegins
  <2>1. CASE Enter(Conn)
    <3>1. claim[Conn] = None
      BY <1>8, <1>a DEF ListBegins, ClaimShape
    <3>2. /\ claim' \in [Actors -> Sess \cup {None}] /\ claim'[Conn] # None
          /\ inflight' \in Nat /\ drained' \in {"nil", "open"}
          /\ InflightCountsClaims'
      BY <1>a, <2>1, <3>1, EnterCounts
    <3>3. claim' = [claim EXCEPT ![Conn] = session]
      BY <2>1 DEF Enter
    <3>4. QED
      BY <1>8, <1>a, <2>1, <3>2, <3>3 DEF ListBegins, Gate, TypeOK, ClaimShape, Enter, Refuses
  <2>2. CASE Refuses /\ (\E next \in AfterListFailure : Goto(Conn, next)) /\ UNCHANGED gateVars
    BY <1>8, <1>a, <2>2 DEF ListBegins, Gate, TypeOK, ClaimShape, InflightCountsClaims,
       AfterListFailure
  <2>3. QED
    BY <1>8, <2>1, <2>2 DEF ListBegins
<1>9. CASE ResyncBegins
  <2>1. CASE Enter(Sup)
    <3>1. claim[Sup] = None
      BY <1>9, <1>a DEF ResyncBegins, ClaimShape
    <3>2. /\ claim' \in [Actors -> Sess \cup {None}] /\ claim'[Sup] # None
          /\ inflight' \in Nat /\ drained' \in {"nil", "open"}
          /\ InflightCountsClaims'
      BY <1>a, <2>1, <3>1, EnterCounts
    <3>3. claim' = [claim EXCEPT ![Sup] = session]
      BY <2>1 DEF Enter
    <3>4. QED
      BY <1>9, <1>a, <2>1, <3>2, <3>3 DEF ResyncBegins, Gate, TypeOK, ClaimShape, Enter, Refuses
  <2>2. CASE Refuses /\ Goto(Sup, "loop") /\ UNCHANGED gateVars
    BY <1>9, <1>a, <2>2 DEF ResyncBegins, Gate, TypeOK, ClaimShape, InflightCountsClaims,
       AfterListFailure
  <2>3. QED
    BY <1>9, <2>1, <2>2 DEF ResyncBegins
<1>10. CASE ListReturns
  <2>1. claim[Conn] # None /\ Leave(Conn)
    BY <1>10, <1>a DEF ListReturns, ClaimShape
  <2>2. /\ claim' \in [Actors -> Sess \cup {None}] /\ claim'[Conn] = None
        /\ inflight' \in Nat /\ drained' \in {"nil", "open"}
        /\ InflightCountsClaims'
    BY <1>a, <2>1, LeaveCounts
  <2>3. claim' = [claim EXCEPT ![Conn] = None]
    BY <2>1 DEF Leave
  <2>4. QED
    BY <1>10, <1>a, <2>2, <2>3 DEF ListReturns, Gate, TypeOK, ClaimShape, AfterListFailure
<1>11. CASE ResyncReturns
  <2>1. claim[Sup] # None /\ Leave(Sup)
    BY <1>11, <1>a DEF ResyncReturns, ClaimShape
  <2>2. /\ claim' \in [Actors -> Sess \cup {None}] /\ claim'[Sup] = None
        /\ inflight' \in Nat /\ drained' \in {"nil", "open"}
        /\ InflightCountsClaims'
    BY <1>a, <2>1, LeaveCounts
  <2>3. claim' = [claim EXCEPT ![Sup] = None]
    BY <2>1 DEF Leave
  <2>4. QED
    BY <1>11, <1>a, <2>2, <2>3 DEF ResyncReturns, Gate, TypeOK, ClaimShape, AfterListFailure
<1>12. CASE ConnectOnce(Conn) \/ ConnectOnce(Sup)
  BY <1>12, ConnectOnceGate
<1>13. CASE \E t \in Threads : CloseSessionResources(t)
  BY <1>13, CloseSessionResourcesGate
<1>14. CASE SDK
  <2>1. ASSUME NEW s \in Sess, SessionCloses(s) PROVE Gate'
    BY <2>1 DEF SessionCloses, Gate, TypeOK, ClaimShape, InflightCountsClaims
  <2>2. ASSUME NEW s \in Sess, SessionDrops(s) PROVE Gate'
    BY <2>2 DEF SessionDrops, Gate, TypeOK, ClaimShape, InflightCountsClaims
  <2>3. QED
    BY <1>14, <2>1, <2>2 DEF SDK
<1>15. ASSUME NEW t \in Closers,
              CloseBegins(t) \/ Drain(t) \/ DrainReturns(t) \/ CancelSupervisor(t) \/ CloseReturns(t)
       PROVE  Gate'
  <2>1. CASE CloseBegins(t)
    BY <2>1 DEF CloseBegins, Gate, TypeOK, ClaimShape, InflightCountsClaims
  <2>2. CASE Drain(t)
    BY <2>2 DEF Drain, Gate, TypeOK, ClaimShape, InflightCountsClaims
  <2>3. CASE DrainReturns(t)
    BY <2>3 DEF DrainReturns, Gate, TypeOK, ClaimShape, InflightCountsClaims
  <2>4. CASE CancelSupervisor(t)
    BY <2>4 DEF CancelSupervisor, Gate, TypeOK, ClaimShape, InflightCountsClaims
  <2>5. CASE CloseReturns(t)
    BY <2>5 DEF CloseReturns, Gate, TypeOK, ClaimShape, InflightCountsClaims
  <2>6. QED
    BY <1>15, <2>1, <2>2, <2>3, <2>4, <2>5
<1>16. ASSUME NEW c \in Callers, CallBegins(c) PROVE Gate'
  <2>1. /\ claim' \in [Actors -> Sess \cup {None}]
        /\ inflight' \in Nat /\ drained' \in {"nil", "open"}
        /\ InflightCountsClaims'
    BY <1>16, <1>a, EnterCounts DEF CallBegins
  <2>2. QED
    BY <1>16, <1>a, <2>1 DEF CallBegins, Enter, Gate, TypeOK, ClaimShape
<1>17. ASSUME NEW c \in Callers, CallReturns(c) PROVE Gate'
  <2>1. /\ claim' \in [Actors -> Sess \cup {None}]
        /\ inflight' \in Nat /\ drained' \in {"nil", "open"}
        /\ InflightCountsClaims'
    BY <1>17, <1>a, LeaveCounts DEF CallReturns
  <2>2. QED
    BY <1>17, <1>a, <2>1 DEF CallReturns, Leave, Gate, TypeOK, ClaimShape
<1>18. CASE UNCHANGED vars
  BY <1>18 DEF vars, Gate, TypeOK, ClaimShape, InflightCountsClaims
<1> QED
  BY <1>1, <1>2, <1>3, <1>4, <1>5, <1>6, <1>7, <1>8, <1>9, <1>10, <1>11, <1>12, <1>13, <1>14,
     <1>15, <1>16, <1>17, <1>18
  DEF Next, ConnStep, Supervise, Close

\* The initial state has no claim.
LEMMA InitGate == Init => Gate
<1> SUFFICES ASSUME Init PROVE Gate
  OBVIOUS
<1>1. {a \in Actors : claim[a] # None} = {}
  BY DEF Init
<1>2. InflightCountsClaims
  BY <1>1, FS_EmptySet DEF Init, InflightCountsClaims
<1>3. TypeOK /\ ClaimShape
  BY UpstreamAssumption DEF Init, TypeOK, ClaimShape, PC, Threads, Actors
<1>4. QED
  BY <1>2, <1>3 DEF Gate

\* u.inflight counts the calls between enter and leave, in every reachable
\* state, however many calls, closers and reconnects interleave.
THEOREM InflightExact == Spec => [](TypeOK /\ InflightCountsClaims)
<1>1. Gate /\ [Next]_vars => Gate'
  BY NextGate
<1>2. Gate => TypeOK /\ InflightCountsClaims
  BY DEF Gate
<1>3. QED
  BY InitGate, <1>1, <1>2, PTL DEF Spec

(***************************************************************************)
(* Ownership of transports.                                                *)
(***************************************************************************)

\* What a thread that holds a transport may rely on: it is open, it is not
\* the published one, and no other thread holds it.
HolderShape ==
  /\ \A t \in Threads : HoldsTransport(t) =>
       held[t] \in Sess /\ trans[held[t]] = "open" /\ held[t] # session
  /\ \A t, r \in Threads :
       HoldsTransport(t) /\ HoldsTransport(r) /\ held[t] = held[r] => t = r

\* The published session has an open transport and was handshaken.
PublishedShape ==
  session # None => trans[session] = "open" /\ sess[session] \notin {"free", "dialing"}

\* How the SDK's view of a session goes with its transport and its holders.
SessionShape ==
  /\ \A s \in Sess : /\ sess[s] = "free" => trans[s] = "none"
                     /\ sess[s] \in {"up", "dialing"} => trans[s] = "open"
  /\ \A t \in Threads : /\ pc[t] = "publish" => sess[held[t]] \notin {"free", "dialing"}
                        /\ pc[t] \in {"closing", "cleanup"} => sess[held[t]] \in {"closing", "closed"}
  /\ pc[Sup] \in {"wait", "supclose"} => held[Sup] \in Sess

\* An open transport is published or held.
OpenIsOwned ==
  \A s \in Sess : trans[s] = "open" =>
    session = s \/ \E t \in Threads : HoldsTransport(t) /\ held[t] = s

\* Only one goroutine dials, and only while nothing is published: Connect
\* starts the supervisor after its own connectOnce. Without it connectOnce
\* would overwrite a published session and nobody would own its transport.
SingleDialer ==
  /\ pc[Conn] \in {"check", "build", "handshake", "publish", "startOK", "startFail"}
       => pc[Sup] = "idle"
  /\ \A t \in {Conn, Sup} : pc[t] \in {"build", "handshake", "publish"} => session = None

Ownership ==
  HolderShape /\ PublishedShape /\ SessionShape /\ OpenIsOwned /\ CleanedOnce /\ SingleDialer

\* Ownership survives every step.
LEMMA NextOwnership ==
  ASSUME Gate, Ownership, [Next]_vars
  PROVE  Ownership'
<1>0. /\ {Conn, Sup} \subseteq Threads /\ Closers \subseteq Threads
      /\ Conn # Sup /\ {Conn, Sup} \cap Closers = {} /\ None \notin Sess
  BY UpstreamAssumption DEF Threads, Actors
<1>a. TypeOK
  BY DEF Gate
<1>b. HolderShape /\ PublishedShape /\ SessionShape /\ OpenIsOwned /\ CleanedOnce /\ SingleDialer
  BY DEF Ownership
<1> USE <1>0, <1>a, <1>b DEF TypeOK, PC, Goto, HoldsTransport, uVars, gateVars, sdkVars, histVars,
          HolderShape, PublishedShape, SessionShape, OpenIsOwned, CleanedOnce, SingleDialer
<1>1. ASSUME NEW t \in {Conn, Sup}, BuildTransportOK(t) PROVE Ownership'
  <2>1. HolderShape'
    BY <1>1 DEF BuildTransportOK, Fresh, HoldersOf
  <2>2. PublishedShape'
    BY <1>1 DEF BuildTransportOK, Fresh, HoldersOf
  <2>3. SessionShape'
    BY <1>1 DEF BuildTransportOK, Fresh, HoldersOf
  <2>4. OpenIsOwned'
    BY <1>1 DEF BuildTransportOK, Fresh, HoldersOf
  <2>5. CleanedOnce'
    BY <1>1 DEF BuildTransportOK, Fresh, HoldersOf
  <2>6. SingleDialer'
    BY <1>1 DEF BuildTransportOK, Fresh, HoldersOf
  <2>7. QED
    BY <2>1, <2>2, <2>3, <2>4, <2>5, <2>6 DEF Ownership
<1>2. ASSUME NEW t \in {Conn, Sup}, HandshakeOK(t) PROVE Ownership'
  <2>1. HolderShape'
    BY <1>2 DEF HandshakeOK
  <2>2. PublishedShape'
    BY <1>2 DEF HandshakeOK
  <2>3. SessionShape'
    BY <1>2 DEF HandshakeOK
  <2>4. OpenIsOwned'
    BY <1>2 DEF HandshakeOK
  <2>5. CleanedOnce'
    BY <1>2 DEF HandshakeOK
  <2>6. SingleDialer'
    BY <1>2 DEF HandshakeOK
  <2>7. QED
    BY <2>1, <2>2, <2>3, <2>4, <2>5, <2>6 DEF Ownership
<1>3. ASSUME NEW t \in {Conn, Sup}, HandshakeFails(t) PROVE Ownership'
  <2>1. HolderShape'
    BY <1>3 DEF HandshakeFails, CleanOf, ConnectFailed
  <2>2. PublishedShape'
    BY <1>3 DEF HandshakeFails, CleanOf, ConnectFailed
  <2>3. SessionShape'
    BY <1>3 DEF HandshakeFails, CleanOf, ConnectFailed
  <2>4. OpenIsOwned'
    BY <1>3 DEF HandshakeFails, CleanOf, ConnectFailed
  <2>5. CleanedOnce'
    BY <1>3 DEF HandshakeFails, CleanOf, ConnectFailed
  <2>6. SingleDialer'
    BY <1>3 DEF HandshakeFails, CleanOf, ConnectFailed
  <2>7. QED
    BY <2>1, <2>2, <2>3, <2>4, <2>5, <2>6 DEF Ownership
<1>4. ASSUME NEW t \in {Conn, Sup}, Publish(t) PROVE Ownership'
  <2>1. HolderShape'
    BY <1>4 DEF Publish, CleanOf, ConnectFailed, Connected
  <2>2. PublishedShape'
    BY <1>4 DEF Publish, CleanOf, ConnectFailed, Connected
  <2>3. SessionShape'
    BY <1>4 DEF Publish, CleanOf, ConnectFailed, Connected
  <2>4. OpenIsOwned'
    BY <1>4 DEF Publish, CleanOf, ConnectFailed, Connected
  <2>5. CleanedOnce'
    BY <1>4 DEF Publish, CleanOf, ConnectFailed, Connected
  <2>6. SingleDialer'
    BY <1>4 DEF Publish, CleanOf, ConnectFailed, Connected
  <2>7. QED
    BY <2>1, <2>2, <2>3, <2>4, <2>5, <2>6 DEF Ownership
<1>5. ASSUME NEW t \in Threads, TakeSession(t) PROVE Ownership'
  <2>1. HolderShape'
    BY <1>5 DEF TakeSession, CloseOf, AfterRelease
  <2>2. PublishedShape'
    BY <1>5 DEF TakeSession, CloseOf, AfterRelease
  <2>3. SessionShape'
    BY <1>5 DEF TakeSession, CloseOf, AfterRelease
  <2>4. OpenIsOwned'
    BY <1>5 DEF TakeSession, CloseOf, AfterRelease
  <2>5. CleanedOnce'
    BY <1>5 DEF TakeSession, CloseOf, AfterRelease
  <2>6. SingleDialer'
    BY <1>5 DEF TakeSession, CloseOf, AfterRelease
  <2>7. QED
    BY <2>1, <2>2, <2>3, <2>4, <2>5, <2>6 DEF Ownership
<1>6. ASSUME NEW t \in Threads, Cleanup(t) PROVE Ownership'
  <2>1. HolderShape'
    BY <1>6 DEF Cleanup, CleanOf, AfterRelease
  <2>2. PublishedShape'
    BY <1>6 DEF Cleanup, CleanOf, AfterRelease
  <2>3. SessionShape'
    BY <1>6 DEF Cleanup, CleanOf, AfterRelease
  <2>4. OpenIsOwned'
    BY <1>6 DEF Cleanup, CleanOf, AfterRelease
  <2>5. CleanedOnce'
    BY <1>6 DEF Cleanup, CleanOf, AfterRelease
  <2>6. SingleDialer'
    BY <1>6 DEF Cleanup, CleanOf, AfterRelease
  <2>7. QED
    BY <2>1, <2>2, <2>3, <2>4, <2>5, <2>6 DEF Ownership
<1>7. ASSUME NEW t \in {Conn, Sup}, ConnectCheck(t) PROVE Ownership'
  BY <1>7 DEF ConnectCheck, ConnectFailed, Connected, Ownership
<1>8. ASSUME NEW t \in {Conn, Sup}, BuildTransportFails(t) PROVE Ownership'
  BY <1>8 DEF BuildTransportFails, ConnectFailed, Ownership
<1>9. ASSUME NEW t \in Threads, AwaitClose(t) PROVE Ownership'
  BY <1>9 DEF AwaitClose, Ownership
<1>10. CASE StartSupervisor
  BY <1>10 DEF StartSupervisor, Ownership
<1>11. CASE ListBegins
  BY <1>11 DEF ListBegins, AfterListFailure, Ownership
<1>12. CASE ListReturns
  BY <1>12 DEF ListReturns, AfterListFailure, Ownership
<1>13. CASE SuperviseLoop
  BY <1>13 DEF SuperviseLoop, Ownership
<1>14. CASE SuperviseCancelled
  BY <1>14 DEF SuperviseCancelled, CloseOf, Ownership
<1>15. CASE SuperviseDropped
  BY <1>15 DEF SuperviseDropped, Ownership
<1>16. CASE SuperviseReturns
  BY <1>16 DEF SuperviseReturns, Ownership
<1>17. CASE BackOff
  BY <1>17 DEF BackOff, Ownership
<1>18. CASE ResyncBegins
  BY <1>18 DEF ResyncBegins, Ownership
<1>19. CASE ResyncReturns
  BY <1>19 DEF ResyncReturns, Ownership
<1>20. CASE ParentCancels
  BY <1>20 DEF ParentCancels, Ownership
<1>21. ASSUME NEW t \in Closers, CloseBegins(t) PROVE Ownership'
  BY <1>21 DEF CloseBegins, Ownership
<1>22. ASSUME NEW t \in Closers, Drain(t) PROVE Ownership'
  BY <1>22 DEF Drain, Ownership
<1>23. ASSUME NEW t \in Closers, DrainReturns(t) PROVE Ownership'
  BY <1>23 DEF DrainReturns, Ownership
<1>24. ASSUME NEW t \in Closers, CancelSupervisor(t) PROVE Ownership'
  BY <1>24 DEF CancelSupervisor, Ownership
<1>25. ASSUME NEW t \in Closers, CloseReturns(t) PROVE Ownership'
  BY <1>25 DEF CloseReturns, Ownership
<1>26. ASSUME NEW s \in Sess, SessionCloses(s) PROVE Ownership'
  BY <1>26 DEF SessionCloses, Ownership
<1>27. ASSUME NEW s \in Sess, SessionDrops(s) PROVE Ownership'
  BY <1>27 DEF SessionDrops, Ownership
<1>28. ASSUME NEW c \in Callers, CallBegins(c) PROVE Ownership'
  BY <1>28 DEF CallBegins, Ownership
<1>29. ASSUME NEW c \in Callers, CallReturns(c) PROVE Ownership'
  BY <1>29 DEF CallReturns, Ownership
<1>30. CASE UNCHANGED vars
  BY <1>30 DEF vars, Ownership
<1> QED
  BY <1>1, <1>2, <1>3, <1>4, <1>5, <1>6, <1>7, <1>8, <1>9, <1>10, <1>11, <1>12, <1>13, <1>14, <1>15,
     <1>16, <1>17, <1>18, <1>19, <1>20, <1>21, <1>22, <1>23, <1>24, <1>25, <1>26, <1>27, <1>28, <1>29, <1>30
  DEF Next, ConnStep, Supervise, Close, ConnectOnce, CloseSessionResources, SDK

(***************************************************************************)
(* The closing protocol.                                                   *)
(***************************************************************************)

\* The channel is open only while calls are in flight, so the closer that
\* waits on it is woken or has nothing to wait for; past the drain nothing
\* is in flight unless the drain expired.
DrainShape ==
  /\ drained = "open" => inflight # 0
  /\ \A t \in Closers :
       /\ pc[t] = "drainwait" /\ drained = "nil" => inflight = 0
       /\ DrainWaits /\ pc[t] \in {"cancel", "take", "closing", "cleanup"} /\ t \notin drainExpired
            => inflight = 0

\* u.closed is set before a closer does anything else, and what is published
\* after that is still ahead of the closer that set it.
ClosedShape ==
  /\ \A t \in Closers : pc[t] # "idle" => closed
  /\ closed /\ session # None =>
       \E t \in Closers : pc[t] \in {"drain", "drainwait", "cancel", "take"}

\* A thread reaches the transport's cleanup after the session closed or after
\* the timer.
CleanupShape ==
  \A t \in Threads : pc[t] = "cleanup" => sess[held[t]] = "closed" \/ t \in stalled

\* While the supervisor waits on a session nothing else is published.
SupervisorShape ==
  /\ pc[Sup] = "wait" => session \in {None, held[Sup]}
  /\ SupervisorTakesTheDead

Closing == DrainShape /\ ClosedShape /\ CleanupShape /\ SupervisorShape /\ CutsOnlyAfterTimeouts

\* An outstanding call is counted.
LEMMA ClaimedIsInflight ==
  ASSUME TypeOK, InflightCountsClaims, inflight = 0, NEW s \in Sess
  PROVE  ClaimsOn(s) = {}
<1>1. IsFiniteSet({a \in Actors : claim[a] # None})
  BY ActorsFinite, FS_Subset
<1>2. {a \in Actors : claim[a] # None} = {}
  BY <1>1, FS_EmptySet DEF InflightCountsClaims
<1>3. QED
  BY <1>2, UpstreamAssumption DEF ClaimsOn

\* The closing protocol survives every step.
LEMMA NextClosing ==
  ASSUME Gate, Ownership, Closing, [Next]_vars
  PROVE  Closing'
<1>0. /\ {Conn, Sup} \subseteq Threads /\ Closers \subseteq Threads /\ Callers \subseteq Actors
      /\ Conn # Sup /\ {Conn, Sup} \cap Closers = {} /\ None \notin Sess
  BY UpstreamAssumption DEF Threads, Actors
<1>a. TypeOK /\ InflightCountsClaims /\ ClaimShape
  BY DEF Gate
<1>b. HolderShape /\ PublishedShape /\ SessionShape /\ SingleDialer
  BY DEF Ownership
<1>c. DrainShape /\ ClosedShape /\ CleanupShape /\ SupervisorShape /\ CutsOnlyAfterTimeouts
  BY DEF Closing
<1> USE <1>0, <1>a, <1>b, <1>c DEF TypeOK, PC, Goto, HoldsTransport, uVars, gateVars, sdkVars, histVars,
          DrainShape, ClosedShape, CleanupShape, SupervisorShape, CutsOnlyAfterTimeouts,
          SupervisorTakesTheDead, Ended, HolderShape, SessionShape, SingleDialer
<1>1. ASSUME NEW t \in {Conn, Sup}, BuildTransportOK(t) PROVE Closing'
  <2>1. DrainShape'
    BY <1>1 DEF BuildTransportOK, Fresh, HoldersOf
  <2>2. ClosedShape'
    BY <1>1 DEF BuildTransportOK, Fresh, HoldersOf
  <2>3. CleanupShape'
    BY <1>1 DEF BuildTransportOK, Fresh, HoldersOf
  <2>4. SupervisorShape'
    BY <1>1 DEF BuildTransportOK, Fresh, HoldersOf
  <2>5. CutsOnlyAfterTimeouts'
    BY <1>1 DEF BuildTransportOK, Fresh, HoldersOf
  <2>6. QED
    BY <2>1, <2>2, <2>3, <2>4, <2>5 DEF Closing
<1>2. ASSUME NEW t \in {Conn, Sup}, HandshakeOK(t) PROVE Closing'
  BY <1>2 DEF HandshakeOK, Closing
<1>3. ASSUME NEW t \in {Conn, Sup}, HandshakeFails(t) PROVE Closing'
  BY <1>3 DEF HandshakeFails, CleanOf, ConnectFailed, Closing
<1>4. ASSUME NEW t \in {Conn, Sup}, Publish(t) PROVE Closing'
  <2>1. DrainShape'
    BY <1>4 DEF Publish, CleanOf, ConnectFailed, Connected
  <2>2. ClosedShape'
    BY <1>4 DEF Publish, CleanOf, ConnectFailed, Connected
  <2>3. CleanupShape'
    BY <1>4 DEF Publish, CleanOf, ConnectFailed, Connected
  <2>4. SupervisorShape'
    BY <1>4 DEF Publish, CleanOf, ConnectFailed, Connected
  <2>5. CutsOnlyAfterTimeouts'
    BY <1>4 DEF Publish, CleanOf, ConnectFailed, Connected
  <2>6. QED
    BY <2>1, <2>2, <2>3, <2>4, <2>5 DEF Closing
<1>5. ASSUME NEW t \in {Conn, Sup}, ConnectCheck(t) PROVE Closing'
  BY <1>5 DEF ConnectCheck, ConnectFailed, Connected, Closing
<1>6. ASSUME NEW t \in {Conn, Sup}, BuildTransportFails(t) PROVE Closing'
  BY <1>6 DEF BuildTransportFails, ConnectFailed, Closing
<1>7. ASSUME NEW t \in Threads, TakeSession(t) PROVE Closing'
  <2>1. DrainShape'
    BY <1>7 DEF TakeSession, CloseOf, AfterRelease
  <2>2. ClosedShape'
    BY <1>7 DEF TakeSession, CloseOf, AfterRelease
  <2>3. CleanupShape'
    BY <1>7 DEF TakeSession, CloseOf, AfterRelease
  <2>4. SupervisorShape'
    BY <1>7 DEF TakeSession, CloseOf, AfterRelease
  <2>5. CutsOnlyAfterTimeouts'
    BY <1>7 DEF TakeSession, CloseOf, AfterRelease
  <2>6. QED
    BY <2>1, <2>2, <2>3, <2>4, <2>5 DEF Closing
<1>8. ASSUME NEW t \in Threads, AwaitClose(t) PROVE Closing'
  BY <1>8 DEF AwaitClose, Closing
<1>9. ASSUME NEW t \in Threads, Cleanup(t) PROVE Closing'
  <2>0. inflight = 0 => ClaimsOn(held[t]) = {}
    BY <1>9, ClaimedIsInflight DEF Cleanup, HolderShape
  <2>1. DrainShape'
    BY <1>9, <2>0 DEF Cleanup, CleanOf, AfterRelease
  <2>2. ClosedShape'
    BY <1>9, <2>0 DEF Cleanup, CleanOf, AfterRelease
  <2>3. CleanupShape'
    BY <1>9, <2>0 DEF Cleanup, CleanOf, AfterRelease
  <2>4. SupervisorShape'
    BY <1>9, <2>0 DEF Cleanup, CleanOf, AfterRelease
  <2>5. CutsOnlyAfterTimeouts'
    BY <1>9, <2>0 DEF Cleanup, CleanOf, AfterRelease
  <2>6. QED
    BY <2>1, <2>2, <2>3, <2>4, <2>5 DEF Closing
<1>10. CASE StartSupervisor
  BY <1>10 DEF StartSupervisor, Closing
<1>11. CASE ListBegins
  <2>1. DrainShape'
    BY <1>11 DEF ListBegins, AfterListFailure, Enter, Refuses
  <2>2. ClosedShape'
    BY <1>11 DEF ListBegins, AfterListFailure, Enter, Refuses
  <2>3. CleanupShape'
    BY <1>11 DEF ListBegins, AfterListFailure, Enter, Refuses
  <2>4. SupervisorShape'
    BY <1>11 DEF ListBegins, AfterListFailure, Enter, Refuses
  <2>5. CutsOnlyAfterTimeouts'
    BY <1>11 DEF ListBegins, AfterListFailure, Enter, Refuses
  <2>6. QED
    BY <2>1, <2>2, <2>3, <2>4, <2>5 DEF Closing
<1>12. CASE ListReturns
  <2>0. inflight \in Nat \ {0}
    <3>1. claim[Conn] # None /\ Leave(Conn) /\ Conn \in Actors
      BY <1>12 DEF ListReturns, ClaimShape, Actors
    <3>2. QED
      BY <3>1, LeaveCounts
  <2>1. DrainShape'
    BY <1>12, <2>0 DEF ListReturns, AfterListFailure, Leave
  <2>2. ClosedShape'
    BY <1>12, <2>0 DEF ListReturns, AfterListFailure, Leave
  <2>3. CleanupShape'
    BY <1>12, <2>0 DEF ListReturns, AfterListFailure, Leave
  <2>4. SupervisorShape'
    BY <1>12, <2>0 DEF ListReturns, AfterListFailure, Leave
  <2>5. CutsOnlyAfterTimeouts'
    BY <1>12, <2>0 DEF ListReturns, AfterListFailure, Leave
  <2>6. QED
    BY <2>1, <2>2, <2>3, <2>4, <2>5 DEF Closing
<1>13. CASE SuperviseLoop
  BY <1>13 DEF SuperviseLoop, Closing
<1>14. CASE SuperviseCancelled
  BY <1>14 DEF SuperviseCancelled, CloseOf, Closing
<1>15. CASE SuperviseDropped
  BY <1>15 DEF SuperviseDropped, Closing
<1>16. CASE SuperviseReturns
  BY <1>16 DEF SuperviseReturns, Closing
<1>17. CASE BackOff
  BY <1>17 DEF BackOff, Closing
<1>18. CASE ResyncBegins
  <2>1. DrainShape'
    BY <1>18 DEF ResyncBegins, Enter, Refuses
  <2>2. ClosedShape'
    BY <1>18 DEF ResyncBegins, Enter, Refuses
  <2>3. CleanupShape'
    BY <1>18 DEF ResyncBegins, Enter, Refuses
  <2>4. SupervisorShape'
    BY <1>18 DEF ResyncBegins, Enter, Refuses
  <2>5. CutsOnlyAfterTimeouts'
    BY <1>18 DEF ResyncBegins, Enter, Refuses
  <2>6. QED
    BY <2>1, <2>2, <2>3, <2>4, <2>5 DEF Closing
<1>19. CASE ResyncReturns
  <2>0. inflight \in Nat \ {0}
    <3>1. claim[Sup] # None /\ Leave(Sup) /\ Sup \in Actors
      BY <1>19 DEF ResyncReturns, ClaimShape, Actors
    <3>2. QED
      BY <3>1, LeaveCounts
  <2>1. DrainShape'
    BY <1>19, <2>0 DEF ResyncReturns, Leave
  <2>2. ClosedShape'
    BY <1>19, <2>0 DEF ResyncReturns, Leave
  <2>3. CleanupShape'
    BY <1>19, <2>0 DEF ResyncReturns, Leave
  <2>4. SupervisorShape'
    BY <1>19, <2>0 DEF ResyncReturns, Leave
  <2>5. CutsOnlyAfterTimeouts'
    BY <1>19, <2>0 DEF ResyncReturns, Leave
  <2>6. QED
    BY <2>1, <2>2, <2>3, <2>4, <2>5 DEF Closing
<1>20. CASE ParentCancels
  BY <1>20 DEF ParentCancels, Closing
<1>21. ASSUME NEW t \in Closers, CloseBegins(t) PROVE Closing'
  BY <1>21 DEF CloseBegins, Closing
<1>22. ASSUME NEW t \in Closers, Drain(t) PROVE Closing'
  BY <1>22 DEF Drain, Closing
<1>23. ASSUME NEW t \in Closers, DrainReturns(t) PROVE Closing'
  <2>1. DrainShape'
    BY <1>23 DEF DrainReturns
  <2>2. ClosedShape'
    BY <1>23 DEF DrainReturns
  <2>3. CleanupShape'
    BY <1>23 DEF DrainReturns
  <2>4. SupervisorShape'
    BY <1>23 DEF DrainReturns
  <2>5. CutsOnlyAfterTimeouts'
    BY <1>23 DEF DrainReturns
  <2>6. QED
    BY <2>1, <2>2, <2>3, <2>4, <2>5 DEF Closing
<1>24. ASSUME NEW t \in Closers, CancelSupervisor(t) PROVE Closing'
  BY <1>24 DEF CancelSupervisor, Closing
<1>25. ASSUME NEW t \in Closers, CloseReturns(t) PROVE Closing'
  BY <1>25 DEF CloseReturns, Closing
<1>26. ASSUME NEW s \in Sess, SessionCloses(s) PROVE Closing'
  BY <1>26 DEF SessionCloses, Closing
<1>27. ASSUME NEW s \in Sess, SessionDrops(s) PROVE Closing'
  BY <1>27 DEF SessionDrops, Closing
<1>28. ASSUME NEW c \in Callers, CallBegins(c) PROVE Closing'
  <2>1. DrainShape'
    BY <1>28 DEF CallBegins, Enter, Refuses
  <2>2. ClosedShape'
    BY <1>28 DEF CallBegins, Enter, Refuses
  <2>3. CleanupShape'
    BY <1>28 DEF CallBegins, Enter, Refuses
  <2>4. SupervisorShape'
    BY <1>28 DEF CallBegins, Enter, Refuses
  <2>5. CutsOnlyAfterTimeouts'
    BY <1>28 DEF CallBegins, Enter, Refuses
  <2>6. QED
    BY <2>1, <2>2, <2>3, <2>4, <2>5 DEF Closing
<1>29. ASSUME NEW c \in Callers, CallReturns(c) PROVE Closing'
  <2>0. inflight \in Nat \ {0}
    <3>1. claim[c] # None /\ Leave(c) /\ c \in Actors
      BY <1>29 DEF CallReturns, ClaimShape, Actors
    <3>2. QED
      BY <3>1, LeaveCounts
  <2>1. DrainShape'
    BY <1>29, <2>0 DEF CallReturns, Leave
  <2>2. ClosedShape'
    BY <1>29, <2>0 DEF CallReturns, Leave
  <2>3. CleanupShape'
    BY <1>29, <2>0 DEF CallReturns, Leave
  <2>4. SupervisorShape'
    BY <1>29, <2>0 DEF CallReturns, Leave
  <2>5. CutsOnlyAfterTimeouts'
    BY <1>29, <2>0 DEF CallReturns, Leave
  <2>6. QED
    BY <2>1, <2>2, <2>3, <2>4, <2>5 DEF Closing
<1>30. CASE UNCHANGED vars
  BY <1>30 DEF vars, Closing
<1> QED
  BY <1>1, <1>2, <1>3, <1>4, <1>5, <1>6, <1>7, <1>8, <1>9, <1>10, <1>11, <1>12, <1>13, <1>14, <1>15,
     <1>16, <1>17, <1>18, <1>19, <1>20, <1>21, <1>22, <1>23, <1>24, <1>25, <1>26, <1>27, <1>28, <1>29, <1>30
  DEF Next, ConnStep, Supervise, Close, ConnectOnce, CloseSessionResources, SDK

\* The inductive invariant of the module.
IInv == Gate /\ Ownership /\ Closing

\* It holds initially ...
LEMMA InitIInv == Init => IInv
<1> SUFFICES ASSUME Init PROVE IInv
  OBVIOUS
<1>1. Gate
  BY InitGate
<1>2. Ownership
  BY UpstreamAssumption
  DEF Init, Ownership, HolderShape, PublishedShape, SessionShape, OpenIsOwned, CleanedOnce,
      SingleDialer, HoldsTransport, Threads
<1>3. Closing
  BY UpstreamAssumption
  DEF Init, Closing, DrainShape, ClosedShape, CleanupShape, SupervisorShape,
      CutsOnlyAfterTimeouts, SupervisorTakesTheDead, Ended, HolderShape, SessionShape,
      SingleDialer, Threads
<1>4. QED
  BY <1>1, <1>2, <1>3 DEF IInv

\* ... and every step keeps it.
LEMMA SpecIInv == Spec => []IInv
<1>1. IInv /\ [Next]_vars => IInv'
  BY NextGate, NextOwnership, NextClosing DEF IInv
<1>2. QED
  BY InitIInv, <1>1, PTL DEF Spec

\* Each open transport has exactly one owner, and no cleanup runs twice, for
\* any number of sessions and however Build, the supervisor and Close race.
THEOREM TransportOwnership == Spec => [](OneOwner /\ CleanedOnce)
<1>1. IInv => OneOwner /\ CleanedOnce
  <2> SUFFICES ASSUME IInv PROVE OneOwner /\ CleanedOnce
    OBVIOUS
  <2>1. HolderShape /\ OpenIsOwned /\ CleanedOnce /\ Threads \subseteq Actors
    BY DEF IInv, Ownership, Actors
  <2>2. ASSUME NEW s \in Sess, trans[s] = "open" PROVE \E o \in Owners(s) : Owners(s) = {o}
    <3>1. CASE session = s
      <4>1. Owners(s) = {None}
        BY <2>1, <3>1 DEF Owners, HolderShape
      <4>2. QED
        BY <4>1
    <3>2. CASE session # s
      <4>1. PICK t \in Threads : HoldsTransport(t) /\ held[t] = s
        BY <2>1, <2>2, <3>2 DEF OpenIsOwned
      <4>2. Owners(s) = {t}
        BY <2>1, <3>2, <4>1 DEF Owners, HolderShape
      <4>3. QED
        BY <4>2
    <3>3. QED
      BY <3>1, <3>2
  <2>3. QED
    BY <2>1, <2>2 DEF OneOwner
<1>2. QED
  BY SpecIInv, <1>1, PTL

\* After Close, once every goroutine is done, nothing is left behind.
THEOREM CloseLeaksNothing == Spec => []NoLeakAfterClose
<1>1. IInv => NoLeakAfterClose
  <2> SUFFICES ASSUME IInv, closed, Quiet
               PROVE  /\ session = None
                      /\ \A s \in Sess : trans[s] # "open" /\ sess[s] \notin {"up", "dialing"}
    BY DEF NoLeakAfterClose
  <2>1. TypeOK /\ HolderShape /\ OpenIsOwned /\ SessionShape /\ ClosedShape /\ Closers \subseteq Threads
    BY DEF IInv, Gate, Ownership, Closing, Threads
  <2>2. session = None
    BY <2>1 DEF ClosedShape, Quiet
  <2>3. \A s \in Sess : trans[s] # "open"
    BY <2>1, <2>2, UpstreamAssumption DEF OpenIsOwned, Quiet, HoldsTransport
  <2>4. QED
    BY <2>1, <2>2, <2>3 DEF SessionShape
<1>2. QED
  BY SpecIInv, <1>1, PTL

\* Transports are torn down in order (calls are cut only after the timeouts, one
\* cleanup each, the supervisor only takes a session that has ended), and drain
\* never waits for a wake-up nobody sends.
THEOREM ClosingProtocol == Spec => [](TeardownIsOrderly /\ NoLostWakeup)
<1>1. IInv => TeardownIsOrderly
  BY DEF IInv, Ownership, Closing, DrainShape, SupervisorShape, CancelsAfterDrain, TeardownIsOrderly
<1>2. IInv => NoLostWakeup
  BY DEF IInv, Gate, TypeOK, Closing, DrainShape, NoLostWakeup
<1>3. QED
  BY SpecIInv, <1>1, <1>2, PTL

(***************************************************************************)
(* What is still to come: the safety half of Reconnected and of            *)
(* CloseFinishes.                                                          *)
(***************************************************************************)

\* While connectOnce has not succeeded nothing is published: Conn dials before the
\* supervisor exists, and the supervisor only after it has taken the session.
NothingPublished ==
  /\ pc[Conn] \in {"check", "build", "handshake", "publish", "startFail"} => session = None
  /\ pc[Sup] \in {"backoff", "check", "build", "handshake", "publish", "closing", "cleanup"} => session = None

\* The supervisor runs supervise and what it calls; it returns when cancelled only,
\* and starts unless Close came first.
SupervisorLives ==
  /\ pc[Sup] \notin {"startOK", "startFail", "list", "listing", "drain", "drainwait", "cancel", "waitdone"}
  /\ pc[Sup] \in {"supclose", "done"} => cancelled
  /\ Reconnects /\ ~closed /\ pc[Sup] = "idle" =>
       /\ pc[Conn] \in {"check", "build", "handshake", "publish", "startOK", "startFail"}
       /\ session # None => pc[Conn] = "startOK"

\* What the supervisor waits on is published, or on its way to its end.
WaitEnds ==
  /\ pc[Sup] = "wait" => session = held[Sup] \/ sess[held[Sup]] \in {"closing", "dropped", "closed"}
  /\ pc[Sup] = "supclose" => sess[held[Sup]] \in {"closing", "closed"}

\* Close cancels the supervisor, or has.
CancelIsAhead == closed => cancelled \/ \E t \in Closers : pc[t] \in {"drain", "drainwait", "cancel"}

Watch == NothingPublished /\ SupervisorLives /\ WaitEnds /\ CancelIsAhead

\* Every step keeps the watch.
LEMMA NextWatch ==
  ASSUME IInv, Watch, [Next]_vars
  PROVE  Watch'
<1>0. /\ {Conn, Sup} \subseteq Threads /\ Closers \subseteq Threads
      /\ Conn # Sup /\ {Conn, Sup} \cap Closers = {} /\ None \notin Sess
  BY UpstreamAssumption DEF Threads
<1>a. TypeOK /\ PublishedShape /\ SessionShape /\ SingleDialer /\ HolderShape
  BY DEF IInv, Gate, Ownership
<1> USE <1>0, <1>a DEF TypeOK, PC, Goto, uVars, gateVars, sdkVars, histVars, PublishedShape, SessionShape,
          SingleDialer, HolderShape, HoldsTransport, Watch, NothingPublished, SupervisorLives, WaitEnds, CancelIsAhead
<1>1. ASSUME NEW t \in {Conn, Sup}, ConnectCheck(t) PROVE Watch'
  BY <1>1 DEF ConnectCheck, ConnectFailed, Connected
<1>2. ASSUME NEW t \in {Conn, Sup}, BuildTransportOK(t) \/ BuildTransportFails(t) PROVE Watch'
  BY <1>2 DEF BuildTransportOK, BuildTransportFails, ConnectFailed
<1>3. ASSUME NEW t \in {Conn, Sup}, HandshakeOK(t) \/ HandshakeFails(t) PROVE Watch'
  BY <1>3 DEF HandshakeOK, HandshakeFails, CleanOf, ConnectFailed
<1>4. ASSUME NEW t \in {Conn, Sup}, Publish(t) PROVE Watch'
  BY <1>4 DEF Publish, CleanOf, ConnectFailed, Connected
<1>5. ASSUME NEW t \in Threads, TakeSession(t) PROVE Watch'
  <2>1. NothingPublished' /\ SupervisorLives'
    BY <1>5 DEF TakeSession, AfterRelease
  <2>2. WaitEnds'
    BY <1>5 DEF TakeSession, CloseOf, AfterRelease
  <2>3. CancelIsAhead'
    BY <1>5 DEF TakeSession, AfterRelease
  <2>4. QED
    BY <2>1, <2>2, <2>3 DEF Watch
<1>6. ASSUME NEW t \in Threads, AwaitClose(t) PROVE Watch'
  BY <1>6 DEF AwaitClose
<1>7. ASSUME NEW t \in Threads, Cleanup(t) PROVE Watch'
  BY <1>7 DEF Cleanup, CleanOf, AfterRelease
<1>8. CASE StartSupervisor
  BY <1>8 DEF StartSupervisor
<1>9. CASE ListBegins \/ ListReturns
  BY <1>9 DEF ListBegins, ListReturns, AfterListFailure, Enter, Leave, Refuses
<1>10. CASE SuperviseLoop
  BY <1>10 DEF SuperviseLoop
<1>11. CASE SuperviseCancelled
  BY <1>11 DEF SuperviseCancelled, CloseOf
<1>12. CASE SuperviseDropped \/ SuperviseReturns
  BY <1>12 DEF SuperviseDropped, SuperviseReturns
<1>13. CASE BackOff \/ ParentCancels
  BY <1>13 DEF BackOff, ParentCancels
<1>14. CASE ResyncBegins \/ ResyncReturns
  BY <1>14 DEF ResyncBegins, ResyncReturns, Enter, Leave, Refuses
<1>15. ASSUME NEW t \in Closers, CloseBegins(t) PROVE Watch'
  BY <1>15 DEF CloseBegins
<1>16. ASSUME NEW t \in Closers, Drain(t) \/ DrainReturns(t) PROVE Watch'
  BY <1>16 DEF Drain, DrainReturns
<1>17. ASSUME NEW t \in Closers, CancelSupervisor(t) \/ CloseReturns(t) PROVE Watch'
  BY <1>17 DEF CancelSupervisor, CloseReturns
<1>18. ASSUME NEW s \in Sess, SessionCloses(s) \/ SessionDrops(s) PROVE Watch'
  BY <1>18 DEF SessionCloses, SessionDrops
<1>19. ASSUME NEW c \in Callers, CallBegins(c) \/ CallReturns(c) PROVE Watch'
  BY <1>19 DEF CallBegins, CallReturns
<1>20. CASE UNCHANGED vars
  BY <1>20 DEF vars
<1> QED
  BY <1>1, <1>2, <1>3, <1>4, <1>5, <1>6, <1>7, <1>8, <1>9, <1>10, <1>11, <1>12, <1>13, <1>14, <1>15,
     <1>16, <1>17, <1>18, <1>19, <1>20
  DEF Next, ConnStep, Supervise, Close, ConnectOnce, CloseSessionResources, SDK

\* Nobody has called Close, and Conn is about to dial.
LEMMA InitWatch == Init => Watch
  BY UpstreamAssumption DEF Init, Watch, NothingPublished, SupervisorLives, WaitEnds, CancelIsAhead, Threads

\* The supervisor never returns and never loses sight of the published session
\* while the upstream is not shut down, however Build, Close and the peer interfere.
THEOREM SupervisorIsNeverBlind == Spec => []SupervisorKeepsWatch
<1>1. IInv /\ Watch => SupervisorKeepsWatch
  <2> SUFFICES ASSUME IInv, Watch, Reconnects, ~closed, ~cancelled
               PROVE  /\ pc[Sup] \notin {"supclose", "done"}
                      /\ pc[Sup] = "idle" => pc[Conn] \in {"check", "build", "handshake", "publish", "startOK", "startFail"}
                      /\ session # None => \/ pc[Conn] = "startOK" \/ pc[Sup] \in {"loop", "resync", "resyncing", "take"}
                                           \/ pc[Sup] = "wait" /\ held[Sup] = session
                      /\ pc[Sup] = "wait" /\ session = None => sess[held[Sup]] \in {"closing", "dropped", "closed"}
    BY DEF SupervisorKeepsWatch
  <2>1. TypeOK /\ SupervisorShape /\ SessionShape /\ Sup \in Threads
    BY DEF IInv, Gate, Ownership, Closing, Threads
  <2> USE <2>1 DEF Watch
  <2>2. /\ pc[Sup] \notin {"supclose", "done"}
        /\ pc[Sup] = "idle" => pc[Conn] \in {"check", "build", "handshake", "publish", "startOK", "startFail"}
    BY DEF SupervisorLives
  <2>3. ASSUME session # None, pc[Conn] # "startOK", pc[Sup] \notin {"loop", "resync", "resyncing", "take"}
        PROVE  pc[Sup] = "wait" /\ held[Sup] = session
    <3>1. pc[Sup] \in {"idle", "wait"}
      BY <2>2, <2>3 DEF TypeOK, PC, NothingPublished, SupervisorLives
    <3>2. QED
      BY <2>3, <3>1 DEF SupervisorLives, SupervisorShape
  <2>4. pc[Sup] = "wait" /\ session = None => sess[held[Sup]] \in {"closing", "dropped", "closed"}
    BY UpstreamAssumption DEF WaitEnds, SessionShape
  <2>5. QED
    BY <2>2, <2>3, <2>4
<1>2. IInv /\ Watch /\ [Next]_vars => Watch'
  BY NextWatch
<1>3. QED
  BY SpecIInv, InitWatch, <1>1, <1>2, PTL DEF Spec

\* Whatever a Close meets, it has not yet cancelled the supervisor and taken the
\* session, or both are done; and the supervisor's last wait is for a closing session.
THEOREM CloseGoesOn == Spec => []CloseIsUnderWay
<1>1. IInv /\ Watch => CloseIsUnderWay
  BY DEF IInv, Closing, ClosedShape, Watch, CancelIsAhead, WaitEnds, CloseIsUnderWay
<1>2. IInv /\ Watch /\ [Next]_vars => Watch'
  BY NextWatch
<1>3. QED
  BY SpecIInv, InitWatch, <1>1, <1>2, PTL DEF Spec
=============================================================================
