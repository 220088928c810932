------------------------- MODULE ConfigReloadProofs -------------------------
(***************************************************************************)
(* Theorems about ConfigReload, for any upstreams, contents of the file,   *)
(* and number of edits, signals and reloads.                               *)
(***************************************************************************)
EXTENDS ConfigReload, TLAPS

\* What Watch and the reloader have read while they hold it.
ReadShape ==
  /\ watch.pc = "lock" => watch.read \in Contents
  /\ rel.pc \in {"record", "reload", "detach", "attach"} => rel.read \in Contents

\* What a Reload has still to do: nothing outside of one; within one it follows
\* the configuration that is active by now, what is only to be detached is not in
\* it, what is still to be attached is down once it needs no detaching, and a
\* session still to be detached is not what it wants.
PlanShape ==
  /\ rel.pc \notin {"detach", "attach"} => detach = {} /\ attach = {}
  /\ rel.pc \in {"detach", "attach"} => rel.read = cfg
  /\ rel.pc = "attach" => detach = {}
  /\ attach \subseteq Configured(cfg)
  /\ detach \cap Configured(cfg) \subseteq attach
  /\ \A n \in attach \ detach : live[n] = None
  /\ \A n \in detach : live[n] # None => live[n] # Wanted(cfg, n)

\* The parts of TypeOK that the world and Watch, and that a Reload disturbs.
WorldType ==
  /\ file \in Contents \cup {Gone} /\ last \in Contents
  /\ sigCh \in BOOLEAN /\ ch \in BOOLEAN /\ stopped \in BOOLEAN
  /\ watch \in [pc : {"select", "lock", "send", "done"}, read : Contents \cup {None}]
  /\ rel \in [pc : {"select", "load", "record", "reload", "detach", "attach", "done"},
              read : Contents \cup {None}]
  /\ budget \in [edits : Nat, signals : Nat, stops : 0..1]
  /\ asked \in BOOLEAN /\ missed \subseteq Contents
GatewayType ==
  /\ cfg \in Contents /\ mounts \in {c.mounts : c \in Contents}
  /\ shown \in {c.mounts : c \in Contents}
  /\ live \in [Names -> {None} \cup {Wanted(c, n) : c \in Contents, n \in Names}]
  /\ detach \subseteq Names /\ attach \subseteq Names
  /\ result \in [ok : BOOLEAN, required : SUBSET DOMAIN Boot.fixed]

IInv == TypeOK /\ ReadShape /\ PlanShape /\ RunsWhatIsConfigured /\ mounts = cfg.mounts

\* planUpstreams has no false negatives: an upstream it keeps wants under the new
\* configuration what it wanted under the old.
LEMMA KeptWantsTheSame ==
  ASSUME NEW old, NEW new, NEW n \in Names,
         n \notin Removes(old, new), n \notin Adds(old, new), n \notin Restarts(old, new)
  PROVE  Wanted(old, n) = Wanted(new, n)
<1>1. CASE n \notin Configured(new)
  BY <1>1 DEF Removes, Wanted
<1>2. CASE n \in Configured(new)
  <2>1. n \in Configured(old) /\ old.ups[n] = new.ups[n]
    BY <1>2 DEF Adds, Restarts
  <2>2. new.ups[n].redact = None => old.redact = new.redact
    BY <1>2, <2>1 DEF Restarts, InheritedRedactChanged
  <2>3. \A s \in new.ups[n].refs : old.secrets[s] = new.secrets[s]
    BY <1>2, <2>1 DEF Restarts, SecretRefsChanged
  <2>4. [s \in old.ups[n].refs |-> old.secrets[s]] = [s \in new.ups[n].refs |-> new.secrets[s]]
    BY <2>1, <2>3
  <2>5. NewUpstream(old, n) = NewUpstream(new, n)
    BY <2>1, <2>2, <2>4 DEF NewUpstream
  <2>6. QED
    BY <1>2, <2>1, <2>5 DEF Wanted
<1>3. QED
  BY <1>1, <1>2

\* ... and no false positives: one it restarts wants something else.
LEMMA RestartedWantsAnother ==
  ASSUME NEW old, NEW new, NEW n \in Names, n \in Restarts(old, new)
  PROVE  Wanted(old, n) # Wanted(new, n)
<1>1. n \in Configured(old) /\ n \in Configured(new)
  BY DEF Restarts
<1>2. SUFFICES ASSUME NewUpstream(old, n) = NewUpstream(new, n) PROVE FALSE
  BY <1>1 DEF Wanted
<1>3. /\ NewUpstream(old, n).section = NewUpstream(new, n).section
      /\ NewUpstream(old, n).redact = NewUpstream(new, n).redact
      /\ NewUpstream(old, n).secrets = NewUpstream(new, n).secrets
  BY <1>2
<1>4. old.ups[n] = new.ups[n]
  BY <1>3 DEF NewUpstream
<1>5. new.ups[n].redact = None => old.redact = new.redact
  BY <1>3, <1>4 DEF NewUpstream
<1>6. \A s \in new.ups[n].refs : old.secrets[s] = new.secrets[s]
  <2>1. [s \in new.ups[n].refs |-> old.secrets[s]] = [s \in new.ups[n].refs |-> new.secrets[s]]
    BY <1>3, <1>4 DEF NewUpstream
  <2>2. ASSUME NEW s \in new.ups[n].refs PROVE old.secrets[s] = new.secrets[s]
    <3>1. [t \in new.ups[n].refs |-> old.secrets[t]][s] = [t \in new.ups[n].refs |-> new.secrets[t]][s]
      BY <2>1
    <3>2. QED
      BY <3>1
  <2>3. QED
    BY <2>2
<1>7. QED
  BY <1>4, <1>5, <1>6 DEF Restarts, InheritedRedactChanged, SecretRefsChanged

\* The gateway starts with what its file says.
LEMMA InitIInv == Init => IInv
<1> SUFFICES ASSUME Init PROVE IInv
  OBVIOUS
<1>1. TypeOK
  <2>1. WorldType
    BY ReloadAssumption DEF Init, WorldType
  <2>2. live \in [Names -> {None} \cup {Wanted(c, n) : c \in Contents, n \in Names}]
    BY ReloadAssumption DEF Init
  <2>3. GatewayType
    BY ReloadAssumption, <2>2 DEF Init, GatewayType
  <2>4. QED
    BY <2>1, <2>3 DEF TypeOK, WorldType, GatewayType
<1>2. ReadShape /\ PlanShape /\ RunsWhatIsConfigured /\ mounts = cfg.mounts
  BY DEF Init, ReadShape, PlanShape, RunsWhatIsConfigured
<1>3. QED
  BY <1>1, <1>2 DEF IInv

\* Every step keeps the types and what was read.
LEMMA NextType == ASSUME TypeOK, ReadShape, PlanShape, [Next]_vars PROVE TypeOK' /\ ReadShape'
<1> USE ReloadAssumption
<1>a. WorldType /\ GatewayType
  BY DEF TypeOK, WorldType, GatewayType
<1>b. WorldType' /\ GatewayType' => TypeOK'
  BY DEF TypeOK, WorldType, GatewayType
<1>c. UNCHANGED applied => GatewayType'
  BY <1>a DEF GatewayType, applied, Wanted, Configured, NewUpstream
<1>1. CASE UNCHANGED vars
  BY <1>1, <1>a, <1>b, <1>c DEF WorldType, ReadShape, vars
<1>2. ASSUME NEW c \in Contents \cup {Gone}, Edit(c) PROVE TypeOK' /\ ReadShape'
  BY <1>2, <1>a, <1>b, <1>c DEF WorldType, ReadShape, Edit
<1>3. CASE Signal
  BY <1>3, <1>a, <1>b, <1>c DEF WorldType, ReadShape, Signal
<1>s. CASE Stop
  <2>1. budget' \in [edits : Nat, signals : Nat, stops : 0..1]
    BY <1>s, <1>a DEF WorldType, Stop
  <2>2. QED
    BY <1>s, <1>a, <1>b, <1>c, <2>1 DEF WorldType, ReadShape, Stop
<1>4. CASE WatchSignal \/ WatchSend \/ WatchDone
  <2>1. watch' \in [pc : {"select", "send", "done"}, read : Contents \cup {None}]
    BY <1>4, <1>a DEF WorldType, WatchSignal, WatchSend, WatchDone
  <2>2. QED
    BY <1>4, <1>a, <1>b, <1>c, <2>1 DEF WorldType, ReadShape, WatchSignal, WatchSend, WatchDone
<1>t. CASE WatchTick
  BY <1>t, <1>a, <1>b, <1>c DEF WorldType, ReadShape, WatchTick
<1>u. CASE Changed
  BY <1>u, <1>a, <1>b, <1>c DEF WorldType, ReadShape, Changed
<1>5. CASE RelTake \/ RelDone
  <2>1. rel' \in [pc : {"load", "done"}, read : Contents \cup {None}]
    BY <1>5, <1>a DEF WorldType, RelTake, RelDone
  <2>2. QED
    BY <1>5, <1>a, <1>b, <1>c, <2>1 DEF WorldType, ReadShape, RelTake, RelDone
<1>v. CASE LoadReads
  BY <1>v, <1>a, <1>b, <1>c DEF WorldType, ReadShape, LoadReads, Loads
<1>w. CASE LoadRecords \/ CloseDetached
  <2>1. rel' \in [pc : {"reload", "attach"}, read : Contents]
    BY <1>w, <1>a DEF WorldType, ReadShape, LoadRecords, CloseDetached
  <2>2. QED
    BY <1>w, <1>a, <1>b, <1>c, <2>1 DEF WorldType, ReadShape, LoadRecords, CloseDetached
<1>x. CASE ReloadReturns
  BY <1>x, <1>a, <1>b, <1>c DEF WorldType, ReadShape, ReloadReturns
<1>6. CASE LoadFails \/ ReloadFails
  <2>0. result' = [ok |-> FALSE, required |-> {}]
    BY <1>6 DEF LoadFails, ReloadFails
  <2>1. result' \in [ok : BOOLEAN, required : SUBSET DOMAIN Boot.fixed]
    BY <2>0
  <2>2. GatewayType'
    BY <1>6, <1>a, <2>1 DEF GatewayType, LoadFails, ReloadFails
  <2>3. rel' = [pc |-> "select", read |-> None] /\ UNCHANGED <<file, budget, last, sigCh, ch, watch, stopped>>
    BY <1>6 DEF LoadFails, ReloadFails
  <2>4. asked' \in BOOLEAN /\ missed' \subseteq Contents
    BY <1>6, <1>a DEF WorldType, LoadFails, ReloadFails
  <2>5. WorldType' /\ ReadShape'
    BY <1>a, <2>3, <2>4 DEF WorldType, ReadShape
  <2>6. QED
    BY <1>b, <2>2, <2>5
<1>7. CASE ReloadSwaps
  <2>1. rel.read \in Contents
    BY <1>7 DEF ReadShape, ReloadSwaps
  <2>2. /\ rel' \in [pc : {"detach"}, read : {rel.read}] /\ cfg' = rel.read
        /\ mounts' = rel.read.mounts /\ shown' \in {shown, rel.read.mounts}
        /\ UNCHANGED <<file, budget, last, sigCh, ch, watch, stopped, live, asked, missed>>
    BY <1>7 DEF TypeOK, ReloadSwaps
  <2>3. detach' \subseteq Names /\ attach' \subseteq Names
    BY <1>7 DEF ReloadSwaps, Removes, Adds, Restarts, Configured
  <2>4. result' \in [ok : BOOLEAN, required : SUBSET DOMAIN Boot.fixed]
    BY <1>7, <2>1 DEF ReloadSwaps, RestartRequired
  <2>5. QED
    BY <2>1, <2>2, <2>3, <2>4 DEF TypeOK, ReadShape
<1>8. ASSUME NEW n \in Names, Detach(n) PROVE TypeOK' /\ ReadShape'
  BY <1>8 DEF TypeOK, ReadShape, Detach
<1>9. ASSUME NEW n \in Names, Attach(n) PROVE TypeOK' /\ ReadShape'
  <2>1. NewUpstream(rel.read, n) = Wanted(cfg, n) /\ cfg \in Contents
    BY <1>9 DEF PlanShape, Attach, Wanted, TypeOK
  <2>2. live' \in [Names -> {None} \cup {Wanted(c, m) : c \in Contents, m \in Names}]
    BY <1>9, <2>1 DEF TypeOK, Attach
  <2>3. QED
    BY <1>9, <2>2 DEF TypeOK, ReadShape, Attach
<1>10. QED
  BY <1>1, <1>2, <1>3, <1>s, <1>4, <1>t, <1>u, <1>5, <1>v, <1>w, <1>x, <1>6, <1>7, <1>8, <1>9
     DEF Next, Watching, Reloading

\* Every step keeps the plan and what runs.
LEMMA NextIInv == ASSUME IInv, [Next]_vars PROVE IInv'
<1> DEFINE Runs == PlanShape /\ RunsWhatIsConfigured /\ mounts = cfg.mounts
<1>a. TypeOK /\ ReadShape /\ PlanShape /\ RunsWhatIsConfigured /\ mounts = cfg.mounts
  BY DEF IInv
<1> SUFFICES Runs'
  BY <1>a, NextType DEF IInv
<1>1. CASE /\ UNCHANGED <<cfg, live, mounts, shown, detach, attach>> /\ rel'.read = rel.read
           /\ (rel.pc \in {"detach", "attach"} \/ rel'.pc \in {"detach", "attach"}) => rel'.pc = rel.pc
  BY <1>a, <1>1 DEF PlanShape, RunsWhatIsConfigured, Configured, Wanted, NewUpstream
<1>2. CASE UNCHANGED vars \/ (\E c \in Contents \cup {Gone} : Edit(c)) \/ Signal \/ Stop
           \/ WatchSignal \/ WatchTick \/ Watching
  BY <1>1, <1>2 DEF vars, applied, Edit, Signal, Stop, WatchSignal, WatchTick, Watching, Changed,
     WatchSend, WatchDone
<1>3. CASE RelTake \/ RelDone \/ LoadFails \/ LoadReads \/ LoadRecords \/ ReloadFails
  <2>1. /\ UNCHANGED <<cfg, live, mounts, shown, detach, attach>>
        /\ rel.pc \notin {"detach", "attach"} /\ rel'.pc \notin {"detach", "attach"}
    BY <1>a, <1>3 DEF TypeOK, applied, RelTake, RelDone, LoadFails, LoadReads, LoadRecords,
       ReloadFails
  <2>2. QED
    BY <1>a, <2>1 DEF PlanShape, RunsWhatIsConfigured, Configured, Wanted, NewUpstream
<1>4. CASE CloseDetached \/ ReloadReturns
  <2>1. /\ UNCHANGED <<cfg, live, mounts, shown, detach, attach>>
        /\ \/ rel.pc = "detach" /\ rel'.pc = "attach" /\ rel'.read = rel.read /\ detach = {}
           \/ rel.pc = "attach" /\ rel'.pc = "select" /\ attach = {}
    BY <1>a, <1>4 DEF TypeOK, applied, CloseDetached, ReloadReturns
  <2>2. QED
    BY <1>a, <2>1 DEF PlanShape, RunsWhatIsConfigured, Configured, Wanted, NewUpstream
<1>5. CASE ReloadSwaps
  <2> DEFINE new == rel.read
  <2>1. /\ cfg' = new /\ rel'.pc = "detach" /\ rel'.read = new /\ UNCHANGED live /\ mounts' = new.mounts
        /\ detach' = Removes(cfg, new) \cup Restarts(cfg, new)
        /\ attach' = Adds(cfg, new) \cup Restarts(cfg, new)
        /\ shown' = IF mounts # new.mounts THEN new.mounts ELSE shown
    BY <1>a, <1>5 DEF TypeOK, ReloadSwaps
  <2>2. detach = {} /\ attach = {} /\ \A n \in Names : live[n] = Wanted(cfg, n)
    BY <1>a, <1>5 DEF ReloadSwaps, PlanShape, RunsWhatIsConfigured
  <2>3. /\ attach' \subseteq Configured(new) /\ detach' \cap Configured(new) \subseteq attach'
        /\ attach' \cup detach' \subseteq Names
    BY <2>1 DEF Adds, Removes, Restarts, Configured
  <2>4. \A n \in attach' \ detach' : live[n] = None
    BY <2>1, <2>2, <2>3 DEF Adds, Wanted
  <2>5. \A n \in detach' : live[n] # None => live[n] # Wanted(new, n)
    <3>1. \A n \in Removes(cfg, new) : Wanted(new, n) = None
      BY DEF Removes, Wanted
    <3>2. QED
      BY <2>1, <2>2, <2>3, <3>1, RestartedWantsAnother
  <2>6. \A n \in Names \ (detach' \cup attach') : live[n] = Wanted(new, n)
    BY <2>1, <2>2, KeptWantsTheSame
  <2>7. shown' = new.mounts
    BY <1>a, <2>1 DEF RunsWhatIsConfigured
  <2>8. QED
    BY <2>1, <2>3, <2>4, <2>5, <2>6, <2>7 DEF PlanShape, RunsWhatIsConfigured, Configured,
       Wanted, NewUpstream
<1>6. ASSUME NEW n \in Names, Detach(n) PROVE Runs'
  <2>1. /\ UNCHANGED <<cfg, mounts, shown, attach, rel>> /\ rel.pc = "detach" /\ n \in detach
        /\ detach' = detach \ {n} /\ live'[n] = None
        /\ \A m \in Names \ {n} : live'[m] = live[m]
    BY <1>a, <1>6 DEF TypeOK, Detach
  <2>2. PlanShape'
    BY <1>a, <2>1 DEF TypeOK, PlanShape, Configured, Wanted, NewUpstream
  <2>3. n \notin attach => Wanted(cfg, n) = None
    BY <1>a, <2>1 DEF PlanShape, Wanted
  <2>4. \A m \in Names \ (detach' \cup attach') : live'[m] = Wanted(cfg, m)
    BY <1>a, <2>1, <2>3 DEF RunsWhatIsConfigured
  <2>5. QED
    BY <1>a, <2>1, <2>2, <2>4 DEF RunsWhatIsConfigured, Configured, Wanted, NewUpstream
<1>7. ASSUME NEW n \in Names, Attach(n) PROVE Runs'
  <2>1. /\ UNCHANGED <<cfg, mounts, shown, detach, rel>> /\ rel.pc = "attach" /\ n \in attach
        /\ attach' = attach \ {n} /\ live'[n] = NewUpstream(rel.read, n)
        /\ \A m \in Names \ {n} : live'[m] = live[m]
    BY <1>a, <1>7 DEF TypeOK, Attach
  <2>2. live'[n] = Wanted(cfg, n)
    BY <1>a, <2>1 DEF PlanShape, Wanted
  <2>3. PlanShape'
    BY <1>a, <2>1 DEF TypeOK, PlanShape, Configured, Wanted, NewUpstream
  <2>4. \A m \in Names \ (detach' \cup attach') : live'[m] = Wanted(cfg, m)
    BY <1>a, <2>1, <2>2 DEF RunsWhatIsConfigured
  <2>5. QED
    BY <1>a, <2>1, <2>3, <2>4 DEF RunsWhatIsConfigured, Configured, Wanted, NewUpstream
<1>8. QED
  BY <1>2, <1>3, <1>4, <1>5, <1>6, <1>7 DEF Next, Reloading

\* The types, and that every upstream runs what the active configuration gives it,
\* whatever edits, failed loads and reloads came before.
THEOREM ReloadIsComplete == Spec => [](TypeOK /\ RunsWhatIsConfigured)
<1>1. IInv => TypeOK /\ RunsWhatIsConfigured
  BY DEF IInv
<1>2. QED
  BY InitIInv, NextIInv, <1>1, PTL DEF Spec

\* No step drops a session that the active configuration wants as it is.
THEOREM ReloadKeepsUnchanged == Spec => KeepsUnchanged
<1>1. ASSUME IInv, [Next]_vars
      PROVE  [\A n \in Names : live[n] # None /\ live'[n] = None => live[n] # Wanted(cfg, n)]_vars
  <2>a. TypeOK /\ PlanShape
    BY <1>1 DEF IInv
  <2> SUFFICES ASSUME NEW n \in Names, Next, live[n] # None, live'[n] = None
               PROVE  live[n] # Wanted(cfg, n)
    BY <1>1
  <2>1. ASSUME NEW m \in Names, Detach(m) PROVE live[n] # Wanted(cfg, n)
    <3>1. m = n
      BY <2>a, <2>1 DEF TypeOK, Detach
    <3>2. QED
      BY <2>a, <2>1, <3>1 DEF Detach, PlanShape
  <2>2. ASSUME NEW m \in Names, Attach(m) PROVE FALSE
    <3>1. live[m] = None
      BY <2>a, <2>2 DEF Attach, PlanShape
    <3>2. QED
      BY <2>a, <2>2, <3>1 DEF TypeOK, Attach
  <2>3. ASSUME UNCHANGED live PROVE FALSE
    BY <2>3
  <2>4. QED
    BY <2>1, <2>2, <2>3 DEF Next, Edit, Signal, Stop, WatchSignal, WatchTick, Watching, Changed,
       WatchSend, WatchDone,
       Reloading, RelTake, RelDone, LoadFails, LoadReads, LoadRecords, ReloadFails, ReloadSwaps, CloseDetached, ReloadReturns, applied
<1>2. QED
  BY InitIInv, NextIInv, <1>1, PTL DEF Spec, KeepsUnchanged

\* A content that was recorded after the one Reload is about to apply has its token
\* coming: without this the swap could leave it recorded and never applied.
Overtaken == rel.pc = "reload" => rel.read = last \/ watch.pc = "send" \/ ch \/ stopped

\* No interleaving of Watch, the reloader and the operator loses an edit or a signal:
\* what was recorded or asked for and is not served has a step that still carries it.
THEOREM NothingIsForgotten == Spec => [](EditsAreRemembered /\ SignalsAreRemembered)
<1> DEFINE Remembers == EditsAreRemembered /\ SignalsAreRemembered /\ Overtaken
<1>1. Init => Remembers
  BY DEF Init, EditsAreRemembered, SignalsAreRemembered, Overtaken
<1>2. ASSUME IInv, Remembers, [Next]_vars PROVE Remembers'
  <2> USE DEF EditsAreRemembered, SignalsAreRemembered, Overtaken
  <2>a. TypeOK
    BY <1>2 DEF IInv
  <2>b. Remembers
    BY <1>2
  <2>1. CASE UNCHANGED vars \/ (\E c \in Contents \cup {Gone} : Edit(c)) \/ Signal \/ Stop
    BY <2>1, <2>b DEF vars, applied, Edit, Signal, Stop
  <2>2. CASE WatchSignal \/ WatchTick \/ WatchSend \/ WatchDone
    BY <2>2, <2>a, <2>b DEF TypeOK, applied, WatchSignal, WatchTick, WatchSend, WatchDone
  <2>3. CASE Changed
    BY <2>3, <2>a, <2>b DEF TypeOK, applied, Changed
  <2>4. CASE RelTake \/ RelDone
    BY <2>4, <2>a, <2>b DEF TypeOK, applied, RelTake, RelDone
  <2>5. CASE LoadFails \/ LoadReads \/ LoadRecords
    BY <2>5, <2>a, <2>b DEF TypeOK, applied, LoadFails, LoadReads, LoadRecords
  <2>6. CASE ReloadFails
    BY <2>6, <2>a, <2>b DEF TypeOK, ReloadFails
  <2>s. CASE ReloadSwaps
    <3>1. /\ cfg' = rel.read /\ rel'.pc = "detach" /\ rel.pc = "reload"
          /\ UNCHANGED <<last, missed, watch, ch, sigCh, asked, stopped>>
      BY <2>s, <2>a DEF TypeOK, ReloadSwaps
    <3>2. QED
      BY <2>b, <3>1
  <2>7. CASE CloseDetached \/ ReloadReturns \/ \E n \in Names : Detach(n) \/ Attach(n)
    BY <2>7, <2>a, <2>b DEF TypeOK, applied, CloseDetached, ReloadReturns, Detach, Attach
  <2>8. QED
    BY <1>2, <2>1, <2>2, <2>3, <2>4, <2>5, <2>6, <2>s, <2>7 DEF Next, Watching, Reloading
<1>3. QED
  BY InitIInv, NextIInv, <1>1, <1>2, PTL DEF Spec
=============================================================================
