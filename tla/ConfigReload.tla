---------------------------- MODULE ConfigReload ----------------------------
(***************************************************************************)
(* How an edit of gateway.toml reaches the running gateway:                *)
(* internal/gateway/source.go (FileSource), reloader.go (Reloader) and     *)
(* reload.go (Gateway.Reload and planUpstreams).                           *)
(*                                                                         *)
(* Two goroutines of Reloader.Run share the channel ch and the hash last:  *)
(*   Watch turns SIGHUPs and polls of the file into tokens on ch;          *)
(*   the reloader takes a token, loads the file and applies it.            *)
(* The file belongs to the operator, who may replace it, or take it away   *)
(* and bring it back, between any two steps.                               *)
(*                                                                         *)
(* A content of the file stands for its bytes, their hash and the Config   *)
(* they decode to.  Connecting an upstream, registering what it offers and *)
(* draining it are the subjects of Upstream and GatewaySync: here a live   *)
(* upstream is what newUpstream built it from.                             *)
(***************************************************************************)
EXTENDS Naturals, FiniteSets

CONSTANTS
  Names,       \* names of upstreams
  Contents,    \* contents the file may have
  Boot,        \* the one the process started with
  Gone,        \* the file cannot be read
  None,
  Polls,       \* -config-watch-interval is not zero
  Budgets      \* bounds: how many edits and signals, and whether ctx may end

(***************************************************************************)
(* A content c has                                                         *)
(*   c.decodes   Decode accepts it: it parses and validates                *)
(*   c.builds    newUpstream accepts each of its upstreams                 *)
(*   c.ups       the upstream sections; a section has a body, the secrets  *)
(*               it refers to and a redact section of its own, or None     *)
(*   c.secrets   the [secret] sections by name                             *)
(*   c.redact    the global [redact] section                               *)
(*   c.mounts    the [[blob.mount]] sections                               *)
(*   c.fixed     the sections read once, at startup                        *)
(***************************************************************************)
ASSUME ReloadAssumption ==
  /\ Boot \in Contents /\ Boot.decodes /\ Boot.builds
  /\ \A c \in Contents : DOMAIN c.fixed = DOMAIN Boot.fixed
  /\ Gone \notin Contents
  /\ Polls \in BOOLEAN
  /\ Budgets \subseteq [edits : Nat, signals : Nat, stops : 0..1]

VARIABLES
  file,      \* what is at FileSource.path
  last,      \* FileSource.last
  sigCh,     \* a signal is in sigCh, which has room for one
  ch,        \* a token is in ch, which has room for one
  watch,     \* Watch: where it is, and what changed has read
  rel,       \* the reloader: where it is, and what Load has read
  stopped,   \* ctx is done
  cfg,       \* Gateway.cfg
  live,      \* Gateway.upstreams, by name
  mounts,    \* Gateway.blobMounts
  shown,     \* the mounts the description of blob_share names
  detach,    \* upstreams this Reload has still to detach
  attach,    \* upstreams this Reload has still to attach
  result,    \* the outcome of the last reload, with its RestartRequired
  budget,    \* what is left of the bounds
  \* History, read by properties only.
  asked,     \* a SIGHUP came since the file was last read by a Load
  missed     \* contents recorded in last for a Load that then failed

applied == <<cfg, live, mounts, shown, detach, attach, result>>
vars == <<file, budget, last, sigCh, ch, watch, rel, stopped, applied, asked, missed>>

\* newUpstream: what an upstream is built from, and stays with until it is replaced.
\* Left out is server.drain_timeout, which it reads as well: planUpstreams restarts
\* nothing for it.  It is a part of the server section, one of c.fixed, so that an
\* edit of it is reported by RestartRequired; the upstreams this Reload builds have
\* the new one at once, the others when they are next restarted.
NewUpstream(c, n) ==
  [section |-> c.ups[n],
   redact |-> IF c.ups[n].redact = None THEN c.redact ELSE c.ups[n].redact,
   secrets |-> [s \in c.ups[n].refs |-> c.secrets[s]]]

Configured(c) == {n \in Names : c.ups[n] # None}

\* What the gateway is to run for n under the configuration c.
Wanted(c, n) == IF n \in Configured(c) THEN NewUpstream(c, n) ELSE None

\* The type of every variable.
TypeOK ==
  /\ file \in Contents \cup {Gone} /\ last \in Contents
  /\ sigCh \in BOOLEAN /\ ch \in BOOLEAN /\ stopped \in BOOLEAN
  /\ watch \in [pc : {"select", "lock", "send", "done"}, read : Contents \cup {None}]
  /\ rel \in [pc : {"select", "load", "record", "reload", "detach", "attach", "done"},
              read : Contents \cup {None}]
  /\ cfg \in Contents /\ mounts \in {c.mounts : c \in Contents}
  /\ shown \in {c.mounts : c \in Contents}
  /\ live \in [Names -> {None} \cup {Wanted(c, n) : c \in Contents, n \in Names}]
  /\ detach \subseteq Names /\ attach \subseteq Names
  /\ result \in [ok : BOOLEAN, required : SUBSET DOMAIN Boot.fixed]
  /\ budget \in [edits : Nat, signals : Nat, stops : 0..1]
  /\ asked \in BOOLEAN /\ missed \subseteq Contents

\* main: Load, New and Build are over when Run starts.
Init ==
  /\ file = Boot /\ last = Boot /\ cfg = Boot
  /\ sigCh = FALSE /\ ch = FALSE /\ stopped = FALSE
  /\ watch = [pc |-> "select", read |-> None]
  /\ rel = [pc |-> "select", read |-> None]
  /\ live = [n \in Names |-> Wanted(Boot, n)]
  /\ mounts = Boot.mounts /\ shown = Boot.mounts
  /\ detach = {} /\ attach = {} /\ result = [ok |-> TRUE, required |-> {}]
  /\ budget \in Budgets /\ asked = FALSE /\ missed = {}

-----------------------------------------------------------------------------
(* The world: the operator and the end of the process.                     *)

Edit(c) ==
  /\ budget.edits > 0 /\ c # file
  /\ file' = c /\ budget' = [budget EXCEPT !.edits = @ - 1]
  /\ UNCHANGED <<last, sigCh, ch, watch, rel, stopped, applied, asked, missed>>

\* signal.Notify does not block: a signal that finds sigCh full is dropped.
Signal ==
  /\ watch.pc # "done" /\ budget.signals > 0
  /\ sigCh' = TRUE /\ asked' = TRUE
  /\ budget' = [budget EXCEPT !.signals = @ - 1]
  /\ UNCHANGED <<file, last, ch, watch, rel, stopped, applied, missed>>

Stop ==
  /\ budget.stops > 0
  /\ stopped' = TRUE /\ budget' = [budget EXCEPT !.stops = @ - 1]
  /\ UNCHANGED <<file, last, sigCh, ch, watch, rel, applied, asked, missed>>

-----------------------------------------------------------------------------
(* Watch.                                                                  *)

\* Mutant: a signal is treated as an early tick.
WatchSignalAsTick ==
  /\ watch.pc = "select" /\ sigCh /\ file # Gone
  /\ sigCh' = FALSE
  /\ watch' = [pc |-> "lock", read |-> file]
  /\ UNCHANGED <<file, budget, last, ch, rel, stopped, applied, asked, missed>>

\* A signal is an explicit request: the hash is not looked at.
WatchSignal ==
  /\ watch.pc = "select" /\ sigCh
  /\ sigCh' = FALSE
  /\ watch' = [watch EXCEPT !.pc = "send"]
  /\ UNCHANGED <<file, budget, last, ch, rel, stopped, applied, asked, missed>>

\* changed reads the file without the lock; one it cannot read is no change.
WatchTick ==
  /\ watch.pc = "select" /\ Polls /\ file # Gone
  /\ watch' = [pc |-> "lock", read |-> file]
  /\ UNCHANGED <<file, budget, last, sigCh, ch, rel, stopped, applied, asked, missed>>

\* changed under s.mu.
Changed ==
  /\ watch.pc = "lock"
  /\ watch' = [pc |-> IF watch.read = last THEN "select" ELSE "send", read |-> None]
  /\ last' = watch.read
  /\ UNCHANGED <<file, budget, sigCh, ch, rel, stopped, applied, asked, missed>>

\* Mutant: a token that does not fit is dropped while a reload is running.
WatchSendOrDrop ==
  /\ watch.pc = "send"
  /\ ch' = (ch \/ rel.pc = "select") /\ watch' = [watch EXCEPT !.pc = "select"]
  /\ UNCHANGED <<file, budget, last, sigCh, rel, stopped, applied, asked, missed>>

\* The send on ch waits for room, or for the end.
WatchSend ==
  /\ watch.pc = "send" /\ ~ch
  /\ ch' = TRUE /\ watch' = [watch EXCEPT !.pc = "select"]
  /\ UNCHANGED <<file, budget, last, sigCh, rel, stopped, applied, asked, missed>>

WatchDone ==
  /\ watch.pc \in {"select", "send"} /\ stopped
  /\ watch' = [watch EXCEPT !.pc = "done"]
  /\ UNCHANGED <<file, budget, last, sigCh, ch, rel, stopped, applied, asked, missed>>

-----------------------------------------------------------------------------
(* The reloader.                                                           *)

RelTake ==
  /\ rel.pc = "select" /\ ch
  /\ ch' = FALSE /\ rel' = [rel EXCEPT !.pc = "load"]
  /\ UNCHANGED <<file, budget, last, sigCh, watch, stopped, applied, asked, missed>>

RelDone ==
  /\ rel.pc = "select" /\ stopped
  /\ rel' = [rel EXCEPT !.pc = "done"]
  /\ UNCHANGED <<file, budget, last, sigCh, ch, watch, stopped, applied, asked, missed>>

Loads(f) == f # Gone /\ f.decodes

\* FileSource.Load, up to its lock: a file that cannot be read or decoded ends
\* the reload, and last is left as it is.
LoadFails ==
  /\ rel.pc = "load" /\ ~Loads(file)
  /\ rel' = [pc |-> "select", read |-> None] /\ result' = [ok |-> FALSE, required |-> {}]
  /\ asked' = FALSE /\ missed' = missed \cup {last}
  /\ UNCHANGED <<file, budget, last, sigCh, ch, watch, stopped, cfg, live, mounts, shown, detach, attach>>

LoadReads ==
  /\ rel.pc = "load" /\ Loads(file)
  /\ rel' = [pc |-> "record", read |-> file]
  /\ asked' = FALSE
  /\ UNCHANGED <<file, budget, last, sigCh, ch, watch, stopped, applied, missed>>

LoadRecords ==
  /\ rel.pc = "record"
  /\ last' = rel.read /\ missed' = missed \ {rel.read}
  /\ rel' = [rel EXCEPT !.pc = "reload"]
  /\ UNCHANGED <<file, budget, sigCh, ch, watch, stopped, applied, asked>>

\* secretRefsChanged.
SecretRefsChanged(old, new, n) == \E s \in new.ups[n].refs : old.secrets[s] # new.secrets[s]

\* Mutant: whether the upstream has a redact section of its own is not looked at.
AnyRedactChanged(old, new, n) == old.redact # new.redact

\* The global section changed where the upstream inherits it.
InheritedRedactChanged(old, new, n) == new.ups[n].redact = None /\ old.redact # new.redact

\* Mutant: only the upstream's own section is compared.
RestartsOnSection(old, new) ==
  {n \in Configured(old) \cap Configured(new) : old.ups[n] # new.ups[n]}

\* planUpstreams: the upstreams to restart.
Restarts(old, new) ==
  {n \in Configured(old) \cap Configured(new) :
     \/ old.ups[n] # new.ups[n]
     \/ InheritedRedactChanged(old, new, n)
     \/ SecretRefsChanged(old, new, n)}

Adds(old, new) == Configured(new) \ Configured(old)
Removes(old, new) == Configured(old) \ Configured(new)

\* restartRequired compares with the configuration of the reload before.
RestartRequired(old, new) == {s \in DOMAIN new.fixed : old.fixed[s] # new.fixed[s]}

\* An upstream that cannot be built ends the Reload before anything has changed.
ReloadFails ==
  /\ rel.pc = "reload" /\ ~rel.read.builds
  /\ rel' = [pc |-> "select", read |-> None] /\ result' = [ok |-> FALSE, required |-> {}]
  /\ UNCHANGED <<file, budget, last, sigCh, ch, watch, stopped, cfg, live, mounts, shown, detach, attach, asked, missed>>

\* The upstreams are planned and built; then the configuration is replaced, and
\* blob_share is registered again if its mounts are others.
ReloadSwaps ==
  /\ rel.pc = "reload" /\ rel.read.builds
  /\ LET new == rel.read IN
       /\ detach' = Removes(cfg, new) \cup Restarts(cfg, new)
       /\ attach' = Adds(cfg, new) \cup Restarts(cfg, new)
       /\ result' = [ok |-> TRUE, required |-> RestartRequired(cfg, new)]
       /\ cfg' = new /\ mounts' = new.mounts
       /\ shown' = IF mounts # new.mounts THEN new.mounts ELSE shown
  /\ rel' = [rel EXCEPT !.pc = "detach"]
  /\ UNCHANGED <<file, budget, last, sigCh, ch, watch, stopped, live, asked, missed>>

Detach(n) ==
  /\ rel.pc = "detach" /\ n \in detach
  /\ detach' = detach \ {n} /\ live' = [live EXCEPT ![n] = None]
  /\ UNCHANGED <<file, budget, last, sigCh, ch, watch, rel, stopped, cfg, mounts, shown, attach, result, asked, missed>>

\* closeUpstreams waits for all of them; each Close is bounded (see Upstream).
CloseDetached ==
  /\ rel.pc = "detach" /\ detach = {}
  /\ rel' = [rel EXCEPT !.pc = "attach"]
  /\ UNCHANGED <<file, budget, last, sigCh, ch, watch, stopped, applied, asked, missed>>

Attach(n) ==
  /\ rel.pc = "attach" /\ n \in attach
  /\ attach' = attach \ {n} /\ live' = [live EXCEPT ![n] = NewUpstream(rel.read, n)]
  /\ UNCHANGED <<file, budget, last, sigCh, ch, watch, rel, stopped, cfg, mounts, shown, detach, result, asked, missed>>

ReloadReturns ==
  /\ rel.pc = "attach" /\ attach = {}
  /\ rel' = [pc |-> "select", read |-> None]
  /\ UNCHANGED <<file, budget, last, sigCh, ch, watch, stopped, applied, asked, missed>>

-----------------------------------------------------------------------------
Watching == Changed \/ WatchSend \/ WatchDone

Reloading ==
  \/ RelTake \/ RelDone \/ LoadFails \/ LoadReads \/ LoadRecords
  \/ ReloadFails \/ ReloadSwaps \/ CloseDetached \/ ReloadReturns
  \/ \E n \in Names : Detach(n) \/ Attach(n)

Next ==
  \/ \E c \in Contents \cup {Gone} : Edit(c)
  \/ Signal \/ Stop
  \/ WatchSignal \/ WatchTick \/ Watching
  \/ Reloading

Spec == Init /\ [][Next]_vars

(***************************************************************************)
(* A goroutine that can go on does; a ticker goes on ticking, and select   *)
(* chooses at random among what is ready, so that neither the signals nor  *)
(* the ticks nor ctx.Done are passed over for ever.                        *)
(***************************************************************************)
FairSpec ==
  /\ Spec
  /\ WF_vars(Watching) /\ SF_vars(WatchSignal) /\ SF_vars(WatchTick)
  /\ WF_vars(Reloading)

-----------------------------------------------------------------------------
(* Properties.                                                             *)

\* Whatever edits and failed loads came before, each upstream a Reload has no
\* more to do for runs with what the active configuration gives it: its own
\* section, the redact section it inherits and the secrets it refers to.  So
\* planUpstreams has missed no reason to restart one, and no failure has left the
\* gateway between two configurations.
RunsWhatIsConfigured ==
  /\ \A n \in Names \ (detach \cup attach) : live[n] = Wanted(cfg, n)
  /\ shown = cfg.mounts

\* A live session is dropped only if the active configuration wants another one:
\* Reload keeps the session of an upstream whose effective configuration did not
\* change, whatever else did.
KeepsUnchanged ==
  [][\A n \in Names : live[n] # None /\ live'[n] = None => live[n] # Wanted(cfg, n)]_vars

\* A content the file settles on is applied in the end, unless the load it caused
\* met the file unreadable or half written: changed has recorded the hash by then,
\* and the poll does not report that content again.
SettledIsApplied ==
  \A c \in {d \in Contents : d.decodes /\ d.builds} :
    <>[](file = c) => <>[](cfg = c \/ c \in missed \/ stopped)

\* Every SIGHUP is followed by a load of the file that began after it, though both
\* channels hold one element and drop or hold back the rest.
SignalIsServed == asked ~> (~asked \/ stopped)

\* Why SettledIsApplied can hold: the content the poll has recorded, and so will
\* not report again, is the active one, or it cannot be, or a failed load has missed
\* it, or what brings it to Reload is still on its way: Watch at its send, a token
\* in ch, a load that has yet to record what it read, or that content at Reload.
EditsAreRemembered ==
  \/ last = cfg \/ ~(last.decodes /\ last.builds) \/ last \in missed
  \/ watch.pc = "send" \/ ch \/ rel.pc \in {"load", "record"}
  \/ rel.pc = "reload" /\ rel.read = last
  \/ stopped

\* Why SignalIsServed can hold: while a SIGHUP has had no load, the signal, the send
\* or the token it became is still there, or the reloader is about to read the file.
SignalsAreRemembered ==
  asked => sigCh \/ watch.pc = "send" \/ ch \/ rel.pc = "load" \/ stopped
=============================================================================
