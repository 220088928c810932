# Verification of gooners

TLA+ models of the concurrent and stateful parts of gooners, a collection of MCP
servers: the gateway that joins several upstream servers into one, with its
configuration reloads, its OAuth server and its scopes; the SSH server with its pool of
sessions and transfers; the blob store that hands large results out by reference; the
job manager that hands prompts to opencode; and the Grafana dashboard builder. The models
are checked with TLC on small instances; the invariants that matter most are proved with
TLAPS for every value of the constants. `PROJECT.json` lists the runs, the mutants, the
theorems, the hazards the properties are written against, and which lines of the source
each definition stands for.

## The system

| part | state | operations | how it meets the others |
| --- | --- | --- | --- |
| upstream (`internal/gateway/upstream.go`, `drain.go`) | session, cleanup function, count of calls in flight, channel of a waiting drain, closed flag, supervisor | Connect, enter/leave around each forwarded call, supervise and reconnect, drain, Close | the gateway connects and lists it; MCP requests claim its session; callbacks on list changes and reconnects |
| registry (`gateway.go`, `feature_registry.go`) | maps from final names to owner, definition and upstream, and the handlers on the downstream server | Build, listChanged and reconnect handlers, Close | lists upstreams without a lock, applies the list under one |
| configuration and reload (`source.go`, `reloader.go`, `reload.go`) | hash of the last file seen, two channels of one element, the active configuration, the upstreams built from it | watch (poll and SIGHUP), load, plan, detach, close, attach | runs against the handlers and calls of the upstreams it removes |
| names, scopes, discovery (`ns.go`, `scope.go`, `discovery.go`) | none of their own: they read the registry, some of them twice | the scope middleware, list filter, search_tools, describe_tools, route servers | race reloads; use the scopes of OAuth tokens |
| OAuth (`mcpauth/oauth.go`) | codes and tokens with expiry | authorize, token, verify | guards the HTTP transport |
| session pool (`internal/session/pool*.go`) | map of sessions owned by one event loop; for each session a client, forwards, spools, a context | Open, Close, Ping, Exec, spools, shutdown | goroutines for dial, watcher and command refer to a session by ID |
| transfers (`job.go`, `scp.go`, `copy.go`) | job with status, cause, SFTP client; a pool of buffers and workers per upload | upload, download, cancel | started and cancelled by the loop, aborted by the session's end |
| blob store (`blob/http.go`, `serve.go`) | index of references with expiry, files | Put, Attach, Open, serve, Delete, sweep, purge | tools put, HTTP clients fetch |
| handoff jobs (`internal/tools/opencode/manager.go`, `tools.go`) | job per session, in memory and in a file | Submit, run, load, check | posts to an opencode server that outlives the process |
| dashboard builder (`internal/tools/grafana`) | a session per dashboard, in memory and in a file: rows, panels, placement cursors, counters of IDs | add, move, update and delete rows and panels, export, import | tools work on a clone under one lock |
| other tools (`internal/tools/*`), commands, effects | none between calls | one request each | call the parts above |

What is hard about them: the gateway and the pool wait outside their locks and act on
what they read before; teardown races with dialling, reconnecting and calls in
flight; a reload races with everything that resolves a name; cancellation is split over
flags and contexts; chunks of an upload are acknowledged in any order; the blob store
removes files after it has left the lock; the handoff manager and the dashboard sessions
may lose any write; the layout keeps cursors that are moved by every tool and never
recomputed. The list of hazards in `PROJECT.json` names each place.

## Modules

| module | models | abstracts |
| --- | --- | --- |
| `Upstream` | one goroutine per actor, a step for each critical section of `u.mu` or wait outside it: the connecting goroutine, the supervisor, callers, closers | sessions and transports by what the code relies on: Close of a session waits for its calls, cleanup (`internal/gateway/transport`) kills a stdio process (`KillsTransport`) or cancels the requests of an http one |
| `Registry` | the two copies of the diff/apply step, as functions of the registry | a list is a definition or `None` per final name |
| `GatewaySync` | Build, handlers, Reload, Close over `Registry`; one handler per upstream object and kind of notification | which upstreams a new configuration changes is a free choice (`ConfigReload` has the plan) |
| `ConfigReload` | `FileSource.Watch`, `changed`, `Load`, the reloader's loop, `Reload` with `planUpstreams` and `restartRequired` | a content of the file is what it decodes to; a live upstream is what it was built from |
| `OAuth` | consent, codes, the token endpoint with PKCE, tokens | a challenge is its verifier or the hash of it |
| `Access` | over `OAuth` and `Registry`'s maps: the scope middleware, dispatch, list filter, search and describe, routes, with reloads in between | a raw name and a prefix make a final name; patterns are the sets they match; the two reads of `resolveToolOwner` are one step (see the comment there) |
| `SessionPool` | the event loop, one step per handler with its rendezvous; dial goroutines, watchers, pings, commands with their output buffer, SaveSpool | output is below or above the spill limit; an ID is drawn from `Ids` and may be drawn again |
| `TransferJob` | one transfer of any kind: goroutine, loop, caller, connection, the end of the pool's context at any moment; the copy in two steps | bytes: none, part, whole |
| `Upload` | `TransferJob` with the copy of an upload as it is: the reader, a buffer per slot, workers whose writes are acknowledged in any order, the error group | workers and buffers are interchangeable; the channel of free buffers is a set |
| `BlobStore` | Put and Attach, every way out of the index, readers, restart | the clock counts in lifetimes; a reference has one ID for ever, as `NewID` is random |
| `Handoff` | Submit, run, save in two steps, crash, load with files that cannot be read, handoff_check with fetches that fail | a prompt is its number; an answer is one message or several |
| `Dashboard` | a session of the builder, the layout, export through the SDK's builder (which is external) and import, failed saves and loads, eviction and restarts | of a panel its ID, its rectangle and a tag that stands for the rest |
| `MCUpstream`, `MCGatewaySync`, `MCConfigReload`, `MCAccess`, `MCSessionPool`, `MCDashboard` | instances for TLC: symmetry, sets of constants, the scenes described under Bounds | |
| `UpstreamProofs`, `GatewaySyncProofs`, `SessionPoolProofs`, `BlobStoreProofs`, `ConfigReloadProofs`, `HandoffProofs`, `AccessProofs`, `UploadProofs` | theorems | |

`GatewaySync` extends `Registry`; `Access` extends `OAuth` and takes `Registry` as an instance.
`Upload` extends `TransferJob`, replaces its copy, and is shown to implement it: the
instance of `TransferJob` in `Upload` maps the destination (`DestBar`), and the copy's
many steps are steps of the two-step copy or stuttering. So what holds of the small
module holds of the large one: `ImplementsJob`, which TLC checks and `UploadImplementsJob`
proves, says that the pipeline never shows its caller anything the simple copy could not. The variables
of each module carry the names of the fields; the comments say which.

## Runs

Deadlock is not checked in any run: every instance bounds the calls that are made, and a
system with nothing left to do stops.

| run | shows |
| --- | --- |
| `upstream_safety` | a stdio upstream: claims are counted exactly, transports have one owner, are cleaned once and by the supervisor only when dead, Close cancels the supervisor only after its drain, calls are cut only after timeouts, nothing is left after Close |
| `upstream_liveness` | an http upstream, whose calls may hang for ever: a lost session is replaced, Close returns, every transport is released, the supervisor exits, also under a call that hangs |
| `gateway_sync` | two upstreams that compete for a name, Build, both handlers, and either a lost session or a reload: the maps agree, no name is taken over, synchronisations that do not overlap leave what the upstreams offer, and handlers and routes lead to attached upstreams |
| `config_reload` | edits, failed loads, polls and SIGHUPs around a running reload: every upstream runs what the active configuration gives it, an unchanged one keeps its session, a file that settles is applied unless its load failed, every SIGHUP is served |
| `access` | token requests that race for a code, then calls and searches that race reloads: one token per consent, the five views of the tools agree at every step of a reload, scoped calls stay in scope |
| `pool` | sessions, pings and a command: no connection gets out of reach, none is dropped for the failure of another unless they share an ID, losses are noticed, shutdown closes all; an ended command leaves no channel and no ID that leads nowhere, and Exec is answered |
| `transfer_job` | outcome, cause, cleanup and progress of a transfer, over cancels, closes and the end of the pool; a stalled one ends; the pipelined copy implements the simple one |
| `blob_store` | a reference leads to whole bytes or nothing, no stray file, attached files stay; expired objects leave the disk |
| `handoff_jobs` | no session is locked out; a posted prompt is on record, and file and memory agree, unless a write or the load failed; done of a first prompt means that the answer, or a message of it, has ended |
| `dashboard` | an ID names one panel and no panel is lost, the layout puts none on another of its container but for the exceptions below, exported rows follow each other, and importing an export and exporting it again changes nothing |

The configurations do not list the type invariants: those of `Upstream`, `GatewaySync`,
`ConfigReload`, `SessionPool`, `TransferJob`, `BlobStore` and `Handoff` are parts of theorems.

Two runs have a negative answer; each states what a document or a comment says, and TLC
shows a behaviour of the code that differs. The findings in `PROJECT.json` quote the lines.

| run | behaviour |
| --- | --- |
| `transfer_cancel_race` | a cancel between `setCloser` and the context's cancellation reports an empty transfer as completed |
| `access_search_reload` | a reload that detaches an upstream between the two lookups of `search_tools` leaves the handler with a nil upstream, which it reads |

Other behaviours of the code that the models contain, and around which the properties are
stated, or that were met while modelling:

* Gateway. Build may apply the list it took before a listChanged handler applied a newer one
  (`gateway.go:684`); `FollowsOffers` excepts upstreams whose synchronisations `overlapped`. A
  handler that listed an upstream before it was detached registers the list afterwards
  (`reload.go:245`); `ServesAttached` excepts it. A scope check and the dispatch are two
  lookups; `ScopedCallsStayInScope` excepts a name that changed hands between them.
* Configuration. `RestartRequired` compares with the reload before and not with the start
  (`reload.go:60`, against the comment at line 23), so the second reload no longer says it.
  Parts of `[auth]` take effect live although they are among the sections it names, and so does
  `drain_timeout` for upstreams made later (`gateway.go:311`): in `ConfigReload` it is one of the
  fixed sections, and what a live upstream was built from does not have it. A
  SIGHUP with unchanged bytes does not restart an upstream whose secret has another value by
  now, and a new resolver starts without the last good values of the old. A load that
  failed is not tried again by the poll (`source.go:143`); `SettledIsApplied` excepts it.
* Upstream. The comment of `closeSessionResources` (`upstream.go:399`) says that for http and sse
  there is nothing to kill, and that the goroutine of the close may live on. The cleanup that
  `transport.Build` returns does cancel the requests of such a client (`client.go:35`), so that it
  ends; `CloseFinishes` states that. The context of the process cancels the supervisor without a
  drain; `TeardownIsOrderly` is about Close.
* OAuth. Codes that expire unused are never swept.
* Pool. The watcher and Ping drop a session by ID, and may meet a later session with the same ID
  (`pool_handlers.go:115`); `DropsOnlyLost` and `LossIsNoticed` except sessions that share one. A
  command that spills after its session was closed makes the spool directory again
  (`pool_handlers.go:249`).
* Transfers. `send` also gives up after the loop took the request, and UploadFrom then closes the
  reader of a job that has started (`pool.go:838`): the upload fails. Two downloads to one
  path share a temporary file (`scp.go:153`); the model has one job per path.
* Blobs. A Put under way when `Run` purges adds its object afterwards (`http.go:194`). The S3 store's
  `upload` says that a failed call leaves nothing in the bucket, but does not remove the
  object when the URL cannot be signed, and removes an oversized one with the context of the call.
* Handoff. A job that was running at a crash is loaded as unknown (`manager.go:124`), as the comment
  there says; the comment on `loadJobs` (`manager.go:86`) says error. `FileAgrees` states what the
  code does. A file that cannot be read, or a directory, is skipped with a log line
  (`manager.go:89`): the job is on disk and not in memory until the session's next prompt, and
  `FileAgrees` says so (`unread`). A later prompt may be told done by the answer to an earlier one
  (`tools.go:297`), and any prompt by a message of its answer that is not the last, since
  `isSessionFinishedJSON` takes every finish reason (`tools.go:480`); `DoneIsAnswered` is stated for
  the first prompt, and excepts such a message.
* Dashboard. `NextY` does not keep a panel from being placed on another, though the comment at
  `panels.go:109` says that it does for explicit coordinates. Two ways lead there. A panel that
  goes on with a line may cover one at coordinates a client gave. And `delete_row` with
  `keep_panels` moves panels to the dashboard without moving its cursor (`rows.go:90`): with A
  (w12 h4) on the dashboard, B (w24 h2) in a row, and the row deleted so, the next panel C (w12
  h4) goes beside A, at y=3, and covers B. `NoOverlap` excepts the two and no more: a panel that
  begins a line is clear of everything in its container in any case.
  Where clients give no coordinates the SDK's builder still moves a panel that has none of its
  own (x and y zero) below the rows, which is so of the first panel of every dashboard; `Export`
  has the builder. A panel placed above its row's header gets a position near
  2^32 at export (`grafana.go:1059`); an import takes top-level panels into the last open row, and
  the panels of a collapsed row are not shifted at export, so that they lie above their header
  once it is imported and opened. `ExportStacks` and `ReimportIsFaithful` are stated for sessions
  where none of this happened (`loose`). After a restart from an older file, or from none, IDs
  are given again (`session.go:110`); `IdsNameOnePanel` forgets what was told before.

### Bounds

* `Upstream`: three session/transport pairs, which are recycled once nothing refers to
  them: one published, one being dialled, one being torn down. Two callers and two closers are
  the least for which a count or a double close can go wrong. The sets of callers and closers
  are symmetric. The liveness run has two, one and one, and no symmetry.
* `GatewaySync`: two upstreams and one contested name, two definitions of it, one change
  of an offer, and either one lost session or one reload (`Budgets`; all three are beyond five
  minutes). A restart replaces an upstream by a second object of the same name.
* `ConfigReload`: six contents, each of which restarts, removes or keeps one of two upstreams for
  one reason, two of which fail; three edits, or one edit with three signals and the end of the process.
* `Access`: two upstreams, one with a prefix and one lazy, that both offer a tool with the name
  of a gateway tool; one call at a time against three reloads. `Scenes` has either the token
  requests in every combination, or one token and the calls: the two parts share only the
  token.
* `SessionPool`: two connections and two IDs, so that they may be different or the
  second may be given the first one's. `Scenes` has either those, or one session with a
  command and a saver, which only meet the loop and their own session. A behaviour leaves
  a scene only by an action of a caller (a dial, a command, a ping), to which no
  fairness is given, so that the constraint cuts no fair continuation off.
* `Upload`: two slots and two chunks, the least in which acknowledgements cross; one
  job of each of the four kinds, the connection may stall or die once.
* `BlobStore`: two stored objects and one attached, one reader, a clock of two lifetimes,
  two processes.
* `Handoff`: one session (sessions share nothing but the map), three prompts, two crashes.
* `Dashboard`: two columns, panels that fill a line or half of one, words of 64 in place of
  2^32 (`Word`), three panels, two rows, six tool calls and one write or load that fails. `Scenes` leaves
  out three panels together with faults or explicit coordinates.

### Fairness

Weak fairness of goroutines that can run, which the Go scheduler gives; of timers; and of
the event loop's handling of what is sent to it. Beyond that:

* `Upstream`: a call in flight returns in the end once its session has ended or its transport
  was cleaned up (the process is dead, or the request cancelled), and a session that is closed without outstanding calls ends (the SDK). `Reconnected`
  also assumes `PeerReachable`: the peer accepts dials again and again, strong fairness,
  because the property is that the supervisor does not give up and not that peers return.
* `ConfigReload`: strong fairness of the signal and of the tick, since `select` chooses at
  random among what is ready.
* `Upload`: strong fairness of `WatcherDrops` while the pool's context is not done, and of
  `Shutdown` once it is: both are cases of the loop's `select`, which chooses at random among
  what is ready. That the context ends is not assumed. A read of the local source is assumed to
  return.
* `SessionPool`: a Ping that has decided to drop a session goes on; its probe may hang.
* `BlobStore`: strong fairness of the ticker, as `Run` selects between it and its context.

No fairness is given to the steps of callers, peers and operators: nobody has to call,
cancel, connect, edit or close.

## Proofs

**Upstream.** The inductive invariant is `Gate /\ Ownership /\ Closing`. `Gate` (types,
`InflightCountsClaims`, which goroutines hold a claim) stands alone and gives `InflightExact`;
the step is one use of the cardinality lemmas for each of enter and leave. `Ownership` adds who
holds which transport at which step of a dial or a teardown, that at most one goroutine dials,
and that what is published is open; from it follows `TransportOwnership`. `OneOwner` alone is
not inductive: that a dialler publishes into an empty field needs `SingleDialer`, and that a
second teardown finds nothing needs `HolderShape`. `Closing` relates the flag, the closers'
progress and the supervisor; with the others it gives `CloseLeaksNothing` and
`ClosingProtocol`, which is `TeardownIsOrderly` and that drain is never left waiting
(`NoLostWakeup`). Assumed: finitely many callers and closers, all different, `None` not a
session.

**Gateway.** `ToolSyncIsFeatureSync` shows, as a fact about two operators, that the two
implementations of the diff compute the same result from a consistent registry.
`RegistryStaysConsistent` is `TypeOK /\ RegistryConsistent`, inductive as it stands because
each step goes through one application of the operator, whose lemma carries the weight.
`ToolsAlwaysMirrorFeatures` follows from the two, and `NamesAreNotTakenOver`, an action
property, from the lemma on owners. They hold for any number of upstreams, names and
definitions, and without the bounds.

`ServerCallsAttached` proves `ServesAttached` and `RegistryFollowsOffers` proves
`FollowsOffers`. Neither is inductive: that a handler is harmless after a detach is a fact
about the three steps of the detach and the two of the handler, and that the registry is up to
date once nothing is left to do is a fact about what is still to come. `AttachInv` has six
parts. `Plan`: one object of a name is attached at a time, and a fresh one only after the old
one was forgotten. `Held`: a handler past its list works on an attached object. `Clearing`:
from the moment a detach has cleared a name, nothing brings it back. `Served` and `RoutesLead`
are `ServesAttached` for the handlers and the routes. `Following`: for each attached object
whose connection is up, something is on its way that will list what it offers now (`Pending`),
or nobody holds a list of it and the registry has its offers. So an outdated list is only held
while a newer one follows it. All but `Plan` leave out names in `overlapped` (and `Following`
those in `missed`), as the properties do. Assumed: an object is a name with a number, `None` is
none of the values.

**Configuration.** Two lemmas about `planUpstreams` carry it, for any two configurations: an
upstream that is kept wants the same under both (`KeptWantsTheSame`: no reason to restart was
forgotten), and one that is restarted wants something else (`RestartedWantsAnother`: no session
is dropped for nothing). `ReloadIsComplete` (`TypeOK` and `RunsWhatIsConfigured`) needs
`PlanShape` beside it: what is left of a Reload's plan, and in what state the upstreams of it
are. `ReloadKeepsUnchanged` is the action property `KeepsUnchanged`, from the same invariant.
Assumed of the contents: they have the same fixed sections, and the one at the start decodes
and builds.

**Session pool.** `ConnectionsStayInReach` proves `NoOrphan` with the invariant `CoreType /\
MapAgrees /\ DialHolds /\ NoOrphan`: an entry of the map belongs to the connection with that
ID, and a connection that is still dialled has no entry. The handlers that remove by ID need
also that every watcher and ping has an ID (`DropsKnown`). Commands, spools and savers leave
these variables alone, which is one lemma.

`HealthySessionsStay` proves the action property `DropsOnlyLost`. It rests on `LiveInv` (the
session whose context is not done is the one its ID leads to), on `DropsFailed` (a watcher or
ping that is about to drop has seen the connection of its own client fail), and on `Onward`: a
failed connection, an ID given and a context that is done stay so, without which what the
watcher saw could be untrue when the loop acts on it. `EndedCommandsAreTidy` proves
`EndedCommandIsTidy` with `ExecOK` (what the goroutines of a command hold at each of its
steps), `SpoolInv` (what a command of a living session spilled is on disk, and registered with
that session once it has ended) and `SaverInv` (a saver has a spool in hand). `PoolTypes` is
`TypeOK`. Assumed: `None` is none of the values, connections and IDs are finitely many.

**Transfers.** One invariant, `JobInv`, serves both specifications. It says at each step of the
transfer's goroutine who holds the SFTP client, the source and the temporary file, what the
destination has, and which cause came first (`FirstCause`, for which the context, the cause
recorded first and the error of the copy have to be related at every step, the end of the pool's
context in the middle of a handler included). From it follow
`CompletedTransfersAreWhole`, `TransfersNameTheFirstCause` and `TransfersReleaseEverything` for
`TransferJob`. For `Upload` the job's steps are those of `TransferJob`, and all that `JobInv`
needs of the copy is `CopyStep`, so that the same lemmas apply and `PipelinedTransfersEndWell`
states the three there. `PipeInv` is about the pipeline: a buffer has one holder, writers have
different offsets, a chunk that was handed over is written or with a worker unless there is an
error (`Handed`), and the count lags behind the acknowledged chunks by the workers about to
count (`Counted`, which gives `BytesAreAcknowledged`). `UploadImplementsJob` is the refinement:
the write that completes the file is the copy's first step, `Wait` its return, every other step
of the pipeline stutters. Assumed: finitely many slots and at least one, at least one chunk.

**Blob store.** `ReferencesAreWhole` proves `TypeOK` and `ServesWhole`, `FilesHaveOwners`
proves `NoStrayFile`, from an invariant that adds `PutShape`, `EntryShape` and `ReaderShape`:
which file a Put has at each step, that what is in the index or leaves it was put there by a
call that is over and does not come back, and that a reader past its lookup has the ID of such
an entry. Without the last a reader could open a file that is being written.
`AttachedFilesStay` is the action property `AttachedStay`; it needs that only Puts are ever in
the writing step.

**Handoff.** `JobsSurviveCrashes` proves `TypeOK` and `FileAgrees`, `RunningJobsHaveRunners`
proves `RunningHasRunner`, `FirstDoneIsAnswered` proves `DoneIsAnswered`, all from one
invariant. It adds `Counts` (the server has got no more prompts than were fired, and the
answers follow the prompts), `JobShape` (what memory and the file hold at each step of a save,
and what a process that is down has left, with what the next one did not read) and `FirstPrompt` (whatever says done of a session
with one prompt follows the answer). Without `FirstPrompt` a restart could load a done that
nobody has earned.

**Access.** `ConsentsGiveOneToken` proves `OneTokenPerConsent` in the specification of
`Access`, so with calls and reloads in between. Beside types the invariant needs `CodeShape` (a
code in the map is as it was granted and held by nobody; one that a request took is no longer
in the map) and `TokenShape` (a token belongs to a request that passed). That a code leaves the
map in the critical section that reads it is what makes the step go through. `ViewsAlwaysAgree`
proves `ViewsAgree` at every step of a reload; beside the consistency of the maps it needs that
no name of the gateway's own tools is ever registered (`RegInv`). `CallsStayInScope` proves
`ScopedCallsStayInScope`; a call that has passed the middleware is in scope of the owner it
would be dispatched to until that name changes hands (`CallShape`). Assumed: `None` is neither
a consent, a grant nor an upstream, and lazy upstreams are upstreams.

**Nothing waits in vain.** A liveness property fails either because fairness does not hold or
because some interleaving leaves a state that waits for something nobody is going to do. The
second is a safety matter, and it is where these protocols could really be wrong. For each
liveness property there is a theorem that says what is still to come in a state that waits.
Their definitions are in the specifications' modules, under "Why ... can hold"; no configuration
lists them, and TLC finds them true when they are added as INVARIANT.

| property | theorem | what is still to come |
|---|---|---|
| `Reconnected` | `SupervisorIsNeverBlind` | the supervisor watches what is published, or will find it |
| `CloseFinishes` | `CloseGoesOn`, `ClosingProtocol` | the cancel and the take of a Close, a session that is closing, the wake-up of a drain |
| `SettledIsApplied`, `SignalIsServed` | `NothingIsForgotten` | the token, the send or the load an edit or a SIGHUP became |
| `LossIsNoticed` | `LossesAreReported` | a watcher of every session, a report of every drop |
| `ExecAnswers` | `ExecIsServed` | executeCommand, at a select that can end |
| `ShutdownClosesAll` | `ConnectionsStayInReach` | the loop or the dial goroutine that closes the connection |
| `StalledEnds` | `AbortedTransfersAreUnblocked`, `PipelineNeverJams` | the close of the client that blocks the copy |
| `ExpiredLeaves` | `FilesHaveOwners` | the entry the sweep finds, or the removal |

* `Watch` (Upstream) adds to the invariant above that nothing is published while the supervisor
  is between two sessions, and that what it waits on is the published session or one that is
  ending. Without the first a reconnect could replace a session nobody waits on.
* `Overtaken` (configuration): when the poll records a newer content while the reloader is
  about to apply an older one, the newer one has its send or its token. Without it the swap that
  makes the older one active could leave the newer one recorded, so never reported again, and
  never applied.
* `WatchInv` (pool) adds to `LossesAreFollowedUp` that only a session with an ID has ended. The
  weight is in the drop itself: the watcher and any number of pings may drop the same ID, only
  one of them ends the context, and that one still has its report to make.
* `Waits` (pool): a caller without an answer has an executeCommand that has not taken the path
  on which it goes on with `context.Background()`.
* `Reachable` (transfers): the open client of a transfer that is not aborted is registered where
  abortCause finds it, or the transfer is at setCloser or at its clean-up. This is what an abort
  at any moment needs.
* `Accounted` (upload): while there is no error every worker is there and every buffer is in the
  channel, with the reader or with a worker. From it follows `PipelineNeverJams`, that
  copyToRemote does not deadlock on its two channels.

Only model-checked:

* Liveness itself: that the step which is still to come is taken. Fairness and ENABLED are
  outside what TLAPS proves here, so `CloseFinishes`, `Reconnected`, `SettledIsApplied`,
  `SignalIsServed`, `LossIsNoticed`, `ShutdownClosesAll`, `ExecAnswers`, `StalledEnds` and
  `ExpiredLeaves` stay with TLC.
* The four invariants of `Dashboard`. Layout, export and import are folds over rows and panels
  of any number, and what a fold computes for every sequence takes an induction over data.

Every other invariant and action property of a passing run is a theorem.

## Not modelled

The share of the source that is mapped is small, because more than half of the
implementation (38,000 of 65,000 lines) is the client and server generated for the opencode
API, and most of the rest are tools without state.

* `internal/tools/opencode/opencodeapi`: generated encoders, decoders and validators.
* Parsing and validation of configurations, ssh_config, secrets; the rewriting and
  redaction of single messages: data without interleaving.
* The tools for gitlab, alertmanager, processes, systemd, disks and files, and the queries,
  variables and v2 schema of dashboards: each handler makes its calls and formats the answer.
* The S3 store, which keeps no state beside the bucket, and the lazy store around it, which is
  one mutex.
* The copy goroutines of forwarded connections; an end of either direction ends both.
* Telemetry, command-line wiring, tunnel.
* The file-system confinement and the HTTP policy of `internal/effect`: stateless.

## Plan

1. The S3 store's uploads that fail half way, with the lazy store, as a second
   implementation of what `BlobStore` promises; two downloads to one path.
2. The secret resolver with its last good values, shared requests and cancelled callers,
   composed with `ConfigReload`.
3. Queries and variables of dashboards, which count their references like panels do.
