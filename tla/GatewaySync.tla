----------------------------- MODULE GatewaySync -----------------------------
(***************************************************************************)
(* How the gateway keeps the registry in step with its upstreams:          *)
(* Gateway.Build, the listChanged and reconnect handlers, Gateway.Reload   *)
(* (detach, close, attach) and Gateway.Close, running concurrently.        *)
(*                                                                         *)
(* Every synchronisation lists the upstream and then applies the list in   *)
(* two critical sections, the registry and the route table; nothing is     *)
(* held from the listing to the application, so lists may be applied out   *)
(* of order. Tools stand for all four kinds of feature, which take the     *)
(* same path. The history variables name the two ways in which the         *)
(* registry can part from what the upstreams offer.                        *)
(***************************************************************************)
EXTENDS Registry, FiniteSets

CONSTANTS
  Routed,       \* upstream names configured with a route of their own
  Budgets       \* bounds: how often lists change, sessions drop, reloads happen

Bounds == [changes : Nat, drops : Nat, reloads : Nat]
ASSUME BoundsAssumption == Routed \subseteq UpNames /\ Budgets \subseteq Bounds
ASSUME NoneIsNoHandler == None \notin Obj \X {"notify", "reconnect"}

VARIABLES
  reg,        \* the registry
  routes,     \* g.routes: the object whose server answers for an upstream's route
  upstreams,  \* g.upstreams
  conn,       \* each object's session: "new", "up", "down", "closed"
  offers,     \* what the upstream behind an object would list now
  notified,   \* objects with a listChanged notification not yet handled
  handler,    \* the handler goroutines
  main,       \* the goroutine that runs Build and then the reloads
  budget,     \* changes, drops and reloads left
  \* History, read by properties only.
  overlapped, \* names two synchronisations of which overlapped
  missed,     \* names for which listing failed although the session was up
  collided    \* final names some step refused because they were owned

env     == <<conn, offers, notified, budget>>
history == <<overlapped, missed, collided>>
vars    == <<reg, routes, upstreams, env, handler, main, history>>

\* One handler per session for notifications, which the SDK delivers in order,
\* and the supervisor's onReconnect.
Handlers == Obj \X {"notify", "reconnect"}
Idle == [pc |-> "idle", obj |-> None, list |-> Empty]
\* Lists of some of the objects.
HeldLists == UNION {[os -> Lists] : os \in SUBSET Obj}
NoLists == [o \in {} |-> Empty]
\* todo and gone: to be detached, to be closed; fresh: to be attached;
\* cur: the object detach or attach is at; lists: the lists main holds.
NoMain == [pc |-> "idle", todo |-> {}, gone |-> {}, fresh |-> {}, cur |-> None, lists |-> NoLists]
First == {o \in Obj : \A p \in Obj : NameOf(p) = NameOf(o) => o[2] <= p[2]}

WorldType ==
  /\ reg \in RegistryType
  /\ routes \in [UpNames -> Obj \cup {None}]
  /\ upstreams \subseteq Obj
  /\ conn \in [Obj -> {"new", "up", "down", "closed"}]
  /\ offers \in [Obj -> Lists]
  /\ notified \subseteq Obj
  /\ budget \in Bounds
  /\ overlapped \subseteq UpNames /\ missed \subseteq UpNames /\ collided \subseteq Tools

HandlerType ==
  /\ handler \in [Handlers -> [pc : {"idle", "begin", "listed", "route"},
                               obj : Obj \cup {None}, list : Lists]]
  /\ \A h \in Handlers : handler[h].pc \in {"listed", "route"} => handler[h].obj \in Obj

MainType ==
  /\ main \in [pc : {"build", "register", "idle", "detach", "unroute", "forget",
                     "attach", "list", "sync", "closed"},
               todo : SUBSET Obj, gone : SUBSET Obj, fresh : SUBSET Obj,
               cur : Obj \cup {None}, lists : HeldLists]
  /\ main.pc \in {"unroute", "forget", "list", "sync"} => main.cur \in Obj
  /\ main.pc = "sync" => main.cur \in DOMAIN main.lists

\* The type of every variable; a handler that has a list and a reload that is
\* at an upstream have it in hand.
TypeOK == WorldType /\ HandlerType /\ MainType

Init ==
  /\ reg = EmptyRegistry
  /\ routes = [n \in UpNames |-> None]
  /\ upstreams = First
  /\ conn = [o \in Obj |-> "new"]
  /\ \E d \in Defs : offers = [o \in Obj |-> [x \in Tools |-> d]]
  /\ notified = {}
  /\ handler = [h \in Handlers |-> Idle]
  /\ main = [NoMain EXCEPT !.pc = "build", !.todo = First]
  /\ budget \in Budgets
  /\ overlapped = {} /\ missed = {} /\ collided = {}

-----------------------------------------------------------------------------
(* One application of a list.                                              *)

\* Some handler other than h is in one of the states pcs with a list of n.
HandlerHas(n, pcs, h) ==
  \E g \in Handlers \ {h} : handler[g].pc \in pcs /\ NameOf(handler[g].obj) = n

\* Main holds a list of n, or is detaching n.
MainHas(n) ==
  \/ \E o \in DOMAIN main.lists : NameOf(o) = n
  \/ main.pc \in {"unroute", "forget"} /\ NameOf(main.cur) = n

Overlaps(n, yes) == overlapped' = IF yes THEN overlapped \cup {n} ELSE overlapped

\* registerUpstreamTools, under registryMu.
Register(o, list) ==
  /\ reg' = ToolSync(reg, o, list)
  /\ collided' = collided \cup Collisions(reg, o, list)

\* setRouteServer looks an entry up by upstream name, under routeMu.
SetRoute(o) == routes' = IF NameOf(o) \in Routed THEN [routes EXCEPT ![NameOf(o)] = o] ELSE routes

-----------------------------------------------------------------------------
(* The upstreams.                                                          *)

\* The server behind an upstream changes what it offers and notifies.
OffersChange(o) ==
  /\ budget.changes > 0 /\ conn[o] = "up"
  /\ \E list \in Lists \ {offers[o]} : offers' = [offers EXCEPT ![o] = list]
  /\ notified' = notified \cup {o}
  /\ budget' = [budget EXCEPT !.changes = @ - 1]
  /\ UNCHANGED <<reg, routes, upstreams, conn, handler, main, history>>

SessionDrops(o) ==
  /\ budget.drops > 0 /\ conn[o] = "up"
  /\ conn' = [conn EXCEPT ![o] = "down"]
  /\ notified' = notified \ {o}
  /\ budget' = [budget EXCEPT !.drops = @ - 1]
  /\ UNCHANGED <<reg, routes, upstreams, offers, handler, main, history>>

\* reconnectLoop succeeded and calls onReconnect; the upstream may have
\* changed its list while nobody was connected.
Reconnects(o) ==
  /\ conn[o] = "down" /\ handler[<<o, "reconnect">>].pc = "idle"
  /\ conn' = [conn EXCEPT ![o] = "up"]
  /\ handler' = [handler EXCEPT ![<<o, "reconnect">>].pc = "begin"]
  /\ \/ UNCHANGED <<offers, budget>>
     \/ /\ budget.changes > 0
        /\ budget' = [budget EXCEPT !.changes = @ - 1]
        /\ \E list \in Lists \ {offers[o]} : offers' = [offers EXCEPT ![o] = list]
  /\ UNCHANGED <<reg, routes, upstreams, notified, main, history>>

-----------------------------------------------------------------------------
(* onToolListChanged and onUpstreamReconnect.                              *)

Notified(o) ==
  /\ o \in notified /\ handler[<<o, "notify">>].pc = "idle"
  /\ notified' = notified \ {o}
  /\ handler' = [handler EXCEPT ![<<o, "notify">>].pc = "begin"]
  /\ UNCHANGED <<reg, routes, upstreams, conn, offers, budget, main, history>>

\* upstreamByName: by name, so possibly another object than the notifier.
ByName(n) == {o \in upstreams : NameOf(o) = n}

\* The name is looked up and the upstream listed, or the handler gives up: the
\* name is unknown, the upstream not connected, or the listing timed out.
HandlerLists(h) ==
  /\ handler[h].pc = "begin"
  /\ \/ \E o \in ByName(NameOf(h[1])) :
          /\ conn[o] = "up"
          /\ handler' = [handler EXCEPT ![h] = [pc |-> "listed", obj |-> o, list |-> offers[o]]]
          /\ UNCHANGED missed
     \/ /\ handler' = [handler EXCEPT ![h] = Idle]
        /\ missed' = missed \cup {NameOf(o) : o \in {p \in ByName(NameOf(h[1])) : conn[p] = "up"}}
  /\ UNCHANGED <<reg, routes, upstreams, env, main, overlapped, collided>>

HandlerApplies(h) ==
  /\ handler[h].pc = "listed"
  /\ LET o == handler[h].obj IN
       /\ Register(o, handler[h].list)
       /\ Overlaps(NameOf(o), HandlerHas(NameOf(o), {"listed"}, h) \/ MainHas(NameOf(o)))
  /\ handler' = [handler EXCEPT ![h] = [@ EXCEPT !.pc = "route", !.list = Empty]]
  /\ UNCHANGED <<routes, upstreams, env, main, missed>>

\* refreshRouteServer lists the other kinds again and may fail on the way.
HandlerRoutes(h) ==
  /\ handler[h].pc = "route"
  /\ \/ SetRoute(handler[h].obj) \/ UNCHANGED routes
  /\ handler' = [handler EXCEPT ![h] = Idle]
  /\ UNCHANGED <<reg, upstreams, env, main, history>>

-----------------------------------------------------------------------------
(* Build.                                                                  *)

\* An upstream is connected and listed; one that does not connect is skipped,
\* and one whose listing fails loses its session again.
BuildLists(o) ==
  /\ main.pc = "build" /\ o \in main.todo
  /\ \/ /\ conn' = [conn EXCEPT ![o] = "up"]
        /\ main' = [main EXCEPT !.todo = @ \ {o},
                    !.lists = [p \in DOMAIN @ \cup {o} |-> IF p = o THEN offers[o] ELSE @[p]]]
     \/ /\ conn' = [conn EXCEPT ![o] = "down"]
        /\ main' = [main EXCEPT !.todo = @ \ {o}]
  /\ UNCHANGED <<reg, routes, upstreams, offers, notified, budget, handler, history>>

\* DetectCollisions, less the groups dropIdentical drops.
HardCollision(lists) ==
  \E x \in Tools, o, p \in DOMAIN lists :
    lists[o][x] # None /\ lists[p][x] # None /\ lists[o][x] # lists[p][x]

\* Gateway.Close: upstreams closed, the maps cleared, the server left as it is.
CloseGateway ==
  /\ conn' = [o \in Obj |-> IF o \in upstreams THEN "closed" ELSE conn[o]]
  /\ reg' = [EmptyRegistry EXCEPT !.server = reg.server]
  /\ notified' = {}
  /\ main' = [NoMain EXCEPT !.pc = "closed"]
  /\ UNCHANGED <<routes, upstreams, offers, budget, handler, history>>

BuildChecks ==
  /\ main.pc = "build" /\ main.todo = {}
  /\ \/ HardCollision(main.lists) /\ CloseGateway
     \/ /\ ~HardCollision(main.lists)
        /\ main' = [main EXCEPT !.pc = "register"]
        /\ UNCHANGED <<reg, routes, upstreams, env, handler, history>>

\* The registry and then the route; what others do between the two commutes
\* with the second.
BuildRegisters(o) ==
  /\ main.pc = "register" /\ o \in DOMAIN main.lists
  /\ Register(o, main.lists[o])
  /\ SetRoute(o)
  /\ Overlaps(NameOf(o), HandlerHas(NameOf(o), {"listed"}, None))
  /\ main' = [main EXCEPT !.lists = [p \in DOMAIN @ \ {o} |-> @[p]]]
  /\ UNCHANGED <<upstreams, env, handler, missed>>

\* built is stored; the reloader starts.
BuildDone ==
  /\ main.pc = "register" /\ DOMAIN main.lists = {}
  /\ main' = NoMain
  /\ UNCHANGED <<reg, routes, upstreams, env, handler, history>>

-----------------------------------------------------------------------------
(* Reload: the outcome of planUpstreams, any, then detach, close, attach.  *)

\* newUpstream makes a new object of the name.
NextGen(n) == {o \in Obj : NameOf(o) = n /\ conn[o] = "new" /\ o \notin upstreams
                           /\ \A p \in Obj : NameOf(p) = n /\ p[2] < o[2] => conn[p] # "new"}

ReloadBegins ==
  /\ main.pc = "idle" /\ budget.reloads > 0
  /\ \E detach \in SUBSET upstreams, back \in SUBSET UpNames :
       /\ back \cap {NameOf(o) : o \in upstreams \ detach} = {}
       /\ \A n \in back : NextGen(n) # {}
       /\ main' = [NoMain EXCEPT !.pc = "detach", !.todo = detach,
                                 !.fresh = UNION {NextGen(n) : n \in back}]
  /\ budget' = [budget EXCEPT !.reloads = @ - 1]
  /\ UNCHANGED <<reg, routes, upstreams, conn, offers, notified, handler, history>>

\* Mutant: the lists of a detached upstream stay in the registry.
DetachLeaves(o) ==
  /\ main.pc = "detach" /\ o \in main.todo
  /\ main' = [main EXCEPT !.pc = "unroute", !.cur = o]
  /\ UNCHANGED <<reg, routes, upstreams, env, handler, history>>

\* detachUpstream syncs each upstream against an empty list, then drops its
\* route, then takes it off g.upstreams: three critical sections.
DetachClears(o) ==
  /\ main.pc = "detach" /\ o \in main.todo
  /\ Register(o, Empty)
  /\ Overlaps(NameOf(o), HandlerHas(NameOf(o), {"listed", "route"}, None))
  /\ main' = [main EXCEPT !.pc = "unroute", !.cur = o]
  /\ UNCHANGED <<routes, upstreams, env, handler, missed>>

\* removeRoute.
DetachUnroutes ==
  /\ main.pc = "unroute"
  /\ routes' = [routes EXCEPT ![NameOf(main.cur)] = None]
  /\ main' = [main EXCEPT !.pc = "forget"]
  /\ UNCHANGED <<reg, upstreams, env, handler, history>>

DetachForgets ==
  /\ main.pc = "forget"
  /\ upstreams' = upstreams \ {main.cur}
  /\ Overlaps(NameOf(main.cur), HandlerHas(NameOf(main.cur), {"listed"}, None))
  /\ main' = [main EXCEPT !.pc = "detach", !.todo = @ \ {main.cur},
                          !.gone = @ \cup {main.cur}, !.cur = None]
  /\ UNCHANGED <<reg, routes, env, handler, missed, collided>>

\* closeUpstreams waits for the calls in flight, not for what their callers
\* do with the result.
ClosesDetached ==
  /\ main.pc = "detach" /\ main.todo = {}
  /\ conn' = [o \in Obj |-> IF o \in main.gone THEN "closed" ELSE conn[o]]
  /\ notified' = notified \ main.gone
  /\ main' = [main EXCEPT !.pc = "attach", !.gone = {}]
  /\ UNCHANGED <<reg, routes, upstreams, offers, budget, handler, history>>

\* attachUpstream: on g.upstreams first, then Connect, then syncUpstream.
AttachConnects(o) ==
  /\ main.pc = "attach" /\ o \in main.fresh
  /\ upstreams' = upstreams \cup {o}
  /\ \/ /\ conn' = [conn EXCEPT ![o] = "up"]
        /\ main' = [main EXCEPT !.pc = "list", !.fresh = @ \ {o}, !.cur = o]
     \/ /\ conn' = [conn EXCEPT ![o] = "down"]
        /\ main' = [main EXCEPT !.fresh = @ \ {o}]
  /\ UNCHANGED <<reg, routes, offers, notified, budget, handler, history>>

AttachLists ==
  /\ main.pc = "list"
  /\ \/ /\ conn[main.cur] = "up"
        /\ main' = [main EXCEPT !.pc = "sync", !.lists = [p \in {main.cur} |-> offers[p]]]
        /\ UNCHANGED missed
     \/ /\ main' = [main EXCEPT !.pc = "attach", !.cur = None]
        /\ missed' = IF conn[main.cur] = "up" THEN missed \cup {NameOf(main.cur)} ELSE missed
  /\ UNCHANGED <<reg, routes, upstreams, env, handler, overlapped, collided>>

AttachRegisters ==
  /\ main.pc = "sync"
  /\ Register(main.cur, main.lists[main.cur])
  /\ SetRoute(main.cur)
  /\ Overlaps(NameOf(main.cur), HandlerHas(NameOf(main.cur), {"listed"}, None))
  /\ main' = [main EXCEPT !.pc = "attach", !.cur = None, !.lists = NoLists]
  /\ UNCHANGED <<upstreams, env, handler, missed>>

ReloadDone ==
  /\ main.pc = "attach" /\ main.fresh = {}
  /\ main' = NoMain
  /\ UNCHANGED <<reg, routes, upstreams, env, handler, history>>

\* The process ends: the deferred gw.Close.
Shutdown == main.pc = "idle" /\ CloseGateway

-----------------------------------------------------------------------------
Handle(h) == HandlerLists(h) \/ HandlerApplies(h) \/ HandlerRoutes(h)
Build == BuildChecks \/ BuildDone \/ \E o \in Obj : BuildLists(o) \/ BuildRegisters(o)
Reload ==
  \/ ReloadBegins \/ DetachUnroutes \/ DetachForgets \/ ClosesDetached
  \/ AttachLists \/ AttachRegisters \/ ReloadDone
  \/ \E o \in Obj : DetachClears(o) \/ AttachConnects(o)

Next ==
  \/ \E o \in Obj : OffersChange(o) \/ SessionDrops(o) \/ Reconnects(o) \/ Notified(o)
  \/ \E h \in Handlers : Handle(h)
  \/ Build \/ Reload \/ Shutdown

Spec == Init /\ [][Next]_vars

-----------------------------------------------------------------------------
(* Properties.                                                             *)

Open == main.pc # "closed"
\* Nothing is under way: no handler, no notification, no build or reload.
Settled ==
  /\ main.pc = "idle" /\ notified = {}
  /\ \A h \in Handlers : handler[h].pc = "idle"

\* Whatever interleaves, the maps of the registry agree with each other and
\* with the handlers on the server, until the gateway is closed.
RegistryConsistent == Open => Consistent(reg)

\* registerUpstreamTools and the featureRegistry it says it mirrors do the
\* same to every registry that is reached.
ToolsMirrorFeatures == Mirrored(reg)

\* A name is never taken over: it changes owner only by being given up first,
\* so a collision never redirects a tool to another upstream.
NoTakeover ==
  [][\A x \in Tools : reg.owner[x] # None /\ reg'.owner[x] # None => reg'.owner[x] = reg.owner[x]]_reg

\* When everything has settled, every handler on the server calls an attached
\* upstream and every route leads to one, unless synchronisations of it overlapped.
ServesAttached ==
  Settled =>
    /\ \A x \in Tools : reg.server[x] # None /\ reg.owner[x] \notin overlapped => reg.server[x] \in upstreams
    /\ \A n \in UpNames \ overlapped : routes[n] # None => routes[n] \in upstreams

\* When everything has settled, what is registered for a connected upstream is
\* what it offers, and what it offers and is not registered was refused as a
\* collision; unless synchronisations overlapped or a listing failed.
FollowsOffers ==
  Settled =>
    \A o \in upstreams, x \in Tools :
      conn[o] = "up" /\ NameOf(o) \notin overlapped \cup missed =>
        /\ reg.owner[x] = NameOf(o) => reg.registered[x] = offers[o][x]
        /\ offers[o][x] # None => reg.owner[x] # None \/ x \in collided
=============================================================================
