-------------------------- MODULE GatewaySyncProofs --------------------------
(***************************************************************************)
(* Proofs about the registry step and about GatewaySync, for every set of  *)
(* upstreams, objects, final names and definitions.                        *)
(***************************************************************************)
EXTENDS GatewaySync, TLAPS

-----------------------------------------------------------------------------
(* The registry step.                                                      *)

\* Names of objects are names of upstreams.
LEMMA NameOfObj == \A o \in Obj : NameOf(o) \in UpNames
  BY RegistryAssumption DEF NameOf

\* A synchronisation keeps the maps well typed.
LEMMA SyncType ==
  ASSUME NEW r \in RegistryType, NEW o \in Obj, NEW new \in Lists
  PROVE  ToolSync(r, o, new) \in RegistryType
  BY NameOfObj DEF ToolSync, Pruned, Installed, Listed, RegistryType, Lists

\* registerUpstreamTools keeps the four maps in agreement.
LEMMA SyncConsistent ==
  ASSUME NEW r \in RegistryType, NEW o \in Obj, NEW new \in Lists, Consistent(r)
  PROVE  Consistent(ToolSync(r, o, new))
<1> DEFINE s == ToolSync(r, o, new)
<1>1. NameOf(o) \in UpNames /\ NameOf(o) # None /\ o # None
  BY NameOfObj, RegistryAssumption
<1>2. \A x \in Tools : r.owner[x] \in UpNames \cup {None}
  BY DEF RegistryType
<1>3. \A n \in UpNames : r.names[n] = {x \in Tools : r.owner[x] = n}
  BY DEF Consistent
<1>4. \A x \in Tools :
        s.owner[x] = IF x \in Listed(new) /\ r.owner[x] \in {None, NameOf(o)} THEN NameOf(o)
                     ELSE IF r.owner[x] = NameOf(o) THEN None ELSE r.owner[x]
  BY <1>1, <1>3 DEF ToolSync, Pruned, Installed, Listed, RegistryType, Lists
<1>5. \A n \in UpNames : s.names[n] = {x \in Tools : s.owner[x] = n}
  <2> SUFFICES ASSUME NEW n \in UpNames PROVE s.names[n] = {x \in Tools : s.owner[x] = n}
    OBVIOUS
  <2>1. CASE n = NameOf(o)
    <3>1. s.names[n] = {x \in Listed(new) : s.owner[x] = n}
      BY <2>1 DEF ToolSync, Pruned, RegistryType
    <3>2. \A x \in Tools : s.owner[x] = n => x \in Listed(new)
      BY <1>1, <1>4, <2>1
    <3> QED BY <3>1, <3>2 DEF Listed
  <2>2. CASE n # NameOf(o)
    <3>1. s.names[n] = r.names[n]
      BY <2>2 DEF ToolSync, Pruned, RegistryType
    <3>2. \A x \in Tools : s.owner[x] = n <=> r.owner[x] = n
      BY <1>1, <1>2, <1>4, <2>2, RegistryAssumption
    <3> QED BY <3>1, <3>2, <1>3
  <2> QED BY <2>1, <2>2
<1>6. ASSUME NEW x \in Tools
      PROVE  /\ s.owner[x] = None <=> s.registered[x] = None
             /\ s.owner[x] = None <=> s.server[x] = None
             /\ s.owner[x] # None => NameOf(s.server[x]) = s.owner[x]
  <2>1. /\ r.owner[x] = None <=> r.registered[x] = None
        /\ r.owner[x] = None <=> r.server[x] = None
        /\ r.owner[x] # None => NameOf(r.server[x]) = r.owner[x]
    BY DEF Consistent
  <2>2. CASE x \in Listed(new)
    BY <1>1, <1>2, <1>3, <2>1, <2>2 DEF ToolSync, Pruned, Installed, Listed, RegistryType, Lists
  <2>3. CASE x \notin Listed(new)
    BY <1>1, <1>2, <1>3, <2>1, <2>3 DEF ToolSync, Pruned, Installed, RegistryType
  <2> QED BY <2>2, <2>3
<1> QED BY <1>5, <1>6 DEF Consistent

\* A synchronisation gives a name to an upstream only if it was nobody's or
\* its own, whatever the state of the maps.
LEMMA SyncNoTakeover ==
  ASSUME NEW r \in RegistryType, NEW o \in Obj, NEW new \in Lists, NEW x \in Tools,
         r.owner[x] # None, ToolSync(r, o, new).owner[x] # None
  PROVE  ToolSync(r, o, new).owner[x] = r.owner[x]
  BY DEF ToolSync, Pruned, Installed, Listed, RegistryType

\* The two copies of the step agree on every registry.
THEOREM ToolSyncIsFeatureSync ==
  ASSUME NEW r \in RegistryType PROVE Mirrored(r)
<1> SUFFICES ASSUME NEW o \in Obj, NEW new \in Lists
             PROVE  ToolSync(r, o, new) = FeatureSync(r, o, new)
  BY DEF Mirrored
<1> DEFINE t == ToolSync(r, o, new)
           f == FeatureSync(r, o, new)
<1>0. NameOf(o) \in UpNames /\ NameOf(o) # None
  BY NameOfObj, RegistryAssumption
<1>1. Installed(Pruned(r, o, new), o, new) = ToAddOrChange(r, o, new)
  BY <1>0 DEF Installed, Pruned, ToAddOrChange, Listed
<1>2. t.owner = f.owner
  BY <1>1 DEF ToolSync, FeatureSync, Pruned, ToRemove
<1>3. t.registered = f.registered
  BY <1>1 DEF ToolSync, FeatureSync, Pruned, ToRemove
<1>4. t.server = f.server
  BY <1>1 DEF ToolSync, FeatureSync, Pruned, ToRemove
<1>5. t.names = f.names
  BY <1>0, <1>2 DEF ToolSync, FeatureSync, Pruned, RegistryType
<1> QED BY <1>2, <1>3, <1>4, <1>5 DEF ToolSync, FeatureSync

-----------------------------------------------------------------------------
(* GatewaySync.                                                            *)

\* The state inside which a step keeps the registry in order.
IInv == TypeOK /\ RegistryConsistent

\* What main holds stays a set of lists when one is added or dropped.
LEMMA HeldListsFacts ==
  /\ NoLists \in HeldLists /\ DOMAIN NoLists = {}
  /\ \A f \in HeldLists : DOMAIN f \subseteq Obj /\ \A o \in DOMAIN f : f[o] \in Lists
  /\ \A f \in HeldLists, o \in Obj : [p \in DOMAIN f \ {o} |-> f[p]] \in HeldLists
  /\ \A f \in HeldLists, o \in Obj, new \in Lists :
        [p \in DOMAIN f \cup {o} |-> IF p = o THEN new ELSE f[p]] \in HeldLists
  /\ \A o \in Obj, f \in [Obj -> Lists] : [p \in {o} |-> f[p]] \in HeldLists
<1>1. ASSUME NEW os \in SUBSET Obj, NEW f \in [os -> Lists] PROVE f \in HeldLists
  BY <1>1 DEF HeldLists
<1>2. \A f \in HeldLists : DOMAIN f \subseteq Obj /\ f \in [DOMAIN f -> Lists]
  BY DEF HeldLists
<1>3. NoLists \in [{} -> Lists]
  BY DEF NoLists
<1>4. ASSUME NEW f \in HeldLists, NEW o \in Obj
      PROVE  [p \in DOMAIN f \ {o} |-> f[p]] \in HeldLists
  <2>1. [p \in DOMAIN f \ {o} |-> f[p]] \in [DOMAIN f \ {o} -> Lists]
    BY <1>2
  <2> QED BY <2>1, <1>1, <1>2
<1>5. ASSUME NEW f \in HeldLists, NEW o \in Obj, NEW new \in Lists
      PROVE  [p \in DOMAIN f \cup {o} |-> IF p = o THEN new ELSE f[p]] \in HeldLists
  <2>1. [p \in DOMAIN f \cup {o} |-> IF p = o THEN new ELSE f[p]] \in [DOMAIN f \cup {o} -> Lists]
    BY <1>2
  <2> QED BY <2>1, <1>1, <1>2
<1>6. ASSUME NEW f \in [Obj -> Lists], NEW o \in Obj
      PROVE  [p \in {o} |-> f[p]] \in HeldLists
  <2>1. [p \in {o} |-> f[p]] \in [{o} -> Lists]
    OBVIOUS
  <2> QED BY <2>1, <1>1
<1> QED BY <1>1, <1>2, <1>3, <1>4, <1>5, <1>6 DEF NoLists

\* The idle states, and the registry Close leaves, are well typed.
LEMMA RestTypes ==
  /\ NoMain \in [pc : {"idle"}, todo : SUBSET Obj, gone : SUBSET Obj, fresh : SUBSET Obj,
                 cur : {None}, lists : HeldLists]
  /\ Idle \in [pc : {"idle"}, obj : {None}, list : Lists]
  /\ EmptyRegistry \in RegistryType
  /\ \A r \in RegistryType : [EmptyRegistry EXCEPT !.server = r.server] \in RegistryType
  BY HeldListsFacts DEF NoMain, Idle, Empty, Lists, EmptyRegistry, RegistryType

\* What applying a list does to the registry, whoever applies it.
LEMMA RegisterStep ==
  ASSUME IInv, NEW o \in Obj, NEW list \in Lists, Register(o, list),
         overlapped' \in {overlapped, overlapped \cup {NameOf(o)}}
  PROVE  /\ reg' \in RegistryType
         /\ Consistent(reg) => Consistent(reg')
         /\ collided' \subseteq Tools
         /\ overlapped' \subseteq UpNames
  BY SyncType, SyncConsistent, NameOfObj
     DEF IInv, TypeOK, WorldType, Register, Collisions, Listed

\* The types, and that the maps of the registry agree with each other and with
\* the server until the gateway is closed, in every interleaving of Build, the
\* handlers and the reloads.
THEOREM RegistryStaysConsistent == Spec => [](TypeOK /\ RegistryConsistent)
<1> USE DEF IInv, TypeOK, Bounds
<1>1. Init => IInv
  <2> SUFFICES ASSUME Init PROVE IInv
    OBVIOUS
  <2> USE DEF Init
  <2>1. WorldType
    BY BoundsAssumption, RestTypes DEF WorldType, Lists, First
  <2>2. HandlerType
    BY RestTypes DEF HandlerType
  <2>3. MainType
    BY RestTypes DEF MainType, First
  <2>4. RegistryConsistent
    BY RegistryAssumption DEF RegistryConsistent, Consistent, EmptyRegistry, Empty
  <2> QED BY <2>1, <2>2, <2>3, <2>4
<1>2. ASSUME IInv, NEW o \in Obj, OffersChange(o) PROVE IInv'
  <2> USE <1>2 DEF OffersChange
  <2>4. WorldType'
    BY NameOfObj, RestTypes DEF WorldType, MainType, env, history
  <2>5. HandlerType'
    BY RestTypes DEF HandlerType
  <2>6. MainType'
    BY HeldListsFacts, RestTypes DEF MainType
  <2>7. RegistryConsistent'
    BY DEF RegistryConsistent, Open, NoMain
  <2> QED BY <2>4, <2>5, <2>6, <2>7
<1>3. ASSUME IInv, NEW o \in Obj, SessionDrops(o) PROVE IInv'
  <2> USE <1>3 DEF SessionDrops
  <2>4. WorldType'
    BY NameOfObj, RestTypes DEF WorldType, MainType, env, history
  <2>5. HandlerType'
    BY RestTypes DEF HandlerType
  <2>6. MainType'
    BY HeldListsFacts, RestTypes DEF MainType
  <2>7. RegistryConsistent'
    BY DEF RegistryConsistent, Open, NoMain
  <2> QED BY <2>4, <2>5, <2>6, <2>7
<1>4. ASSUME IInv, NEW o \in Obj, Reconnects(o) PROVE IInv'
  <2> USE <1>4 DEF Reconnects
  <2>4. WorldType'
    BY NameOfObj, RestTypes DEF WorldType, MainType, env, history
  <2>5. HandlerType'
    BY RestTypes DEF HandlerType, Handlers
  <2>6. MainType'
    BY HeldListsFacts, RestTypes DEF MainType
  <2>7. RegistryConsistent'
    BY DEF RegistryConsistent, Open, NoMain
  <2> QED BY <2>4, <2>5, <2>6, <2>7
<1>5. ASSUME IInv, NEW o \in Obj, Notified(o) PROVE IInv'
  <2> USE <1>5 DEF Notified
  <2>4. WorldType'
    BY NameOfObj, RestTypes DEF WorldType, MainType, env, history
  <2>5. HandlerType'
    BY RestTypes DEF HandlerType, Handlers
  <2>6. MainType'
    BY HeldListsFacts, RestTypes DEF MainType
  <2>7. RegistryConsistent'
    BY DEF RegistryConsistent, Open, NoMain
  <2> QED BY <2>4, <2>5, <2>6, <2>7
<1>6. ASSUME IInv, NEW h \in Handlers, HandlerLists(h) PROVE IInv'
  <2> USE <1>6 DEF HandlerLists, ByName
  <2>4. WorldType'
    BY NameOfObj, RestTypes DEF WorldType, MainType, env, history
  <2>5. HandlerType'
    <3>1. CASE handler' = [handler EXCEPT ![h] = Idle]
      BY <3>1, RestTypes DEF HandlerType
    <3>2. ASSUME NEW o \in Obj,
                 handler' = [handler EXCEPT ![h] = [pc |-> "listed", obj |-> o, list |-> offers[o]]]
          PROVE  HandlerType'
      BY <3>2 DEF HandlerType, WorldType
    <3> QED BY <3>1, <3>2 DEF WorldType
  <2>6. MainType'
    BY HeldListsFacts, RestTypes DEF MainType
  <2>7. RegistryConsistent'
    BY DEF RegistryConsistent, Open, NoMain
  <2> QED BY <2>4, <2>5, <2>6, <2>7
<1>7. ASSUME IInv, NEW h \in Handlers, HandlerApplies(h) PROVE IInv'
  <2> USE <1>7 DEF HandlerApplies
  <2>1. handler[h].obj \in Obj /\ handler[h].list \in Lists
    BY DEF HandlerType
  <2>2. Register(handler[h].obj, handler[h].list) /\ overlapped' \in {overlapped, overlapped \cup {NameOf(handler[h].obj)}}
    BY DEF Overlaps
  <2>3. /\ reg' \in RegistryType /\ (Consistent(reg) => Consistent(reg'))
        /\ collided' \subseteq Tools /\ overlapped' \subseteq UpNames
    BY <2>1, <2>2, RegisterStep
  <2>4. WorldType'
    BY <2>1, <2>3, NameOfObj DEF WorldType, env
  <2>5. HandlerType'
    BY RestTypes DEF HandlerType, Handlers, Empty, Lists
  <2>6. MainType'
    BY HeldListsFacts, RestTypes DEF MainType
  <2>7. RegistryConsistent'
    BY <2>3 DEF RegistryConsistent, Open, MainType
  <2> QED BY <2>4, <2>5, <2>6, <2>7
<1>8. ASSUME IInv, NEW h \in Handlers, HandlerRoutes(h) PROVE IInv'
  <2> USE <1>8 DEF HandlerRoutes, SetRoute
  <2>4. WorldType'
    BY NameOfObj, RestTypes DEF WorldType, HandlerType, env, history
  <2>5. HandlerType'
    BY RestTypes DEF HandlerType, Handlers
  <2>6. MainType'
    BY HeldListsFacts, RestTypes DEF MainType
  <2>7. RegistryConsistent'
    BY DEF RegistryConsistent, Open, NoMain
  <2> QED BY <2>4, <2>5, <2>6, <2>7
<1>9. ASSUME IInv, BuildChecks PROVE IInv'
  <2> USE <1>9 DEF BuildChecks, CloseGateway
  <2>4. WorldType'
    BY NameOfObj, RestTypes DEF WorldType, MainType, env, history
  <2>5. HandlerType'
    BY RestTypes DEF HandlerType
  <2>6. MainType'
    BY HeldListsFacts, RestTypes DEF MainType
  <2>7. RegistryConsistent'
    BY DEF RegistryConsistent, Open, NoMain
  <2> QED BY <2>4, <2>5, <2>6, <2>7
<1>10. ASSUME IInv, BuildDone PROVE IInv'
  <2> USE <1>10 DEF BuildDone
  <2>4. WorldType'
    BY NameOfObj, RestTypes DEF WorldType, MainType, env, history
  <2>5. HandlerType'
    BY RestTypes DEF HandlerType
  <2>6. MainType'
    BY HeldListsFacts, RestTypes DEF MainType
  <2>7. RegistryConsistent'
    BY DEF RegistryConsistent, Open, NoMain
  <2> QED BY <2>4, <2>5, <2>6, <2>7
<1>11. ASSUME IInv, NEW o \in Obj, BuildLists(o) PROVE IInv'
  <2> USE <1>11 DEF BuildLists
  <2>4. WorldType'
    BY NameOfObj, RestTypes DEF WorldType, MainType, env, history
  <2>5. HandlerType'
    BY RestTypes DEF HandlerType
  <2>6. MainType'
    <3>1. CASE main' = [main EXCEPT !.todo = @ \ {o},
                          !.lists = [p \in DOMAIN @ \cup {o} |-> IF p = o THEN offers[o] ELSE @[p]]]
      <4>1. offers[o] \in Lists /\ main.lists \in HeldLists
        BY DEF MainType, WorldType
      <4>2. [p \in DOMAIN main.lists \cup {o} |-> IF p = o THEN offers[o] ELSE main.lists[p]]
              \in HeldLists
        BY <4>1, HeldListsFacts
      <4> QED BY <3>1, <4>2 DEF MainType
    <3>2. CASE main' = [main EXCEPT !.todo = @ \ {o}]
      BY <3>2 DEF MainType
    <3> QED BY <3>1, <3>2
  <2>7. RegistryConsistent'
    BY DEF RegistryConsistent, Open, NoMain
  <2> QED BY <2>4, <2>5, <2>6, <2>7
<1>12. ASSUME IInv, NEW o \in Obj, BuildRegisters(o) PROVE IInv'
  <2> USE <1>12 DEF BuildRegisters, SetRoute
  <2>1. o \in Obj /\ main.lists[o] \in Lists
    BY HeldListsFacts DEF MainType
  <2>2. Register(o, main.lists[o]) /\ overlapped' \in {overlapped, overlapped \cup {NameOf(o)}}
    BY DEF Overlaps
  <2>3. /\ reg' \in RegistryType /\ (Consistent(reg) => Consistent(reg'))
        /\ collided' \subseteq Tools /\ overlapped' \subseteq UpNames
    BY <2>1, <2>2, RegisterStep
  <2>4. WorldType'
    BY <2>1, <2>3, NameOfObj DEF WorldType, env
  <2>5. HandlerType'
    BY RestTypes DEF HandlerType
  <2>6. MainType'
    BY HeldListsFacts, RestTypes DEF MainType
  <2>7. RegistryConsistent'
    BY <2>3 DEF RegistryConsistent, Open, MainType
  <2> QED BY <2>4, <2>5, <2>6, <2>7
<1>13. ASSUME IInv, ReloadBegins PROVE IInv'
  <2> USE <1>13 DEF ReloadBegins, NextGen
  <2>4. WorldType'
    BY NameOfObj, RestTypes DEF WorldType, MainType, env, history
  <2>5. HandlerType'
    BY RestTypes DEF HandlerType
  <2>6. MainType'
    <3>1. PICK detach \in SUBSET upstreams, back \in SUBSET UpNames :
            main' = [NoMain EXCEPT !.pc = "detach", !.todo = detach,
                                   !.fresh = UNION {NextGen(n) : n \in back}]
      OBVIOUS
    <3>2. detach \subseteq Obj /\ UNION {NextGen(n) : n \in back} \subseteq Obj
      BY DEF WorldType
    <3> QED BY <3>1, <3>2, RestTypes DEF MainType
  <2>7. RegistryConsistent'
    BY DEF RegistryConsistent, Open, NoMain
  <2> QED BY <2>4, <2>5, <2>6, <2>7
<1>14. ASSUME IInv, DetachUnroutes PROVE IInv'
  <2> USE <1>14 DEF DetachUnroutes
  <2>4. WorldType'
    BY NameOfObj, RestTypes DEF WorldType, MainType, env, history
  <2>5. HandlerType'
    BY RestTypes DEF HandlerType
  <2>6. MainType'
    BY HeldListsFacts, RestTypes DEF MainType
  <2>7. RegistryConsistent'
    BY DEF RegistryConsistent, Open, NoMain
  <2> QED BY <2>4, <2>5, <2>6, <2>7
<1>15. ASSUME IInv, DetachForgets PROVE IInv'
  <2> USE <1>15 DEF DetachForgets, Overlaps
  <2>4. WorldType'
    BY NameOfObj, RestTypes DEF WorldType, MainType, env, history
  <2>5. HandlerType'
    BY RestTypes DEF HandlerType
  <2>6. MainType'
    BY HeldListsFacts, RestTypes DEF MainType
  <2>7. RegistryConsistent'
    BY DEF RegistryConsistent, Open, NoMain
  <2> QED BY <2>4, <2>5, <2>6, <2>7
<1>16. ASSUME IInv, ClosesDetached PROVE IInv'
  <2> USE <1>16 DEF ClosesDetached
  <2>4. WorldType'
    BY NameOfObj, RestTypes DEF WorldType, MainType, env, history
  <2>5. HandlerType'
    BY RestTypes DEF HandlerType
  <2>6. MainType'
    BY HeldListsFacts, RestTypes DEF MainType
  <2>7. RegistryConsistent'
    BY DEF RegistryConsistent, Open, NoMain
  <2> QED BY <2>4, <2>5, <2>6, <2>7
<1>17. ASSUME IInv, AttachLists PROVE IInv'
  <2> USE <1>17 DEF AttachLists
  <2>4. WorldType'
    BY NameOfObj, RestTypes DEF WorldType, MainType, env, history
  <2>5. HandlerType'
    BY RestTypes DEF HandlerType
  <2>6. MainType'
    <3>1. CASE main' = [main EXCEPT !.pc = "sync", !.lists = [p \in {main.cur} |-> offers[p]]]
      <4>0. main.cur \in Obj /\ offers \in [Obj -> Lists]
        BY DEF MainType, WorldType
      <4>1. [p \in {main.cur} |-> offers[p]] \in HeldLists
        BY ONLY <4>0, HeldListsFacts, Zenon
      <4> QED BY <3>1, <4>1 DEF MainType
    <3>2. CASE main' = [main EXCEPT !.pc = "attach", !.cur = None]
      BY <3>2 DEF MainType
    <3> QED BY <3>1, <3>2
  <2>7. RegistryConsistent'
    BY DEF RegistryConsistent, Open, NoMain
  <2> QED BY <2>4, <2>5, <2>6, <2>7
<1>18. ASSUME IInv, AttachRegisters PROVE IInv'
  <2> USE <1>18 DEF AttachRegisters, SetRoute
  <2>1. main.cur \in Obj /\ main.lists[main.cur] \in Lists
    BY HeldListsFacts DEF MainType
  <2>2. Register(main.cur, main.lists[main.cur]) /\ overlapped' \in {overlapped, overlapped \cup {NameOf(main.cur)}}
    BY DEF Overlaps
  <2>3. /\ reg' \in RegistryType /\ (Consistent(reg) => Consistent(reg'))
        /\ collided' \subseteq Tools /\ overlapped' \subseteq UpNames
    BY <2>1, <2>2, RegisterStep
  <2>4. WorldType'
    BY <2>1, <2>3, NameOfObj DEF WorldType, env
  <2>5. HandlerType'
    BY RestTypes DEF HandlerType
  <2>6. MainType'
    BY HeldListsFacts, RestTypes DEF MainType
  <2>7. RegistryConsistent'
    BY <2>3 DEF RegistryConsistent, Open, MainType
  <2> QED BY <2>4, <2>5, <2>6, <2>7
<1>19. ASSUME IInv, ReloadDone PROVE IInv'
  <2> USE <1>19 DEF ReloadDone
  <2>4. WorldType'
    BY NameOfObj, RestTypes DEF WorldType, MainType, env, history
  <2>5. HandlerType'
    BY RestTypes DEF HandlerType
  <2>6. MainType'
    BY HeldListsFacts, RestTypes DEF MainType
  <2>7. RegistryConsistent'
    BY DEF RegistryConsistent, Open, NoMain
  <2> QED BY <2>4, <2>5, <2>6, <2>7
<1>20. ASSUME IInv, NEW o \in Obj, DetachClears(o) PROVE IInv'
  <2> USE <1>20 DEF DetachClears
  <2>1. o \in Obj /\ Empty \in Lists
    BY DEF Empty, Lists
  <2>2. Register(o, Empty) /\ overlapped' \in {overlapped, overlapped \cup {NameOf(o)}}
    BY DEF Overlaps
  <2>3. /\ reg' \in RegistryType /\ (Consistent(reg) => Consistent(reg'))
        /\ collided' \subseteq Tools /\ overlapped' \subseteq UpNames
    BY <2>1, <2>2, RegisterStep
  <2>4. WorldType'
    BY <2>1, <2>3, NameOfObj DEF WorldType, env
  <2>5. HandlerType'
    BY RestTypes DEF HandlerType
  <2>6. MainType'
    BY HeldListsFacts, RestTypes DEF MainType
  <2>7. RegistryConsistent'
    BY <2>3 DEF RegistryConsistent, Open, MainType
  <2> QED BY <2>4, <2>5, <2>6, <2>7
<1>21. ASSUME IInv, NEW o \in Obj, AttachConnects(o) PROVE IInv'
  <2> USE <1>21 DEF AttachConnects
  <2>4. WorldType'
    BY NameOfObj, RestTypes DEF WorldType, MainType, env, history
  <2>5. HandlerType'
    BY RestTypes DEF HandlerType
  <2>6. MainType'
    BY DEF MainType
  <2>7. RegistryConsistent'
    BY DEF RegistryConsistent, Open, NoMain
  <2> QED BY <2>4, <2>5, <2>6, <2>7
<1>22. ASSUME IInv, Shutdown PROVE IInv'
  <2> USE <1>22 DEF Shutdown, CloseGateway
  <2>4. WorldType'
    BY NameOfObj, RestTypes DEF WorldType, MainType, env, history
  <2>5. HandlerType'
    BY RestTypes DEF HandlerType
  <2>6. MainType'
    BY HeldListsFacts, RestTypes DEF MainType
  <2>7. RegistryConsistent'
    BY DEF RegistryConsistent, Open, NoMain
  <2> QED BY <2>4, <2>5, <2>6, <2>7
<1>23. ASSUME IInv, UNCHANGED vars PROVE IInv'
  BY <1>23 DEF WorldType, HandlerType, MainType, RegistryConsistent, Open, vars, env, history
<1>24. IInv /\ [Next]_vars => IInv'
  <2> SUFFICES ASSUME IInv, [Next]_vars PROVE IInv'
    OBVIOUS
  <2> HIDE DEF IInv
  <2> QED BY <1>2, <1>3, <1>4, <1>5, <1>6, <1>7, <1>8, <1>9, <1>10, <1>11, <1>12,
            <1>13, <1>14, <1>15, <1>16, <1>17, <1>18, <1>19, <1>20, <1>21, <1>22, <1>23
         DEF Next, Handle, Build, Reload
<1> QED BY <1>1, <1>24, PTL DEF Spec

\* The hand-written step for tools and the featureRegistry it mirrors do the
\* same to every registry the gateway reaches.
THEOREM ToolsAlwaysMirrorFeatures == Spec => []ToolsMirrorFeatures
<1>1. TypeOK => ToolsMirrorFeatures
  BY ToolSyncIsFeatureSync DEF TypeOK, WorldType, ToolsMirrorFeatures
<1> QED BY <1>1, RegistryStaysConsistent, PTL

\* No step of Build, a handler, a reload or Close redirects a name from one
\* upstream to another.
THEOREM NamesAreNotTakenOver == Spec => NoTakeover
<1> DEFINE Keeps == \A x \in Tools : reg.owner[x] # None /\ reg'.owner[x] # None
                                       => reg'.owner[x] = reg.owner[x]
<1>1. ASSUME TypeOK, NEW o \in Obj, NEW list \in Lists, Register(o, list) PROVE Keeps
  BY <1>1, SyncNoTakeover DEF TypeOK, WorldType, Register
<1>2. ASSUME CloseGateway PROVE Keeps
  BY <1>2 DEF CloseGateway, EmptyRegistry
<1>3. ASSUME TypeOK, NEW h \in Handlers, HandlerApplies(h) PROVE Keeps
  <2>1. handler[h].obj \in Obj /\ handler[h].list \in Lists
    BY <1>3 DEF HandlerApplies, TypeOK, HandlerType
  <2> QED BY <1>3, <2>1, <1>1 DEF HandlerApplies
<1>4. ASSUME TypeOK, NEW o \in Obj, BuildRegisters(o) PROVE Keeps
  <2>1. main.lists[o] \in Lists
    BY <1>4, HeldListsFacts DEF BuildRegisters, TypeOK, MainType
  <2> QED BY <1>4, <2>1, <1>1 DEF BuildRegisters
<1>5. ASSUME TypeOK, NEW o \in Obj, DetachClears(o) PROVE Keeps
  <2>1. Empty \in Lists
    BY DEF Empty, Lists
  <2> QED BY <1>5, <2>1, <1>1 DEF DetachClears
<1>6. ASSUME TypeOK, AttachRegisters PROVE Keeps
  <2>1. main.cur \in Obj /\ main.lists[main.cur] \in Lists
    BY <1>6, HeldListsFacts DEF AttachRegisters, TypeOK, MainType
  <2> QED BY <1>6, <2>1, <1>1 DEF AttachRegisters
<1>7. TypeOK /\ [Next]_vars => [Keeps]_reg
  <2> SUFFICES ASSUME TypeOK, Next, reg' # reg PROVE Keeps
    BY DEF vars
  <2> HIDE DEF Keeps
  <2>1. CASE \E o \in Obj : OffersChange(o) \/ SessionDrops(o) \/ Reconnects(o) \/ Notified(o)
    BY <2>1 DEF OffersChange, SessionDrops, Reconnects, Notified
  <2>2. CASE \E h \in Handlers : Handle(h)
    BY <2>2, <1>3 DEF Handle, HandlerLists, HandlerRoutes
  <2>3. CASE Build
    BY <2>3, <1>2, <1>4 DEF Build, BuildChecks, BuildDone, BuildLists
  <2>4. CASE Reload
    BY <2>4, <1>5, <1>6
       DEF Reload, ReloadBegins, DetachUnroutes, DetachForgets, ClosesDetached,
           AttachLists, ReloadDone, AttachConnects
  <2>5. CASE Shutdown
    BY <2>5, <1>2 DEF Shutdown
  <2> QED BY <2>1, <2>2, <2>3, <2>4, <2>5 DEF Next
<1> QED BY <1>7, RegistryStaysConsistent, PTL DEF Spec, NoTakeover

-----------------------------------------------------------------------------
(* What a synchronisation does to the other upstreams and to its own.      *)

\* An upstream's synchronisation leaves the names of the others alone.
LEMMA SyncOthers ==
  ASSUME NEW r \in RegistryType, NEW o \in Obj, NEW new \in Lists, Consistent(r),
         NEW x \in Tools, NEW m \in UpNames, m # NameOf(o)
  PROVE  /\ ToolSync(r, o, new).owner[x] = m <=> r.owner[x] = m
         /\ r.owner[x] = m => ToolSync(r, o, new).registered[x] = r.registered[x]
<1>1. NameOf(o) \in UpNames /\ NameOf(o) # None /\ m # None
  BY NameOfObj, RegistryAssumption
<1>2. x \in r.names[NameOf(o)] <=> r.owner[x] = NameOf(o)
  BY <1>1 DEF Consistent
<1> QED BY <1>1, <1>2 DEF ToolSync, Pruned, Installed, Listed, RegistryType, Lists

\* What it leaves registered for its own upstream is the list it was given, and
\* what is listed and not registered was refused.
LEMMA SyncOwn ==
  ASSUME NEW r \in RegistryType, NEW o \in Obj, NEW new \in Lists, Consistent(r),
         NEW x \in Tools
  PROVE  /\ ToolSync(r, o, new).owner[x] = NameOf(o)
              => ToolSync(r, o, new).registered[x] = new[x]
         /\ new[x] # None
              => ToolSync(r, o, new).owner[x] = NameOf(o) \/ x \in Collisions(r, o, new)
         /\ new[x] = None => ToolSync(r, o, new).owner[x] # NameOf(o)
<1>1. NameOf(o) \in UpNames /\ NameOf(o) # None
  BY NameOfObj, RegistryAssumption
<1>2. x \in r.names[NameOf(o)] <=> r.owner[x] = NameOf(o)
  BY <1>1 DEF Consistent
<1>3. r.owner[x] = None <=> r.registered[x] = None
  BY DEF Consistent
<1> QED BY <1>1, <1>2, <1>3 DEF ToolSync, Pruned, Installed, Collisions, Listed, RegistryType, Lists

\* A handler on the server is the one that was there or, for a listed name, the
\* one it installs.
LEMMA SyncServer ==
  ASSUME NEW r \in RegistryType, NEW o \in Obj, NEW new \in Lists, NEW x \in Tools
  PROVE  \/ ToolSync(r, o, new).server[x] \in {None, r.server[x]}
         \/ new[x] # None /\ ToolSync(r, o, new).server[x] = o
  BY DEF ToolSync, Pruned, Installed, Listed, RegistryType

-----------------------------------------------------------------------------
(* What is attached, what is served and what is followed.                  *)

Detaching == main.pc \in {"unroute", "forget"}

\* One object of a name is attached at a time, and what main lists is attached.
Plan ==
  /\ \A o, p \in upstreams : NameOf(o) = NameOf(p) => o = p
  /\ \A o, p \in main.fresh : NameOf(o) = NameOf(p) => o = p
  /\ \A o \in main.fresh, p \in upstreams : NameOf(o) = NameOf(p) => p \in main.todo
  /\ main.pc \in {"build", "register"} => main.fresh = {}
  /\ main.pc \in {"build", "detach", "unroute", "forget"} => main.todo \subseteq upstreams
  /\ Detaching => main.cur \in main.todo
  /\ main.pc \in {"attach", "list", "sync"} => main.todo = {}
  /\ main.pc \in {"list", "sync"} => main.cur \in upstreams
  /\ DOMAIN main.lists \subseteq upstreams
  /\ main.pc \notin {"build", "register", "sync"} => DOMAIN main.lists = {}
  /\ main.pc = "sync" => DOMAIN main.lists = {main.cur}

\* A handler at work on an upstream that nothing overlapped has an attached one.
Held ==
  \A h \in Handlers :
    handler[h].pc \in {"listed", "route"} /\ NameOf(handler[h].obj) \notin overlapped
      => handler[h].obj \in upstreams

\* From the moment a detach has cleared a name until it forgets the object,
\* nothing brings the name back unless it overlaps with the detach.
Clearing ==
  Detaching /\ NameOf(main.cur) \notin overlapped =>
    /\ \A x \in Tools : reg.owner[x] # NameOf(main.cur)
    /\ \A h \in Handlers : handler[h].pc = "route" => NameOf(handler[h].obj) # NameOf(main.cur)
    /\ main.pc = "forget" => routes[NameOf(main.cur)] = None

\* What the server calls and what the routes lead to is attached.
Served ==
  \A x \in Tools : reg.server[x] # None /\ NameOf(reg.server[x]) \notin overlapped
                     => reg.server[x] \in upstreams
RoutesLead ==
  \A n \in UpNames : routes[n] # None =>
    NameOf(routes[n]) = n /\ (n \notin overlapped => routes[n] \in upstreams)

\* Something is on its way that will synchronise an object with what it offers
\* now, or detach it.
Pending(o) ==
  \/ o \in notified
  \/ \E h \in Handlers : handler[h].pc = "begin" /\ NameOf(h[1]) = NameOf(o)
  \/ \E h \in Handlers : handler[h].pc = "listed" /\ handler[h].obj = o /\ handler[h].list = offers[o]
  \/ o \in DOMAIN main.lists /\ main.lists[o] = offers[o]
  \/ main.pc = "list" /\ main.cur = o
  \/ Detaching /\ NameOf(main.cur) = NameOf(o)

\* Nothing is registered for o but what it offers, and what it offers is
\* registered or was refused.
Follows(o) ==
  /\ \A x \in Tools : reg.owner[x] = NameOf(o) => reg.registered[x] = offers[o][x]
  /\ \A x \in Tools : offers[o][x] # None => reg.owner[x] = NameOf(o) \/ x \in collided

\* Nobody holds a list of o.
Unheld(o) ==
  /\ \A h \in Handlers : handler[h].pc = "listed" => handler[h].obj # o
  /\ o \notin DOMAIN main.lists

\* A list that is out of date is held only while a newer one is on its way.
Tracked(o) ==
  conn[o] = "up" /\ NameOf(o) \notin overlapped \cup missed => Pending(o) \/ (Unheld(o) /\ Follows(o))
Following == Open => \A o \in upstreams : Tracked(o)

-----------------------------------------------------------------------------
(* One lemma per conjunct.                                                 *)

\* Two objects of a name differ in their number.
LEMMA ObjPairs == \A o, p \in Obj : NameOf(o) = NameOf(p) /\ o[2] = p[2] => o = p
  BY RegistryAssumption DEF NameOf

\* What a reload may attach for a name is one object.
LEMMA NextGenIsOne ==
  /\ \A n : \A o, p \in NextGen(n) : o = p
  /\ \A n : \A o \in NextGen(n) : o \in Obj /\ NameOf(o) = n
<1>1. ASSUME NEW n, NEW o \in NextGen(n), NEW p \in NextGen(n) PROVE o = p
  <2>1. o \in Obj /\ p \in Obj /\ NameOf(o) = n /\ NameOf(p) = n /\ o[2] \in Nat /\ p[2] \in Nat
    BY RegistryAssumption DEF NextGen
  <2>2. ~(o[2] < p[2]) /\ ~(p[2] < o[2])
    BY <2>1 DEF NextGen
  <2> QED BY <2>1, <2>2, ObjPairs
<1> QED BY <1>1 DEF NextGen

\* The configured upstreams are one object each.
LEMMA PlanInit == ASSUME Init PROVE Plan
<1>1. \A o, p \in First : NameOf(o) = NameOf(p) => o = p
  BY ObjPairs, RegistryAssumption DEF First
<1> QED BY <1>1, HeldListsFacts DEF Init, Plan, NoMain, Detaching

\* A name is attached again only after its object was forgotten.
LEMMA PlanStep == ASSUME TypeOK, Plan, [Next]_vars PROVE Plan'
<1> USE DEF Detaching
<1>0. /\ upstreams \subseteq Obj /\ main.lists \in HeldLists
      /\ main.fresh \subseteq Obj /\ main.todo \subseteq Obj
      /\ main = [pc |-> main.pc, todo |-> main.todo, gone |-> main.gone, fresh |-> main.fresh,
                 cur |-> main.cur, lists |-> main.lists]
  BY DEF TypeOK, WorldType, MainType
<1>1. CASE UNCHANGED <<main, upstreams>>
  BY <1>1 DEF Plan
<1>2. CASE main'.pc \in {"idle", "closed"} /\ main'.fresh = {} /\ main'.lists = NoLists
           /\ UNCHANGED upstreams
  BY <1>2, HeldListsFacts DEF Plan
<1>3. CASE BuildChecks
  <2>1. CASE CloseGateway
    BY <2>1, <1>2 DEF CloseGateway, NoMain
  <2>2. CASE main' = [main EXCEPT !.pc = "register"] /\ UNCHANGED upstreams
    BY <1>0, <1>3, <2>2 DEF Plan, BuildChecks
  <2> QED BY <1>3, <2>1, <2>2 DEF BuildChecks
<1>4. CASE BuildDone \/ ReloadDone \/ Shutdown
  BY <1>2, <1>4 DEF BuildDone, ReloadDone, Shutdown, CloseGateway, NoMain
<1>5. ASSUME NEW o \in Obj, BuildLists(o) PROVE Plan'
  <2>1. CASE main' = [main EXCEPT !.todo = @ \ {o}]
    BY <1>0, <1>5, <2>1 DEF Plan, BuildLists
  <2>2. CASE main' = [main EXCEPT !.todo = @ \ {o},
                    !.lists = [p \in DOMAIN @ \cup {o} |-> IF p = o THEN offers[o] ELSE @[p]]]
    <3>1. /\ main'.pc = "build" /\ main.pc = "build" /\ main'.todo = main.todo \ {o}
          /\ main'.fresh = main.fresh /\ DOMAIN main'.lists = DOMAIN main.lists \cup {o}
          /\ upstreams' = upstreams /\ o \in main.todo
      BY <1>0, <1>5, <2>2 DEF BuildLists
    <3> QED BY <3>1 DEF Plan
  <2> QED BY <1>5, <2>1, <2>2 DEF BuildLists
<1>6. ASSUME NEW o \in Obj, BuildRegisters(o) PROVE Plan'
  <2>1. /\ main'.pc = "register" /\ main.pc = "register" /\ main'.todo = main.todo
        /\ main'.fresh = main.fresh /\ DOMAIN main'.lists = DOMAIN main.lists \ {o}
        /\ upstreams' = upstreams
    BY <1>0, <1>6 DEF BuildRegisters
  <2> QED BY <2>1 DEF Plan
<1>7. CASE ReloadBegins
  <2>1. PICK detach \in SUBSET upstreams, back \in SUBSET UpNames :
          /\ back \cap {NameOf(o) : o \in upstreams \ detach} = {}
          /\ main' = [NoMain EXCEPT !.pc = "detach", !.todo = detach,
                                    !.fresh = UNION {NextGen(n) : n \in back}]
    BY <1>7 DEF ReloadBegins
  <2>2. /\ main'.pc = "detach" /\ main'.todo = detach
        /\ main'.fresh = UNION {NextGen(n) : n \in back}
        /\ main'.lists = NoLists /\ upstreams' = upstreams
    BY <1>7, <2>1 DEF ReloadBegins, NoMain
  <2>3. \A o, p \in main'.fresh : NameOf(o) = NameOf(p) => o = p
    BY <2>2, NextGenIsOne
  <2>4. \A o \in main'.fresh : NameOf(o) \in back
    BY <2>2, NextGenIsOne
  <2>5. \A o \in main'.fresh, p \in upstreams : NameOf(o) = NameOf(p) => p \in detach
    BY <2>1, <2>4
  <2> QED BY <2>2, <2>3, <2>5, HeldListsFacts DEF Plan
<1>8. CASE DetachUnroutes
  BY <1>0, <1>8 DEF DetachUnroutes, Plan
<1>9. CASE DetachForgets
  <2>1. /\ main'.pc = "detach" /\ main.pc = "forget" /\ main'.todo = main.todo \ {main.cur}
        /\ main'.fresh = main.fresh /\ main'.lists = main.lists
        /\ upstreams' = upstreams \ {main.cur}
    BY <1>0, <1>9 DEF DetachForgets
  <2> QED BY <2>1 DEF Plan
<1>10. CASE ClosesDetached
  BY <1>0, <1>10 DEF ClosesDetached, Plan
<1>11. CASE AttachLists
  <2>1. CASE main' = [main EXCEPT !.pc = "attach", !.cur = None]
    BY <1>0, <1>11, <2>1 DEF AttachLists, Plan
  <2>2. CASE main' = [main EXCEPT !.pc = "sync", !.lists = [p \in {main.cur} |-> offers[p]]]
    <3>1. /\ main'.pc = "sync" /\ main.pc = "list" /\ main'.todo = main.todo
          /\ main'.fresh = main.fresh /\ main'.cur = main.cur
          /\ DOMAIN main'.lists = {main.cur} /\ upstreams' = upstreams
      BY <1>0, <1>11, <2>2 DEF AttachLists
    <3> QED BY <3>1 DEF Plan
  <2> QED BY <1>11, <2>1, <2>2 DEF AttachLists
<1>12. CASE AttachRegisters
  <2>1. /\ main'.pc = "attach" /\ main.pc = "sync" /\ main'.todo = main.todo
        /\ main'.fresh = main.fresh /\ main'.lists = NoLists
        /\ upstreams' = upstreams
    BY <1>0, <1>12 DEF AttachRegisters
  <2> QED BY <2>1, HeldListsFacts DEF Plan
<1>13. ASSUME NEW o \in Obj, DetachClears(o) PROVE Plan'
  BY <1>0, <1>13 DEF DetachClears, Plan
<1>14. ASSUME NEW o \in Obj, AttachConnects(o) PROVE Plan'
  <2>1. /\ main'.pc \in {"list", "attach"} /\ main.pc = "attach" /\ main'.todo = main.todo
        /\ main'.fresh = main.fresh \ {o} /\ main'.lists = main.lists
        /\ main'.pc = "list" => main'.cur = o
        /\ upstreams' = upstreams \cup {o} /\ o \in main.fresh
    BY <1>0, <1>14 DEF AttachConnects
  <2> QED BY <2>1 DEF Plan
<1>15. CASE \/ \E o \in Obj : OffersChange(o) \/ SessionDrops(o) \/ Reconnects(o) \/ Notified(o)
            \/ \E h \in Handlers : Handle(h)
            \/ UNCHANGED vars
  BY <1>1, <1>15 DEF OffersChange, SessionDrops, Reconnects, Notified, Handle, HandlerLists,
                     HandlerApplies, HandlerRoutes, vars
<1> QED BY <1>3, <1>4, <1>5, <1>6, <1>7, <1>8, <1>9, <1>10, <1>11, <1>12, <1>13, <1>14, <1>15
        DEF Next, Build, Reload

\* What handlers hold stays attached: an object is forgotten either with nobody
\* at work on it or with its name marked as overlapped.
LEMMA HeldStep == ASSUME TypeOK, Held, Clearing, [Next]_vars PROVE Held'
<1>0. /\ handler \in [Handlers -> [pc : {"idle", "begin", "listed", "route"},
                                  obj : Obj \cup {None}, list : Lists]]
      /\ upstreams \subseteq Obj
  BY DEF TypeOK, HandlerType, WorldType
<1>1. CASE handler' = handler /\ overlapped \subseteq overlapped' /\ upstreams \subseteq upstreams'
  BY <1>1 DEF Held
<1>2. ASSUME NEW h \in Handlers, handler'[h].pc \notin {"listed", "route"},
             \A g \in Handlers \ {h} : handler'[g] = handler[g],
             UNCHANGED <<overlapped, upstreams>>
      PROVE  Held'
  BY <1>2 DEF Held
<1>3. ASSUME NEW o \in Obj, Reconnects(o) \/ Notified(o) PROVE Held'
  <2>1. \E h \in Handlers : /\ handler'[h].pc = "begin"
                            /\ \A g \in Handlers \ {h} : handler'[g] = handler[g]
    BY <1>0, <1>3 DEF Reconnects, Notified, Handlers
  <2> QED BY <1>2, <1>3, <2>1 DEF Reconnects, Notified, history
<1>4. ASSUME NEW h \in Handlers, HandlerLists(h) PROVE Held'
  <2>1. CASE handler' = [handler EXCEPT ![h] = Idle]
    BY <1>0, <1>2, <1>4, <2>1 DEF HandlerLists, Idle
  <2>2. ASSUME NEW o \in upstreams,
               handler' = [handler EXCEPT ![h] = [pc |-> "listed", obj |-> o, list |-> offers[o]]]
        PROVE  Held'
    <3>1. handler'[h].obj = o /\ \A g \in Handlers \ {h} : handler'[g] = handler[g]
      BY <1>0, <2>2
    <3> QED BY <1>4, <3>1 DEF Held, HandlerLists
  <2> QED BY <1>4, <2>1, <2>2 DEF HandlerLists, ByName
<1>5. ASSUME NEW h \in Handlers, HandlerApplies(h) PROVE Held'
  <2>1. /\ handler'[h].obj = handler[h].obj /\ handler[h].pc = "listed"
        /\ \A g \in Handlers \ {h} : handler'[g] = handler[g]
        /\ overlapped \subseteq overlapped' /\ upstreams' = upstreams
    BY <1>0, <1>5 DEF HandlerApplies, Overlaps
  <2> QED BY <2>1 DEF Held
<1>6. ASSUME NEW h \in Handlers, HandlerRoutes(h) PROVE Held'
  BY <1>0, <1>2, <1>6 DEF HandlerRoutes, Idle, history
<1>7. CASE DetachForgets
  <2>1. /\ main.pc = "forget" /\ upstreams' = upstreams \ {main.cur} /\ handler' = handler
        /\ overlapped \subseteq overlapped'
    BY <1>7 DEF DetachForgets, Overlaps
  <2>2. HandlerHas(NameOf(main.cur), {"listed"}, None) => NameOf(main.cur) \in overlapped'
    BY <1>7 DEF DetachForgets, Overlaps
  <2>3. ASSUME NEW h \in Handlers, handler[h].pc \in {"listed", "route"},
               NameOf(handler[h].obj) \notin overlapped'
        PROVE  handler[h].obj \in upstreams'
    <3>1. handler[h].obj \in upstreams
      BY <2>1, <2>3 DEF Held
    <3>2. NameOf(handler[h].obj) # NameOf(main.cur)
      <4>1. CASE handler[h].pc = "listed"
        BY <2>2, <2>3, <4>1, NoneIsNoHandler DEF HandlerHas, Handlers
      <4>2. CASE handler[h].pc = "route"
        BY <2>1, <2>3, <4>2 DEF Clearing, Detaching
      <4> QED BY <2>3, <4>1, <4>2
    <3> QED BY <2>1, <3>1, <3>2
  <2> QED BY <2>1, <2>3 DEF Held
<1>8. CASE \/ \E o \in Obj : OffersChange(o) \/ SessionDrops(o) \/ BuildLists(o)
                              \/ BuildRegisters(o) \/ DetachClears(o) \/ AttachConnects(o)
           \/ UNCHANGED vars
  BY <1>1, <1>8 DEF OffersChange, SessionDrops, BuildLists, BuildRegisters, DetachClears,
                    AttachConnects, Overlaps, vars, history
<1>9. CASE \/ BuildChecks \/ BuildDone \/ ReloadBegins \/ DetachUnroutes \/ ClosesDetached
           \/ AttachLists \/ AttachRegisters \/ ReloadDone \/ Shutdown
  BY <1>1, <1>9 DEF BuildChecks, CloseGateway, BuildDone, ReloadBegins, DetachUnroutes,
                    ClosesDetached, AttachLists, AttachRegisters, ReloadDone, Shutdown,
                    Overlaps, history
<1> QED BY <1>3, <1>4, <1>5, <1>6, <1>7, <1>8, <1>9 DEF Next, Handle, Build, Reload

\* While an upstream is being detached only a synchronisation that overlaps
\* brings its name back.
LEMMA ClearingStep ==
  ASSUME TypeOK, RegistryConsistent, Clearing, [Next]_vars PROVE Clearing'
<1>0. /\ handler \in [Handlers -> [pc : {"idle", "begin", "listed", "route"},
                                  obj : Obj \cup {None}, list : Lists]]
      /\ routes \in [UpNames -> Obj \cup {None}] /\ reg \in RegistryType
      /\ main = [pc |-> main.pc, todo |-> main.todo, gone |-> main.gone, fresh |-> main.fresh,
                 cur |-> main.cur, lists |-> main.lists]
      /\ Detaching => main.cur \in Obj /\ NameOf(main.cur) \in UpNames /\ Consistent(reg)
  BY NameOfObj DEF TypeOK, HandlerType, WorldType, MainType, Detaching, RegistryConsistent, Open
<1>1. CASE ~Detaching'
  BY <1>1 DEF Clearing
<1>2. ASSUME UNCHANGED <<reg, routes, main, overlapped>>,
             \A h \in Handlers : handler'[h].pc # "route" \/ handler'[h] = handler[h]
      PROVE  Clearing'
  BY <1>2 DEF Clearing, Detaching
<1>3. ASSUME NEW o \in Obj, Reconnects(o) \/ Notified(o) PROVE Clearing'
  <2>1. \A h \in Handlers : handler'[h].pc = "begin" \/ handler'[h] = handler[h]
    BY <1>0, <1>3 DEF Reconnects, Notified, Handlers
  <2> QED BY <1>2, <1>3, <2>1 DEF Reconnects, Notified, history
<1>4. ASSUME NEW h \in Handlers, HandlerLists(h) PROVE Clearing'
  <2>1. \A g \in Handlers : handler'[g].pc \in {"listed", "idle"} \/ handler'[g] = handler[g]
    BY <1>0, <1>4 DEF HandlerLists, Idle
  <2> QED BY <1>2, <1>4, <2>1 DEF HandlerLists
<1>5. ASSUME NEW h \in Handlers, HandlerApplies(h) PROVE Clearing'
  <2> SUFFICES ASSUME Detaching, NameOf(main.cur) \notin overlapped' PROVE Clearing'
    BY <1>5 DEF Clearing, HandlerApplies, Detaching
  <2> DEFINE n == NameOf(main.cur)
  <2>1. /\ handler[h].obj \in Obj /\ handler[h].list \in Lists
        /\ reg' = ToolSync(reg, handler[h].obj, handler[h].list)
        /\ routes' = routes /\ main' = main
        /\ handler'[h].obj = handler[h].obj /\ \A g \in Handlers \ {h} : handler'[g] = handler[g]
    BY <1>0, <1>5 DEF HandlerApplies, Register, TypeOK, HandlerType
  <2>2. n \notin overlapped /\ n # NameOf(handler[h].obj)
    BY <1>5 DEF HandlerApplies, Overlaps, MainHas, Detaching
  <2>3. \A x \in Tools : reg'.owner[x] # n
    BY <1>0, <2>1, <2>2, SyncOthers DEF Clearing
  <2> QED BY <2>1, <2>2, <2>3 DEF Clearing, Detaching
<1>6. ASSUME NEW h \in Handlers, HandlerRoutes(h) PROVE Clearing'
  <2> SUFFICES ASSUME Detaching, NameOf(main.cur) \notin overlapped PROVE Clearing'
    BY <1>6 DEF Clearing, HandlerRoutes, Detaching, history
  <2>1. /\ handler'[h] = Idle /\ \A g \in Handlers \ {h} : handler'[g] = handler[g]
        /\ UNCHANGED <<reg, main, overlapped>>
    BY <1>0, <1>6 DEF HandlerRoutes, history
  <2>2. NameOf(handler[h].obj) # NameOf(main.cur)
    BY <1>6 DEF HandlerRoutes, Clearing
  <2>3. routes'[NameOf(main.cur)] = routes[NameOf(main.cur)]
    BY <1>0, <1>6, <2>2 DEF HandlerRoutes, SetRoute
  <2> QED BY <2>1, <2>3 DEF Clearing, Detaching, Idle
<1>7. ASSUME NEW o \in Obj, DetachClears(o) PROVE Clearing'
  <2>1. /\ main'.cur = o /\ main'.pc = "unroute" /\ main.pc = "detach" /\ handler' = handler
        /\ reg' = ToolSync(reg, o, Empty) /\ Empty \in Lists
    BY <1>0, <1>7 DEF DetachClears, Register, Empty, Lists
  <2>2. \A x \in Tools : reg'.owner[x] # NameOf(o)
    BY <1>0, <2>1, SyncOwn DEF Empty, RegistryConsistent, Open
  <2>3. \A h \in Handlers : handler[h].pc = "route" /\ NameOf(handler[h].obj) = NameOf(o)
                              => NameOf(o) \in overlapped'
    BY <1>7, NoneIsNoHandler DEF DetachClears, Overlaps, HandlerHas, Handlers
  <2> QED BY <2>1, <2>2, <2>3 DEF Clearing
<1>8. CASE DetachUnroutes
  <2>1. /\ main.pc = "unroute" /\ main'.cur = main.cur /\ main'.pc = "forget"
        /\ routes' = [routes EXCEPT ![NameOf(main.cur)] = None]
        /\ UNCHANGED <<reg, handler, overlapped>>
    BY <1>0, <1>8 DEF DetachUnroutes, history
  <2> QED BY <1>0, <2>1 DEF Clearing, Detaching
<1>9. CASE \/ \E o \in Obj : BuildLists(o) \/ BuildRegisters(o) \/ AttachConnects(o)
           \/ BuildChecks \/ BuildDone \/ ReloadBegins \/ DetachForgets \/ ClosesDetached
           \/ AttachLists \/ AttachRegisters \/ ReloadDone \/ Shutdown
  <2>1. CASE \E o \in Obj : BuildLists(o) \/ BuildRegisters(o) \/ AttachConnects(o)
    <3>1. main'.pc \in {"build", "register", "list", "attach"}
      BY <1>0, <2>1 DEF BuildLists, BuildRegisters, AttachConnects
    <3> QED BY <1>1, <3>1 DEF Detaching
  <2>2. CASE BuildChecks \/ BuildDone \/ ReloadDone \/ Shutdown
    <3>1. main'.pc \in {"register", "closed", "idle"}
      BY <1>0, <2>2 DEF BuildChecks, CloseGateway, BuildDone, ReloadDone, Shutdown, NoMain
    <3> QED BY <1>1, <3>1 DEF Detaching
  <2>4. CASE ReloadBegins
    <3>1. main'.pc = "detach"
      BY <2>4 DEF ReloadBegins, NoMain
    <3> QED BY <1>1, <3>1 DEF Detaching
  <2>3. CASE DetachForgets \/ ClosesDetached \/ AttachLists \/ AttachRegisters
    <3>1. main'.pc \in {"detach", "attach", "sync"}
      BY <1>0, <2>3 DEF DetachForgets, ClosesDetached, AttachLists, AttachRegisters
    <3> QED BY <1>1, <3>1 DEF Detaching
  <2> QED BY <1>9, <2>1, <2>2, <2>3, <2>4
<1>10. CASE (\E o \in Obj : OffersChange(o) \/ SessionDrops(o)) \/ UNCHANGED vars
  BY <1>2, <1>10 DEF OffersChange, SessionDrops, vars, history
<1> QED BY <1>3, <1>4, <1>5, <1>6, <1>7, <1>8, <1>9, <1>10 DEF Next, Handle, Build, Reload

\* A handler on the server outlives the object it calls only through an overlap.
LEMMA ServedStep ==
  ASSUME TypeOK, RegistryConsistent, Plan, Held, Clearing, Served, [Next]_vars PROVE Served'
<1>0. reg \in RegistryType /\ upstreams \subseteq Obj
  BY DEF TypeOK, WorldType
<1>1. CASE reg'.server = reg.server /\ overlapped \subseteq overlapped' /\ upstreams \subseteq upstreams'
  BY <1>1 DEF Served
<1>2. ASSUME NEW o \in Obj, NEW list \in Lists, Register(o, list),
             o \in upstreams \/ NameOf(o) \in overlapped \/ list = Empty,
             overlapped \subseteq overlapped', upstreams' = upstreams
      PROVE  Served'
  <2>1. \A x \in Tools : \/ reg'.server[x] \in {None, reg.server[x]}
                         \/ list[x] # None /\ reg'.server[x] = o
    BY <1>0, <1>2, SyncServer DEF Register
  <2> QED BY <1>2, <2>1 DEF Served, Empty
<1>3. ASSUME NEW h \in Handlers, HandlerApplies(h) PROVE Served'
  <2>1. handler[h].obj \in Obj /\ handler[h].list \in Lists /\ handler[h].pc = "listed"
    BY <1>3 DEF HandlerApplies, TypeOK, HandlerType
  <2>2. handler[h].obj \in upstreams \/ NameOf(handler[h].obj) \in overlapped
    BY <2>1 DEF Held
  <2> QED BY <1>2, <1>3, <2>1, <2>2 DEF HandlerApplies, Overlaps
<1>4. ASSUME NEW o \in Obj, BuildRegisters(o) PROVE Served'
  <2>1. main.lists[o] \in Lists /\ o \in upstreams
    BY <1>4, HeldListsFacts DEF BuildRegisters, TypeOK, MainType, Plan
  <2> QED BY <1>2, <1>4, <2>1 DEF BuildRegisters, Overlaps
<1>5. ASSUME NEW o \in Obj, DetachClears(o) PROVE Served'
  <2>1. Empty \in Lists
    BY DEF Empty, Lists
  <2> QED BY <1>2, <1>5, <2>1 DEF DetachClears, Overlaps
<1>6. CASE AttachRegisters
  <2>1. main.cur \in Obj /\ main.lists[main.cur] \in Lists /\ main.cur \in upstreams
    BY <1>6, HeldListsFacts DEF AttachRegisters, TypeOK, MainType, Plan
  <2> QED BY <1>2, <1>6, <2>1 DEF AttachRegisters, Overlaps
<1>7. CASE DetachForgets
  <2>1. /\ main.pc = "forget" /\ upstreams' = upstreams \ {main.cur} /\ reg' = reg
        /\ overlapped \subseteq overlapped' /\ main.cur \in Obj
    BY <1>7 DEF DetachForgets, Overlaps, TypeOK, MainType
  <2>2. Consistent(reg) /\ main.cur # None
    BY <2>1, RegistryAssumption DEF RegistryConsistent, Open
  <2>3. \A x \in Tools : reg.server[x] = main.cur => reg.owner[x] = NameOf(main.cur)
    BY <2>2 DEF Consistent
  <2> QED BY <2>1, <2>3 DEF Served, Clearing, Detaching
<1>8. CASE \/ \E o \in Obj : OffersChange(o) \/ SessionDrops(o) \/ Reconnects(o) \/ Notified(o)
                              \/ BuildLists(o) \/ AttachConnects(o)
           \/ \E h \in Handlers : HandlerLists(h) \/ HandlerRoutes(h)
           \/ UNCHANGED vars
  BY <1>1, <1>8 DEF OffersChange, SessionDrops, Reconnects, Notified, BuildLists, AttachConnects,
                    HandlerLists, HandlerRoutes, vars, history
<1>9. CASE \/ BuildChecks \/ BuildDone \/ ReloadBegins \/ DetachUnroutes \/ ClosesDetached
           \/ AttachLists \/ ReloadDone \/ Shutdown
  BY <1>1, <1>9 DEF BuildChecks, CloseGateway, BuildDone, ReloadBegins, DetachUnroutes,
                    ClosesDetached, AttachLists, ReloadDone, Shutdown, EmptyRegistry, history
<1> QED BY <1>3, <1>4, <1>5, <1>6, <1>7, <1>8, <1>9 DEF Next, Handle, Build, Reload

\* A route leads to an object of its name, attached unless there was an overlap.
LEMMA RoutesStep ==
  ASSUME TypeOK, Plan, Held, Clearing, RoutesLead, [Next]_vars PROVE RoutesLead'
<1>0. routes \in [UpNames -> Obj \cup {None}] /\ upstreams \subseteq Obj
  BY DEF TypeOK, WorldType
<1>1. CASE routes' = routes /\ overlapped \subseteq overlapped' /\ upstreams \subseteq upstreams'
  BY <1>1 DEF RoutesLead
<1>2. ASSUME NEW o \in Obj, SetRoute(o), o \in upstreams \/ NameOf(o) \in overlapped,
             overlapped \subseteq overlapped', upstreams' = upstreams
      PROVE  RoutesLead'
  <2>1. CASE routes' = [routes EXCEPT ![NameOf(o)] = o]
    <3>1. \A n \in UpNames : routes'[n] = IF n = NameOf(o) THEN o ELSE routes[n]
      BY <1>0, <2>1
    <3> QED BY <1>2, <3>1 DEF RoutesLead
  <2>2. CASE routes' = routes
    BY <1>1, <1>2, <2>2
  <2> QED BY <1>2, <2>1, <2>2 DEF SetRoute
<1>3. ASSUME NEW h \in Handlers, HandlerRoutes(h) PROVE RoutesLead'
  <2>1. handler[h].obj \in Obj /\ handler[h].pc = "route"
    BY <1>3 DEF HandlerRoutes, TypeOK, HandlerType
  <2>2. handler[h].obj \in upstreams \/ NameOf(handler[h].obj) \in overlapped
    BY <2>1 DEF Held
  <2> QED BY <1>1, <1>2, <1>3, <2>1, <2>2 DEF HandlerRoutes, history
<1>4. ASSUME NEW o \in Obj, BuildRegisters(o) PROVE RoutesLead'
  BY <1>2, <1>4 DEF BuildRegisters, Overlaps, Plan
<1>5. CASE AttachRegisters
  <2>1. main.cur \in Obj /\ main.cur \in upstreams
    BY <1>5 DEF AttachRegisters, TypeOK, MainType, Plan
  <2> QED BY <1>2, <1>5, <2>1 DEF AttachRegisters, Overlaps
<1>6. CASE DetachUnroutes
  <2>1. \A n \in UpNames : routes'[n] \in {None, routes[n]}
    BY <1>0, <1>6 DEF DetachUnroutes
  <2> QED BY <1>6, <2>1 DEF RoutesLead, DetachUnroutes, history
<1>7. CASE DetachForgets
  <2>1. /\ main.pc = "forget" /\ upstreams' = upstreams \ {main.cur} /\ routes' = routes
        /\ overlapped \subseteq overlapped'
    BY <1>7 DEF DetachForgets, Overlaps
  <2> QED BY <2>1 DEF RoutesLead, Clearing, Detaching
<1>8. CASE \/ \E o \in Obj : OffersChange(o) \/ SessionDrops(o) \/ Reconnects(o) \/ Notified(o)
                              \/ BuildLists(o) \/ AttachConnects(o) \/ DetachClears(o)
           \/ \E h \in Handlers : HandlerLists(h) \/ HandlerApplies(h)
           \/ UNCHANGED vars
  BY <1>1, <1>8 DEF OffersChange, SessionDrops, Reconnects, Notified, BuildLists, AttachConnects,
                    DetachClears, HandlerLists, HandlerApplies, Overlaps, vars, history
<1>9. CASE \/ BuildChecks \/ BuildDone \/ ReloadBegins \/ ClosesDetached
           \/ AttachLists \/ ReloadDone \/ Shutdown
  BY <1>1, <1>9 DEF BuildChecks, CloseGateway, BuildDone, ReloadBegins,
                    ClosesDetached, AttachLists, ReloadDone, Shutdown, history
<1> QED BY <1>3, <1>4, <1>5, <1>6, <1>7, <1>8, <1>9 DEF Next, Handle, Build, Reload

-----------------------------------------------------------------------------
(* Offers are followed.                                                    *)

\* Applying a list leaves the other upstreams as they were, and brings its own
\* in step when the list is what the upstream still offers.
LEMMA RegisterFollows ==
  ASSUME TypeOK, RegistryConsistent, Open, NEW q \in Obj, NEW list \in Lists, Register(q, list),
         NEW o \in Obj, offers' = offers
  PROVE  /\ NameOf(o) # NameOf(q) /\ Follows(o) => Follows(o)'
         /\ o = q /\ list = offers[o] => Follows(o)'
<1>1. /\ reg \in RegistryType /\ Consistent(reg) /\ NameOf(o) \in UpNames
      /\ reg' = ToolSync(reg, q, list) /\ collided' = collided \cup Collisions(reg, q, list)
  BY NameOfObj DEF TypeOK, WorldType, RegistryConsistent, Register
<1>2. ASSUME NameOf(o) # NameOf(q), Follows(o) PROVE Follows(o)'
  <2>1. \A x \in Tools : /\ reg'.owner[x] = NameOf(o) <=> reg.owner[x] = NameOf(o)
                         /\ reg.owner[x] = NameOf(o) => reg'.registered[x] = reg.registered[x]
    BY <1>1, <1>2, SyncOthers
  <2> QED BY <1>1, <1>2, <2>1 DEF Follows
<1>3. ASSUME o = q, list = offers[o] PROVE Follows(o)'
  <2>1. \A x \in Tools :
          /\ reg'.owner[x] = NameOf(o) => reg'.registered[x] = list[x]
          /\ list[x] # None => reg'.owner[x] = NameOf(o) \/ x \in Collisions(reg, q, list)
    BY <1>1, <1>3, SyncOwn
  <2> QED BY <1>1, <1>3, <2>1 DEF Follows
<1> QED BY <1>2, <1>3

\* A step that keeps what handlers and main have in hand for o.
HandlersKeep(o) ==
  \A h \in Handlers :
    /\ handler[h].pc = "begin" /\ NameOf(h[1]) = NameOf(o) => handler'[h].pc = "begin"
    /\ handler[h].pc = "listed" /\ handler[h].obj = o => handler'[h] = handler[h]
    /\ handler'[h].pc = "listed" /\ handler'[h].obj = o => handler'[h] = handler[h]
MainKeeps(o) ==
  /\ o \in DOMAIN main'.lists <=> o \in DOMAIN main.lists
  /\ o \in DOMAIN main.lists => main'.lists[o] = main.lists[o]
  /\ main.pc = "list" /\ main.cur = o => main'.pc = "list" /\ main'.cur = o
  /\ Detaching /\ NameOf(main.cur) = NameOf(o) => Detaching' /\ main'.cur = main.cur

\* Such a step keeps o tracked if it keeps its list and its registrations.
LEMMA KeepsTracked ==
  ASSUME NEW o, Following, Open, o \in upstreams, conn[o] = "up",
         NameOf(o) \notin overlapped \cup missed,
         offers'[o] = offers[o], o \in notified => o \in notified',
         HandlersKeep(o), MainKeeps(o), Follows(o) => Follows(o)'
  PROVE  Pending(o)' \/ (Unheld(o)' /\ Follows(o)')
<1>1. Pending(o) \/ (Unheld(o) /\ Follows(o))
  BY DEF Following, Tracked
<1>2. Pending(o) => Pending(o)'
  BY DEF Pending, HandlersKeep, MainKeeps
<1>3. Unheld(o) => Unheld(o)'
  BY DEF Unheld, HandlersKeep, MainKeeps
<1> QED BY <1>1, <1>2, <1>3

\* The same registrations follow the same offers.
LEMMA SameFollows ==
  ASSUME NEW o, offers'[o] = offers[o], reg' = reg, collided \subseteq collided'
  PROVE  Follows(o) => Follows(o)'
  BY DEF Follows

\* What is attached and connected stays tracked. Only the steps that apply a
\* list ask what it was: an out-of-date one is followed by a newer one, and two
\* that are held at once overlap.
LEMMA FollowStep ==
  ASSUME TypeOK, RegistryConsistent, Plan, Held, Following, [Next]_vars PROVE Following'
<1> SUFFICES ASSUME Open', NEW o \in upstreams', conn'[o] = "up",
                    NameOf(o) \notin overlapped' \cup missed'
             PROVE  Pending(o)' \/ (Unheld(o)' /\ Follows(o)')
  BY DEF Following, Tracked
<1> DEFINE Goal == Pending(o)' \/ (Unheld(o)' /\ Follows(o)')
           Before == /\ o \in upstreams /\ conn[o] = "up" /\ Open
                     /\ NameOf(o) \notin overlapped \cup missed
<1>0. /\ handler \in [Handlers -> [pc : {"idle", "begin", "listed", "route"},
                                  obj : Obj \cup {None}, list : Lists]]
      /\ \A h \in Handlers : handler[h].pc \in {"listed", "route"} => handler[h].obj \in Obj
      /\ main = [pc |-> main.pc, todo |-> main.todo, gone |-> main.gone, fresh |-> main.fresh,
                 cur |-> main.cur, lists |-> main.lists]
      /\ main.lists \in HeldLists /\ upstreams \subseteq Obj
      /\ conn \in [Obj -> {"new", "up", "down", "closed"}] /\ offers \in [Obj -> Lists]
      /\ main.pc \in {"unroute", "forget", "list", "sync"} => main.cur \in Obj
  BY DEF TypeOK, HandlerType, WorldType, MainType
<1>a. handler' = handler => HandlersKeep(o)
  BY DEF HandlersKeep
<1>b. main' = main => MainKeeps(o)
  BY DEF MainKeeps, Detaching
\* The upstreams.
<1>2. ASSUME NEW p \in Obj, OffersChange(p) PROVE Goal
  <2>1. CASE p = o
    BY <1>2, <2>1 DEF OffersChange, Pending
  <2>2. CASE p # o
    <3>1. Before /\ offers'[o] = offers[o] /\ (o \in notified => o \in notified')
      BY <1>0, <1>2, <2>2 DEF OffersChange, history, Open
    <3> QED BY <1>2, <1>a, <1>b, <3>1, SameFollows, KeepsTracked DEF OffersChange, history
  <2> QED BY <2>1, <2>2
<1>3. ASSUME NEW p \in Obj, SessionDrops(p) PROVE Goal
  <2>1. p # o
    BY <1>0, <1>3 DEF SessionDrops
  <2>2. Before /\ offers'[o] = offers[o] /\ (o \in notified => o \in notified')
    BY <1>0, <1>3, <2>1 DEF SessionDrops, history, Open
  <2> QED BY <1>3, <1>a, <1>b, <2>2, SameFollows, KeepsTracked DEF SessionDrops, history
<1>4. ASSUME NEW p \in Obj, Reconnects(p) PROVE Goal
  <2>1. <<p, "reconnect">> \in Handlers
    BY DEF Handlers
  <2>2. /\ handler[<<p, "reconnect">>].pc = "idle" /\ handler'[<<p, "reconnect">>].pc = "begin"
        /\ \A h \in Handlers \ {<<p, "reconnect">>} : handler'[h] = handler[h]
    BY <1>0, <1>4, <2>1 DEF Reconnects
  <2>3. CASE p = o
    <3>1. NameOf(<<p, "reconnect">>[1]) = NameOf(o)
      BY <2>3
    <3> QED BY <2>1, <2>2, <3>1 DEF Pending
  <2>4. CASE p # o
    <3>1. Before /\ offers'[o] = offers[o] /\ notified' = notified
      BY <1>0, <1>4, <2>4 DEF Reconnects, history, Open
    <3>2. HandlersKeep(o)
      BY <2>2 DEF HandlersKeep
    <3> QED BY <1>4, <1>b, <3>1, <3>2, SameFollows, KeepsTracked DEF Reconnects, history
  <2> QED BY <2>3, <2>4
<1>5. ASSUME NEW p \in Obj, Notified(p) PROVE Goal
  <2>1. <<p, "notify">> \in Handlers
    BY DEF Handlers
  <2>2. /\ handler[<<p, "notify">>].pc = "idle" /\ handler'[<<p, "notify">>].pc = "begin"
        /\ \A h \in Handlers \ {<<p, "notify">>} : handler'[h] = handler[h]
    BY <1>0, <1>5, <2>1 DEF Notified
  <2>3. CASE p = o
    <3>1. NameOf(<<p, "notify">>[1]) = NameOf(o)
      BY <2>3
    <3> QED BY <2>1, <2>2, <3>1 DEF Pending
  <2>4. CASE p # o
    <3>1. Before /\ offers'[o] = offers[o] /\ (o \in notified => o \in notified')
      BY <1>5, <2>4 DEF Notified, history, Open
    <3>2. HandlersKeep(o)
      BY <2>2 DEF HandlersKeep
    <3> QED BY <1>5, <1>b, <3>1, <3>2, SameFollows, KeepsTracked DEF Notified, history
  <2> QED BY <2>3, <2>4
\* The handlers.
<1>6. ASSUME NEW h \in Handlers, HandlerLists(h) PROVE Goal
  <2>1. /\ Before /\ offers' = offers /\ notified' = notified /\ main' = main /\ reg' = reg
        /\ collided' = collided /\ handler[h].pc = "begin"
    BY <1>6 DEF HandlerLists, env, Open
  <2>2. CASE handler' = [handler EXCEPT ![h] = Idle]
             /\ missed' = missed \cup {NameOf(q) : q \in {p \in ByName(NameOf(h[1])) : conn[p] = "up"}}
    <3>1. NameOf(h[1]) # NameOf(o)
      BY <2>1, <2>2 DEF ByName
    <3>2. handler'[h].pc = "idle" /\ \A g \in Handlers \ {h} : handler'[g] = handler[g]
      BY <1>0, <2>2 DEF Idle
    <3>3. HandlersKeep(o)
      BY <2>1, <3>1, <3>2 DEF HandlersKeep
    <3> QED BY <1>b, <2>1, <3>3, SameFollows, KeepsTracked
  <2>3. ASSUME NEW q \in ByName(NameOf(h[1])),
               handler' = [handler EXCEPT ![h] = [pc |-> "listed", obj |-> q, list |-> offers[q]]]
        PROVE  Goal
    <3>1. /\ handler'[h].pc = "listed" /\ handler'[h].obj = q /\ handler'[h].list = offers[q]
          /\ \A g \in Handlers \ {h} : handler'[g] = handler[g]
      BY <1>0, <2>3
    <3>2. CASE NameOf(h[1]) = NameOf(o)
      <4>1. q = o
        BY <2>1, <2>3, <3>2 DEF ByName, Plan
      <4> QED BY <2>1, <3>1, <4>1 DEF Pending
    <3>3. CASE NameOf(h[1]) # NameOf(o)
      <4>1. q # o
        BY <2>3, <3>3 DEF ByName
      <4>2. HandlersKeep(o)
        BY <2>1, <3>1, <3>3, <4>1 DEF HandlersKeep
      <4> QED BY <1>b, <2>1, <4>2, SameFollows, KeepsTracked
    <3> QED BY <3>2, <3>3
  <2> QED BY <1>6, <2>2, <2>3 DEF HandlerLists
<1>7. ASSUME NEW h \in Handlers, HandlerApplies(h) PROVE Goal
  <2> DEFINE q == handler[h].obj
  <2>1. /\ Before /\ offers' = offers /\ notified' = notified /\ main' = main
        /\ handler[h].pc = "listed" /\ q \in Obj /\ handler[h].list \in Lists
        /\ Register(q, handler[h].list)
    BY <1>0, <1>7 DEF HandlerApplies, Overlaps, env, Open
  <2>2. handler'[h].pc = "route" /\ \A g \in Handlers \ {h} : handler'[g] = handler[g]
    BY <1>0, <1>7 DEF HandlerApplies
  <2>3. CASE NameOf(q) # NameOf(o)
    <3>1. HandlersKeep(o)
      BY <2>1, <2>2, <2>3 DEF HandlersKeep
    <3>2. Follows(o) => Follows(o)'
      BY <1>0, <2>1, <2>3, RegisterFollows
    <3> QED BY <1>b, <2>1, <3>1, <3>2, KeepsTracked
  <2>4. CASE NameOf(q) = NameOf(o)
    <3>1. /\ ~HandlerHas(NameOf(o), {"listed"}, h) /\ ~MainHas(NameOf(o))
      BY <1>7, <2>4 DEF HandlerApplies, Overlaps
    <3>2. /\ \A g \in Handlers \ {h} : handler[g].pc = "listed" => handler[g].obj # o
          /\ o \notin DOMAIN main.lists /\ ~(Detaching /\ NameOf(main.cur) = NameOf(o))
      BY <3>1 DEF HandlerHas, MainHas, Detaching
    <3>3. q = o
      <4>1. q \in upstreams
        BY <2>1, <2>4 DEF Held
      <4> QED BY <2>1, <2>4, <4>1 DEF Plan
    <3>4. CASE handler[h].list = offers[o]
      <4>1. Follows(o)'
        BY <1>0, <2>1, <3>3, <3>4, RegisterFollows
      <4>2. Unheld(o)'
        BY <2>1, <2>2, <3>2 DEF Unheld
      <4> QED BY <4>1, <4>2
    <3>5. CASE handler[h].list # offers[o]
      <4>1. Pending(o)
        BY <2>1, <3>3 DEF Following, Tracked, Unheld
      <4>2. \A g \in Handlers :
              ~(handler[g].pc = "listed" /\ handler[g].obj = o /\ handler[g].list = offers[o])
        BY <3>2, <3>5
      <4>3. \/ o \in notified
            \/ \E g \in Handlers : handler[g].pc = "begin" /\ NameOf(g[1]) = NameOf(o)
            \/ main.pc = "list" /\ main.cur = o
        BY <3>2, <4>1, <4>2 DEF Pending
      <4>4. (\E g \in Handlers : handler[g].pc = "begin" /\ NameOf(g[1]) = NameOf(o))
              => \E g \in Handlers : handler'[g].pc = "begin" /\ NameOf(g[1]) = NameOf(o)
        BY <2>1, <2>2
      <4> QED BY <2>1, <4>3, <4>4 DEF Pending
    <3> QED BY <3>4, <3>5
  <2> QED BY <2>3, <2>4
<1>8. ASSUME NEW h \in Handlers, HandlerRoutes(h) PROVE Goal
  <2>1. /\ Before /\ offers' = offers /\ notified' = notified /\ main' = main /\ reg' = reg
        /\ collided' = collided /\ handler[h].pc = "route"
    BY <1>8 DEF HandlerRoutes, env, history, Open
  <2>2. handler'[h].pc = "idle" /\ \A g \in Handlers \ {h} : handler'[g] = handler[g]
    BY <1>0, <1>8 DEF HandlerRoutes, Idle
  <2>3. HandlersKeep(o)
    BY <2>1, <2>2 DEF HandlersKeep
  <2> QED BY <1>b, <2>1, <2>3, SameFollows, KeepsTracked
\* Build.
<1>9. ASSUME NEW p \in Obj, BuildLists(p) PROVE Goal
  <2>1. /\ main.pc = "build" /\ UNCHANGED <<reg, upstreams, offers, notified, handler>>
        /\ UNCHANGED <<overlapped, missed, collided>>
    BY <1>9 DEF BuildLists, history
  <2>2. CASE p = o
    <3>1. conn' = [conn EXCEPT ![p] = "up"] /\ p \in Obj
      BY <1>0, <1>9, <2>2 DEF BuildLists
    <3>2. main' = [main EXCEPT !.todo = @ \ {p},
                    !.lists = [r \in DOMAIN @ \cup {p} |-> IF r = p THEN offers[p] ELSE @[r]]]
      BY <1>0, <1>9, <2>2, <3>1 DEF BuildLists
    <3>3. o \in DOMAIN main'.lists /\ main'.lists[o] = offers[o]
      BY <1>0, <2>2, <3>2
    <3> QED BY <2>1, <3>3 DEF Pending
  <2>3. CASE p # o
    <3>1. Before
      BY <1>0, <1>9, <2>1, <2>3 DEF BuildLists, Open
    <3>2. /\ main'.pc = "build" /\ (o \in DOMAIN main'.lists <=> o \in DOMAIN main.lists)
          /\ o \in DOMAIN main.lists => main'.lists[o] = main.lists[o]
      <4>1. CASE main' = [main EXCEPT !.todo = @ \ {p}]
        BY <1>0, <2>1, <4>1
      <4>2. CASE main' = [main EXCEPT !.todo = @ \ {p},
                    !.lists = [r \in DOMAIN @ \cup {p} |-> IF r = p THEN offers[p] ELSE @[r]]]
        <5>1. /\ main'.pc = "build"
              /\ main'.lists = [r \in DOMAIN main.lists \cup {p} |->
                                  IF r = p THEN offers[p] ELSE main.lists[r]]
          BY <1>0, <2>1, <4>2
        <5> QED BY <2>3, <5>1
      <4> QED BY <1>9, <4>1, <4>2 DEF BuildLists
    <3>3. MainKeeps(o)
      BY <2>1, <3>2 DEF MainKeeps, Detaching
    <3> QED BY <1>a, <2>1, <3>1, <3>3, SameFollows, KeepsTracked
  <2> QED BY <2>2, <2>3
<1>10. CASE BuildChecks
  <2>1. /\ main.pc = "build" /\ main' = [main EXCEPT !.pc = "register"]
        /\ UNCHANGED <<reg, upstreams, conn, offers, notified, handler, overlapped, missed, collided>>
    BY <1>10 DEF BuildChecks, CloseGateway, NoMain, Open, env, history
  <2>2. Before /\ MainKeeps(o)
    BY <1>0, <2>1 DEF MainKeeps, Detaching, Open
  <2> QED BY <1>a, <2>1, <2>2, SameFollows, KeepsTracked
\* A list that Build or a reload applies: current, or followed by a newer one.
<1>11. ASSUME NEW p \in DOMAIN main.lists, p \in upstreams, main.pc \in {"register", "sync"},
              Register(p, main.lists[p]), Overlaps(NameOf(p), HandlerHas(NameOf(p), {"listed"}, None)),
              UNCHANGED <<upstreams, conn, offers, notified, handler, missed>>,
              DOMAIN main'.lists = DOMAIN main.lists \ {p}, main'.pc \in {"register", "attach"},
              \A r \in DOMAIN main'.lists : main'.lists[r] = main.lists[r]
       PROVE  Goal
  <2>1. Before /\ main.lists[p] \in Lists /\ p \in Obj /\ o \in Obj
    BY <1>0, <1>11, HeldListsFacts DEF Overlaps, Open
  <2>2. CASE p # o
    <3>1. NameOf(p) # NameOf(o)
      BY <1>11, <2>1, <2>2 DEF Plan
    <3>2. Follows(o) => Follows(o)'
      BY <1>11, <2>1, <3>1, RegisterFollows
    <3>3. MainKeeps(o)
      BY <1>11, <2>2 DEF MainKeeps, Detaching
    <3> QED BY <1>11, <1>a, <2>1, <3>2, <3>3, KeepsTracked
  <2>3. CASE p = o
    <3>1. \A g \in Handlers : handler[g].pc = "listed" => handler[g].obj # o
      BY <1>11, <2>3, NoneIsNoHandler DEF Overlaps, HandlerHas, Handlers
    <3>2. CASE main.lists[o] = offers[o]
      <4>1. Follows(o)'
        BY <1>11, <2>1, <2>3, <3>2, RegisterFollows
      <4>2. Unheld(o)'
        BY <1>11, <2>3, <3>1 DEF Unheld
      <4> QED BY <4>1, <4>2
    <3>3. CASE main.lists[o] # offers[o]
      <4>1. Pending(o)
        BY <1>11, <2>1, <2>3 DEF Following, Tracked, Unheld
      <4>2. \/ o \in notified
            \/ \E h \in Handlers : handler[h].pc = "begin" /\ NameOf(h[1]) = NameOf(o)
        BY <1>11, <3>1, <3>3, <4>1 DEF Pending, Detaching
      <4> QED BY <1>11, <4>2 DEF Pending
    <3> QED BY <3>2, <3>3
  <2> QED BY <2>2, <2>3
<1>12. ASSUME NEW p \in Obj, BuildRegisters(p) PROVE Goal
  <2>1. /\ main' = [main EXCEPT !.lists = [r \in DOMAIN @ \ {p} |-> @[r]]]
        /\ main.pc = "register" /\ p \in DOMAIN main.lists /\ p \in upstreams
        /\ Register(p, main.lists[p]) /\ Overlaps(NameOf(p), HandlerHas(NameOf(p), {"listed"}, None))
        /\ UNCHANGED <<upstreams, conn, offers, notified, handler, missed>>
    BY <1>12 DEF BuildRegisters, env, Plan
  <2>2. /\ DOMAIN main'.lists = DOMAIN main.lists \ {p} /\ main'.pc = "register"
        /\ \A r \in DOMAIN main'.lists : main'.lists[r] = main.lists[r]
    BY <1>0, <2>1
  <2> QED BY <1>11, <2>1, <2>2
<1>13. CASE AttachRegisters
  <2>1. /\ main' = [main EXCEPT !.pc = "attach", !.cur = None, !.lists = NoLists]
        /\ main.pc = "sync" /\ DOMAIN main.lists = {main.cur} /\ main.cur \in upstreams
        /\ Register(main.cur, main.lists[main.cur])
        /\ Overlaps(NameOf(main.cur), HandlerHas(NameOf(main.cur), {"listed"}, None))
        /\ UNCHANGED <<upstreams, conn, offers, notified, handler, missed>>
    BY <1>13 DEF AttachRegisters, env, Plan
  <2>2. /\ DOMAIN main'.lists = DOMAIN main.lists \ {main.cur} /\ main'.pc = "attach"
        /\ \A r \in DOMAIN main'.lists : main'.lists[r] = main.lists[r]
    BY <1>0, <2>1, HeldListsFacts
  <2> QED BY <1>11, <2>1, <2>2
\* The reloads.
<1>14. CASE BuildDone \/ ReloadBegins \/ ReloadDone
  <2>1. /\ main.pc \in {"register", "idle", "attach"} /\ DOMAIN main.lists = {}
        /\ UNCHANGED <<reg, upstreams, conn, offers, notified, handler, overlapped, missed, collided>>
    BY <1>14 DEF BuildDone, ReloadBegins, ReloadDone, env, history, Plan
  <2>2. main'.lists = NoLists
    <3>1. CASE BuildDone \/ ReloadDone
      BY <3>1 DEF BuildDone, ReloadDone, NoMain
    <3>2. CASE ReloadBegins
      BY <3>2 DEF ReloadBegins, NoMain
    <3> QED BY <1>14, <3>1, <3>2
  <2>3. Before /\ MainKeeps(o)
    BY <2>1, <2>2, HeldListsFacts DEF MainKeeps, Detaching, Open
  <2> QED BY <1>a, <2>1, <2>3, SameFollows, KeepsTracked
<1>15. ASSUME NEW p \in Obj, DetachClears(p) PROVE Goal
  <2>1. /\ main.pc = "detach" /\ main'.pc = "unroute" /\ main'.cur = p /\ main'.lists = main.lists
        /\ UNCHANGED <<upstreams, conn, offers, notified, handler, missed>>
        /\ overlapped \subseteq overlapped' /\ Register(p, Empty) /\ Empty \in Lists
    BY <1>0, <1>15 DEF DetachClears, Overlaps, env, Empty, Lists
  <2>2. CASE NameOf(p) = NameOf(o)
    BY <2>1, <2>2 DEF Pending, Detaching
  <2>3. CASE NameOf(p) # NameOf(o)
    <3>1. Before /\ MainKeeps(o) /\ o \in Obj
      BY <1>0, <2>1, <2>3 DEF MainKeeps, Detaching, Open
    <3>2. Follows(o) => Follows(o)'
      BY <2>1, <2>3, <3>1, RegisterFollows
    <3> QED BY <1>a, <2>1, <3>1, <3>2, KeepsTracked
  <2> QED BY <2>2, <2>3
<1>16. CASE DetachUnroutes
  <2>1. /\ main.pc = "unroute" /\ main'.pc = "forget" /\ main'.cur = main.cur /\ main'.lists = main.lists
        /\ UNCHANGED <<reg, upstreams, conn, offers, notified, handler, overlapped, missed, collided>>
    BY <1>0, <1>16 DEF DetachUnroutes, env, history
  <2>2. Before /\ MainKeeps(o)
    BY <2>1 DEF MainKeeps, Detaching, Open
  <2> QED BY <1>a, <2>1, <2>2, SameFollows, KeepsTracked
<1>17. CASE DetachForgets
  <2>1. /\ main.pc = "forget" /\ main'.pc = "detach" /\ main'.lists = main.lists
        /\ upstreams' = upstreams \ {main.cur} /\ overlapped \subseteq overlapped'
        /\ UNCHANGED <<reg, conn, offers, notified, handler, missed, collided>>
    BY <1>0, <1>17 DEF DetachForgets, Overlaps, env
  <2>2. NameOf(o) # NameOf(main.cur)
    BY <2>1 DEF Plan, Detaching
  <2>3. Before /\ MainKeeps(o)
    BY <2>1, <2>2 DEF MainKeeps, Detaching, Open
  <2> QED BY <1>a, <2>1, <2>3, SameFollows, KeepsTracked
<1>18. CASE ClosesDetached
  <2>1. /\ main.pc = "detach" /\ main'.pc = "attach" /\ main'.lists = main.lists
        /\ UNCHANGED <<reg, upstreams, offers, handler, overlapped, missed, collided>>
    BY <1>0, <1>18 DEF ClosesDetached, history
  <2>2. o \notin main.gone /\ conn[o] = "up" /\ (o \in notified => o \in notified')
    BY <1>0, <1>18, <2>1 DEF ClosesDetached
  <2>3. Before /\ MainKeeps(o)
    BY <2>1, <2>2 DEF MainKeeps, Detaching, Open
  <2> QED BY <1>a, <2>1, <2>2, <2>3, SameFollows, KeepsTracked
<1>19. ASSUME NEW p \in Obj, AttachConnects(p) PROVE Goal
  <2>1. /\ main.pc = "attach" /\ main'.lists = main.lists /\ upstreams' = upstreams \cup {p}
        /\ UNCHANGED <<reg, offers, notified, handler, overlapped, missed, collided>>
    BY <1>0, <1>19 DEF AttachConnects, history
  <2>2. CASE p = o
    <3>1. conn' # [conn EXCEPT ![p] = "down"]
      BY <1>0, <2>2
    <3>2. main'.pc = "list" /\ main'.cur = o
      BY <1>0, <1>19, <2>2, <3>1 DEF AttachConnects
    <3> QED BY <3>2 DEF Pending
  <2>3. CASE p # o
    <3>1. Before
      BY <1>0, <1>19, <2>1, <2>3 DEF AttachConnects, Open
    <3>2. MainKeeps(o)
      BY <2>1 DEF MainKeeps, Detaching
    <3> QED BY <1>a, <2>1, <3>1, <3>2, SameFollows, KeepsTracked
  <2> QED BY <2>2, <2>3
<1>20. CASE AttachLists
  <2>1. /\ main.pc = "list" /\ DOMAIN main.lists = {} /\ main.cur \in Obj
        /\ UNCHANGED <<reg, upstreams, conn, offers, notified, handler, overlapped, collided>>
        /\ missed \subseteq missed'
    BY <1>0, <1>20 DEF AttachLists, env, Plan
  <2>2. Before
    BY <2>1 DEF Open
  <2>3. CASE main' = [main EXCEPT !.pc = "sync", !.lists = [p \in {main.cur} |-> offers[p]]]
    <3>1. main'.pc = "sync" /\ DOMAIN main'.lists = {main.cur} /\ main'.lists[main.cur] = offers[main.cur]
      BY <1>0, <2>3
    <3>2. CASE main.cur = o
      BY <2>1, <3>1, <3>2 DEF Pending
    <3>3. CASE main.cur # o
      <4>1. MainKeeps(o)
        BY <2>1, <3>1, <3>3 DEF MainKeeps, Detaching
      <4> QED BY <1>a, <2>1, <2>2, <4>1, SameFollows, KeepsTracked
    <3> QED BY <3>2, <3>3
  <2>4. CASE /\ main' = [main EXCEPT !.pc = "attach", !.cur = None]
             /\ missed' = IF conn[main.cur] = "up" THEN missed \cup {NameOf(main.cur)} ELSE missed
    <3>1. main.cur # o
      BY <2>2, <2>4
    <3>2. main'.pc = "attach" /\ main'.lists = main.lists
      BY <1>0, <2>4
    <3>3. MainKeeps(o)
      BY <2>1, <3>1, <3>2 DEF MainKeeps, Detaching
    <3> QED BY <1>a, <2>1, <2>2, <3>3, SameFollows, KeepsTracked
  <2> QED BY <1>20, <2>3, <2>4 DEF AttachLists
<1>21. CASE Shutdown
  BY <1>21 DEF Shutdown, CloseGateway, NoMain, Open
<1>22. CASE UNCHANGED vars
  <2>1. Before
    BY <1>22 DEF vars, env, history, Open
  <2> QED BY <1>22, <1>a, <1>b, <2>1, SameFollows, KeepsTracked DEF vars, env, history
<1>23. CASE Next
  <2>1. CASE \E p \in Obj : OffersChange(p) \/ SessionDrops(p) \/ Reconnects(p) \/ Notified(p)
    BY <2>1, <1>2, <1>3, <1>4, <1>5
  <2>2. CASE \E h \in Handlers : Handle(h)
    BY <2>2, <1>6, <1>7, <1>8 DEF Handle
  <2>3. CASE Build
    BY <2>3, <1>9, <1>10, <1>12, <1>14 DEF Build
  <2>4. CASE Reload
    BY <2>4, <1>13, <1>14, <1>15, <1>16, <1>17, <1>18, <1>19, <1>20 DEF Reload
  <2> QED BY <1>21, <1>23, <2>1, <2>2, <2>3, <2>4 DEF Next
<1> QED BY <1>22, <1>23

-----------------------------------------------------------------------------
(* The theorems.                                                           *)

AttachInv == Plan /\ Held /\ Clearing /\ Served /\ RoutesLead /\ Following

\* The strengthening holds in every reachable state.
LEMMA AttachInvariant == Spec => [](TypeOK /\ RegistryConsistent /\ AttachInv)
<1>1. Init => AttachInv
  <2> SUFFICES ASSUME Init PROVE AttachInv
    OBVIOUS
  <2>1. Plan
    BY PlanInit
  <2>2. Held /\ Clearing
    BY DEF Init, Held, Clearing, Detaching, Idle, NoMain
  <2>3. Served /\ RoutesLead
    BY DEF Init, Served, RoutesLead, EmptyRegistry
  <2>4. Following
    <3>1. \A o \in upstreams : conn[o] # "up"
      BY DEF Init, First
    <3> QED BY <3>1 DEF Following, Tracked
  <2> QED BY <2>1, <2>2, <2>3, <2>4 DEF AttachInv
<1>2. TypeOK /\ RegistryConsistent /\ AttachInv /\ [Next]_vars => AttachInv'
  BY PlanStep, HeldStep, ClearingStep, ServedStep, RoutesStep, FollowStep DEF AttachInv
<1> QED BY <1>1, <1>2, RegistryStaysConsistent, PTL DEF Spec

\* Once everything has settled, whatever the order in which Build, handlers and
\* reloads interleaved, every handler on the server calls an attached upstream
\* and every route leads to one, unless synchronisations of it overlapped.
THEOREM ServerCallsAttached == Spec => []ServesAttached
<1>1. TypeOK /\ RegistryConsistent /\ AttachInv => ServesAttached
  <2> SUFFICES ASSUME TypeOK, RegistryConsistent, AttachInv, Settled
               PROVE  /\ \A x \in Tools : reg.server[x] # None /\ reg.owner[x] \notin overlapped
                                            => reg.server[x] \in upstreams
                      /\ \A n \in UpNames \ overlapped : routes[n] # None => routes[n] \in upstreams
    BY DEF ServesAttached
  <2>1. \A x \in Tools : reg.server[x] # None => NameOf(reg.server[x]) = reg.owner[x]
    BY DEF RegistryConsistent, Open, Settled, Consistent
  <2> QED BY <2>1 DEF AttachInv, Served, RoutesLead
<1> QED BY <1>1, AttachInvariant, PTL

\* Once everything has settled, what is registered for a connected upstream is
\* what it offers now, however lists, notifications, reconnects and reloads were
\* ordered, unless synchronisations of it overlapped or a listing failed.
THEOREM RegistryFollowsOffers == Spec => []FollowsOffers
<1>1. TypeOK /\ AttachInv => FollowsOffers
  <2> SUFFICES ASSUME TypeOK, AttachInv, Settled, NEW o \in upstreams, NEW x \in Tools,
                      conn[o] = "up", NameOf(o) \notin overlapped \cup missed
               PROVE  /\ reg.owner[x] = NameOf(o) => reg.registered[x] = offers[o][x]
                      /\ offers[o][x] # None => reg.owner[x] # None \/ x \in collided
    BY DEF FollowsOffers
  <2>1. NameOf(o) # None
    BY NameOfObj, RegistryAssumption DEF TypeOK, WorldType
  <2>2. ~Pending(o)
    <3>1. DOMAIN main.lists = {} /\ main.pc = "idle"
      BY DEF AttachInv, Plan, Settled
    <3> QED BY <3>1 DEF Pending, Settled, Detaching
  <2>3. Follows(o)
    BY <2>2 DEF AttachInv, Following, Tracked, Open, Settled
  <2> QED BY <2>1, <2>3 DEF Follows
<1> QED BY <1>1, AttachInvariant, PTL
=============================================================================
