-------------------------------- MODULE Access --------------------------------
(***************************************************************************)
(* Who sees and calls which tool: the tokens of OAuth, the scope and lazy  *)
(* middlewares of the gateway, its search and describe tools, and the      *)
(* registry they all look names up in while a reload changes it.           *)
(*                                                                         *)
(* A request of a client takes several steps, each of which reads the      *)
(* registry or the list of upstreams anew.  A final name is <<prefix, raw  *)
(* name>>.  The registry is that of Registry, with one definition.         *)
(***************************************************************************)
EXTENDS OAuth, FiniteSets

CONSTANTS
  Ups,        \* upstream names
  Raws,       \* names their tools have
  Offers,     \* what each upstream lists
  Prefix,     \* tools.prefix of each, "" for none
  Lazy,       \* those with tools.lazy
  Matches,    \* Matches[u]: raw names the patterns of its one named scope match
  Reserved,   \* names of the gateway's own tools, when discovery is on
  Calls,      \* requests of clients
  MaxReloads

ASSUME AccessAssumption ==
  None \notin Ups /\ None # "tool" /\ None \notin Ups \X {1} /\ Lazy \subseteq Ups

VARIABLES
  reg,        \* the registry
  upstreams,  \* g.upstreams
  reload,     \* Reload: which upstream it detaches or attaches, and how far it is
  reloads,    \* reloads so far
  call        \* the requests

toolVars == <<reg, upstreams, reload, reloads>>
vars == <<oauthVars, toolVars, call>>

Finals == {Prefix[u] : u \in Ups} \X Raws
FinalName(u, raw) == <<Prefix[u], raw>>   \* NamespaceName
RawName(final) == final[2]                \* strings.TrimPrefix
Base(u) == <<"mcp", u>>                   \* upstreamScope
Sub(u) == <<"mcp", u, "named">>           \* upstreamSubScope

R == INSTANCE Registry WITH
       UpNames <- Ups, Obj <- Ups \X {1}, Tools <- Finals, Defs <- {"tool"}

\* The gateway's own tools have no prefix.
ReservedTool(final) == final[1] = "" /\ final[2] \in Reserved

\* The list registerUpstreamTools is left with after its filter.
ListOf(u) ==
  [f \in Finals |-> IF /\ f[1] = Prefix[u] /\ f[2] \in Offers[u] /\ ~ReservedTool(f)
                    THEN "tool" ELSE None]

NoCall == [pc |-> "idle", scoped |-> FALSE, scopes |-> {}, name |-> None, moved |-> FALSE, seen |-> {}]
NoReload == [pc |-> "idle", up |-> None]

Init ==
  /\ OAuthInit
  /\ reg = R!EmptyRegistry /\ upstreams = {}
  /\ reload = NoReload /\ reloads = 0
  /\ call = [q \in Calls |-> NoCall]

-----------------------------------------------------------------------------
(* Reload.  Build registers the first upstreams the same way.              *)

ReloadBegins ==
  /\ reload.pc = "idle" /\ reloads < MaxReloads
  /\ reloads' = reloads + 1
  /\ \E u \in Ups : reload' = [pc |-> IF u \in upstreams THEN "unregister" ELSE "add", up |-> u]
  /\ UNCHANGED <<oauthVars, reg, upstreams, call>>

\* History: calls whose name has another owner now than when they were checked.
NoteMoved ==
  call' = [q \in Calls |-> IF call[q].pc = "checked" /\ reg'.owner[call[q].name] # reg.owner[call[q].name]
                           THEN [call[q] EXCEPT !.moved = TRUE] ELSE call[q]]

\* detachUpstream: the registry first, then g.upstreams.
Unregister ==
  /\ reload.pc = "unregister"
  /\ reg' = R!ToolSync(reg, <<reload.up, 1>>, R!Empty) /\ NoteMoved
  /\ reload' = [reload EXCEPT !.pc = "remove"]
  /\ UNCHANGED <<oauthVars, upstreams, reloads>>

Remove ==
  /\ reload.pc = "remove"
  /\ upstreams' = upstreams \ {reload.up}
  /\ reload' = NoReload
  /\ UNCHANGED <<oauthVars, reg, reloads, call>>

\* attachUpstream: g.upstreams first, then the registry.
Add ==
  /\ reload.pc = "add"
  /\ upstreams' = upstreams \cup {reload.up}
  /\ reload' = [reload EXCEPT !.pc = "register"]
  /\ UNCHANGED <<oauthVars, reg, reloads, call>>

Register ==
  /\ reload.pc = "register"
  /\ reg' = R!ToolSync(reg, <<reload.up, 1>>, ListOf(reload.up)) /\ NoteMoved
  /\ reload' = NoReload
  /\ UNCHANGED <<oauthVars, upstreams, reloads>>

-----------------------------------------------------------------------------
(* What the middlewares decide.                                            *)

\* resolveToolOwner on the aggregate server: None without an owner that is
\* still attached.  The code reads the registry, and then looks the owner's name up
\* in g.upstreams.  A reload between the two adds one outcome to that of both at
\* once, the refusal of a name whose owner has been detached since: an owner is in
\* g.upstreams before it gets the name and until after it has lost it.
ResolveToolOwner(final) ==
  IF reg.owner[final] \in upstreams THEN reg.owner[final] ELSE None

ScopeAllowsTool(scopes, u, raw) ==
  Base(u) \in scopes \/ (Sub(u) \in scopes /\ raw \in Matches[u])

OwnerAllows(scopes, final) ==
  LET u == ResolveToolOwner(final) IN u # None /\ ScopeAllowsTool(scopes, u, RawName(final))

\* Mutant: the gateway's own tools are told by their raw names.
MayCallRaw(scoped, scopes, final) ==
  ~scoped \/ RawName(final) \in Reserved \/ OwnerAllows(scopes, final)

\* scopeMiddleware, tools/call and tools/list; with no TokenInfo all passes.
MayCall(scoped, scopes, final) == ~scoped \/ ReservedTool(final) \/ OwnerAllows(scopes, final)

\* lazyMiddleware around it.
ListFilter(scoped, scopes, final) ==
  /\ MayCall(scoped, scopes, final)
  /\ ~(ResolveToolOwner(final) \in Lazy)

\* Mutant: search and describe do not look at the caller's scopes.
VisibleToAll(scoped, scopes) ==
  {f \in Finals : reg.registered[f] # None /\ ResolveToolOwner(f) # None}

\* visibleTools, which drops names without an owner for everyone.
Visible(scoped, scopes) ==
  {f \in Finals : /\ reg.registered[f] # None
                  /\ ResolveToolOwner(f) # None
                  /\ scoped => OwnerAllows(scopes, f)}

\* scopeMiddleware of a route server, which has neither prefix nor own tools.
RouteMayCall(u, scoped, scopes, raw) == ~scoped \/ ScopeAllowsTool(scopes, u, raw)

-----------------------------------------------------------------------------
(* A request of a client.                                                  *)

\* Middleware: the static secret is unrestricted; otherwise the bearer token,
\* whose TokenInfo goes with the request.
Static(q) ==
  /\ call[q].pc = "idle"
  /\ call' = [call EXCEPT ![q].pc = "authenticated"]
  /\ UNCHANGED <<oauthVars, toolVars>>

Bearer(q, r) ==
  /\ call[q].pc = "idle" /\ request[r].pc = "issued"
  /\ VerifyAccessToken(r)
  /\ call' = [call EXCEPT ![q] = IF Accepted(r)
       THEN [NoCall EXCEPT !.pc = "authenticated", !.scoped = TRUE, !.scopes = tokens[r].scopes]
       ELSE [NoCall EXCEPT !.pc = "unauthorized"]]
  /\ UNCHANGED toolVars

\* tools/call: the check.
CallChecked(q) ==
  /\ call[q].pc = "authenticated"
  /\ \E f \in Finals :
       call' = [call EXCEPT ![q] = [@ EXCEPT
         !.name = f,
         !.pc = IF MayCall(call[q].scoped, call[q].scopes, f) THEN "checked" ELSE "refused"]]
  /\ UNCHANGED <<oauthVars, toolVars>>

\* Then the server dispatches the name to the handler it has now.
CallDispatched(q) ==
  /\ call[q].pc = "checked"
  /\ LET h == reg.server[call[q].name] IN
       call' = [call EXCEPT ![q] = [@ EXCEPT
         !.pc = IF h = None THEN "unknown" ELSE "sent",
         !.seen = IF h = None THEN {} ELSE {R!NameOf(h)}]]
  /\ UNCHANGED <<oauthVars, toolVars>>

\* search_tools: visibleTools, and later the owner of each of them again, of
\* which the code reads the configuration.
SearchLooks(q) ==
  /\ call[q].pc = "authenticated" /\ Reserved # {}
  /\ call' = [call EXCEPT ![q] = [@ EXCEPT
       !.pc = "matching", !.seen = Visible(call[q].scoped, call[q].scopes)]]
  /\ UNCHANGED <<oauthVars, toolVars>>

SearchAnswers(q) ==
  /\ call[q].pc = "matching"
  /\ call' = [call EXCEPT ![q].pc =
       IF \E f \in call[q].seen : ResolveToolOwner(f) = None THEN "panicked" ELSE "answered"]
  /\ UNCHANGED <<oauthVars, toolVars>>

Calling(q) ==
  \/ Static(q) \/ (\E r \in Requests : Bearer(q, r))
  \/ CallChecked(q) \/ CallDispatched(q) \/ SearchLooks(q) \/ SearchAnswers(q)
Reloading == ReloadBegins \/ Unregister \/ Remove \/ Add \/ Register

Next ==
  \/ OAuthNext /\ UNCHANGED <<toolVars, call>>
  \/ Reloading
  \/ \E q \in Calls : Calling(q)

Spec == Init /\ [][Next]_vars

-----------------------------------------------------------------------------
(* Properties.                                                             *)

\* Scope sets a client can hold.
ScopeSets == Asked \cup {Offered}

\* What is listed, what search and describe know and what may be called is one
\* set, whoever asks and however far a reload is: a tool that may be called is
\* listed, or hidden because it is lazy and then found by search; search and
\* describe know no tool that may not be called; and the route of an upstream
\* admits the names the aggregate server admits of it.
ViewsAgree ==
  \A scoped \in BOOLEAN, scopes \in ScopeSets :
    LET served == {f \in Finals : reg.server[f] # None}
        listed == {f \in served : ListFilter(scoped, scopes, f)}
    IN  /\ {f \in served : MayCall(scoped, scopes, f)} = listed \cup Visible(scoped, scopes)
        /\ \A f \in Visible(scoped, scopes) \ listed : reg.owner[f] \in Lazy
        /\ \A f \in served : LET u == ResolveToolOwner(f) IN
             f \in Visible(scoped, scopes) <=> u # None /\ RouteMayCall(u, scoped, scopes, RawName(f))

\* A scoped call reaches an upstream its scopes permit the tool of, unless the
\* name changed hands between the check and the dispatch: neither a prefix nor a
\* name like one of the gateway's own lets a call past the check.
ScopedCallsStayInScope ==
  \A q \in Calls : call[q].pc = "sent" /\ call[q].scoped /\ ~call[q].moved =>
    \A u \in call[q].seen : ScopeAllowsTool(call[q].scopes, u, RawName(call[q].name))

\* Downstream clients keep their sessions through a reload: no request makes the
\* gateway read an upstream that is no longer there.
SurvivesReload == \A q \in Calls : call[q].pc # "panicked"
=============================================================================
