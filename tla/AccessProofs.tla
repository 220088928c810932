---------------------------- MODULE AccessProofs ----------------------------
(***************************************************************************)
(* Theorems about Access: the codes and tokens of OAuth, for any consents, *)
(* requests, redirects, scopes and lifetimes; what the middlewares and the *)
(* search decide, and where calls go, for any upstreams, prefixes, tools   *)
(* and named scopes.                                                       *)
(***************************************************************************)
EXTENDS Access, TLAPS

\* Requests that have found their code in the map.
Taken(r) == request[r].pc \in {"taken", "issued", "failed"}

Asking == [pc : {"idle", "refused", "taken", "issued", "failed"}, code : Consents \cup {None},
           uri : URIs \cup {None}, verifier : Verifiers, client : BOOLEAN]

OAuthType ==
  /\ now \in Nat
  /\ codes \in [Consents -> Grants \cup {None}] /\ granted \in [Consents -> Grants \cup {None}]
  /\ DOMAIN tokens = Requests /\ request \in [Requests -> Asking]
  /\ \A r \in Requests : request[r].pc # "idle" => request[r].code \in Consents

\* A code that is in the map was granted, and nobody has taken it; what was taken
\* was granted and is in the map no more.
CodeShape ==
  /\ \A c \in Consents : codes[c] # None => granted[c] = codes[c]
  /\ \A r \in Requests : Taken(r) => granted[request[r].code] # None /\ codes[request[r].code] = None

\* Tokens are those of requests that passed.
TokenShape == \A r \in Requests : tokens[r] # None => request[r].pc = "issued"

IInv == OAuthType /\ CodeShape /\ TokenShape /\ OneTokenPerConsent

\* No request has come yet.
LEMMA InitIInv == Init => IInv
<1> SUFFICES ASSUME Init PROVE IInv
  OBVIOUS
<1>1. \A r \in Requests : request[r].pc = "idle" /\ tokens[r] = None
  BY DEF Init, OAuthInit, NewRequest
<1>2. NewRequest \in Asking
  BY DEF NewRequest, Asking, Verifiers
<1>3. OAuthType
  BY <1>1, <1>2 DEF Init, OAuthInit, OAuthType
<1>4. CodeShape /\ TokenShape /\ OneTokenPerConsent
  BY <1>1 DEF Init, OAuthInit, CodeShape, TokenShape, OneTokenPerConsent, Taken
<1>5. QED
  BY <1>3, <1>4 DEF IInv

\* A step that leaves requests and grants alone, and adds no token.
LEMMA QuietStep ==
  ASSUME IInv, now' \in Nat, UNCHANGED <<codes, request, granted>>, DOMAIN tokens' = Requests,
         \A r \in Requests : tokens'[r] \in {None, tokens[r]}
  PROVE  IInv'
<1>1. OAuthType'
  BY DEF IInv, OAuthType
<1>2. CodeShape' /\ TokenShape'
  BY DEF IInv, CodeShape, TokenShape, Taken
<1>3. OneTokenPerConsent'
  <2>1. \A r \in Requests : tokens'[r] # None => tokens'[r] = tokens[r]
    OBVIOUS
  <2>2. QED
    BY <2>1 DEF IInv, OneTokenPerConsent
<1>4. QED
  BY <1>1, <1>2, <1>3 DEF IInv

\* A consent puts its code in the map once.
LEMMA ConsentStep ==
  ASSUME IInv, NEW c \in Consents, HandleAuthorizePost(c)
  PROVE  IInv'
<1>1. PICK uri \in URIs, challenge \in Challenges \ {0}, method \in Methods, scope \in Asked \cup {{}} :
        codes' = [codes EXCEPT ![c] =
                   [uri |-> uri, scope |-> NormalizeScope(scope), challenge |-> challenge,
                    method |-> method, expires |-> now + CodeTTL]]
  BY DEF HandleAuthorizePost
<1> DEFINE g == [uri |-> uri, scope |-> NormalizeScope(scope), challenge |-> challenge,
                 method |-> method, expires |-> now + CodeTTL]
<1>2. NormalizeScope(scope) \in Asked \cup {Offered} /\ now + CodeTTL \in Nat
  BY OAuthAssumption DEF NormalizeScope, IInv, OAuthType
<1>3. g \in Grants /\ g # None
  BY <1>2, OAuthAssumption DEF Grants
<1> HIDE DEF g
<1>4. /\ codes' = [codes EXCEPT ![c] = g] /\ granted' = [granted EXCEPT ![c] = g] /\ granted[c] = None
      /\ UNCHANGED <<now, tokens, request>>
  BY <1>1 DEF HandleAuthorizePost, IInv, OAuthType, g
<1>5. OAuthType'
  BY <1>3, <1>4 DEF IInv, OAuthType
<1>6. \A r \in Requests : Taken(r) => request[r].code \in Consents \ {c}
  BY <1>4 DEF IInv, OAuthType, CodeShape, Taken
<1>7. CodeShape' /\ TokenShape'
  BY <1>3, <1>4, <1>6 DEF IInv, OAuthType, CodeShape, TokenShape, Taken
<1>8. OneTokenPerConsent'
  <2>1. \A r \in Requests : tokens[r] # None => granted'[request[r].code] = granted[request[r].code]
    BY <1>4, <1>6 DEF IInv, OAuthType, TokenShape, Taken
  <2>2. QED
    BY <1>4, <2>1 DEF IInv, OneTokenPerConsent
<1>9. QED
  BY <1>5, <1>7, <1>8 DEF IInv

\* A request takes its code, if nobody has.
LEMMA TakeStep ==
  ASSUME IInv, NEW r \in Requests, TakeCode(r)
  PROVE  IInv'
<1>1. PICK c \in Consents, uri \in URIs, verifier \in Verifiers, client \in BOOLEAN :
        /\ request' = [request EXCEPT ![r] =
                        [pc |-> IF codes[c] = None THEN "refused" ELSE "taken",
                         code |-> c, uri |-> uri, verifier |-> verifier, client |-> client]]
        /\ codes' = [codes EXCEPT ![c] = None]
  BY DEF TakeCode
<1>2. /\ request'[r].pc = (IF codes[c] = None THEN "refused" ELSE "taken") /\ request'[r].code = c
      /\ \A s \in Requests \ {r} : request'[s] = request[s]
      /\ DOMAIN request' = Requests /\ request[r].pc = "idle"
      /\ UNCHANGED <<now, tokens, granted>>
  BY <1>1 DEF TakeCode, IInv, OAuthType
<1>3. OAuthType'
  <2>1. request'[r] \in Asking
    BY <1>1 DEF Asking, IInv, OAuthType
  <2>2. request' \in [Requests -> Asking]
    BY <1>1, <2>1 DEF IInv, OAuthType
  <2>3. QED
    BY <1>1, <1>2, <2>2 DEF IInv, OAuthType
<1>4. \A s \in Requests \ {r} : Taken(s)' = Taken(s)
  BY <1>2 DEF Taken
<1>5. Taken(r)' => codes[c] # None
  BY <1>2 DEF Taken
<1>6. \A s \in Requests \ {r} : Taken(s) /\ codes[c] # None => request[s].code # c
  BY DEF IInv, CodeShape
<1>7. CodeShape'
  <2>1. \A d \in Consents : codes'[d] # None => granted'[d] = codes'[d]
    BY <1>1, <1>2 DEF IInv, OAuthType, CodeShape
  <2>2. Taken(r)' => granted'[c] # None /\ codes'[c] = None
    BY <1>1, <1>2, <1>5 DEF IInv, OAuthType, CodeShape
  <2>3. \A s \in Requests \ {r} : Taken(s) =>
          request[s].code \in Consents /\ granted[request[s].code] # None /\ codes'[request[s].code] = None
    BY <1>1 DEF IInv, OAuthType, CodeShape, Taken
  <2>4. QED
    BY <1>2, <1>4, <2>1, <2>2, <2>3 DEF CodeShape
<1>8. tokens[r] = None
  BY <1>2 DEF IInv, TokenShape
<1>9. TokenShape'
  BY <1>2, <1>8 DEF IInv, TokenShape
<1>10. OneTokenPerConsent'
  <2>1. \A s, t \in Requests : Taken(s)' /\ Taken(t)' /\ request'[s].code = request'[t].code => s = t
    BY <1>2, <1>4, <1>5, <1>6 DEF IInv, OneTokenPerConsent, Taken
  <2>2. \A s \in Requests : tokens[s] # None => request'[s] = request[s]
    BY <1>2, <1>8
  <2>3. QED
    BY <1>2, <2>1, <2>2 DEF IInv, OneTokenPerConsent, Taken
<1>11. QED
  BY <1>3, <1>7, <1>9, <1>10 DEF IInv

\* The request that holds a code gets its token or fails.
LEMMA TokenStep ==
  ASSUME IInv, NEW r \in Requests, ServeToken(r)
  PROVE  IInv'
<1> DEFINE stored == granted[request[r].code]
<1>1. PICK pc \in {"issued", "failed"} :
        /\ request' = [request EXCEPT ![r] = [request[r] EXCEPT !.pc = pc]]
        /\ \/ /\ Passes(request[r], stored) /\ pc = "issued"
              /\ tokens' = [tokens EXCEPT ![r] = [scopes |-> stored.scope, expires |-> now + TokenTTL]]
           \/ UNCHANGED tokens
  BY DEF ServeToken
<1>2. request[r] \in Asking /\ request[r].pc = "taken" /\ UNCHANGED <<now, codes, granted>>
  BY DEF ServeToken, IInv, OAuthType
<1>3. request'[r] = [request[r] EXCEPT !.pc = pc]
  BY <1>1 DEF IInv, OAuthType
<1>4. request'[r] \in Asking /\ request'[r].pc = pc
  BY <1>2, <1>3 DEF Asking
<1>5. /\ request'[r].code = request[r].code /\ request'[r].uri = request[r].uri
      /\ request'[r].verifier = request[r].verifier /\ request' \in [Requests -> Asking]
      /\ \A s \in Requests \ {r} : request'[s] = request[s]
  <2>1. /\ request'[r].code = request[r].code /\ request'[r].uri = request[r].uri
        /\ request'[r].verifier = request[r].verifier
    BY <1>2, <1>3 DEF Asking
  <2>2. request' \in [Requests -> Asking] /\ \A s \in Requests \ {r} : request'[s] = request[s]
    BY <1>1, <1>3, <1>4 DEF IInv, OAuthType
  <2>3. QED
    BY <2>1, <2>2
<1>6. stored \in Grants /\ request[r].code \in Consents
  BY <1>1, <1>2, <1>4 DEF IInv, OAuthType, CodeShape, Taken
<1>7. OAuthType'
  BY <1>1, <1>2, <1>4, <1>5, <1>6 DEF IInv, OAuthType
<1>8. \A s \in Requests : Taken(s)' = Taken(s) /\ request'[s].code = request[s].code
  BY <1>1, <1>2, <1>4, <1>5 DEF Taken
<1>9. CodeShape'
  BY <1>1, <1>2, <1>4, <1>8 DEF IInv, CodeShape
<1>10. tokens[r] = None
  BY <1>1, <1>2, <1>4 DEF IInv, TokenShape
<1>11. TokenShape'
  BY <1>1, <1>2, <1>4, <1>5, <1>10 DEF IInv, TokenShape, OAuthType
<1>12. \A s, t \in Requests : Taken(s)' /\ Taken(t)' /\ request'[s].code = request'[t].code => s = t
  BY <1>8 DEF IInv, OneTokenPerConsent, Taken
<1>13. ASSUME NEW s \in Requests, tokens'[s] # None
       PROVE  LET g == granted'[request'[s].code] IN
                /\ tokens'[s].scopes = g.scope /\ request'[s].uri = g.uri
                /\ tokens'[s].expires <= g.expires + TokenTTL
                /\ g.challenge \in {request'[s].verifier, Hash(request'[s].verifier)}
  <2>1. CASE s # r
    BY <1>1, <1>2, <1>4, <1>5, <1>13, <2>1 DEF IInv, OneTokenPerConsent, OAuthType
  <2>2. CASE s = r
    <3>1. Passes(request[r], stored) /\ tokens'[r] = [scopes |-> stored.scope, expires |-> now + TokenTTL]
      BY <1>1, <1>2, <1>4, <1>10, <1>13, <2>2 DEF IInv, OAuthType
    <3>2. stored.expires \in Nat /\ now \in Nat /\ TokenTTL \in Nat
      BY <1>6, OAuthAssumption DEF Grants, IInv, OAuthType
    <3>3. now <= stored.expires /\ request[r].uri = stored.uri
          /\ stored.challenge \in {request[r].verifier, Hash(request[r].verifier)}
      BY <3>1 DEF Passes, VerifyPKCE
    <3>4. QED
      BY <1>1, <1>2, <1>4, <1>5, <2>2, <3>1, <3>2, <3>3
  <2>3. QED
    BY <2>1, <2>2
<1>14. OneTokenPerConsent'
  BY <1>12, <1>13 DEF OneTokenPerConsent, Taken
<1>15. QED
  BY <1>7, <1>9, <1>11, <1>14 DEF IInv

\* However requests, calls and reloads interleave, the codes and tokens are in
\* order.
LEMMA StepIInv == ASSUME IInv, [Next]_vars PROVE IInv'
<1>1. CASE UNCHANGED oauthVars
  BY <1>1, QuietStep DEF oauthVars, IInv, OAuthType
<1>2. CASE Tick
  BY <1>2, QuietStep DEF Tick, IInv, OAuthType
<1>3. ASSUME NEW r \in Requests, VerifyAccessToken(r) PROVE IInv'
  BY <1>3, QuietStep DEF VerifyAccessToken, IInv, OAuthType
<1>4. CASE OAuthNext
  BY <1>2, <1>4, ConsentStep, TakeStep, TokenStep DEF OAuthNext
<1>5. CASE Reloading
  BY <1>1, <1>5 DEF Reloading, ReloadBegins, Unregister, Remove, Add, Register
<1>6. ASSUME NEW q \in Calls, Calling(q) PROVE IInv'
  BY <1>1, <1>3, <1>6 DEF Calling, Static, Bearer, CallChecked, CallDispatched, SearchLooks,
     SearchAnswers
<1>7. QED
  BY <1>1, <1>4, <1>5, <1>6 DEF Next, vars

\* A consent gives one token at most, to the client that holds the verifier, with
\* the scopes it granted, however requests, calls and reloads interleave.
THEOREM ConsentsGiveOneToken == Spec => []OneTokenPerConsent
<1>1. IInv /\ [Next]_vars => IInv'
  BY StepIInv
<1>2. IInv => OneTokenPerConsent
  BY DEF IInv
<1>3. QED
  BY InitIInv, <1>1, <1>2, PTL DEF Spec

-----------------------------------------------------------------------------
(* The registry while reloads change it.                                   *)

\* The maps agree, and no name of the gateway's own tools is in them.
RegInv ==
  /\ reg \in R!RegistryType
  /\ R!Consistent(reg)
  /\ \A f \in Finals : reg.owner[f] # None => ~ReservedTool(f)

ReloadType ==
  reload \in [pc : {"idle", "unregister", "remove", "add", "register"}, up : Ups \cup {None}]
ReloadShape == reload.pc # "idle" => reload.up \in Ups

\* One synchronisation of the registry.
LEMMA SyncKeeps ==
  ASSUME NEW r \in R!RegistryType, R!Consistent(r), NEW u \in Ups, NEW new \in R!Lists
  PROVE  LET s == R!ToolSync(r, <<u, 1>>, new) IN
           /\ s \in R!RegistryType /\ R!Consistent(s)
           /\ \A f \in Finals : s.owner[f] # None => r.owner[f] # None \/ new[f] # None
<1> DEFINE o == <<u, 1>>
           s == R!ToolSync(r, o, new)
<1>1. o \in Ups \X {1} /\ R!NameOf(o) = u /\ u # None /\ o # None
  BY AccessAssumption DEF R!NameOf
<1> HIDE DEF o
<1>2. /\ \A x \in Finals : r.owner[x] \in Ups \cup {None}
      /\ \A x \in Finals : new[x] \in {"tool", None}
  BY DEF R!RegistryType, R!Lists
<1>3. \A n \in Ups : r.names[n] = {x \in Finals : r.owner[x] = n}
  BY DEF R!Consistent
<1>4. s \in R!RegistryType
  BY <1>1 DEF R!ToolSync, R!Pruned, R!Installed, R!Listed, R!RegistryType, R!Lists
<1>5. \A x \in Finals :
        s.owner[x] = IF x \in R!Listed(new) /\ r.owner[x] \in {None, u} THEN u
                     ELSE IF r.owner[x] = u THEN None ELSE r.owner[x]
  BY <1>1, <1>3 DEF R!ToolSync, R!Pruned, R!Installed, R!Listed, R!RegistryType, R!Lists
<1>6. ASSUME NEW n \in Ups PROVE s.names[n] = {x \in Finals : s.owner[x] = n}
  <2>1. CASE n = u
    <3>1. s.names[n] = {x \in R!Listed(new) : s.owner[x] = n}
      BY <1>1, <2>1 DEF R!ToolSync, R!Pruned, R!RegistryType
    <3>2. \A x \in Finals : s.owner[x] = n => x \in R!Listed(new)
      BY <1>1, <1>5, <2>1
    <3>3. QED
      BY <3>1, <3>2 DEF R!Listed
  <2>2. CASE n # u
    <3>1. s.names[n] = r.names[n]
      BY <1>1, <2>2 DEF R!ToolSync, R!Pruned, R!RegistryType
    <3>2. \A x \in Finals : s.owner[x] = n <=> r.owner[x] = n
      BY <1>1, <1>2, <1>5, <2>2, AccessAssumption
    <3>3. QED
      BY <3>1, <3>2, <1>3
  <2>3. QED
    BY <2>1, <2>2
<1>7. ASSUME NEW x \in Finals
      PROVE  /\ s.owner[x] = None <=> s.registered[x] = None
             /\ s.owner[x] = None <=> s.server[x] = None
             /\ s.owner[x] # None => R!NameOf(s.server[x]) = s.owner[x]
  <2>1. /\ r.owner[x] = None <=> r.registered[x] = None
        /\ r.owner[x] = None <=> r.server[x] = None
        /\ r.owner[x] # None => R!NameOf(r.server[x]) = r.owner[x]
    BY DEF R!Consistent
  <2>2. CASE x \in R!Listed(new)
    BY <1>1, <1>2, <1>3, <2>1, <2>2 DEF R!ToolSync, R!Pruned, R!Installed, R!Listed,
       R!RegistryType, R!Lists
  <2>3. CASE x \notin R!Listed(new)
    BY <1>1, <1>2, <1>3, <2>1, <2>3 DEF R!ToolSync, R!Pruned, R!Installed, R!RegistryType
  <2>4. QED
    BY <2>2, <2>3
<1>8. R!Consistent(s)
  BY <1>6, <1>7 DEF R!Consistent
<1>9. \A f \in Finals : s.owner[f] # None => r.owner[f] # None \/ new[f] # None
  BY <1>5 DEF R!Listed
<1>10. QED
  BY <1>4, <1>8, <1>9 DEF o

\* What an upstream lists, and nothing, are lists without the gateway's own names.
LEMMA ListsAreLists ==
  /\ R!Empty \in R!Lists /\ \A f \in Finals : R!Empty[f] = None
  /\ \A u \in Ups : ListOf(u) \in R!Lists
  /\ \A u \in Ups, f \in Finals : ListOf(u)[f] # None => ~ReservedTool(f)
  BY DEF R!Empty, R!Lists, ListOf

\* A step of a reload keeps the maps in agreement and free of reserved names.
LEMMA RegistryStep ==
  ASSUME RegInv, ReloadType, ReloadShape, Unregister \/ Register
  PROVE  RegInv'
<1>1. reload.up \in Ups
  BY DEF Unregister, Register, ReloadShape
<1>2. PICK new \in R!Lists : /\ reg' = R!ToolSync(reg, <<reload.up, 1>>, new)
                             /\ \A f \in Finals : new[f] # None => ~ReservedTool(f)
  BY <1>1, ListsAreLists DEF Unregister, Register
<1>3. reg' \in R!RegistryType /\ R!Consistent(reg')
  BY <1>1, <1>2, SyncKeeps DEF RegInv
<1>4. \A f \in Finals : reg'.owner[f] # None => reg.owner[f] # None \/ new[f] # None
  BY <1>1, <1>2, SyncKeeps DEF RegInv
<1>5. R!Consistent(reg)'
  BY <1>3 DEF R!Consistent
<1>6. QED
  BY <1>2, <1>3, <1>4, <1>5 DEF RegInv, R!RegistryType, R!Lists, Finals, ReservedTool

\* Whoever asks and however far a reload is, the list, the search and the check
\* of a call are of one mind.
LEMMA ViewsOfRegistry == RegInv => ViewsAgree
<1> SUFFICES ASSUME RegInv, NEW scoped \in BOOLEAN, NEW scopes \in ScopeSets
             PROVE  LET served == {f \in Finals : reg.server[f] # None}
                        listed == {f \in served : ListFilter(scoped, scopes, f)}
                    IN  /\ {f \in served : MayCall(scoped, scopes, f)} = listed \cup Visible(scoped, scopes)
                        /\ \A f \in Visible(scoped, scopes) \ listed : reg.owner[f] \in Lazy
                        /\ \A f \in served : LET u == ResolveToolOwner(f) IN
                             f \in Visible(scoped, scopes) <=>
                               u # None /\ RouteMayCall(u, scoped, scopes, RawName(f))
  BY DEF ViewsAgree
<1> DEFINE served == {f \in Finals : reg.server[f] # None}
           listed == {f \in served : ListFilter(scoped, scopes, f)}
<1>1. \A f \in Finals : /\ reg.server[f] # None <=> reg.owner[f] # None
                        /\ reg.registered[f] # None <=> reg.owner[f] # None
  BY DEF RegInv, R!Consistent
<1>2. \A f \in served : ~ReservedTool(f)
  BY <1>1 DEF RegInv
<1>3. \A f \in Finals : ResolveToolOwner(f) # None => ResolveToolOwner(f) = reg.owner[f]
  BY DEF ResolveToolOwner
<1>4. \A f \in served : MayCall(scoped, scopes, f) <=> ~scoped \/ OwnerAllows(scopes, f)
  BY <1>2 DEF MayCall
<1>5. \A f \in Finals : f \in Visible(scoped, scopes) <=>
          f \in served /\ ResolveToolOwner(f) # None /\ (~scoped \/ OwnerAllows(scopes, f))
  BY <1>1 DEF Visible
<1>6. \A f \in served : ResolveToolOwner(f) \in Lazy => ResolveToolOwner(f) # None
  BY AccessAssumption
<1>7. \A f \in served : f \in listed <=> MayCall(scoped, scopes, f) /\ ResolveToolOwner(f) \notin Lazy
  BY DEF ListFilter
<1>8. \A f \in Visible(scoped, scopes) : f \in Finals /\ f \in served
  BY <1>5 DEF Visible
<1>9. {f \in served : MayCall(scoped, scopes, f)} = listed \cup Visible(scoped, scopes)
  <2>1. \A f \in served : MayCall(scoped, scopes, f) <=> f \in listed \/ f \in Visible(scoped, scopes)
    BY <1>4, <1>5, <1>6, <1>7
  <2>2. QED
    BY <1>8, <2>1
<1>10. \A f \in Visible(scoped, scopes) \ listed : reg.owner[f] \in Lazy
  BY <1>3, <1>4, <1>5, <1>7, <1>8
<1>11. ASSUME NEW f \in served
       PROVE  f \in Visible(scoped, scopes) <=>
                ResolveToolOwner(f) # None /\ RouteMayCall(ResolveToolOwner(f), scoped, scopes, RawName(f))
  BY <1>5, <1>11 DEF RouteMayCall, OwnerAllows
<1>12. QED
  BY <1>9, <1>10, <1>11

-----------------------------------------------------------------------------
(* The calls.                                                              *)

CallRecords ==
  [pc : {"idle", "authenticated", "unauthorized", "checked", "refused", "unknown", "sent",
         "matching", "answered", "panicked"},
   scoped : BOOLEAN, scopes : ScopeSets \cup {{}}, name : Finals \cup {None}, moved : BOOLEAN,
   seen : SUBSET (Finals \cup Ups)]
CallType == call \in [Calls -> CallRecords]

\* A call that was let through to a name that stayed with its owner is in scope
\* of that owner, or is one of the gateway's own tools.
CheckedInScope(q) ==
  call[q].pc = "checked" =>
    /\ call[q].name \in Finals
    /\ call[q].scoped /\ ~call[q].moved =>
         \/ ReservedTool(call[q].name)
         \/ ScopeAllowsTool(call[q].scopes, reg.owner[call[q].name], RawName(call[q].name))
SentInScope(q) ==
  call[q].pc = "sent" /\ call[q].scoped /\ ~call[q].moved =>
    \A u \in call[q].seen : ScopeAllowsTool(call[q].scopes, u, RawName(call[q].name))
CallShape == \A q \in Calls : CheckedInScope(q) /\ SentInScope(q)

AInv == IInv /\ RegInv /\ ReloadType /\ ReloadShape /\ CallType /\ CallShape

\* The registry starts empty and no call has been made.
LEMMA InitAInv == Init => AInv
<1> SUFFICES ASSUME Init PROVE AInv
  OBVIOUS
<1>1. RegInv
  <2>1. reg \in R!RegistryType
    BY DEF Init, R!EmptyRegistry, R!RegistryType, R!Empty, R!Lists
  <2>2. \A f \in Finals : reg.owner[f] = None /\ reg.registered[f] = None /\ reg.server[f] = None
    BY DEF Init, R!EmptyRegistry, R!Empty
  <2>3. \A n \in Ups : reg.names[n] = {}
    BY DEF Init, R!EmptyRegistry
  <2>4. R!Consistent(reg)
    BY <2>2, <2>3, AccessAssumption DEF R!Consistent
  <2>5. QED
    BY <2>1, <2>2, <2>4 DEF RegInv
<1>2. ReloadType /\ ReloadShape
  BY DEF Init, NoReload, ReloadType, ReloadShape
<1>3. CallType /\ CallShape
  BY DEF Init, NoCall, CallType, CallRecords, CallShape, CheckedInScope, SentInScope
<1>4. QED
  BY <1>1, <1>2, <1>3, InitIInv DEF AInv

\* The scopes of a token are those of its consent.
LEMMA TokenScopes ==
  ASSUME IInv, NEW r \in Requests, tokens[r] # None
  PROVE  tokens[r].scopes \in ScopeSets
<1>1. request[r].pc = "issued" /\ request[r].code \in Consents
  BY DEF IInv, TokenShape, OAuthType
<1>2. granted[request[r].code] \in Grants
  BY <1>1 DEF IInv, OAuthType, CodeShape, Taken
<1>3. QED
  BY <1>2 DEF IInv, OneTokenPerConsent, Grants, ScopeSets

\* A step of one call that leaves the registry alone.
LEMMA OneCall ==
  ASSUME CallType, CallShape, UNCHANGED reg, NEW q \in Calls, NEW c \in CallRecords,
         call' = [call EXCEPT ![q] = c],
         call'[q] = c => CheckedInScope(q)' /\ SentInScope(q)'
  PROVE  CallType' /\ CallShape'
<1>1. call'[q] = c /\ \A p \in Calls \ {q} : call'[p] = call[p]
  BY DEF CallType
<1>2. CallType'
  BY DEF CallType
<1>3. \A p \in Calls \ {q} : CheckedInScope(p)' /\ SentInScope(p)'
  BY <1>1 DEF CallShape, CheckedInScope, SentInScope
<1>4. QED
  BY <1>1, <1>2, <1>3 DEF CallShape

\* A request is checked and dispatched against the registry it finds.
LEMMA CallingStep ==
  ASSUME AInv, NEW q \in Calls, Calling(q) PROVE CallType' /\ CallShape'
<1> USE DEF AInv
<1>1. call[q] \in CallRecords /\ UNCHANGED reg
  BY DEF CallType, Calling, Static, Bearer, CallChecked, CallDispatched, SearchLooks,
     SearchAnswers, toolVars
<1>2. CASE Static(q)
  <2> DEFINE c == [call[q] EXCEPT !.pc = "authenticated"]
  <2>1. c \in CallRecords /\ c.pc = "authenticated" /\ call' = [call EXCEPT ![q] = c]
    BY <1>1, <1>2 DEF Static, CallRecords
  <2> HIDE DEF c
  <2>2. QED
    BY <1>1, <2>1, OneCall DEF CheckedInScope, SentInScope
<1>3. ASSUME NEW r \in Requests, Bearer(q, r) PROVE CallType' /\ CallShape'
  <2> DEFINE c == IF Accepted(r)
       THEN [NoCall EXCEPT !.pc = "authenticated", !.scoped = TRUE, !.scopes = tokens[r].scopes]
       ELSE [NoCall EXCEPT !.pc = "unauthorized"]
  <2>1. Accepted(r) => tokens[r].scopes \in ScopeSets
    BY TokenScopes DEF Accepted
  <2>2. c \in CallRecords /\ c.pc \in {"authenticated", "unauthorized"} /\ call' = [call EXCEPT ![q] = c]
    BY <1>3, <2>1 DEF Bearer, CallRecords, NoCall
  <2> HIDE DEF c
  <2>3. QED
    BY <1>1, <2>2, OneCall DEF CheckedInScope, SentInScope
<1>4. CASE CallChecked(q)
  <2>1. PICK f \in Finals :
          call' = [call EXCEPT ![q] = [call[q] EXCEPT
            !.name = f, !.pc = IF MayCall(call[q].scoped, call[q].scopes, f) THEN "checked" ELSE "refused"]]
    BY <1>4 DEF CallChecked
  <2> DEFINE c == [call[q] EXCEPT
            !.name = f, !.pc = IF MayCall(call[q].scoped, call[q].scopes, f) THEN "checked" ELSE "refused"]
  <2>2. /\ c \in CallRecords /\ call' = [call EXCEPT ![q] = c] /\ c.pc \in {"checked", "refused"}
        /\ c.name = f /\ c.scopes = call[q].scopes
    BY <1>1, <2>1 DEF CallRecords
  <2>3. c.pc = "checked" /\ c.scoped => ReservedTool(f) \/ ScopeAllowsTool(c.scopes, reg.owner[f], RawName(f))
    BY <1>1 DEF CallRecords, MayCall, OwnerAllows, ResolveToolOwner
  <2> HIDE DEF c
  <2>4. call'[q] = c => CheckedInScope(q)' /\ SentInScope(q)'
    BY <1>1, <2>2, <2>3 DEF CheckedInScope, SentInScope, Finals, ReservedTool, ScopeAllowsTool,
       Base, Sub, RawName
  <2>5. QED
    BY <1>1, <2>2, <2>4, OneCall
<1>5. CASE CallDispatched(q)
  <2> DEFINE h == reg.server[call[q].name]
             c == [call[q] EXCEPT !.pc = IF h = None THEN "unknown" ELSE "sent",
                                  !.seen = IF h = None THEN {} ELSE {R!NameOf(h)}]
  <2>1. call[q].pc = "checked" /\ call[q].name \in Finals
    BY <1>5 DEF CallDispatched, CallShape, CheckedInScope
  <2>2. h # None => /\ R!NameOf(h) = reg.owner[call[q].name] /\ reg.owner[call[q].name] \in Ups
                    /\ ~ReservedTool(call[q].name)
    BY <2>1 DEF RegInv, R!Consistent, R!RegistryType
  <2>3. c \in CallRecords /\ call' = [call EXCEPT ![q] = c]
    BY <1>1, <1>5, <2>2 DEF CallDispatched, CallRecords
  <2>4. /\ c.pc \in {"unknown", "sent"} /\ c.scopes = call[q].scopes /\ c.name = call[q].name
        /\ c.scoped = call[q].scoped /\ c.moved = call[q].moved
        /\ c.pc = "sent" => h # None /\ c.seen = {reg.owner[call[q].name]}
    BY <1>1, <2>2 DEF CallRecords
  <2>5. call[q].scoped /\ ~call[q].moved /\ h # None =>
          ScopeAllowsTool(call[q].scopes, reg.owner[call[q].name], RawName(call[q].name))
    BY <2>1, <2>2 DEF CallShape, CheckedInScope
  <2> HIDE DEF c, h
  <2>6. call'[q] = c => CheckedInScope(q)' /\ SentInScope(q)'
    BY <2>4, <2>5 DEF CheckedInScope, SentInScope, ScopeAllowsTool, Base, Sub, RawName
  <2>7. QED
    BY <1>1, <2>3, <2>6, OneCall
<1>6. CASE SearchLooks(q)
  <2> DEFINE c == [call[q] EXCEPT !.pc = "matching", !.seen = Visible(call[q].scoped, call[q].scopes)]
  <2>1. c \in CallRecords /\ c.pc = "matching" /\ call' = [call EXCEPT ![q] = c]
    BY <1>1, <1>6 DEF SearchLooks, CallRecords, Visible
  <2> HIDE DEF c
  <2>2. QED
    BY <1>1, <2>1, OneCall DEF CheckedInScope, SentInScope
<1>7. CASE SearchAnswers(q)
  <2> DEFINE c == [call[q] EXCEPT !.pc =
       IF \E f \in call[q].seen : ResolveToolOwner(f) = None THEN "panicked" ELSE "answered"]
  <2>1. c \in CallRecords /\ c.pc \in {"panicked", "answered"} /\ call' = [call EXCEPT ![q] = c]
    BY <1>1, <1>7 DEF SearchAnswers, CallRecords
  <2> HIDE DEF c
  <2>2. QED
    BY <1>1, <2>1, OneCall DEF CheckedInScope, SentInScope
<1>8. QED
  BY <1>2, <1>3, <1>4, <1>5, <1>6, <1>7 DEF Calling

\* A reload step between the check of a call and its dispatch: the call is noted
\* if its name changes hands.
LEMMA MovedStep ==
  ASSUME AInv, NoteMoved PROVE CallType' /\ CallShape'
<1> USE DEF AInv
<1>1. ASSUME NEW q \in Calls PROVE call'[q] \in CallRecords /\ CheckedInScope(q)' /\ SentInScope(q)'
  <2>1. call[q] \in CallRecords
    BY DEF CallType
  <2>2. CASE call[q].pc = "checked" /\ reg'.owner[call[q].name] # reg.owner[call[q].name]
    <3> DEFINE c == [call[q] EXCEPT !.moved = TRUE]
    <3>1. call'[q] = c
      BY <2>2 DEF NoteMoved
    <3>2. c \in CallRecords /\ c.pc = "checked" /\ c.moved /\ c.name = call[q].name
      BY <2>1, <2>2 DEF CallRecords
    <3>3. call[q].name \in Finals
      BY <2>2 DEF CallShape, CheckedInScope
    <3> HIDE DEF c
    <3>4. QED
      BY <3>1, <3>2, <3>3 DEF CheckedInScope, SentInScope, Finals
  <2>3. CASE ~(call[q].pc = "checked" /\ reg'.owner[call[q].name] # reg.owner[call[q].name])
    <3>1. call'[q] = call[q]
      BY <2>3 DEF NoteMoved
    <3>2. CheckedInScope(q) /\ SentInScope(q)
      BY DEF CallShape
    <3>3. QED
      BY <2>1, <2>3, <3>1, <3>2
         DEF CheckedInScope, SentInScope, Finals, ReservedTool, ScopeAllowsTool, Base, Sub, RawName
  <2>4. QED
    BY <2>2, <2>3
<1>2. call' = [q \in Calls |-> call'[q]]
  BY DEF NoteMoved
<1>3. QED
  BY <1>1, <1>2 DEF CallType, CallShape

\* Requests for tokens, calls and reloads each keep the invariant.
LEMMA StepAInv == ASSUME AInv, [Next]_vars PROVE AInv'
<1> USE DEF AInv
<1>1. IInv'
  BY StepIInv
<1>2. UNCHANGED reg => RegInv'
  <2> SUFFICES ASSUME UNCHANGED reg PROVE RegInv'
    OBVIOUS
  <2>1. (reg \in R!RegistryType)' /\ (\A f \in Finals : reg.owner[f] # None => ~ReservedTool(f))'
    BY DEF RegInv, R!RegistryType, R!Lists, Finals, ReservedTool
  <2>2. R!Consistent(reg)'
    BY DEF RegInv, R!Consistent
  <2>3. QED
    BY <2>1, <2>2 DEF RegInv
<1>3. UNCHANGED reload => ReloadType' /\ ReloadShape'
  BY DEF ReloadType, ReloadShape
<1>4. UNCHANGED <<call, reg>> => CallType' /\ CallShape'
  BY DEF CallType, CallShape, CheckedInScope, SentInScope, Finals, ReservedTool, ScopeAllowsTool,
         Base, Sub, RawName
<1>5. CASE UNCHANGED <<toolVars, call>>
  BY <1>1, <1>2, <1>3, <1>4, <1>5 DEF toolVars
<1>6. CASE Unregister \/ Register
  <2>1. RegInv' /\ CallType' /\ CallShape'
    BY <1>6, RegistryStep, MovedStep DEF Unregister, Register
  <2>2. ReloadType' /\ ReloadShape'
    BY <1>6 DEF Unregister, Register, ReloadType, ReloadShape, NoReload
  <2>3. QED
    BY <1>1, <2>1, <2>2
<1>7. CASE ReloadBegins \/ Remove \/ Add
  <2>1. UNCHANGED <<reg, call>>
    BY <1>7 DEF ReloadBegins, Remove, Add
  <2>2. ReloadType' /\ ReloadShape'
    BY <1>7 DEF ReloadBegins, Remove, Add, ReloadType, ReloadShape, NoReload
  <2>3. QED
    BY <1>1, <1>2, <1>4, <2>1, <2>2
<1>8. ASSUME NEW q \in Calls, Calling(q) PROVE AInv'
  <2>1. UNCHANGED toolVars
    BY <1>8 DEF Calling, Static, Bearer, CallChecked, CallDispatched, SearchLooks, SearchAnswers
  <2>2. QED
    BY <1>1, <1>2, <1>3, <1>8, <2>1, CallingStep DEF toolVars
<1>9. QED
  BY <1>5, <1>6, <1>7, <1>8 DEF Next, Reloading, vars

\* So it holds in every reachable state.
LEMMA SpecAInv == Spec => []AInv
<1>1. AInv /\ [Next]_vars => AInv'
  BY StepAInv
<1>2. QED
  BY InitAInv, <1>1, PTL DEF Spec

\* What is listed, what search and describe know, what may be called and what a
\* route admits is one set, for any prefixes, patterns and lazy upstreams, also
\* between the two halves of a detach or an attach.
THEOREM ViewsAlwaysAgree == Spec => []ViewsAgree
<1>1. AInv => ViewsAgree
  BY ViewsOfRegistry DEF AInv
<1>2. QED
  BY SpecAInv, <1>1, PTL

\* No scoped call reaches an upstream its token does not permit, unless the name
\* changed hands after the check: reloads, prefixes and names like the gateway's
\* own do not open a way.
THEOREM CallsStayInScope == Spec => []ScopedCallsStayInScope
<1>1. AInv => ScopedCallsStayInScope
  BY DEF AInv, CallShape, SentInScope, ScopedCallsStayInScope
<1>2. QED
  BY SpecAInv, <1>1, PTL
=============================================================================
