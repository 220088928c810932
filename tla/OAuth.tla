-------------------------------- MODULE OAuth --------------------------------
(***************************************************************************)
(* The authorization-code server of mcpauth/oauth.go: a consent stores a   *)
(* code, a token request takes the code out of the map in one critical     *)
(* section, checks it outside, and stores a token in a second one; an      *)
(* access token is looked up, and swept if expired, in a third.            *)
(*                                                                         *)
(* Codes and tokens are random, so each consent and each token request has *)
(* its own.  A request that is refused before it reads a map changes       *)
(* nothing and is left out.  Texts are numbers, 0 the empty one.           *)
(***************************************************************************)
EXTENDS Naturals

CONSTANTS
  Consents,   \* POSTs to /authorize, each with the code it may issue
  Requests,   \* POSTs to /token, each with the token it may issue
  URIs,       \* cfg.RedirectURIs
  Offered,    \* scopes(): what a client that asks for none is granted
  Asked,      \* sets of scopes a client may ask for
  CodeTTL, TokenTTL, MaxTime,
  None

Hash(text) == text + 10
Challenges == {0, 1, Hash(1)}
Verifiers == {0, 1, 2}
Methods == {"", "plain", "S256", "S512"}

\* oauthCode: what is stored under a code.
Grants == [uri : URIs, scope : Asked \cup {Offered}, challenge : Challenges, method : Methods,
           expires : Nat]

ASSUME OAuthAssumption ==
  /\ CodeTTL \in Nat /\ TokenTTL \in Nat /\ MaxTime \in Nat
  /\ None \notin Consents
  /\ None \notin Grants

VARIABLES
  now,
  codes,      \* oauthState.codes
  tokens,     \* oauthState.tokens
  request,    \* the token requests
  granted     \* history: what each consent granted, while and after its code lives

oauthVars == <<now, codes, tokens, request, granted>>

NewRequest == [pc |-> "idle", code |-> None, uri |-> None, verifier |-> 0, client |-> TRUE]

OAuthInit ==
  /\ now = 0
  /\ codes = [c \in Consents |-> None] /\ granted = [c \in Consents |-> None]
  /\ tokens = [r \in Requests |-> None]
  /\ request = [r \in Requests |-> NewRequest]

Tick ==
  /\ now < MaxTime /\ now' = now + 1
  /\ UNCHANGED <<codes, tokens, request, granted>>

\* normalizeScope.
NormalizeScope(scope) == IF scope = {} THEN Offered ELSE scope

\* handleAuthorizePost, past its early returns: a registered redirect, a client
\* that is known, a challenge, and the operator's secret.
HandleAuthorizePost(c) ==
  /\ granted[c] = None
  /\ \E uri \in URIs, challenge \in Challenges \ {0}, method \in Methods, scope \in Asked \cup {{}} :
       codes' = [codes EXCEPT ![c] =
                  [uri |-> uri, scope |-> NormalizeScope(scope), challenge |-> challenge,
                   method |-> method, expires |-> now + CodeTTL]]
  /\ granted' = [granted EXCEPT ![c] = codes'[c]]
  /\ UNCHANGED <<now, tokens, request>>

\* Mutant: the code stays until a request has passed the checks.
TakeCodeKeeping(r) ==
  /\ request[r].pc = "idle"
  /\ \E c \in Consents, uri \in URIs, verifier \in Verifiers, client \in BOOLEAN :
       request' = [request EXCEPT ![r] =
                    [pc |-> IF codes[c] = None THEN "refused" ELSE "taken",
                     code |-> c, uri |-> uri, verifier |-> verifier, client |-> client]]
  /\ UNCHANGED <<now, codes, tokens, granted>>

\* serveToken, the first critical section: the code leaves the map before
\* anything about the request is checked.
TakeCode(r) ==
  /\ request[r].pc = "idle"
  /\ \E c \in Consents, uri \in URIs, verifier \in Verifiers, client \in BOOLEAN :
       /\ request' = [request EXCEPT ![r] =
                       [pc |-> IF codes[c] = None THEN "refused" ELSE "taken",
                        code |-> c, uri |-> uri, verifier |-> verifier, client |-> client]]
       /\ codes' = [codes EXCEPT ![c] = None]
  /\ UNCHANGED <<now, tokens, granted>>

VerifyPKCE(challenge, method, verifier) ==
  /\ challenge # 0 /\ verifier # 0
  /\ \/ method \in {"", "plain"} /\ verifier = challenge
     \/ method = "S256" /\ Hash(verifier) = challenge

\* What is checked of the request that holds the code.
Passes(q, stored) ==
  /\ now <= stored.expires
  /\ q.uri = stored.uri /\ q.client
  /\ VerifyPKCE(stored.challenge, stored.method, q.verifier)

\* serveToken, the rest.
ServeToken(r) ==
  LET q == request[r]  stored == granted[q.code] IN
  /\ q.pc = "taken"
  /\ IF Passes(q, stored)
     THEN /\ tokens' = [tokens EXCEPT ![r] = [scopes |-> stored.scope, expires |-> now + TokenTTL]]
          /\ request' = [request EXCEPT ![r].pc = "issued"]
     ELSE /\ request' = [request EXCEPT ![r].pc = "failed"]
          /\ UNCHANGED tokens
  /\ UNCHANGED <<now, codes, granted>>

\* verifyAccessToken: an expired token is swept by the first that shows it.
Expired(r) == tokens[r] # None /\ now > tokens[r].expires
Accepted(r) == tokens[r] # None /\ ~Expired(r)
VerifyAccessToken(r) ==
  /\ tokens' = IF Expired(r) THEN [tokens EXCEPT ![r] = None] ELSE tokens
  /\ UNCHANGED <<now, codes, request, granted>>

OAuthNext ==
  \/ Tick
  \/ \E c \in Consents : HandleAuthorizePost(c)
  \/ \E r \in Requests : TakeCode(r) \/ ServeToken(r)

-----------------------------------------------------------------------------
\* A consent gives one token at most, with the scopes it granted and to the
\* client that holds the verifier, and of the requests that ever found its code
\* there is one: a request that failed has burnt the code for all others.
OneTokenPerConsent ==
  /\ \A r, s \in {r \in Requests : request[r].pc \in {"taken", "issued", "failed"}} :
       request[r].code = request[s].code => r = s
  /\ \A r \in Requests : tokens[r] # None =>
       LET g == granted[request[r].code] IN
         /\ tokens[r].scopes = g.scope /\ request[r].uri = g.uri
         /\ tokens[r].expires <= g.expires + TokenTTL
         /\ g.challenge \in {request[r].verifier, Hash(request[r].verifier)}
=============================================================================
