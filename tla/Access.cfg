SPECIFICATION Spec
CONSTANTS
  Consents = {c1}
  Requests = {r1, r2}
  URIs = {u1, u2}
  Offered <- MCOffered
  Asked <- MCAsked
  CodeTTL = 1
  TokenTTL = 1
  MaxTime = 2
  None = None
  Ups <- MCUps
  Raws <- MCRaws
  Offers <- MCOffers
  Prefix <- MCPrefix
  Lazy = {"b"}
  Matches <- MCMatches
  Reserved = {"search_tools"}
  Calls = {q1}
  MaxReloads = 3
  theURI = u1
  theRequest = r1
CONSTRAINT Scenes
INVARIANT OneTokenPerConsent
INVARIANT ViewsAgree
INVARIANT ScopedCallsStayInScope
CHECK_DEADLOCK FALSE
