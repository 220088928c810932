------------------------------- MODULE MCAccess -------------------------------
(***************************************************************************)
(* Access for TLC: two upstreams, one with a prefix and one lazy, that     *)
(* both have a tool of the gateway's own name; a tool the named scope      *)
(* matches and one it does not.                                            *)
(***************************************************************************)
EXTENDS Access

MCUps == {"a", "b"}
MCRaws == {"get", "put", "search_tools"}
MCOffers == [u \in MCUps |-> MCRaws]
MCPrefix == [u \in MCUps |-> IF u = "a" THEN "a_" ELSE ""]
MCMatches == [u \in MCUps |-> {"get"}]
MCAsked == {{<<"mcp", "a">>}, {<<"mcp", "a", "named">>, <<"mcp", "b", "named">>}}
MCOffered == {<<"mcp", "a">>, <<"mcp", "b">>}

\* Token requests of every kind, alone; or reloads and calls, with one token.
\* Redirects are alike, so the consent's is always the same.
CONSTANTS theURI, theRequest
Scenes ==
  /\ \A c \in Consents : granted[c] # None => granted[c].uri = theURI
  /\ \/ reloads = 0 /\ call = [q \in Calls |-> NoCall]
     \/ /\ \A c \in Consents : granted[c] # None /\ granted[c].method = "plain"
        /\ \A r \in Requests \ {theRequest} : request[r].pc = "idle"
        /\ request[theRequest].pc = "issued"
=============================================================================
