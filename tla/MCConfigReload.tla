--------------------------- MODULE MCConfigReload ---------------------------
(* Contents and budgets of ConfigReload for TLC.                           *)
EXTENDS ConfigReload

CONSTANTS a, b, key

Section(body, refs, redact) == [body |-> body, refs |-> refs, redact |-> redact]

\* Two upstreams: a inherits the global redact section and refers to the secret,
\* b has a redact section of its own.
Start ==
  [decodes |-> TRUE, builds |-> TRUE,
   ups |-> [n \in {a, b} |-> IF n = a THEN Section(1, {key}, None) ELSE Section(1, {}, 7)],
   secrets |-> [s \in {key} |-> 1], redact |-> 1, mounts |-> 1,
   fixed |-> [s \in {"server", "auth"} |-> 1]]

\* Each restarts a for one reason; b is kept, removed or restarted.
NewSecret == [Start EXCEPT !.secrets[key] = 2, !.mounts = 2, !.ups[b] = None, !.fixed["auth"] = 2]
NewRedact == [Start EXCEPT !.redact = 2, !.fixed["auth"] = 2]
Edited    == [NewRedact EXCEPT !.ups[b].body = 2]
Broken    == [Start EXCEPT !.decodes = FALSE]
Unbuilt   == [NewSecret EXCEPT !.builds = FALSE, !.ups[a].body = 3]

\* Long sequences of edits, or signals and the end of the process among fewer.
EditsOrSignals == {[edits |-> 3, signals |-> 0, stops |-> 0],
                   [edits |-> 1, signals |-> 3, stops |-> 1]}

AllContents == {Start, NewSecret, NewRedact, Edited, Broken, Unbuilt}
=============================================================================
