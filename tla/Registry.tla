------------------------------ MODULE Registry ------------------------------
(***************************************************************************)
(* The gateway's record of which upstream exports which name:              *)
(* upstreamRegistry and featureRegistry, and the diff/apply step that      *)
(* synchronises one upstream's list with it under registryMu.              *)
(*                                                                         *)
(* registerUpstreamTools and featureRegistry.diff/apply (prompts,          *)
(* resources, templates) are two hand-written copies of that step; both    *)
(* are given here, ToolSync and FeatureSync, as functions of the registry. *)
(* A list is what the upstream returned once it is filtered (allowed,      *)
(* reservedTool) and renamed (NamespaceName): a definition, or None, for   *)
(* every name. A handler is the upstream object its closure calls.         *)
(***************************************************************************)
EXTENDS Naturals

CONSTANTS
  UpNames,   \* upstream names of the configuration
  Obj,       \* upstream objects <<name, n>>: a reload that restarts an upstream
             \* replaces the object by the next one of its name
  Tools,     \* final names
  Defs,      \* definitions of a feature, told apart by toolEqual etc.
  None

ASSUME RegistryAssumption ==
  None \notin UpNames /\ None \notin Defs /\ None \notin Obj /\ Obj \subseteq UpNames \X Nat

NameOf(o) == o[1]
Lists == [Tools -> Defs \cup {None}]
Empty == [x \in Tools |-> None]

\* finalToUpstream, registered(Tools), upstreamRegistered, and what the local
\* MCP server dispatches: the object bound in the handler.
RegistryType ==
  [owner : [Tools -> UpNames \cup {None}], registered : Lists,
   names : [UpNames -> SUBSET Tools], server : [Tools -> Obj \cup {None}]]

EmptyRegistry ==
  [owner |-> [x \in Tools |-> None], registered |-> Empty,
   names |-> [n \in UpNames |-> {}], server |-> [x \in Tools |-> None]]

Listed(new) == {x \in Tools : new[x] # None}

\* Names the step refuses because another upstream owns them.
Collisions(r, o, new) == {x \in Listed(new) : r.owner[x] \notin {None, NameOf(o)}}

-----------------------------------------------------------------------------
(* registerUpstreamTools.                                                  *)

\* Mutant: the owner of a name is not looked at.
InstalledStealing(r, o, new) == {x \in Listed(new) : r.registered[x] # new[x]}

\* Mutant: a changed definition is not noticed.
InstalledUnchanged(r, o, new) == {x \in Listed(new) : r.owner[x] = None}

\* Names whose handler is installed or replaced: unowned, or own and changed.
Installed(r, o, new) ==
  {x \in Listed(new) : \/ r.owner[x] = None
                       \/ r.owner[x] = NameOf(o) /\ r.registered[x] # new[x]}

\* The first loop: prev minus the new set leaves the server and the maps.
Pruned(r, o, new) ==
  LET gone == r.names[NameOf(o)] \ Listed(new) IN
  [owner      |-> [x \in Tools |-> IF x \in gone THEN None ELSE r.owner[x]],
   registered |-> [x \in Tools |-> IF x \in gone THEN None ELSE r.registered[x]],
   names      |-> [r.names EXCEPT ![NameOf(o)] = @ \ gone],
   server     |-> [x \in Tools |-> IF x \in gone THEN None ELSE r.server[x]]]

\* Mutant: the per-upstream set is what was listed, collisions included.
ToolSyncKeepsAll(r, o, new) ==
  LET p   == Pruned(r, o, new)
      add == Installed(p, o, new)
  IN  [owner      |-> [x \in Tools |-> IF x \in add THEN NameOf(o) ELSE p.owner[x]],
       registered |-> [x \in Tools |-> IF x \in add THEN new[x] ELSE p.registered[x]],
       names      |-> [p.names EXCEPT ![NameOf(o)] = Listed(new)],
       server     |-> [x \in Tools |-> IF x \in add THEN o ELSE p.server[x]]]

\* The whole step. The last loop recomputes the per-upstream set as the names
\* the upstream ended up owning.
ToolSync(r, o, new) ==
  LET p     == Pruned(r, o, new)
      add   == Installed(p, o, new)
      owner == [x \in Tools |-> IF x \in add THEN NameOf(o) ELSE p.owner[x]]
  IN  [owner      |-> owner,
       registered |-> [x \in Tools |-> IF x \in add THEN new[x] ELSE p.registered[x]],
       names      |-> [p.names EXCEPT ![NameOf(o)] = {x \in Listed(new) : owner[x] = NameOf(o)}],
       server     |-> [x \in Tools |-> IF x \in add THEN o ELSE p.server[x]]]

-----------------------------------------------------------------------------
(* featureRegistry.                                                        *)

\* diff, computed before anything changes.
ToRemove(r, o, new) == r.names[NameOf(o)] \ Listed(new)
ToAddOrChange(r, o, new) ==
  {x \in Listed(new) : /\ r.owner[x] \in {None, NameOf(o)}
                       /\ r.owner[x] = NameOf(o) => r.registered[x] # new[x]}

\* The callers remove and add on the server, then apply brings the maps along.
FeatureSync(r, o, new) ==
  LET rem   == ToRemove(r, o, new)
      add   == ToAddOrChange(r, o, new)
      owner == [x \in Tools |-> IF x \in add THEN NameOf(o)
                                ELSE IF x \in rem THEN None ELSE r.owner[x]]
  IN  [owner      |-> owner,
       registered |-> [x \in Tools |-> IF x \in add THEN new[x]
                                       ELSE IF x \in rem THEN None ELSE r.registered[x]],
       names      |-> [r.names EXCEPT ![NameOf(o)] = {x \in Listed(new) : owner[x] = NameOf(o)}],
       server     |-> [x \in Tools |-> IF x \in add THEN o
                                       ELSE IF x \in rem THEN None ELSE r.server[x]]]

-----------------------------------------------------------------------------
(* What a registry must satisfy.                                           *)

\* The four maps agree: the per-upstream sets are exactly the inverse of
\* finalToUpstream, a name has a definition and a handler exactly when it has
\* an owner, and the handler calls an object of the owner's name. Removal
\* deletes by per-upstream set without looking at the owner, so this is what
\* keeps one upstream's removal from taking another's names.
Consistent(r) ==
  /\ \A n \in UpNames : r.names[n] = {x \in Tools : r.owner[x] = n}
  /\ \A x \in Tools : /\ r.owner[x] = None <=> r.registered[x] = None
                      /\ r.owner[x] = None <=> r.server[x] = None
                      /\ r.owner[x] # None => NameOf(r.server[x]) = r.owner[x]

\* The two copies of the step do the same to a registry.
Mirrored(r) == \A o \in Obj, new \in Lists : ToolSync(r, o, new) = FeatureSync(r, o, new)
=============================================================================
