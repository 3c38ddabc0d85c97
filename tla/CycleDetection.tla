--------------------------- MODULE CycleDetection ---------------------------
(***************************************************************************)
(* Graph.HasCycles and Graph.visit (local/compose/dependencies.go), the    *)
(* search that decides whether visit refuses a project.  HasCycles ranges  *)
(* over a Go map, so it meets the vertices in any order; visit is a        *)
(* depth-first search whose recursive calls return their `discovered' and  *)
(* `finished' slices to a caller that drops them: only the vertices of the *)
(* outer loop ever end up in `finished'.                                   *)
(***************************************************************************)
EXTENDS DependencyGraph

VARIABLES
  unseen,        \* vertices the loop of HasCycles has still to range over
  discovered,    \* the slices HasCycles carries from one vertex to the next
  finished,
  verdict        \* "pending", then "cycle" or "none"

searchVars == <<dependsOn, unseen, discovered, finished, verdict>>

(* Mutant: only the dependency of a service on itself is a cycle.          *)
VisitFails_Shallow(v, onStack) == Children(v) \cap (onStack \cup {v}) # {}

(* visit(key, path, ...) finds a cycle: the child of a vertex of the       *)
(* current path is on that path.  A call is its key and the path, which is *)
(* the slice discovered of the caller.                                     *)
VisitCalls == Services \X (SUBSET Services)
visitFrom[call \in VisitCalls] ==
  LET path == call[2] \cup {call[1]}
  IN  \E c \in Children(call[1]) : c \in path \/ (c \notin finished /\ visitFrom[<<c, path>>])
VisitFails(v, onStack) == visitFrom[<<v, onStack>>]

SearchInit ==
  /\ dependsOn \in Projects
  /\ unseen = Services
  /\ discovered = {} /\ finished = {}
  /\ verdict = "pending"

(* One turn of the loop of HasCycles.  A visit that succeeds leaves        *)
(* `discovered' without its key and `finished' with it; since recursive    *)
(* calls add nothing to either, no vertex is ever skipped.                 *)
Turn(v) ==
  /\ verdict = "pending" /\ v \in unseen
  /\ unseen' = unseen \ {v}
  /\ LET skipped == v \in discovered \cup finished
     IN  IF ~skipped /\ VisitFails(v, discovered)
           THEN verdict' = "cycle" /\ UNCHANGED <<discovered, finished>>
           ELSE /\ discovered' = IF skipped THEN discovered ELSE discovered \ {v}
                /\ finished' = IF skipped THEN finished ELSE finished \cup {v}
                /\ UNCHANGED verdict
  /\ UNCHANGED dependsOn

EndOfLoop ==
  /\ verdict = "pending" /\ unseen = {}
  /\ verdict' = "none"
  /\ UNCHANGED <<dependsOn, unseen, discovered, finished>>

SearchNext == EndOfLoop \/ \E v \in Services : Turn(v)

SearchSpec == SearchInit /\ [][SearchNext]_searchVars

-----------------------------------------------------------------------------
(* The services reachable from s by at least one dependency: those of      *)
(* every set that holds the children of s and of its own members.          *)
Reachable(s) ==
  {t \in Services : \A S \in SUBSET Services :
                      (Children(s) \subseteq S /\ \A u \in S : Children(u) \subseteq S) => t \in S}

(***************************************************************************)
(* HasCycles answers right, in whatever order it ranges over the map. A    *)
(* project is refused only if one of its services depends on itself,       *)
(* through any number of others: no child that two services share looks    *)
(* like a cycle. A project that is accepted has none, although visit       *)
(* prunes at the vertices finished and its recursive calls lose what they  *)
(* finished.                                                               *)
(***************************************************************************)
CyclesFound ==
  /\ verdict = "cycle" => \E s \in Services : s \in Reachable(s)
  /\ verdict = "none" => ~HasCycles
=============================================================================
