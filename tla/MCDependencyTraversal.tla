----------------------- MODULE MCDependencyTraversal -----------------------
(***************************************************************************)
(* Dependency graphs over four services, in both directions: the search    *)
(* for cycles with which visit begins, then the walk.                      *)
(***************************************************************************)
EXTENDS DependencyTraversal, CycleDetection

CONSTANTS web, api, cache, db, external

MCServices == {web, api, cache, db}
MCNames == MCServices \cup {external}

(* Every graph in which api and cache depend on db and on each other, or   *)
(* not, web on any name at all, and db on web or not: chains, diamonds,    *)
(* isolated services, self loops and longer cycles.                       *)
MCProjects ==
  {d \in [MCServices -> SUBSET MCNames] :
     /\ d[api] \subseteq {cache, db}
     /\ d[cache] \subseteq {api, db}
     /\ d[db] \subseteq {web}}

(* The diamond: web depends on api and cache, which both depend on db.     *)
Diamond ==
  {[s \in MCServices |-> CASE s = web -> {api, cache}
                           [] s \in {api, cache} -> {db}
                           [] s = db -> {}]}

-----------------------------------------------------------------------------
walkVars == <<direction, pc, todo, status, err, returned>>

VisitInit == Init /\ SearchInit

VisitNext ==
  \/ verdict = "pending" /\ SearchNext /\ UNCHANGED walkVars
  \/ verdict # "pending" /\ Next /\ UNCHANGED searchVars

VisitSpec ==
  /\ VisitInit /\ [][VisitNext]_<<vars, searchVars>>
  /\ WF_<<vars, searchVars>>(SearchNext /\ UNCHANGED walkVars)
  /\ WF_<<vars, searchVars>>(verdict # "pending" /\ Progress /\ UNCHANGED searchVars)
=============================================================================
