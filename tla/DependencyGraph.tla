-------------------------- MODULE DependencyGraph --------------------------
(***************************************************************************)
(* The dependency graph of a compose project, as NewGraph builds it        *)
(* (local/compose/dependencies.go).                                        *)
(***************************************************************************)
EXTENDS FiniteSets

CONSTANTS
  Services,      \* the names of the services of the project
  Names,         \* the names a depends_on, link or volumes_from may mention
  Projects       \* the projects considered: functions from Services to Names

ASSUME ServicesAssumption == Services \subseteq Names /\ IsFiniteSet(Services)
ASSUME ProjectsAssumption == Projects \subseteq [Services -> SUBSET Names]

VARIABLE dependsOn     \* s.GetDependencies(), for each service s

(* NewGraph ignores the error of AddEdge: a dependency on a name that is   *)
(* not a service of the project is dropped.                                *)
Children(s) == dependsOn[s] \cap Services
Parents(s)  == {t \in Services : s \in dependsOn[t]}

(* The answer of HasCycles: in any non-empty set of services of an acyclic *)
(* graph one has no child in the set and one has no parent in it.  Module  *)
(* CycleDetection models the depth-first search that computes it.          *)
HasCycles ==
  \E S \in (SUBSET Services) \ {{}} :
     \/ \A s \in S : Children(s) \cap S # {}
     \/ \A s \in S : Parents(s) \cap S # {}
=============================================================================
