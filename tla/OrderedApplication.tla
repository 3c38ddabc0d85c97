------------------------- MODULE OrderedApplication -------------------------
(***************************************************************************)
(* What InDependencyOrder and InReverseDependencyOrder promise their       *)
(* callers (local/compose/dependencies.go): a function is applied to the   *)
(* services of a project, to a service only once it has succeeded on all   *)
(* the services that come before it, and the call reports success only     *)
(* when the function has succeeded on every service.  How the services are *)
(* found, and how many goroutines are at work, does not appear here.       *)
(***************************************************************************)
CONSTANT Services        \* the names of the services of the project

VARIABLES before,        \* before[s]: the services that come before s
          applied,       \* services on which the function has succeeded
          outcome        \* "running", or what the call returned

vars == <<before, applied, outcome>>

TypeOK ==
  /\ before \in [Services -> SUBSET Services]
  /\ applied \subseteq Services
  /\ outcome \in {"running", "ok", "error"}

Init ==
  /\ before \in [Services -> SUBSET Services]
  /\ applied = {}
  /\ outcome = "running"

Apply(s) ==
  /\ outcome = "running"
  /\ s \notin applied
  /\ before[s] \subseteq applied
  /\ applied' = applied \cup {s}
  /\ UNCHANGED <<before, outcome>>

Succeed ==
  /\ outcome = "running"
  /\ applied = Services
  /\ outcome' = "ok"
  /\ UNCHANGED <<before, applied>>

Fail ==
  /\ outcome = "running"
  /\ outcome' = "error"
  /\ UNCHANGED <<before, applied>>

Next == Succeed \/ Fail \/ \E s \in Services : Apply(s)

Safety == Init /\ [][Next]_vars

Spec == Safety /\ WF_vars(Next)
=============================================================================
