--------------------------- MODULE MCComposeStart ---------------------------
(* Instances of ComposeStart.                                              *)
EXTENDS ComposeStart, TLC

CONSTANTS web, api, db, w1, w2, a1, d1

MCServices == {web, api, db}
MCNames == MCServices \cup {"external"}
MCContainersOf == (web :> {w1, w2}) @@ (api :> {a1}) @@ (db :> {d1})

Edges(webDeps, apiDeps, dbDeps) ==
  [s \in MCServices |-> CASE s = web -> webDeps [] s = api -> apiDeps [] s = db -> dbDeps]

(* Each service depends on one other at most, or on one that is external;  *)
(* web depends on both of the others; db depends on web, which has no      *)
(* healthcheck.                                                            *)
Chains == {Edges({api}, {db}, {}), Edges({db}, {db}, {}), Edges({db}, {"external"}, {}),
           Edges({}, {}, {})}
Fork == {Edges({api, db}, {}, {})}
Unchecked == {Edges({}, {}, {web})}
MCProjects == Chains \cup Fork \cup Unchecked

(* The dependencies with condition service_healthy.                        *)
MCWantHealthy == Edges({api, db}, {db}, {web})

ApiAndDb == {api, db}
=============================================================================
