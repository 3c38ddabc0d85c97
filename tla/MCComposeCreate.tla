-------------------------- MODULE MCComposeCreate --------------------------
(* Instances of ComposeCreate: shapes of project and of what is deployed.  *)
EXTENDS ComposeCreate, TLC

CONSTANTS web, api, db          \* services

MCServices == {web, api, db}
MCNames    == MCServices \cup {"old"}
NoServices == {}

Edges(webDeps, apiDeps) ==
  [s \in MCServices |-> CASE s = web -> webDeps [] s = api -> apiDeps [] s = db -> {}]

Scales(w, a, d) == (web :> w) @@ (api :> a) @@ (db :> d)

Opts(scales, names, orphans, faults) ==
  [scale |-> scales, named |-> names, removeOrphans |-> orphans, engineFaults |-> faults]

(* A container that compose created, of configuration h and in state st.   *)
C(s, n, h, st) ==
  [svc |-> s, num |-> n, name |-> [tmp |-> <<>>, svc |-> s, num |-> n],
   hash |-> h, state |-> st, net |-> TRUE]

AllCases(shapes, deployments, opts) ==
  [dependsOn : shapes, deployed : deployments, options : opts]

AllShapes == {Edges(wd, ad) : wd \in SUBSET {api, db}, ad \in SUBSET {db}}

(* web misses a container, db is out of date or stopped, api is fine, and  *)
(* there is a surplus or none; an orphan is left alone.                    *)
Convergence ==
  AllCases(AllShapes,
    {<<C(db, 1, h, st), C(web, 1, "new", "running")>> :
        h \in {"old", "new"}, st \in {"running", "exited"}}
      \cup {<<C(api, 1, "new", "running"), C(api, 2, "old", "running"),
              C("old", 1, "old", "running")>>},
    {Opts(Scales(2, 1, 1), {}, FALSE, FALSE)})

(* api has a container_name, and cannot be scaled to two.                  *)
Refusal ==
  AllCases(AllShapes, {<<C(db, 1, "old", "running")>>},
           {Opts(Scales(2, 2, 1), {api}, FALSE, FALSE)})

(* Two services, both of them to be replaced or started, an orphan to be   *)
(* removed, and an engine that may fail; api is scaled to nothing.         *)
RetryShapes == {Edges({db}, {web}), Edges({}, {web, db})}
OutOfDate ==
  {<<C(db, 1, "old", "running"), C(web, 1, h, "exited"), C("old", 1, "old", "running")>> :
     h \in {"old", "new"}}
Retries(faults) ==
  AllCases(RetryShapes, OutOfDate, {Opts(Scales(1, 0, 1), {}, TRUE, faults)})

MCProjects == AllShapes \cup RetryShapes

(* Two containers of web: the older one is up to date, the newer one has   *)
(* the configuration of a compose file that was tried in between; or both  *)
(* have it.                                                                *)
MixedShapes == {Edges({}, {}), Edges({db}, {web}), Edges({db}, {}), Edges({db, api}, {})}
MixedCases ==
  AllCases(MixedShapes,
    {<<C(db, 1, "new", "running"), C(web, 1, h, "running"), C(web, 2, "old", "running")>> :
        h \in {"old", "new"}},
    {Opts(Scales(2, 1, 1), {}, FALSE, FALSE)})

MCCases == Convergence \cup Refusal \cup Retries(TRUE) \cup MixedCases

(* db is to be recreated and web, which depends on it, is up to date.      *)
LifecycleCases == Retries(FALSE)
=============================================================================
