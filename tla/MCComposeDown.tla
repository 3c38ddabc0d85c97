--------------------------- MODULE MCComposeDown ---------------------------
(* Instances of ComposeDown: shapes of project and of what is deployed.    *)
EXTENDS ComposeDown, TLC

CONSTANTS web, api, db,         \* services
          w1, w2, a1, d1, x1,   \* containers
          default               \* the network of the project

MCServices == {web, api, db}
MCNetworks == {default}

(* Graphs over the three services with web and api before db, or not.      *)
Edges(webDeps, apiDeps) ==
  [s \in MCServices |-> CASE s = web -> webDeps [] s = api -> apiDeps [] s = db -> {}]

AllShapes ==
  {Edges(wd, ad) : wd \in SUBSET {api, db}, ad \in SUBSET {db}}
Independent == {Edges({}, {})}

(* web is scaled to two containers; x1 belongs to a service that was       *)
(* removed from the compose file.                                          *)
Scaled == (w1 :> web) @@ (w2 :> web) @@ (a1 :> api) @@ (d1 :> db) @@ (x1 :> "old")
ScaledListing == <<d1, w1, x1, a1, w2>>

(* One container for each of two services.                                 *)
Pair == (w1 :> web) @@ (a1 :> api)
PairListing == <<w1, a1>>

(* Two containers of one service.                                          *)
Replicas == (w1 :> web) @@ (w2 :> web)
ReplicasListing == <<w1, w2>>

Opts(orphans, faults, stopped) ==
  [removeOrphans |-> orphans, engineFaults |-> faults, exited |-> stopped]

(* w2 is stopped at first, and x1, which keeps the network in use while it *)
(* runs, in one case.                                                      *)
MCOptions ==
  {Opts(FALSE, TRUE, {w2}), Opts(FALSE, TRUE, {w2, x1}), Opts(TRUE, FALSE, {w2})}
AllRunning == {Opts(FALSE, FALSE, {})}
PairOptions == {Opts(FALSE, FALSE, {a1})}
=============================================================================
