--------------------------- MODULE MCComposeStop ---------------------------
(* Graphs over four services with web and job before api before db: api    *)
(* may have two dependents and be visited twice.  web is scaled to two     *)
(* containers, job to none, and one container is of no service.            *)
EXTENDS ComposeStop, TLC

CONSTANTS web, job, api, db, w1, w2, a1, d1, x1

MCServices == {web, job, api, db}

AllShapes ==
  {g \in [MCServices -> SUBSET MCServices] :
     /\ g[web] \subseteq {api, db} /\ g[job] \subseteq {api}
     /\ g[api] \subseteq {db} /\ g[db] = {}}

MCServiceOf == (w1 :> web) @@ (w2 :> web) @@ (a1 :> api) @@ (d1 :> db) @@ (x1 :> "old")
MCListing == <<d1, w1, x1, a1, w2>>
=============================================================================
