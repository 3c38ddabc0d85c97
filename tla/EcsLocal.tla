------------------------------ MODULE EcsLocal ------------------------------
(***************************************************************************)
(* Two things of ECS that run outside AWS: the local simulation, which     *)
(* adds a service with the credentials to a project and hands it to the    *)
(* local engine, and the side-car that writes secrets as files in a task.  *)
(***************************************************************************)
EXTENDS Naturals, Sequences, FiniteSets, SequencesExt

CONSTANTS LocalProjects,    \* sequences of [name, deps, address, scale]: the services of a project
          SecretInputs,     \* the side-car's argument and its environment
          NoFileNames,      \* keys that are no names of files: empty, or with a slash
          LastAddress       \* the last address of the network for the credentials

(* Projects that fit the network. *)
ASSUME LocalAssumption ==
    /\ LastAddress \in Nat
    /\ \A p \in LocalProjects :
         /\ p \in Seq([name : STRING, deps : SUBSET STRING, address : {0}, scale : Nat])
         /\ Len(p) + 2 <= LastAddress
    /\ \A i \in SecretInputs :
         /\ i.arg \in {"none", "unparsable", "list"}
         /\ i.secrets \in Seq([name : STRING, keys : Seq(STRING)])
         /\ \A n \in DOMAIN i.env : i.env[n] \in [json : BOOLEAN, dict : SUBSET STRING] /\ IsFiniteSet(i.env[n].dict)

VARIABLES app,              \* the project, shared by create and start, and what the commands meet
          simulated,        \* the containers created and those that run: a service's place in the project, a number
          sidecar           \* the side-car: what is left, its files, its state

localVars == <<app, simulated, sidecar>>

Endpoints == "ecs-local-endpoints"

-----------------------------------------------------------------------------
(* The simulation. *)

Address(i) == i + 2      \* of the i-th service, for all its replicas; the endpoints have 2

(* Every service gets an address in the network and waits for the endpoints. *)
enhanceForLocalSimulation(services) ==
    Append([i \in DOMAIN services |-> [services[i] EXCEPT !.deps = @ \cup {Endpoints}, !.address = Address(i)]],
           [name |-> Endpoints, deps |-> {}, address |-> 2, scale |-> 1])

(* Without a home directory the network is added, and no service. *)
NoHome == app' = [app EXCEPT !.networks = @ \cup {"credentials_network"}, !.pc = "failed"] /\ UNCHANGED simulated

ContainersOf(services) == UNION { {i} \X (1..services[i].scale) : i \in DOMAIN services }

(* Mutant: create works on a copy of the project. *)
Create_Copy ==
    /\ app.pc = "create"
    /\ IF ~app.home THEN NoHome
       ELSE /\ simulated' = [simulated EXCEPT !.created = ContainersOf(enhanceForLocalSimulation(app.services))]
            /\ app' = [app EXCEPT !.pc = "start"]
    /\ UNCHANGED sidecar

(* The project is changed in place, which is what start then sees. *)
Create ==
    /\ app.pc = "create"
    /\ IF ~app.home THEN NoHome
       ELSE /\ app' = [app EXCEPT !.services = enhanceForLocalSimulation(@), !.networks = @ \cup {"credentials_network"}, !.pc = "start"]
            /\ simulated' = [simulated EXCEPT !.created = ContainersOf(enhanceForLocalSimulation(app.services))]
    /\ UNCHANGED sidecar

(* The local engine starts a service after those it depends on, and refuses an address that another container has. *)
Ready(i) == \A j \in DOMAIN app.services :
              app.services[j].name \in app.services[i].deps => {j} \X (1..app.services[j].scale) \subseteq simulated.started
Taken(i) == \E c \in simulated.started : app.services[c[1]].address = app.services[i].address
Start ==
    /\ app.pc = "start"
    /\ \/ \E i \in DOMAIN app.services : \E n \in 1..app.services[i].scale :
            /\ <<i, n>> \notin simulated.started /\ Ready(i)
            /\ IF Taken(i) THEN app' = [app EXCEPT !.pc = "failed"] /\ UNCHANGED simulated
               ELSE simulated' = [simulated EXCEPT !.started = @ \cup {<<i, n>>}] /\ UNCHANGED app
       \/ /\ ContainersOf(app.services) = simulated.started
          /\ app' = [app EXCEPT !.pc = "up"]
          /\ UNCHANGED simulated
    /\ UNCHANGED sidecar

(* Convert shows the project without its default network, in a format it knows. *)
Convert ==
    /\ app.pc = "convert"
    /\ IF ~app.home THEN NoHome
       ELSE /\ app' = [app EXCEPT !.services = enhanceForLocalSimulation(@), !.networks = (@ \cup {"credentials_network"}) \ {"default"},
                                  !.pc = IF app.format THEN "shown" ELSE "failed"]
            /\ UNCHANGED simulated
    /\ UNCHANGED sidecar

(* Down removes the orphans: the endpoints are in no project that is loaded from its files. *)
RemoveOrphans == TRUE
Down ==
    /\ app.pc \in {"up", "failed"}
    /\ \E loaded \in {app.own, DOMAIN app.services} :
         LET kept == { c \in simulated.created : c[1] \notin loaded /\ ~RemoveOrphans }
         IN  simulated' = [created |-> kept, started |-> simulated.started \cap kept]
    /\ app' = [app EXCEPT !.pc = "down"]
    /\ UNCHANGED sidecar

-----------------------------------------------------------------------------
(* The side-car. Any of its writes may fail, for want of space say. *)

Exit(ok) == sidecar' = [sidecar EXCEPT !.pc = IF ok THEN "done" ELSE "failed"]
WriteFails == sidecar' = [sidecar EXCEPT !.broken = TRUE, !.pc = "failed"]

(* Exactly one argument, a list of secrets. *)
SideCarMain ==
    /\ sidecar.pc = "main"
    /\ IF sidecar.arg = "list" THEN sidecar' = [sidecar EXCEPT !.pc = "loop"] ELSE Exit(FALSE)
    /\ UNCHANGED <<app, simulated>>

SideCarLoop ==
    /\ sidecar.pc = "loop"
    /\ IF sidecar.secrets = <<>> THEN Exit(TRUE) ELSE sidecar' = [sidecar EXCEPT !.pc = "next"]
    /\ UNCHANGED <<app, simulated>>

(* The keys to write: all of the dictionary's for a star. *)
Wanted(s, dict) == IF "*" \in Range(s.keys) THEN SetToSeq(dict) ELSE s.keys

(* One secret: the file with its value, or a directory with one for each key. A file is no directory, nor a directory a file. *)
WriteSecret(s) ==
    \/ s.name \in sidecar.dirs /\ Exit(FALSE)
    \/ /\ s.name \notin sidecar.dirs
       /\ sidecar' = [sidecar EXCEPT !.files = @ \cup {<<s.name>>}, !.secrets = Tail(@), !.pc = "loop"]
    \/ WriteFails
MakeDirectory(s, value) ==
    \/ (~value.json \/ <<s.name>> \in sidecar.files) /\ Exit(FALSE)
    \/ /\ value.json /\ <<s.name>> \notin sidecar.files
       /\ sidecar' = [sidecar EXCEPT !.dirs = @ \cup {s.name}, !.keys = Wanted(s, value.dict), !.pc = "key"]
    \/ value.json /\ WriteFails
CreateSecretFiles ==
    /\ sidecar.pc = "next"
    /\ LET s == Head(sidecar.secrets)
       IN  \/ s.name \notin DOMAIN sidecar.env /\ Exit(FALSE)
           \/ s.name \in DOMAIN sidecar.env /\ s.keys = <<>> /\ WriteSecret(s)
           \/ s.name \in DOMAIN sidecar.env /\ s.keys # <<>> /\ MakeDirectory(s, sidecar.env[s.name])
    /\ UNCHANGED <<app, simulated>>

(* A key that is not in the dictionary, or no name of a file, ends it all, with the files so far. *)
WriteKey ==
    /\ sidecar.pc = "key"
    /\ LET s == Head(sidecar.secrets)
           k == Head(sidecar.keys)
       IN  \/ sidecar.keys = <<>> /\ sidecar' = [sidecar EXCEPT !.secrets = Tail(@), !.pc = "loop"]
           \/ sidecar.keys # <<>> /\ (k \notin sidecar.env[s.name].dict \/ k \in NoFileNames) /\ Exit(FALSE)
           \/ /\ sidecar.keys # <<>> /\ k \in sidecar.env[s.name].dict /\ k \notin NoFileNames
              /\ \/ sidecar' = [sidecar EXCEPT !.files = @ \cup {<<s.name, k>>}, !.keys = Tail(@)]
                 \/ WriteFails
    /\ UNCHANGED <<app, simulated>>

-----------------------------------------------------------------------------
NoContainers == [created |-> {}, started |-> {}]

LocalInit ==
    /\ \/ \E p \in LocalProjects, pc \in {"create", "convert"}, home, format \in BOOLEAN :
            app = [services |-> p, own |-> DOMAIN p, networks |-> {"default"}, home |-> home, format |-> format, pc |-> pc]
       \/ app = [services |-> <<>>, own |-> {}, networks |-> {}, home |-> TRUE, format |-> TRUE, pc |-> "none"]
    /\ simulated = NoContainers
    /\ \E i \in SecretInputs : sidecar = [arg |-> i.arg, secrets |-> i.secrets, asked |-> Range(i.secrets), env |-> i.env, keys |-> <<>>,
                                          dirs |-> {}, files |-> {}, broken |-> FALSE, pc |-> IF app.pc = "none" THEN "main" ELSE "off"]

LocalIdle ==
    /\ app = [services |-> <<>>, own |-> {}, networks |-> {}, home |-> TRUE, format |-> TRUE, pc |-> "none"]
    /\ simulated = NoContainers
    /\ sidecar = [arg |-> "list", secrets |-> <<>>, asked |-> {}, env |-> <<>>, keys |-> <<>>, dirs |-> {}, files |-> {},
                  broken |-> FALSE, pc |-> "off"]

LocalNext == \/ Create
             \/ Start
             \/ Convert
             \/ Down
             \/ SideCarMain
             \/ SideCarLoop
             \/ CreateSecretFiles
             \/ WriteKey

LocalSpec == LocalInit /\ [][LocalNext]_localVars

-----------------------------------------------------------------------------
(* Properties. *)

(***************************************************************************)
(* The endpoints run before every container, no two containers that run    *)
(* have one address, and all addresses are of the network, that of its     *)
(* gateway excepted (enhanceForLocalSimulation).                           *)
(***************************************************************************)
EndpointsFirst ==
    /\ app.pc \in {"start", "up"} /\ simulated.started # {} =>
         \E i \in DOMAIN app.services : app.services[i].name = Endpoints /\ <<i, 1>> \in simulated.started
    /\ app.pc \in {"start", "up"} =>
         \A c, d \in simulated.started : c # d => app.services[c[1]].address # app.services[d[1]].address
    /\ app.pc \in {"start", "up", "shown"} => \A i \in DOMAIN app.services : app.services[i].address \in 2..LastAddress

(***************************************************************************)
(* Only a service with replicas is refused its address: the replicas share *)
(* it, and no other service has it (i + 3 of compose.go, for a service).   *)
(***************************************************************************)
RefusedForReplicas ==
    app.pc = "failed" /\ app.home /\ app.format => \E i \in DOMAIN app.services : app.services[i].scale > 1

(* A secret's keys, and the files that it stands for. *)
KeysOf(s) == IF "*" \in Range(s.keys) THEN sidecar.env[s.name].dict ELSE Range(s.keys)
FilesOf(s) == IF s.keys = <<>> THEN { <<s.name>> } ELSE { <<s.name, k>> : k \in KeysOf(s) }

(***************************************************************************)
(* The side-car ends well only with a file for each secret, or each of its *)
(* keys, whatever write failed. A star takes the place of all keys, of     *)
(* those also that are asked for beside it and that the dictionary does    *)
(* not have.                                                               *)
(***************************************************************************)
SecretsWritten == sidecar.pc = "done" => \A s \in sidecar.asked : FilesOf(s) \subseteq sidecar.files

(* At no time is there a file that no secret asked for. *)
NothingElse == \A f \in sidecar.files : \E s \in sidecar.asked : s.name \in DOMAIN sidecar.env /\ f \in FilesOf(s)

(***************************************************************************)
(* When no write fails, the side-car fails only for its argument, for a    *)
(* secret that is not set or no dictionary, for a key that is missing or   *)
(* no name of a file, or for a secret wanted both whole and by keys: never *)
(* for a key beside a star.                                                *)
(***************************************************************************)
BadSecret(s) == \/ s.name \notin DOMAIN sidecar.env
                \/ s.keys # <<>> /\ ~sidecar.env[s.name].json
                \/ s.keys # <<>> /\ KeysOf(s) \cap NoFileNames # {}
                \/ "*" \notin Range(s.keys) /\ ~(Range(s.keys) \subseteq sidecar.env[s.name].dict)
FailsForCause ==
    sidecar.pc = "failed" =>
      \/ sidecar.broken
      \/ sidecar.arg # "list"
      \/ \E s \in sidecar.asked : BadSecret(s)
      \/ \E s, t \in sidecar.asked : s.name = t.name /\ s.keys = <<>> /\ t.keys # <<>>

(***************************************************************************)
(* A simulated project finds the endpoints for its credentials before it   *)
(* starts, and only replicas clash; a task finds the files of its secrets, *)
(* and no others (Create, Start, CreateSecretFiles).                       *)
(***************************************************************************)
SimulationRight ==
    /\ EndpointsFirst
    /\ RefusedForReplicas
    /\ SecretsWritten
    /\ NothingElse
    /\ FailsForCause
=============================================================================
