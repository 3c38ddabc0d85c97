---------------------------- MODULE ContextStore ----------------------------
(***************************************************************************)
(* The files in which the program keeps its contexts: one directory with a *)
(* metadata file per context, and the configuration file that names the    *)
(* current one. Processes work on them without locks; every action here is *)
(* one file operation, made by process p on the way to the next one.       *)
(***************************************************************************)
EXTENDS Naturals, Sequences, FiniteSets

CONSTANTS Process,     \* the processes, and the calls a server handles
          Name,        \* names of contexts, other than "default" and ""
          OtherKeys    \* what else the configuration file holds

VARIABLES meta,        \* per context: its directory and metadata file
          config,      \* the configuration file
          proc,        \* the state of every process
          touched      \* has another process changed a file since p began?

ASSUME NameAssumption == Name \cap {"default", ""} = {}

(***************************************************************************)
(* "none": no directory; "bare": a directory without metadata; "torn": a   *)
(* metadata file that is being, or was only partly, written; otherwise the *)
(* type of the context.                                                    *)
(***************************************************************************)
Type == {"aci", "ecs", "ecs-local", "kube", "local", "aws", "moby"}

(* A missing configuration file is one with nothing in it. *)
Torn == [torn |-> TRUE, current |-> "", keys |-> {}]

Configs == {Torn} \cup [torn : {FALSE}, current : Name \cup {""}, keys : SUBSET OtherKeys]

Step(p, pc) == proc' = [proc EXCEPT ![p].pc = pc]
Fail(p) == proc' = [proc EXCEPT ![p].pc = "failed", ![p].failed = TRUE]

(* A file was changed by p: whoever else is running may hold stale values. *)
Touch(p) == touched' = [q \in Process |-> touched[q] \/ (q # p /\ proc[q].pc # "idle")]

(***************************************************************************)
(* Get: the type in the metadata, or "error" when there is none or it does *)
(* not parse. The default context is not in the store. The empty name is   *)
(* looked up like any other, and never found.                              *)
(***************************************************************************)
Get(n) == IF n = "default" THEN "moby"
          ELSE IF n \in Name /\ meta[n] \in Type THEN meta[n] ELSE "error"

(* A directory is enough for a context to exist. *)
ContextExists(n) == n = "default" \/ meta[n] # "none"

-----------------------------------------------------------------------------
(* Create: the check, the directory, the file, its content. *)

CreateExists(p) ==
    /\ proc[p].pc = "create.exists"
    /\ IF ContextExists(Head(proc[p].args)) THEN Fail(p) ELSE Step(p, "create.mkdir")
    /\ UNCHANGED <<meta, config, touched>>

(* Mutant: MkdirAll, which is content with a directory that is there. *)
CreateMkdir_All(p) ==
    LET n == Head(proc[p].args) IN
    /\ proc[p].pc = "create.mkdir"
    /\ meta' = [meta EXCEPT ![n] = IF @ = "none" THEN "bare" ELSE @]
    /\ proc' = [proc EXCEPT ![p].pc = "create.open", ![p].made = TRUE]
    /\ Touch(p)
    /\ UNCHANGED config

CreateMkdir(p) ==
    LET n == Head(proc[p].args) IN
    /\ proc[p].pc = "create.mkdir"
    /\ \/ /\ meta[n] = "none"
          /\ meta' = [meta EXCEPT ![n] = "bare"]
          /\ proc' = [proc EXCEPT ![p].pc = "create.open", ![p].made = TRUE]
          /\ Touch(p)
       \/ /\ meta[n] # "none"
          /\ Fail(p)
          /\ UNCHANGED <<meta, touched>>
    /\ UNCHANGED config

(* WriteFile opens and truncates first. *)
CreateOpen(p) ==
    LET n == Head(proc[p].args) IN
    /\ proc[p].pc = "create.open"
    /\ \/ /\ meta[n] # "none"
          /\ meta' = [meta EXCEPT ![n] = "torn"]
          /\ proc' = [proc EXCEPT ![p].pc = "create.write", ![p].fd = TRUE]
          /\ Touch(p)
       \/ /\ meta[n] = "none"
          /\ Fail(p)
          /\ UNCHANGED <<meta, touched>>
    /\ UNCHANGED config

(* What is written to a file that was unlinked meanwhile is gone. Written over
   the content of another writer it may leave the end of that behind. *)
CreateWrite(p) ==
    LET n == Head(proc[p].args)
        overlaid == meta[n] \in Type \ {proc[p].type}
    IN
    /\ proc[p].pc = "create.write"
    /\ IF proc[p].fd
       THEN \E m \in {proc[p].type} \cup IF overlaid THEN {"torn"} ELSE {} :
              meta' = [meta EXCEPT ![n] = m]
       ELSE UNCHANGED meta
    /\ proc' = [proc EXCEPT ![p].pc = "success", ![p].fd = FALSE]
    /\ Touch(p)
    /\ UNCHANGED config

-----------------------------------------------------------------------------
(* Remove: the check, then RemoveAll, which unlinks the file, removes the
   directory, and starts again when that is not empty. *)

RemoveStat(p) ==
    LET n == Head(proc[p].args) IN
    /\ proc[p].pc = "rm.stat"
    /\ IF n = "default" \/ meta[n] = "none"
       THEN proc' = [proc EXCEPT ![p].pc = "rm.next", ![p].args = Tail(@), ![p].failed = TRUE]
       ELSE Step(p, "rm.unlink")
    /\ UNCHANGED <<meta, config, touched>>

RemoveUnlink(p) ==
    LET n == Head(proc[p].args) IN
    /\ proc[p].pc = "rm.unlink"
    /\ meta' = [meta EXCEPT ![n] = IF @ = "none" THEN @ ELSE "bare"]
    /\ proc' = [q \in Process |->
                  IF q = p THEN [proc[p] EXCEPT !.pc = "rm.rmdir"]
                  ELSE [proc[q] EXCEPT !.fd = @ /\ Head(proc[q].args) # n]]
    /\ Touch(p)
    /\ UNCHANGED config

RemoveDir(p) ==
    LET n == Head(proc[p].args) IN
    /\ proc[p].pc = "rm.rmdir"
    /\ \/ /\ meta[n] \in {"none", "bare"}
          /\ meta' = [meta EXCEPT ![n] = "none"]
          /\ proc' = [q \in Process |->
                        IF q = p THEN [proc[p] EXCEPT !.pc = "rm.next", !.args = Tail(@)]
                        ELSE [proc[q] EXCEPT !.made = @ /\ Head(proc[q].args) # n]]
          /\ Touch(p)
       \/ /\ meta[n] \notin {"none", "bare"}
          /\ Step(p, "rm.unlink")
          /\ UNCHANGED <<meta, touched>>
    /\ UNCHANGED config

-----------------------------------------------------------------------------
(* List: the names of the directories, then their metadata one by one; one
   that cannot be read ends it with an error. *)

ListReadDir(p) ==
    /\ proc[p].pc = "ls.readdir"
    /\ proc' = [proc EXCEPT ![p].pc = "ls.read", ![p].dirs = {n \in Name : meta[n] # "none"}]
    /\ UNCHANGED <<meta, config, touched>>

ListRead(p) ==
    /\ proc[p].pc = "ls.read"
    /\ IF proc[p].dirs = {} THEN Step(p, "success")
       ELSE \E n \in proc[p].dirs :
              IF meta[n] \in Type
              THEN proc' = [proc EXCEPT ![p].dirs = @ \ {n}, ![p].shown = @ \cup {n}]
              ELSE Fail(p)
    /\ UNCHANGED <<meta, config, touched>>

-----------------------------------------------------------------------------
(* WriteCurrentContext: read all of the file, change one key, write all of
   it. A file that is there and does not parse is an error. *)

LoadConfig(p) ==
    /\ proc[p].pc = "cfg.load"
    /\ IF config.torn
       THEN IF proc[p].op = "rm"       \* runRemove notes the error and goes on
            THEN proc' = [proc EXCEPT ![p].pc = "rm.next", ![p].args = Tail(@), ![p].failed = TRUE]
            ELSE Fail(p)
       ELSE proc' = [proc EXCEPT ![p].pc = "cfg.open", ![p].cfg = config]
    /\ UNCHANGED <<meta, config, touched>>

OpenConfig(p) ==
    /\ proc[p].pc = "cfg.open"
    /\ config' = Torn
    /\ Step(p, "cfg.write")
    /\ Touch(p)
    /\ UNCHANGED meta

(* "default" is stored as no key at all; rm --force goes to it first. Written
   over the content of another writer it may leave the end of that behind. *)
WriteConfig(p) ==
    LET new == [torn |-> FALSE, keys |-> proc[p].cfg.keys,
                current |-> IF proc[p].op = "rm" \/ Head(proc[p].args) = "default"
                            THEN "" ELSE Head(proc[p].args)]
    IN
    /\ proc[p].pc = "cfg.write"
    /\ \/ config' = new
       \/ /\ ~config.torn /\ config # new
          /\ config' = Torn
    /\ Step(p, IF proc[p].op = "rm" THEN "rm.stat" ELSE "success")
    /\ Touch(p)
    /\ UNCHANGED meta

StoreStep(p) ==
    \/ CreateExists(p) \/ CreateMkdir(p) \/ CreateOpen(p) \/ CreateWrite(p)
    \/ RemoveStat(p) \/ RemoveUnlink(p) \/ RemoveDir(p)
    \/ ListReadDir(p) \/ ListRead(p)
    \/ LoadConfig(p) \/ OpenConfig(p) \/ WriteConfig(p)
=============================================================================
